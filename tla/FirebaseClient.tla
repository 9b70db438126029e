---------------------------- MODULE FirebaseClient ----------------------------
(***************************************************************************)
(* The Firebase client: authentication (FirebaseApp, app.cpp), database     *)
(* operations (RTDB, rtdb.cpp) and the C interface with its two globals     *)
(* (firebase_c_shim.cpp).  One action per performRequest, which is taken as *)
(* HttpRequest promises it: a success was executed, a failure may have      *)
(* been.  The server's tokens expire at any moment.                         *)
(***************************************************************************)
EXTENDS RtdbTree

CONSTANTS
    Calls,      \* the calls that are made, records with a field op
    NoCall,
    MaxTokens,  \* bound: auth tokens issued
    MaxCalls,   \* bound: calls made
    MaxBoots    \* bound: restarts

ASSUME ClientAssumption ==
    /\ NoCall \notin Calls
    /\ MaxTokens \in Nat /\ MaxCalls \in Nat /\ MaxBoots \in Nat
    /\ \A c \in Calls :
          /\ c.op \in {"init", "refresh", "get", "put", "patch", "post", "delete",
                      "trimOldest", "trimDays"}
          /\ c.op \in {"put", "patch"} => c.key \in Nat
          /\ c.op = "post" => c.keys \subseteq Nat /\ IsFiniteSet(c.keys)
          /\ c.op \in {"trimOldest", "trimDays"} => c.n \in Int

VARIABLES
    g_app, g_rtdb,     \* the globals: have the objects been created
    auth_token,        \* 0 is the empty string
    refresh_token,     \* "good" or "empty"
    url_token,         \* the auth_token in the URL of the RTDB request to send
    timeout,           \* of the HTTP client: "default" or "long"
    pc, call, ret,
    registered,        \* firebase_init: has registerUserAccount succeeded
    keys,              \* the keys listed (trimOldestBatch) or to delete (trimDays)
    db,                \* the tree on the server
    live,              \* the auth tokens the server accepts
    issued, calls, boots,   \* counters for the bounds
    old                \* observer: the tree when the call began

app == <<g_app, g_rtdb, auth_token, refresh_token, registered>>
server == <<db, live, issued>>
counts == <<calls, boots>>
vars == <<app, url_token, timeout, pc, call, ret, keys, server, counts, old>>

NoToken == 0

Init ==
    /\ g_app = FALSE /\ g_rtdb = FALSE
    /\ auth_token = NoToken /\ refresh_token = "empty" /\ url_token = NoToken
    /\ timeout = "default" /\ pc = "idle" /\ call = NoCall /\ ret = 0
    /\ registered = FALSE /\ keys = {}
    /\ db = EmptyTree /\ old = EmptyTree
    /\ live = {} /\ issued = 0 /\ calls = 0 /\ boots = 0

Return(r) ==
    /\ pc' = "idle" /\ call' = NoCall /\ ret' = r

Goto(l) ==
    /\ pc' = l /\ UNCHANGED <<call, ret>>

\* The URL of an RTDB request is built from the current token.
BuildUrl == url_token' = auth_token

------------------------------------------------------------------------------
(* The C interface: what a call does before its first request *)

Trims == {"trimOldest", "trimDays"}

Invoke ==
    /\ pc = "idle" /\ calls < MaxCalls
    /\ pc' = "start" /\ call' \in Calls
    /\ calls' = calls + 1 /\ keys' = {} /\ old' = db
    /\ UNCHANGED <<app, url_token, timeout, ret, server, boots>>

\* firebase_init: a second call returns 0 without looking at g_rtdb.
FirebaseInit ==
    /\ pc = "start" /\ call.op = "init"
    /\ g_app' = TRUE
    /\ IF g_app THEN Return(0) /\ UNCHANGED registered
                ELSE Goto("login") /\ registered' = FALSE
    /\ UNCHANGED <<g_rtdb, auth_token, refresh_token, url_token, timeout, keys,
                   server, counts, old>>

FirebaseRefreshToken ==
    /\ pc = "start" /\ call.op = "refresh"
    /\ IF g_app THEN Goto("force") ELSE Return(-1)
    /\ UNCHANGED <<app, url_token, timeout, keys, server, counts, old>>

\* Every database call is refused until firebase_init has created the RTDB.
Refused ==
    /\ pc = "start" /\ call.op \notin {"init", "refresh"}
    /\ \/ ~g_rtdb /\ Return(-1)
       \/ g_rtdb /\ call.op \in Trims /\ call.n <= 0 /\ Return(0)
    /\ UNCHANGED <<app, url_token, timeout, keys, server, counts, old>>

BeginRequest ==
    /\ pc = "start" /\ call.op \notin {"init", "refresh"} \cup Trims /\ g_rtdb
    /\ timeout' = IF call.op = "delete" THEN "long" ELSE timeout
    /\ BuildUrl
    /\ Goto("first")
    /\ UNCHANGED <<app, keys, server, counts, old>>

BeginTrim ==
    /\ pc = "start" /\ call.op \in Trims /\ g_rtdb /\ call.n > 0
    /\ BuildUrl
    /\ Goto("list")
    /\ UNCHANGED <<app, timeout, keys, server, counts, old>>

------------------------------------------------------------------------------
(* Authentication: getRefreshToken, getAuthToken and what follows them *)

\* loginUserAccount or forceRefreshAuth comes back with ok.  firebase_init goes
\* on to register once; a write or a delete sends its request again with the
\* token there is now, whatever came back; getData sends its first URL again.
AuthDone_KeepsUrl(ok) ==
    CASE call.op = "init" /\ ok -> Return(0) /\ g_rtdb' = TRUE /\ UNCHANGED url_token
      [] call.op = "init" /\ ~ok ->
           /\ IF registered THEN Return(-2) ELSE Goto("register")
           /\ UNCHANGED <<g_rtdb, url_token>>
      [] call.op = "refresh" ->
           Return(IF ok THEN 0 ELSE -2) /\ UNCHANGED <<g_rtdb, url_token>>
      [] OTHER -> Goto("second") /\ UNCHANGED <<g_rtdb, url_token>>

AuthDone(ok) ==
    CASE call.op = "init" /\ ok -> Return(0) /\ g_rtdb' = TRUE /\ UNCHANGED url_token
      [] call.op = "init" /\ ~ok ->
           /\ IF registered THEN Return(-2) ELSE Goto("register")
           /\ UNCHANGED <<g_rtdb, url_token>>
      [] call.op = "refresh" ->
           Return(IF ok THEN 0 ELSE -2) /\ UNCHANGED <<g_rtdb, url_token>>
      [] call.op = "get" -> Goto("second") /\ UNCHANGED <<g_rtdb, url_token>>
      [] OTHER -> Goto("second") /\ url_token' = auth_token' /\ UNCHANGED g_rtdb

\* getRefreshToken: a 200 whose body has no refreshToken stores "" and is OK.
GetRefreshToken ==
    /\ pc \in {"login", "register"}
    /\ \/ /\ refresh_token' \in {"good", "empty"}
          /\ Goto(IF pc = "login" THEN "loginAuth" ELSE "registerAuth")
          /\ UNCHANGED <<g_rtdb, auth_token, url_token>>
       \/ /\ UNCHANGED <<auth_token, refresh_token>>
          /\ IF pc = "login" THEN AuthDone(FALSE)
                             ELSE Return(-2) /\ UNCHANGED <<g_rtdb, url_token>>
    /\ UNCHANGED <<g_app, registered, timeout, keys, server, counts, old>>

\* getAuthToken reports OK: login and refresh are over, registration is
\* followed by another login.
AuthTokenOk ==
    IF pc = "registerAuth"
    THEN registered' = TRUE /\ Goto("login") /\ UNCHANGED <<g_rtdb, url_token>>
    ELSE UNCHANGED registered /\ AuthDone(TRUE)

\* A new token, or "" from a 200 whose body has no access_token.  The server
\* refuses an empty refresh token.
GetAuthToken ==
    /\ pc \in {"loginAuth", "registerAuth", "force"} /\ refresh_token = "good"
    /\ \/ /\ issued < MaxTokens
          /\ auth_token' = issued + 1
          /\ issued' = issued + 1 /\ live' = live \cup {issued + 1}
       \/ auth_token' = NoToken /\ UNCHANGED <<issued, live>>
    /\ AuthTokenOk
    /\ UNCHANGED <<g_app, refresh_token, timeout, keys, db, counts, old>>

GetAuthTokenFails_NoLogin ==
    /\ pc \in {"loginAuth", "registerAuth", "force"}
    /\ UNCHANGED <<auth_token>>
    /\ CASE pc = "force" -> Goto("force") /\ UNCHANGED <<g_rtdb, url_token>>
         [] pc = "loginAuth" -> AuthDone(FALSE)
         [] pc = "registerAuth" -> Return(-2) /\ UNCHANGED <<g_rtdb, url_token>>
    /\ UNCHANGED <<g_app, refresh_token, registered, timeout, keys, server, counts, old>>

\* forceRefreshAuth falls back to a full login.
GetAuthTokenFails ==
    /\ pc \in {"loginAuth", "registerAuth", "force"}
    /\ UNCHANGED <<auth_token>>
    /\ CASE pc = "force" -> Goto("login") /\ UNCHANGED <<g_rtdb, url_token>>
         [] pc = "loginAuth" -> AuthDone(FALSE)
         [] pc = "registerAuth" -> Return(-2) /\ UNCHANGED <<g_rtdb, url_token>>
    /\ UNCHANGED <<g_app, refresh_token, registered, timeout, keys, server, counts, old>>

------------------------------------------------------------------------------
(* Database requests *)

Reply(c, a) == [code |-> c, applied |-> a]

\* What performRequest may report of a request with url_token, and whether the
\* server has executed it: the token may expire between two attempts.
Replies ==
    {Reply("401", FALSE), Reply("fail", FALSE)} \cup
    IF url_token \in live
    THEN {Reply("200", TRUE), Reply("204", TRUE), Reply("401", TRUE), Reply("fail", TRUE)}
    ELSE {}

\* The server refuses the token from now on; or the code is that of an earlier response, which
\* the handle still has after a connection that failed.
Answered(r) ==
    /\ live' \in IF r.code = "401" THEN {live \ {url_token}, live} ELSE {live}
    /\ UNCHANGED issued

First(S) == CHOOSE k \in S : \A j \in S : k <= j

\* The trees after the server has executed the request once or more.
Executed ==
    CASE call.op \in {"put", "patch"} -> {Put(db, call.key, call.val)}
      [] call.op = "post" ->
           {[j \in DOMAIN db \cup S |-> IF j \in S THEN call.val ELSE db[j]]
               : S \in (SUBSET (call.keys \ DOMAIN db)) \ {{}}}
      [] call.op = "delete" -> {Without(db, call.keys)}
      [] call.op = "trimDays" -> {Without(db, {First(keys)})}
      [] OTHER -> {db}

\* putData, postData, patchData and getData want a 200, deleteData any 2xx.
Accepted(r) ==
    \/ r.code = "200"
    \/ r.code = "204" /\ call.op \in {"delete", "trimDays"}

\* deleteData restores the timeout on every path.
Restore_OnSuccess(r) == timeout' = IF Accepted(r) THEN "default" ELSE timeout

Restore(r) == timeout' = "default"

\* The call returns; trimDays goes on with the next key and a new deleteData.
Finish(r) ==
    IF call.op = "trimDays" /\ keys # {First(keys)}
    THEN /\ keys' = keys \ {First(keys)}
         /\ timeout' = "long"
         /\ BuildUrl
         /\ Goto("first")
    ELSE /\ IF call.op \in {"delete", "trimDays"} THEN Restore(r) ELSE UNCHANGED timeout
         /\ Return(IF call.op = "trimDays" \/ Accepted(r) THEN 0 ELSE -1)
         /\ UNCHANGED <<keys, url_token>>

\* The first request: a write or delete that got 401 renews the token, getData
\* logs in after any failure.
FirstRequest ==
    /\ pc = "first"
    /\ \E r \in Replies :
          /\ Answered(r)
          /\ db' \in IF r.applied THEN Executed ELSE {db}
          /\ CASE call.op = "get" /\ ~Accepted(r) ->
                    Goto("login") /\ UNCHANGED <<url_token, timeout, keys>>
               [] call.op # "get" /\ r.code = "401" ->
                    Goto("force") /\ UNCHANGED <<url_token, timeout, keys>>
               [] OTHER -> Finish(r)
    /\ UNCHANGED <<app, counts, old>>

SecondRequest ==
    /\ pc = "second"
    /\ \E r \in Replies :
          /\ Answered(r)
          /\ db' \in IF r.applied THEN Executed ELSE {db}
          /\ Finish(r)
    /\ UNCHANGED <<app, counts, old>>

\* trimOldestBatch: the first n keys; a body cut short lists a part of them.
ListOldest_All == SUBSET DOMAIN db

ListOldest == SUBSET Oldest(DOMAIN db, call.n)

TrimOldestList ==
    /\ pc = "list" /\ call.op = "trimOldest"
    /\ \E r \in Replies :
          /\ Answered(r)
          /\ IF r.code # "200" THEN Return(-1) /\ UNCHANGED <<keys, url_token>>
             ELSE \E L \in ListOldest :
                     IF L = {} THEN Return(0) /\ UNCHANGED <<keys, url_token>>
                     ELSE keys' = L /\ BuildUrl /\ Goto("patch")
    /\ UNCHANGED <<app, timeout, db, counts, old>>

TrimOldestPatch ==
    /\ pc = "patch"
    /\ \E r \in Replies :
          /\ Answered(r)
          /\ db' = IF r.applied THEN Without(db, keys) ELSE db
          /\ Return(IF r.code \in {"200", "204"} THEN Cardinality(keys) ELSE -2)
    /\ UNCHANGED <<app, url_token, timeout, keys, counts, old>>

\* trimDays: of the keys listed, all but the n last ones are to be deleted.
TrimDaysList ==
    /\ pc = "list" /\ call.op = "trimDays"
    /\ \E r \in Replies :
          /\ Answered(r)
          /\ IF r.code # "200"
             THEN Return(-1) /\ UNCHANGED <<keys, url_token, timeout>>
             ELSE \E L \in SUBSET DOMAIN db :
                     IF Cardinality(L) <= call.n
                     THEN Return(0) /\ UNCHANGED <<keys, url_token, timeout>>
                     ELSE /\ keys' = Oldest(L, Cardinality(L) - call.n)
                          /\ timeout' = "long" /\ BuildUrl /\ Goto("first")
    /\ UNCHANGED <<app, db, counts, old>>

------------------------------------------------------------------------------
Expire ==
    /\ \E t \in live : live' = live \ {t}
    /\ UNCHANGED <<app, url_token, timeout, pc, call, ret, keys, db, issued, counts, old>>

\* esp_restart or a panic: the device forgets everything.
Restart ==
    /\ boots < MaxBoots /\ boots' = boots + 1
    /\ g_app' = FALSE /\ g_rtdb' = FALSE
    /\ auth_token' = NoToken /\ refresh_token' = "empty" /\ url_token' = NoToken
    /\ timeout' = "default" /\ pc' = "idle" /\ call' = NoCall
    /\ registered' = FALSE /\ keys' = {}
    /\ UNCHANGED <<ret, server, calls, old>>

Step == FirebaseInit \/ FirebaseRefreshToken \/ Refused \/ BeginRequest
           \/ BeginTrim \/ GetRefreshToken \/ GetAuthToken \/ GetAuthTokenFails
           \/ FirstRequest \/ SecondRequest \/ TrimOldestList \/ TrimOldestPatch
           \/ TrimDaysList

Next == Invoke \/ Step \/ Expire \/ Restart

Spec == Init /\ [][Next]_vars

\* Every performRequest returns (HttpClient, CallReturns).
FairSpec == Spec /\ WF_vars(Step)

------------------------------------------------------------------------------
(* Properties *)

\* Type invariant of the client (FirebaseApp, RTDB, the globals of the shim):
\* the client holds and sends only tokens the server has issued, and deletes
\* only keys that were there when the call began.
TypeOK ==
    /\ g_app \in BOOLEAN /\ g_rtdb \in BOOLEAN /\ registered \in BOOLEAN
    /\ issued \in 0..MaxTokens
    /\ auth_token \in 0..issued /\ url_token \in 0..issued /\ live \subseteq 1..issued
    /\ refresh_token \in {"good", "empty"}
    /\ timeout \in {"default", "long"}
    /\ pc \in {"idle", "start", "login", "loginAuth", "register", "registerAuth",
               "force", "first", "second", "list", "patch"}
    /\ call \in Calls \cup {NoCall} /\ (call = NoCall <=> pc = "idle")
    /\ ret \in Int
    /\ keys \subseteq DOMAIN old
    /\ calls \in 0..MaxCalls /\ boots \in 0..MaxBoots

\* Each call of the C interface does what FirebaseStore promises: a 0 from a PUT,
\* POST or DELETE means the server has done it, a trim removes only keys among
\* the oldest and returns how many, trimDays never touches the newest ones.
Store == INSTANCE FirebaseStore

ImplementsStore == Store!StoreSpec

\* Every database request but getData's carries the token the client holds when
\* it is sent, the repeated one after a renewal included.
FreshUrl ==
    pc \in {"first", "second", "list", "patch"} /\ call.op # "get" =>
        url_token = auth_token

\* The retry of getData comes after a login, to replace the token of the failed
\* request (rtdb.cpp:50 and :70): it carries the token the client now holds.
GetRetriesWithNewToken ==
    pc = "second" /\ call.op = "get" => url_token = auth_token

\* The long timeout is in force only inside deleteData ("SOLO para esta
\* operacion", "Restaurar timeout SIEMPRE", rtdb.cpp:181, 209).
TimeoutScoped ==
    timeout = "long" => pc \notin {"idle", "start", "list", "patch"}
                           /\ call.op \in {"delete", "trimDays"}

\* Every call returns or is cut off by a restart.
CallReturns == pc # "idle" ~> pc = "idle"
==============================================================================
