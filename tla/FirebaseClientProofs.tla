------------------------- MODULE FirebaseClientProofs -------------------------
(***************************************************************************)
(* Which token and which timeout a database request is sent with, and that  *)
(* every call does what FirebaseStore promises, for any set of calls and    *)
(* any number of tokens, calls and restarts; and, below these calls, that   *)
(* performRequest keeps the promise of HttpRequest.                         *)
(***************************************************************************)
EXTENDS FirebaseClient, HttpCalls, FiniteSetTheorems, TLAPS

\* Which calls get where: only firebase_init registers, only trims list keys.
Places ==
    /\ pc \in {"register", "registerAuth"} => call.op = "init"
    /\ pc = "list" => call.op \in Trims
    /\ pc = "patch" => call.op = "trimOldest"

IInv == Places /\ FreshUrl /\ TimeoutScoped

\* How a renewal of the token goes on: what it leaves alone, and a database request is
\* repeated with the token that there is now.
LEMMA Renewed ==
    ASSUME NEW ok \in BOOLEAN, AuthDone(ok)
    PROVE  \/ pc' = "idle" /\ call.op \in {"init", "refresh"}
           \/ pc' = "register" /\ call' = call /\ call.op = "init"
           \/ pc' = "second" /\ call' = call /\ (call.op # "get" => url_token' = auth_token')
<1>1. CASE call.op = "init"
  BY <1>1 DEF AuthDone, Return, Goto
<1>2. CASE call.op = "refresh"
  BY <1>2 DEF AuthDone, Return, Goto
<1>3. CASE call.op = "get"
  BY <1>3 DEF AuthDone, Goto
<1>4. CASE call.op \notin {"init", "refresh", "get"}
  BY <1>4 DEF AuthDone, Goto
<1> QED
  BY <1>1, <1>2, <1>3, <1>4

\* A call that has had its answer returns with the default timeout, or trimDays goes on.
LEMMA Finished ==
    ASSUME NEW r, Finish(r)
    PROVE  \/ /\ pc' = "first" /\ call' = call /\ url_token' = auth_token
              /\ call.op = "trimDays"
           \/ /\ pc' = "idle"
              /\ \/ call.op \in {"delete", "trimDays"} /\ timeout' = "default"
                 \/ call.op \notin {"delete", "trimDays"} /\ timeout' = timeout
<1>1. CASE call.op = "trimDays" /\ keys # {First(keys)}
  BY <1>1 DEF Finish, BuildUrl, Goto
<1>2. CASE ~(call.op = "trimDays" /\ keys # {First(keys)})
  BY <1>2 DEF Finish, Return, Restore
<1> QED
  BY <1>1, <1>2

LEMMA Inductive == IInv /\ [Next]_vars => IInv'
<1> SUFFICES ASSUME IInv, [Next]_vars PROVE IInv'
  OBVIOUS
<1> USE DEF IInv, Places, FreshUrl, TimeoutScoped, app, server, counts
<1>1. CASE Invoke
  BY <1>1 DEF Invoke
<1>2. CASE FirebaseInit
  BY <1>2 DEF FirebaseInit, Return, Goto
<1>3. CASE FirebaseRefreshToken
  BY <1>3 DEF FirebaseRefreshToken, Return, Goto
<1>4. CASE Refused
  BY <1>4 DEF Refused, Return
<1>5. CASE BeginRequest
  BY <1>5 DEF BeginRequest, BuildUrl, Goto
<1>6. CASE BeginTrim
  BY <1>6 DEF BeginTrim, BuildUrl, Goto
<1>7. CASE GetRefreshToken
  <2>1. UNCHANGED timeout /\ pc \in {"login", "register"}
    BY <1>7 DEF GetRefreshToken
  <2>2. CASE Goto(IF pc = "login" THEN "loginAuth" ELSE "registerAuth")
    BY <2>1, <2>2 DEF Goto
  <2>3. CASE pc = "login" /\ AuthDone(FALSE)
    BY <2>1, <2>3, Renewed
  <2>4. CASE pc = "register" /\ Return(-2)
    BY <2>1, <2>4 DEF Return
  <2> QED
    BY <1>7, <2>1, <2>2, <2>3, <2>4 DEF GetRefreshToken
<1>8. CASE GetAuthToken
  <2>1. UNCHANGED timeout /\ pc \in {"loginAuth", "registerAuth", "force"} /\ AuthTokenOk
    BY <1>8 DEF GetAuthToken
  <2>2. CASE pc = "registerAuth"
    BY <2>1, <2>2 DEF AuthTokenOk, Goto
  <2>3. CASE pc # "registerAuth"
    <3>1. AuthDone(TRUE)
      BY <2>1, <2>3 DEF AuthTokenOk
    <3> QED
      BY <2>1, <3>1, Renewed
  <2> QED
    BY <2>2, <2>3
<1>9. CASE GetAuthTokenFails
  <2>1. UNCHANGED timeout /\ pc \in {"loginAuth", "registerAuth", "force"}
    BY <1>9 DEF GetAuthTokenFails
  <2>2. CASE pc = "force"
    BY <1>9, <2>1, <2>2 DEF GetAuthTokenFails, Goto
  <2>3. CASE pc = "loginAuth"
    <3>1. AuthDone(FALSE)
      BY <1>9, <2>3 DEF GetAuthTokenFails
    <3> QED
      BY <2>1, <3>1, Renewed
  <2>4. CASE pc = "registerAuth"
    BY <1>9, <2>1, <2>4 DEF GetAuthTokenFails, Return
  <2> QED
    BY <2>1, <2>2, <2>3, <2>4
<1>10. CASE FirstRequest
  <2>1. PICK r \in Replies :
           CASE call.op = "get" /\ ~Accepted(r) ->
                  Goto("login") /\ UNCHANGED <<url_token, timeout, keys>>
             [] call.op # "get" /\ r.code = "401" ->
                  Goto("force") /\ UNCHANGED <<url_token, timeout, keys>>
             [] OTHER -> Finish(r)
    BY <1>10 DEF FirstRequest
  <2>2. pc = "first" /\ UNCHANGED auth_token
    BY <1>10 DEF FirstRequest
  <2>3. CASE call.op = "get" /\ ~Accepted(r)
    BY <2>1, <2>2, <2>3 DEF Goto
  <2>4. CASE call.op # "get" /\ r.code = "401"
    BY <2>1, <2>2, <2>4 DEF Goto
  <2>5. CASE ~(call.op = "get" /\ ~Accepted(r)) /\ ~(call.op # "get" /\ r.code = "401")
    <3>1. Finish(r)
      BY <2>1, <2>5
    <3> QED
      BY <2>2, <3>1, Finished
  <2> QED
    BY <2>3, <2>4, <2>5
<1>11. CASE SecondRequest
  <2>1. PICK r \in Replies : Finish(r)
    BY <1>11 DEF SecondRequest
  <2> QED
    BY <1>11, <2>1, Finished DEF SecondRequest
<1>12. CASE TrimOldestList
  <2>1. pc = "list" /\ call.op = "trimOldest" /\ UNCHANGED <<timeout, auth_token>>
    BY <1>12 DEF TrimOldestList
  <2>2. \/ pc' = "idle"
        \/ pc' = "patch" /\ call' = call /\ url_token' = auth_token
    BY <1>12 DEF TrimOldestList, Return, BuildUrl, Goto
  <2> QED
    BY <2>1, <2>2
<1>13. CASE TrimOldestPatch
  BY <1>13 DEF TrimOldestPatch, Return
<1>14. CASE TrimDaysList
  <2>1. pc = "list" /\ call.op = "trimDays" /\ UNCHANGED auth_token
    BY <1>14 DEF TrimDaysList
  <2>2. \/ pc' = "idle" /\ UNCHANGED timeout
        \/ pc' = "first" /\ call' = call /\ url_token' = auth_token
    BY <1>14 DEF TrimDaysList, Return, BuildUrl, Goto
  <2> QED
    BY <2>1, <2>2
<1>15. CASE Expire
  BY <1>15 DEF Expire
<1>16. CASE Restart
  BY <1>16 DEF Restart
<1>17. CASE UNCHANGED vars
  BY <1>17 DEF vars
<1> QED
  BY <1>1, <1>2, <1>3, <1>4, <1>5, <1>6, <1>7, <1>8, <1>9, <1>10, <1>11, <1>12, <1>13,
     <1>14, <1>15, <1>16, <1>17 DEF Next, Step

LEMMA Invariance == Spec => []IInv
<1>1. Init => IInv
  BY DEF Init, IInv, Places, FreshUrl, TimeoutScoped
<1> QED
  BY <1>1, Inductive, PTL DEF Spec

\* Every database request but getData's carries the token that the client holds when it is
\* sent, the one that deleteData, putData, postData and patchData repeat included.
THEOREM CurrentToken == Spec => []FreshUrl
<1>1. IInv => FreshUrl
  BY DEF IInv
<1> QED
  BY <1>1, Invariance, PTL

\* The long timeout of deleteData is restored on every path out of it.
THEOREM TimeoutRestored == Spec => []TimeoutScoped
<1>1. IInv => TimeoutScoped
  BY DEF IInv
<1> QED
  BY <1>1, Invariance, PTL
------------------------------------------------------------------------------
(* Each call implements FirebaseStore: what a call has done to the tree so far *)

Tree(t) ==
    /\ t = [j \in DOMAIN t |-> t[j]]
    /\ DOMAIN t \subseteq Nat /\ IsFiniteSet(DOMAIN t)

Posted(t, S, v) == [j \in DOMAIN t \cup S |-> IF j \in S THEN v ELSE t[j]]

\* The calls whose requests, up to the PATCH of trimOldestBatch, leave the tree alone.
Keeping == {"init", "refresh", "get", "trimOldest"}

\* The trees t that the call c, made on the tree o, can have reached.
Reached(c, t, o) ==
    /\ c.op \in {"put", "patch"} => t = o \/ t = Put(o, c.key, c.val)
    /\ c.op = "post" => \E S \in SUBSET (c.keys \ DOMAIN o) : t = Posted(o, S, c.val)
    /\ c.op = "delete" => t = o \/ t = Without(o, c.keys)
    /\ c.op = "trimDays" =>
          \E S \in SUBSET (DOMAIN o \ Newest(DOMAIN o, c.n)) : t = Without(o, S)
    /\ c.op \in Keeping => t = o

\* The same once the server has executed the request.
Done(c, t, o) ==
    /\ c.op \in {"put", "patch"} => t = Put(o, c.key, c.val)
    /\ c.op = "post" =>
          \E S \in (SUBSET (c.keys \ DOMAIN o)) \ {{}} : t = Posted(o, S, c.val)
    /\ c.op = "delete" => t = Without(o, c.keys)
    /\ c.op = "trimDays" =>
          \E S \in SUBSET (DOMAIN o \ Newest(DOMAIN o, c.n)) : t = Without(o, S)
    /\ c.op \in Keeping => t = o

\* Executed, of any call, keys and tree.
ExecutedOn(c, K, t) ==
    CASE c.op \in {"put", "patch"} -> {Put(t, c.key, c.val)}
      [] c.op = "post" ->
           {Posted(t, S, c.val) : S \in (SUBSET (c.keys \ DOMAIN t)) \ {{}}}
      [] c.op = "delete" -> {Without(t, c.keys)}
      [] c.op = "trimDays" -> {Without(t, {First(K)})}
      [] OTHER -> {t}

Result(r, t) == [ret |-> r, tree |-> t]

\* A set of keys has a first one: the key that trimDays deletes next.
LEMMA Least ==
    ASSUME NEW S \in SUBSET Nat, S # {}
    PROVE  \E m \in S : \A j \in S : m <= j
<1>1. IsWellFoundedOn(OpToRel(<, Nat), Nat)
  BY NatLessThanWellFounded
<1>2. PICK m \in S : \A j \in S : ~(<<j, m>> \in OpToRel(<, Nat))
  BY <1>1, WFMin
<1>3. \A j \in S : ~(j < m)
  BY <1>2 DEF OpToRel
<1> QED
  BY <1>3

LEMMA FirstIn ==
    ASSUME NEW S \in SUBSET Nat, S # {}
    PROVE  First(S) \in S /\ \A j \in S : First(S) <= j
  BY Least DEF First

\* The keys that trimDays deletes, of a listing L that may have been cut short, are none of
\* the newest n keys of the node.
LEMMA NotNewest ==
    ASSUME NEW K \in SUBSET Nat, IsFiniteSet(K), NEW L \in SUBSET K, NEW n \in Nat,
           NEW k \in Oldest(L, Cardinality(L) - n)
    PROVE  k \in K /\ k \notin Newest(K, n)
<1> DEFINE A == {j \in L : j < k}
           B == {j \in L : k < j}
           C == {j \in K : k < j}
<1>1. k \in L /\ k \in Nat /\ Cardinality(A) < Cardinality(L) - n
  BY DEF Oldest
<1>2. IsFiniteSet(L) /\ IsFiniteSet(A) /\ IsFiniteSet(B) /\ IsFiniteSet(C)
  <2>1. IsFiniteSet(L) /\ IsFiniteSet(C)
    BY FS_Subset
  <2> QED
    BY <2>1, FS_Subset
<1>3. L = (A \cup {k}) \cup B /\ A \cap B = {} /\ k \notin A /\ k \notin B
  <2>1. \A j \in L : j \in Nat
    OBVIOUS
  <2>2. \A j \in L : (j < k \/ j = k \/ k < j) /\ ~(j < k /\ k < j)
    BY <1>1, <2>1
  <2>3. ~(k < k)
    BY <1>1
  <2> QED
    BY <1>1, <2>2, <2>3
<1>4. Cardinality(A \cup {k}) = Cardinality(A) + 1 /\ IsFiniteSet(A \cup {k})
  BY <1>2, <1>3, FS_AddElement
<1>5. Cardinality(L) = Cardinality(A \cup {k}) + Cardinality(B) - Cardinality({})
  <2>1. (A \cup {k}) \cap B = {}
    BY <1>3
  <2> HIDE DEF A, B
  <2> QED
    BY <1>2, <1>3, <1>4, <2>1, FS_Union
<1>6. B \subseteq C /\ Cardinality(B) <= Cardinality(C)
  BY <1>2, FS_Subset
<1>7. Cardinality(A) \in Nat /\ Cardinality(B) \in Nat /\ Cardinality(C) \in Nat
      /\ Cardinality({}) = 0 /\ Cardinality(L) \in Nat
  BY <1>2, FS_CardinalityType, FS_EmptySet
<1>8. ~(Cardinality(C) < n)
  <2> HIDE DEF A, B, C
  <2> QED
    BY <1>1, <1>4, <1>5, <1>6, <1>7
<1> QED
  BY <1>1, <1>8 DEF Newest

\* There is a key to delete when more than n were listed.
LEMMA SomeOldest ==
    ASSUME NEW L \in SUBSET Nat, IsFiniteSet(L), NEW n \in Nat, n < Cardinality(L)
    PROVE  Oldest(L, Cardinality(L) - n) # {}
<1>1. L # {}
  BY FS_EmptySet
<1>2. PICK m \in L : \A j \in L : m <= j
  BY <1>1, Least
<1>3. {j \in L : j < m} = {}
  <2>1. \A j \in L : ~(j < m)
    BY <1>2
  <2> QED
    BY <2>1
<1>4. Cardinality({j \in L : j < m}) = 0
  BY <1>3, FS_EmptySet
<1>5. Cardinality(L) \in Nat
  BY FS_CardinalityType
<1> QED
  BY <1>4, <1>5 DEF Oldest
\* FirebaseStore counts as FirebaseClient does.
LEMMA SameCount == \A T : Store!Cardinality(T) = Cardinality(T)
  BY DEF Store!Cardinality, Cardinality

\* The outcomes that FirebaseStore allows, call by call.
LEMMA AllowedPut ==
    ASSUME NEW c \in Calls, c.op \in {"put", "patch"}, NEW o
    PROVE  Store!Outcomes(c, o) = {Result(0, Put(o, c.key, c.val)),
               Result(-1, Put(o, c.key, c.val)), Result(-1, o)}
  BY DEF Store!Outcomes, Store!PutOutcomes, Store!Outcome, Store!Put, Put, Result

LEMMA AllowedPost ==
    ASSUME NEW c \in Calls, c.op = "post", NEW o, NEW S \in SUBSET (c.keys \ DOMAIN o)
    PROVE  /\ Result(-1, Posted(o, S, c.val)) \in Store!Outcomes(c, o)
           /\ S # {} => Result(0, Posted(o, S, c.val)) \in Store!Outcomes(c, o)
<1>1. Store!Outcomes(c, o) = Store!PostOutcomes(o, c.keys, c.val)
  BY DEF Store!Outcomes
<1> QED
  BY <1>1 DEF Store!PostOutcomes, Store!Outcome, Posted, Result

LEMMA AllowedDelete ==
    ASSUME NEW c \in Calls, c.op = "delete", NEW o
    PROVE  Store!Outcomes(c, o) = {Result(0, Without(o, c.keys)),
               Result(-1, Without(o, c.keys)), Result(-1, o)}
  BY DEF Store!Outcomes, Store!DeleteOutcomes, Store!Outcome, Store!Without, Without, Result

LEMMA AllowedTrim ==
    ASSUME NEW c \in Calls, c.op = "trimOldest", NEW o
    PROVE  /\ Result(-1, o) \in Store!Outcomes(c, o)
           /\ Result(0, o) \in Store!Outcomes(c, o)
           /\ \A L \in (SUBSET Oldest(DOMAIN o, c.n)) \ {{}} :
                 /\ Result(Cardinality(L), Without(o, L)) \in Store!Outcomes(c, o)
                 /\ Result(-2, Without(o, L)) \in Store!Outcomes(c, o)
                 /\ Result(-2, o) \in Store!Outcomes(c, o)
<1>1. Store!Outcomes(c, o) = Store!TrimOutcomes(o, c.n)
  BY DEF Store!Outcomes
<1>2. \A K, n : Store!Oldest(K, n) = Oldest(K, n)
  BY SameCount DEF Store!Oldest, Oldest
<1>3. \A L : Store!Without(o, L) = Without(o, L)
  BY DEF Store!Without, Without
<1> DEFINE Removed(L) == {Result(Cardinality(L), Without(o, L)),
                          Result(-2, Without(o, L)), Result(-2, o)}
<1>4. Store!Outcomes(c, o) = {Result(-1, o), Result(0, o)}
         \cup UNION {Removed(L) : L \in (SUBSET Oldest(DOMAIN o, c.n)) \ {{}}}
  BY <1>1, <1>2, <1>3, SameCount DEF Store!TrimOutcomes, Store!Outcome, Result
<1>5. ASSUME NEW L \in (SUBSET Oldest(DOMAIN o, c.n)) \ {{}}
      PROVE  Removed(L) \subseteq Store!Outcomes(c, o)
  <2> HIDE DEF Removed
  <2> QED
    BY <1>4
<1> QED
  BY <1>4, <1>5

LEMMA AllowedDays ==
    ASSUME NEW c \in Calls, c.op = "trimDays", NEW o,
           NEW S \in SUBSET (DOMAIN o \ Newest(DOMAIN o, c.n))
    PROVE  /\ Result(-1, o) \in Store!Outcomes(c, o)
           /\ Result(0, Without(o, S)) \in Store!Outcomes(c, o)
<1>1. Store!Outcomes(c, o) = Store!TrimDaysOutcomes(o, c.n)
  BY DEF Store!Outcomes
<1>2. \A K, n : Store!Newest(K, n) = Newest(K, n)
  BY SameCount DEF Store!Newest, Newest
<1>3. Store!Without(o, S) = Without(o, S)
  BY DEF Store!Without, Without
<1> QED
  BY <1>1, <1>2, <1>3 DEF Store!TrimDaysOutcomes, Store!Outcome, Result

LEMMA AllowedOther ==
    ASSUME NEW c \in Calls, c.op \in {"init", "refresh", "get"}, NEW o,
           NEW r \in {0, -1, -2}
    PROVE  Result(r, o) \in Store!Outcomes(c, o)
  BY DEF Store!Outcomes, Store!Outcome, Result

\* No keys posted, no keys removed: the tree is the same.
LEMMA NoKeys ==
    ASSUME NEW t, Tree(t), NEW v
    PROVE  Posted(t, {}, v) = t /\ Without(t, {}) = t
  BY DEF Tree, Posted, Without

\* A call that failed has left a tree that its outcomes allow for a failure.
LEMMA AllowedFailure ==
    ASSUME NEW c \in Calls, NEW o, NEW t, Reached(c, t, o),
           c.op \notin {"trimOldest", "trimDays"}
    PROVE  Result(-1, t) \in Store!Outcomes(c, o)
<1>1. CASE c.op \in {"put", "patch"}
  BY <1>1, AllowedPut DEF Reached
<1>2. CASE c.op = "post"
  BY <1>2, AllowedPost DEF Reached
<1>3. CASE c.op = "delete"
  BY <1>3, AllowedDelete DEF Reached
<1>4. CASE c.op \in {"init", "refresh", "get"}
  BY <1>4, AllowedOther DEF Reached, Keeping
<1> QED
  BY <1>1, <1>2, <1>3, <1>4, ClientAssumption

\* A call whose request was executed may return 0.
LEMMA AllowedSuccess ==
    ASSUME NEW c \in Calls, NEW o, NEW t, Done(c, t, o), c.op # "trimOldest"
    PROVE  Result(0, t) \in Store!Outcomes(c, o)
<1>1. CASE c.op \in {"put", "patch"}
  BY <1>1, AllowedPut DEF Done
<1>2. CASE c.op = "post"
  BY <1>2, AllowedPost DEF Done
<1>3. CASE c.op = "delete"
  BY <1>3, AllowedDelete DEF Done
<1>4. CASE c.op = "trimDays"
  BY <1>4, AllowedDays DEF Done
<1>5. CASE c.op \in {"init", "refresh", "get"}
  BY <1>5, AllowedOther DEF Done, Keeping
<1> QED
  BY <1>1, <1>2, <1>3, <1>4, <1>5, ClientAssumption

\* The trees that a call goes through belong to its outcomes.
LEMMA AllowedTree ==
    ASSUME NEW c \in Calls, NEW o, NEW t, Reached(c, t, o)
    PROVE  \E x \in Store!Outcomes(c, o) : t = x.tree
<1>1. \A r : Result(r, t).tree = t
  BY DEF Result
<1>2. CASE c.op = "trimOldest"
  BY <1>1, <1>2, AllowedTrim DEF Reached, Keeping
<1>3. CASE c.op = "trimDays"
  BY <1>1, <1>3, AllowedDays DEF Reached
<1>4. CASE c.op \notin {"trimOldest", "trimDays"}
  BY <1>1, <1>4, AllowedFailure
<1> QED
  BY <1>2, <1>3, <1>4

\* A call that has done nothing may return without a request.
LEMMA AllowedRefusal ==
    ASSUME NEW c \in Calls, NEW o, Tree(o)
    PROVE  /\ Reached(c, o, o)
           /\ Result(-1, o) \in Store!Outcomes(c, o)
           /\ c.op \in {"trimOldest", "trimDays"} => Result(0, o) \in Store!Outcomes(c, o)
<1>1. Reached(c, o, o)
  BY NoKeys DEF Reached
<1>2. CASE c.op = "trimOldest"
  BY <1>1, <1>2, AllowedTrim
<1>3. CASE c.op = "trimDays"
  BY <1>1, <1>3, AllowedDays, NoKeys
<1>4. CASE c.op \notin {"trimOldest", "trimDays"}
  BY <1>1, <1>4, AllowedFailure
<1> QED
  BY <1>1, <1>2, <1>3, <1>4

\* What an execution by the server adds to what the call has done.
LEMMA Execution ==
    ASSUME NEW c \in Calls, NEW o, NEW t, NEW K, Tree(o), Reached(c, t, o),
           c.op = "trimDays" => K # {} /\ K \subseteq DOMAIN o \ Newest(DOMAIN o, c.n),
           NEW u \in ExecutedOn(c, K, t)
    PROVE  Reached(c, u, o) /\ Done(c, u, o)
<1>1. CASE c.op \in {"put", "patch"}
  <2>1. u = Put(t, c.key, c.val)
    BY <1>1 DEF ExecutedOn
  <2>2. Put(Put(o, c.key, c.val), c.key, c.val) = Put(o, c.key, c.val)
    BY DEF Put
  <2>3. u = Put(o, c.key, c.val)
    BY <1>1, <2>1, <2>2 DEF Reached
  <2> QED
    BY <1>1, <2>3 DEF Reached, Done, Keeping
<1>2. CASE c.op = "post"
  <2>1. PICK S \in SUBSET (c.keys \ DOMAIN o) : t = Posted(o, S, c.val)
    BY <1>2 DEF Reached
  <2>2. PICK T \in (SUBSET (c.keys \ DOMAIN t)) \ {{}} : u = Posted(t, T, c.val)
    BY <1>2 DEF ExecutedOn
  <2>3. DOMAIN t = DOMAIN o \cup S
    BY <2>1 DEF Posted
  <2>4. S \cup T \in (SUBSET (c.keys \ DOMAIN o)) \ {{}}
    BY <2>2, <2>3
  <2>5. u = Posted(o, S \cup T, c.val)
    BY <2>1, <2>2, <2>3 DEF Posted
  <2> QED
    BY <1>2, <2>4, <2>5 DEF Reached, Done, Keeping
<1>3. CASE c.op = "delete"
  <2>1. u = Without(t, c.keys)
    BY <1>3 DEF ExecutedOn
  <2>2. Without(Without(o, c.keys), c.keys) = Without(o, c.keys)
    BY DEF Without
  <2>3. u = Without(o, c.keys)
    BY <1>3, <2>1, <2>2 DEF Reached
  <2> QED
    BY <1>3, <2>3 DEF Reached, Done, Keeping
<1>4. CASE c.op = "trimDays"
  <2>1. PICK S \in SUBSET (DOMAIN o \ Newest(DOMAIN o, c.n)) : t = Without(o, S)
    BY <1>4 DEF Reached
  <2>2. u = Without(t, {First(K)})
    BY <1>4 DEF ExecutedOn
  <2>3. K \in SUBSET Nat /\ K # {}
    BY <1>4 DEF Tree
  <2>4. First(K) \in K
    BY <2>3, FirstIn
  <2>5. S \cup {First(K)} \in SUBSET (DOMAIN o \ Newest(DOMAIN o, c.n))
    BY <1>4, <2>4
  <2>6. Without(t, {First(K)}) = Without(o, S \cup {First(K)})
    BY <2>1 DEF Without
  <2> QED
    BY <1>4, <2>2, <2>5, <2>6 DEF Reached, Done, Keeping
<1>5. CASE c.op \in Keeping
  <2>1. u = o
    BY <1>5 DEF ExecutedOn, Reached, Keeping
  <2> QED
    BY <1>5, <2>1 DEF Reached, Done, Keeping
<1> QED
  BY <1>1, <1>2, <1>3, <1>4, <1>5, ClientAssumption DEF Keeping

\* The node stays a finite function of keys.
LEMMA ReachedTree ==
    ASSUME NEW c \in Calls, NEW o, NEW t, Tree(o), Reached(c, t, o)
    PROVE  Tree(t)
<1>1. \A S : Tree(Without(o, S))
  <2> TAKE S
  <2>1. DOMAIN Without(o, S) = DOMAIN o \ S
    BY DEF Without
  <2>2. IsFiniteSet(DOMAIN o \ S)
    BY FS_Subset DEF Tree
  <2> QED
    BY <2>1, <2>2 DEF Tree, Without
<1>2. CASE c.op \in {"put", "patch"}
  <2>1. c.key \in Nat
    BY <1>2, ClientAssumption
  <2>2. DOMAIN Put(o, c.key, c.val) = DOMAIN o \cup {c.key}
    BY DEF Put
  <2>3. IsFiniteSet(DOMAIN o \cup {c.key})
    BY FS_AddElement DEF Tree
  <2>4. Tree(Put(o, c.key, c.val))
    BY <2>1, <2>2, <2>3 DEF Tree, Put
  <2> QED
    BY <1>2, <2>4 DEF Reached
<1>3. CASE c.op = "post"
  <2>1. PICK S \in SUBSET (c.keys \ DOMAIN o) : t = Posted(o, S, c.val)
    BY <1>3 DEF Reached
  <2>2. c.keys \subseteq Nat /\ IsFiniteSet(c.keys)
    BY <1>3, ClientAssumption
  <2>3. IsFiniteSet(S) /\ S \subseteq Nat
    BY <2>2, FS_Subset
  <2>4. IsFiniteSet(DOMAIN o \cup S)
    BY <2>3, FS_Union DEF Tree
  <2>5. DOMAIN t = DOMAIN o \cup S
    BY <2>1 DEF Posted
  <2>6. t = [j \in DOMAIN t |-> t[j]]
    BY <2>1 DEF Posted
  <2> QED
    BY <2>3, <2>4, <2>5, <2>6 DEF Tree
<1>4. CASE c.op = "delete"
  BY <1>1, <1>4 DEF Reached
<1>5. CASE c.op = "trimDays"
  BY <1>1, <1>5 DEF Reached
<1>6. CASE c.op \in Keeping
  BY <1>6 DEF Reached
<1> QED
  BY <1>2, <1>3, <1>4, <1>5, <1>6, ClientAssumption DEF Keeping

\* The inductive invariant: the tree has been reached by the call that runs, nothing is
\* written before the first request, and the keys that trimDays has still to delete are old.
RInv ==
    /\ call \in Calls \cup {NoCall} /\ (call = NoCall <=> pc = "idle")
    /\ Tree(db) /\ Tree(old)
    /\ pc # "idle" => Reached(call, db, old)
    /\ pc \in {"start", "list", "patch"} => db = old
    /\ pc = "list" => call.op \in Trims /\ call.n > 0
    /\ pc = "patch" => /\ call.op = "trimOldest"
                       /\ keys \in (SUBSET Oldest(DOMAIN old, call.n)) \ {{}}
    /\ pc \in {"login", "loginAuth", "force"} => call.op # "trimOldest"
    /\ pc \in {"register", "registerAuth"} => call.op = "init"
    /\ pc \in {"first", "second"} => call.op \notin {"init", "refresh", "trimOldest"}
    /\ pc \notin {"idle", "start", "list"} /\ call.op = "trimDays" =>
          keys # {} /\ keys \subseteq DOMAIN old \ Newest(DOMAIN old, call.n)

\* What a request leaves, answered or not.
LEMMA Requested ==
    ASSUME RInv, pc \in {"first", "second"}, NEW r \in Replies,
           db' \in IF r.applied THEN Executed ELSE {db}
    PROVE  /\ call \in Calls /\ call # NoCall
           /\ Tree(db') /\ Reached(call, db', old)
           /\ Accepted(r) => Done(call, db', old)
<1>1. call \in Calls /\ call # NoCall /\ Tree(old) /\ Tree(db) /\ Reached(call, db, old)
  BY ClientAssumption DEF RInv
<1>2. call.op = "trimDays" =>
         keys # {} /\ keys \subseteq DOMAIN old \ Newest(DOMAIN old, call.n)
  BY DEF RInv
<1>3. Executed = ExecutedOn(call, keys, db)
  BY DEF Executed, ExecutedOn, Posted
<1>4. r.applied \/ (~r.applied /\ ~Accepted(r))
  BY DEF Replies, Reply, Accepted
<1>5. CASE r.applied
  <2>1. db' \in ExecutedOn(call, keys, db)
    BY <1>3, <1>5
  <2>2. Reached(call, db', old) /\ Done(call, db', old)
    BY <1>1, <1>2, <2>1, Execution
  <2> QED
    BY <1>1, <2>2, ReachedTree
<1>6. CASE ~r.applied /\ ~Accepted(r)
  BY <1>1, <1>6
<1> QED
  BY <1>4, <1>5, <1>6

\* How a call goes on after an answer, and what it returns.
LEMMA Answer ==
    ASSUME NEW r, Finish(r)
    PROVE  \/ /\ call.op = "trimDays" /\ keys # {First(keys)}
              /\ pc' = "first" /\ call' = call /\ ret' = ret
              /\ keys' = keys \ {First(keys)}
           \/ /\ pc' = "idle" /\ call' = NoCall
              /\ call.op = "trimDays" \/ Accepted(r) => ret' = 0
              /\ ~(call.op = "trimDays" \/ Accepted(r)) => ret' = -1
<1>1. CASE call.op = "trimDays" /\ keys # {First(keys)}
  BY <1>1 DEF Finish, Goto
<1>2. CASE ~(call.op = "trimDays" /\ keys # {First(keys)})
  BY <1>2 DEF Finish, Return
<1> QED
  BY <1>1, <1>2

\* A call returns when the value and the tree form an outcome.
LEMMA Returned ==
    ASSUME call \in Calls, call # NoCall, call' = NoCall, old' = old,
           Result(ret', db') \in Store!Outcomes(call, old)
    PROVE  Store!Return
  BY DEF Store!Return, Store!Outcome, Result

LEMMA Progressed ==
    ASSUME call \in Calls, call # NoCall, UNCHANGED <<call, old, ret>>,
           Reached(call, db', old)
    PROVE  Store!Progress
  BY AllowedTree DEF Store!Progress

\* Both request actions.
LEMMA RequestStep ==
    ASSUME RInv, pc \in {"first", "second"}, NEW r \in Replies, UNCHANGED old,
           db' \in IF r.applied THEN Executed ELSE {db},
           \/ /\ pc' \in {"login", "force"} /\ UNCHANGED <<call, ret, keys>>
              /\ call.op # "trimOldest"
           \/ Finish(r)
    PROVE  RInv' /\ Store!StoreNext
<1>1. /\ call \in Calls /\ call # NoCall
      /\ Tree(db') /\ Reached(call, db', old)
      /\ Accepted(r) => Done(call, db', old)
  BY Requested
<1>2. /\ call.op \notin {"init", "refresh", "trimOldest"} /\ Tree(old)
      /\ call.op = "trimDays" =>
            keys # {} /\ keys \subseteq DOMAIN old \ Newest(DOMAIN old, call.n)
  BY DEF RInv
<1>3. CASE pc' \in {"login", "force"} /\ UNCHANGED <<call, ret, keys>>
  <2>1. RInv'
    BY <1>1, <1>2, <1>3 DEF RInv
  <2>2. Store!Progress
    BY <1>1, <1>3, Progressed
  <2> QED
    BY <2>1, <2>2 DEF Store!StoreNext
<1>4. CASE Finish(r)
  <2>1. CASE /\ call.op = "trimDays" /\ keys # {First(keys)}
             /\ pc' = "first" /\ call' = call /\ ret' = ret
             /\ keys' = keys \ {First(keys)}
    <3>1. keys' # {} /\ keys' \subseteq DOMAIN old \ Newest(DOMAIN old, call.n)
      BY <1>2, <2>1
    <3>2. RInv'
      BY <1>1, <1>2, <2>1, <3>1 DEF RInv
    <3>3. Store!Progress
      BY <1>1, <2>1, Progressed
    <3> QED
      BY <3>2, <3>3 DEF Store!StoreNext
  <2>2. CASE /\ pc' = "idle" /\ call' = NoCall
             /\ call.op = "trimDays" \/ Accepted(r) => ret' = 0
             /\ ~(call.op = "trimDays" \/ Accepted(r)) => ret' = -1
    <3>1. RInv'
      BY <1>1, <1>2, <2>2 DEF RInv
    <3>2. Result(ret', db') \in Store!Outcomes(call, old)
      <4>1. CASE call.op = "trimDays"
        <5>1. ret' = 0
          BY <2>2, <4>1
        <5>2. Done(call, db', old)
          BY <1>1, <4>1 DEF Reached, Done, Keeping
        <5> QED
          BY <1>1, <4>1, <5>1, <5>2, AllowedSuccess
      <4>2. CASE call.op # "trimDays" /\ Accepted(r)
        BY <1>1, <1>2, <2>2, <4>2, AllowedSuccess
      <4>3. CASE call.op # "trimDays" /\ ~Accepted(r)
        BY <1>1, <1>2, <2>2, <4>3, AllowedFailure
      <4> QED
        BY <4>1, <4>2, <4>3
    <3>3. Store!Return
      BY <1>1, <2>2, <3>2, Returned
    <3> QED
      BY <3>1, <3>3 DEF Store!StoreNext
  <2> QED
    BY <1>4, <2>1, <2>2, Answer
<1> QED
  BY <1>3, <1>4

\* A step that touches neither the tree nor the outcome of the call.
LEMMA Inside ==
    ASSUME RInv, pc # "idle", UNCHANGED <<call, ret, db, old, keys>>,
           pc \notin {"idle", "start", "list", "patch"},
           \/ pc' \in {"login", "loginAuth", "force"} /\ call.op # "trimOldest"
           \/ pc' \in {"register", "registerAuth"} /\ call.op = "init"
           \/ pc' = "second" /\ call.op \notin {"init", "refresh", "trimOldest"}
    PROVE  RInv' /\ UNCHANGED Store!storeVars
<1>1. UNCHANGED Store!storeVars
  BY DEF Store!storeVars
<1> QED
  BY <1>1 DEF RInv

\* firebase_init and firebase_refresh_token return.
LEMMA Finishes ==
    ASSUME RInv, pc # "idle", call.op \in {"init", "refresh"}, UNCHANGED <<db, old>>,
           pc' = "idle", call' = NoCall, ret' \in {0, -1, -2}
    PROVE  RInv' /\ Store!StoreNext
<1>1. call \in Calls /\ call # NoCall /\ Reached(call, db, old)
  BY DEF RInv
<1>2. db' = old
  BY <1>1 DEF Reached, Keeping
<1>3. Result(ret', db') \in Store!Outcomes(call, old)
  BY <1>1, <1>2, AllowedOther
<1>4. Store!Return
  BY <1>1, <1>3, Returned
<1> QED
  BY <1>4 DEF RInv, Store!StoreNext

\* A renewal of the token ends.
LEMMA RenewalStep ==
    ASSUME RInv, pc \in {"login", "loginAuth", "force"}, NEW ok \in BOOLEAN, AuthDone(ok),
           UNCHANGED <<db, old, keys>>
    PROVE  RInv' /\ (Store!StoreNext \/ UNCHANGED Store!storeVars)
<1>1. call.op # "trimOldest" /\ call \in Calls
  BY DEF RInv
<1>2. CASE call.op = "init"
  <2>1. \/ pc' = "idle" /\ call' = NoCall /\ ret' \in {0, -2}
        \/ pc' = "register" /\ UNCHANGED <<call, ret>>
    BY <1>2 DEF AuthDone, Return, Goto
  <2> QED
    BY <1>2, <2>1, Finishes, Inside
<1>3. CASE call.op = "refresh"
  <2>1. pc' = "idle" /\ call' = NoCall /\ ret' \in {0, -2}
    BY <1>3 DEF AuthDone, Return
  <2> QED
    BY <1>3, <2>1, Finishes
<1>4. CASE call.op \notin {"init", "refresh"}
  <2>1. pc' = "second" /\ UNCHANGED <<call, ret>>
    BY <1>4 DEF AuthDone, Goto
  <2> QED
    BY <1>1, <1>4, <2>1, Inside
<1> QED
  BY <1>2, <1>3, <1>4

LEMMA StoreStep ==
    RInv /\ [Next]_vars => RInv' /\ (Store!StoreNext \/ UNCHANGED Store!storeVars)
<1> SUFFICES ASSUME RInv, [Next]_vars
             PROVE  RInv' /\ (Store!StoreNext \/ UNCHANGED Store!storeVars)
  OBVIOUS
<1> USE DEF app, server, counts
<1>1. CASE Invoke
  <2>1. call = NoCall /\ pc' = "start" /\ call' \in Calls /\ old' = db /\ UNCHANGED <<db, ret>>
    BY <1>1 DEF Invoke, RInv
  <2>2. Tree(old') /\ Reached(call', db', old')
    BY <2>1, AllowedRefusal DEF RInv
  <2>3. RInv'
    BY <2>1, <2>2, ClientAssumption DEF RInv
  <2> QED
    BY <2>1, <2>3 DEF Store!StoreNext, Store!Invoke
<1>2. CASE FirebaseInit
  <2>1. /\ pc = "start" /\ call.op = "init" /\ UNCHANGED <<db, old, keys>>
        /\ \/ pc' = "idle" /\ call' = NoCall /\ ret' = 0
           \/ pc' = "login" /\ UNCHANGED <<call, ret>>
    BY <1>2 DEF FirebaseInit, Return, Goto
  <2>2. CASE pc' = "login" /\ UNCHANGED <<call, ret>>
    BY <2>1, <2>2 DEF RInv, Store!storeVars
  <2> QED
    BY <2>1, <2>2, Finishes
<1>3. CASE FirebaseRefreshToken
  <2>1. /\ pc = "start" /\ call.op = "refresh" /\ UNCHANGED <<db, old, keys>>
        /\ \/ pc' = "idle" /\ call' = NoCall /\ ret' = -1
           \/ pc' = "force" /\ UNCHANGED <<call, ret>>
    BY <1>3 DEF FirebaseRefreshToken, Return, Goto
  <2>2. CASE pc' = "force" /\ UNCHANGED <<call, ret>>
    BY <2>1, <2>2 DEF RInv, Store!storeVars
  <2> QED
    BY <2>1, <2>2, Finishes
<1>4. CASE Refused
  <2>1. /\ pc = "start" /\ UNCHANGED <<db, old, keys>> /\ pc' = "idle" /\ call' = NoCall
        /\ ret' = -1 \/ (call.op \in Trims /\ ret' = 0)
    BY <1>4 DEF Refused, Return
  <2>2. call \in Calls /\ call # NoCall /\ db = old /\ Tree(old)
    BY <2>1 DEF RInv
  <2>3. Result(ret', db') \in Store!Outcomes(call, old)
    BY <2>1, <2>2, AllowedRefusal DEF Trims
  <2>4. Store!Return
    BY <2>1, <2>2, <2>3, Returned
  <2> QED
    BY <2>1, <2>2, <2>4 DEF RInv, Store!StoreNext
<1>5. CASE BeginRequest
  <2>1. /\ pc = "start" /\ pc' = "first" /\ UNCHANGED <<call, ret, db, old, keys>>
        /\ call.op \notin {"init", "refresh", "trimOldest", "trimDays"}
    BY <1>5 DEF BeginRequest, Goto, Trims
  <2> QED
    BY <2>1 DEF RInv, Store!storeVars
<1>6. CASE BeginTrim
  <2>1. /\ pc = "start" /\ pc' = "list" /\ UNCHANGED <<call, ret, db, old, keys>>
        /\ call.op \in Trims /\ call.n > 0
    BY <1>6 DEF BeginTrim, Goto
  <2> QED
    BY <2>1 DEF RInv, Store!storeVars
<1>7. CASE GetRefreshToken
  <2>1. UNCHANGED <<db, old, keys>> /\ pc \in {"login", "register"}
    BY <1>7 DEF GetRefreshToken
  <2>2. CASE Goto(IF pc = "login" THEN "loginAuth" ELSE "registerAuth")
    <3>1. /\ pc = "login" => pc' = "loginAuth" /\ call.op # "trimOldest"
          /\ pc = "register" => pc' = "registerAuth" /\ call.op = "init"
          /\ UNCHANGED <<call, ret>>
      BY <2>1, <2>2 DEF Goto, RInv
    <3> QED
      BY <2>1, <3>1, Inside
  <2>3. CASE pc = "login" /\ AuthDone(FALSE)
    BY <2>1, <2>3, RenewalStep
  <2>4. CASE pc = "register" /\ Return(-2)
    <3>1. call.op = "init" /\ pc' = "idle" /\ call' = NoCall /\ ret' = -2
      BY <2>4 DEF RInv, Return
    <3> QED
      BY <2>1, <3>1, Finishes
  <2> QED
    BY <1>7, <2>1, <2>2, <2>3, <2>4 DEF GetRefreshToken
<1>8. CASE GetAuthToken
  <2>1. /\ pc \in {"loginAuth", "registerAuth", "force"} /\ AuthTokenOk
        /\ UNCHANGED <<db, old, keys>>
    BY <1>8 DEF GetAuthToken
  <2>2. CASE pc = "registerAuth"
    <3>1. pc' = "login" /\ UNCHANGED <<call, ret>> /\ call.op = "init"
      BY <2>1, <2>2 DEF AuthTokenOk, Goto, RInv
    <3> QED
      BY <2>1, <3>1, Inside
  <2>3. CASE pc # "registerAuth"
    <3>1. AuthDone(TRUE)
      BY <2>1, <2>3 DEF AuthTokenOk
    <3> QED
      BY <2>1, <2>3, <3>1, RenewalStep
  <2> QED
    BY <2>2, <2>3
<1>9. CASE GetAuthTokenFails
  <2>1. UNCHANGED <<db, old, keys>> /\ pc \in {"loginAuth", "registerAuth", "force"}
    BY <1>9 DEF GetAuthTokenFails
  <2>2. CASE pc = "force"
    <3>1. pc' = "login" /\ UNCHANGED <<call, ret>> /\ call.op # "trimOldest"
      BY <1>9, <2>2 DEF GetAuthTokenFails, Goto, RInv
    <3> QED
      BY <2>1, <3>1, Inside
  <2>3. CASE pc = "loginAuth"
    <3>1. AuthDone(FALSE)
      BY <1>9, <2>3 DEF GetAuthTokenFails
    <3> QED
      BY <2>1, <2>3, <3>1, RenewalStep
  <2>4. CASE pc = "registerAuth"
    <3>1. call.op = "init" /\ pc' = "idle" /\ call' = NoCall /\ ret' = -2
      BY <1>9, <2>4 DEF GetAuthTokenFails, Return, RInv
    <3> QED
      BY <2>1, <3>1, Finishes
  <2> QED
    BY <2>1, <2>2, <2>3, <2>4
<1>10. CASE FirstRequest
  <2>1. PICK r \in Replies :
           /\ db' \in IF r.applied THEN Executed ELSE {db}
           /\ CASE call.op = "get" /\ ~Accepted(r) ->
                     Goto("login") /\ UNCHANGED <<url_token, timeout, keys>>
                [] call.op # "get" /\ r.code = "401" ->
                     Goto("force") /\ UNCHANGED <<url_token, timeout, keys>>
                [] OTHER -> Finish(r)
    BY <1>10 DEF FirstRequest
  <2>2. pc = "first" /\ UNCHANGED old /\ call.op # "trimOldest"
    BY <1>10 DEF FirstRequest, RInv
  <2>3. \/ pc' \in {"login", "force"} /\ UNCHANGED <<call, ret, keys>>
        \/ Finish(r)
    <3>1. CASE call.op = "get" /\ ~Accepted(r)
      BY <2>1, <3>1 DEF Goto
    <3>2. CASE call.op # "get" /\ r.code = "401"
      BY <2>1, <3>2 DEF Goto
    <3>3. CASE ~(call.op = "get" /\ ~Accepted(r)) /\ ~(call.op # "get" /\ r.code = "401")
      BY <2>1, <3>3
    <3> QED
      BY <3>1, <3>2, <3>3
  <2> QED
    BY <2>1, <2>2, <2>3, RequestStep
<1>11. CASE SecondRequest
  <2>1. PICK r \in Replies : Finish(r) /\ db' \in IF r.applied THEN Executed ELSE {db}
    BY <1>11 DEF SecondRequest
  <2>2. pc = "second" /\ UNCHANGED old
    BY <1>11 DEF SecondRequest
  <2> QED
    BY <2>1, <2>2, RequestStep
<1>12. CASE TrimOldestList
  <2>1. pc = "list" /\ call.op = "trimOldest" /\ UNCHANGED <<db, old>>
    BY <1>12 DEF TrimOldestList
  <2>2. call \in Calls /\ call # NoCall /\ db = old /\ Tree(old) /\ Reached(call, db, old)
    BY <2>1 DEF RInv
  <2>3. \/ pc' = "idle" /\ call' = NoCall /\ ret' \in {0, -1}
        \/ \E L \in (SUBSET Oldest(DOMAIN db, call.n)) \ {{}} :
              pc' = "patch" /\ UNCHANGED <<call, ret>> /\ keys' = L
    BY <1>12 DEF TrimOldestList, ListOldest, Return, Goto
  <2>4. CASE pc' = "idle" /\ call' = NoCall /\ ret' \in {0, -1}
    <3>1. Result(ret', db') \in Store!Outcomes(call, old)
      BY <2>1, <2>2, <2>4, AllowedTrim
    <3>2. Store!Return
      BY <2>1, <2>2, <2>4, <3>1, Returned
    <3> QED
      BY <2>1, <2>2, <2>4, <3>2 DEF RInv, Store!StoreNext
  <2>5. CASE \E L \in (SUBSET Oldest(DOMAIN db, call.n)) \ {{}} :
                pc' = "patch" /\ UNCHANGED <<call, ret>> /\ keys' = L
    BY <2>1, <2>2, <2>5 DEF RInv, Store!storeVars
  <2> QED
    BY <2>3, <2>4, <2>5
<1>13. CASE TrimOldestPatch
  <2>1. PICK r \in Replies :
           /\ db' = IF r.applied THEN Without(db, keys) ELSE db
           /\ Return(IF r.code \in {"200", "204"} THEN Cardinality(keys) ELSE -2)
    BY <1>13 DEF TrimOldestPatch
  <2>2. pc = "patch" /\ UNCHANGED old
    BY <1>13 DEF TrimOldestPatch
  <2>3. /\ call \in Calls /\ call # NoCall /\ db = old /\ Tree(old)
        /\ call.op = "trimOldest" /\ keys \in (SUBSET Oldest(DOMAIN old, call.n)) \ {{}}
    BY <2>2 DEF RInv
  <2>4. r.code \in {"200", "204"} => r.applied
    BY DEF Replies, Reply
  <2>5. pc' = "idle" /\ call' = NoCall
    BY <2>1 DEF Return
  <2>6. Result(ret', db') \in Store!Outcomes(call, old)
    BY <2>1, <2>3, <2>4, AllowedTrim DEF Return
  <2>7. Store!Return
    BY <2>2, <2>3, <2>5, <2>6, Returned
  <2>8. Tree(db')
    <3>1. IsFiniteSet(DOMAIN old \ keys)
      BY <2>3, FS_Subset DEF Tree
    <3>2. Tree(Without(old, keys))
      BY <2>3, <3>1 DEF Tree, Without
    <3> QED
      BY <2>1, <2>3, <3>2
  <2> QED
    BY <2>2, <2>3, <2>5, <2>7, <2>8 DEF RInv, Store!StoreNext
<1>14. CASE TrimDaysList
  <2>1. pc = "list" /\ call.op = "trimDays" /\ UNCHANGED <<db, old>>
    BY <1>14 DEF TrimDaysList
  <2>2. /\ call \in Calls /\ call # NoCall /\ db = old /\ Tree(old) /\ Reached(call, db, old)
        /\ call.n > 0
    BY <2>1 DEF RInv
  <2>3. call.n \in Nat
    <3>1. call.n \in Int
      BY <2>1, <2>2, ClientAssumption
    <3> QED
      BY <2>2, <3>1
  <2>4. \/ pc' = "idle" /\ call' = NoCall /\ ret' \in {0, -1}
        \/ \E L \in SUBSET DOMAIN db :
              /\ ~(Cardinality(L) <= call.n)
              /\ keys' = Oldest(L, Cardinality(L) - call.n)
              /\ pc' = "first" /\ UNCHANGED <<call, ret>>
    BY <1>14 DEF TrimDaysList, Return, Goto
  <2>5. CASE pc' = "idle" /\ call' = NoCall /\ ret' \in {0, -1}
    <3>1. Result(ret', db') \in Store!Outcomes(call, old)
      BY <2>1, <2>2, <2>5, AllowedRefusal
    <3>2. Store!Return
      BY <2>1, <2>2, <2>5, <3>1, Returned
    <3> QED
      BY <2>1, <2>2, <2>5, <3>2 DEF RInv, Store!StoreNext
  <2>6. CASE \E L \in SUBSET DOMAIN db :
                /\ ~(Cardinality(L) <= call.n)
                /\ keys' = Oldest(L, Cardinality(L) - call.n)
                /\ pc' = "first" /\ UNCHANGED <<call, ret>>
    <3>1. PICK L \in SUBSET DOMAIN old :
             /\ ~(Cardinality(L) <= call.n)
             /\ keys' = Oldest(L, Cardinality(L) - call.n)
             /\ pc' = "first" /\ UNCHANGED <<call, ret>>
      BY <2>2, <2>6
    <3>2. DOMAIN old \subseteq Nat /\ IsFiniteSet(DOMAIN old)
      BY <2>2 DEF Tree
    <3>3. IsFiniteSet(L) /\ Cardinality(L) \in Nat
      BY <3>2, FS_Subset, FS_CardinalityType
    <3>4. keys' # {}
      BY <2>3, <3>1, <3>2, <3>3, SomeOldest
    <3>5. \A k \in Oldest(L, Cardinality(L) - call.n) :
             k \in DOMAIN old /\ k \notin Newest(DOMAIN old, call.n)
      BY <2>3, <3>2, NotNewest
    <3>6. keys' \subseteq DOMAIN old \ Newest(DOMAIN old, call.n)
      BY <3>1, <3>5
    <3> QED
      BY <2>1, <2>2, <3>1, <3>4, <3>6 DEF RInv, Store!storeVars
  <2> QED
    BY <2>4, <2>5, <2>6
<1>15. CASE Expire
  BY <1>15 DEF Expire, RInv, Store!storeVars
<1>16. CASE Restart
  <2>1. /\ pc' = "idle" /\ call' = NoCall /\ UNCHANGED <<ret, db, old>>
    BY <1>16 DEF Restart
  <2>2. RInv'
    BY <2>1 DEF RInv
  <2> QED
    BY <2>1, <2>2 DEF Store!StoreNext, Store!Crash
<1>17. CASE UNCHANGED vars
  BY <1>17 DEF vars, RInv, Store!storeVars
<1> QED
  BY <1>1, <1>2, <1>3, <1>4, <1>5, <1>6, <1>7, <1>8, <1>9, <1>10, <1>11, <1>12, <1>13,
     <1>14, <1>15, <1>16, <1>17 DEF Next, Step

\* Every call of the C interface does what FirebaseStore promises, whatever is lost and
\* whenever the device restarts: a 0 from a PUT, POST or DELETE means that the server has
\* done it, trimOldestBatch returns the number of keys it removed, all among the oldest,
\* and trimDays never removes one of the newest n.
THEOREM StoreImplemented == Spec => ImplementsStore
<1>1. Init => RInv /\ Store!StoreInit
  <2>1. Tree(EmptyTree)
    BY FS_EmptySet DEF Tree, EmptyTree
  <2>2. Store!EmptyTree = EmptyTree
    BY DEF Store!EmptyTree, EmptyTree
  <2> QED
    BY <2>1, <2>2 DEF Init, RInv, Store!StoreInit
<1>2. RInv /\ [Next]_vars => RInv' /\ [Store!StoreNext]_(Store!storeVars)
  BY StoreStep
<1> QED
  BY <1>1, <1>2, PTL DEF Spec, ImplementsStore, Store!StoreSpec

------------------------------------------------------------------------------
(* The HTTP client *)

\* An attempt executes the request at most once, when the server answers or is lost.
Attempted ==
    /\ h_attempt \in 0..MaxAttempts /\ applied \in Nat /\ applied <= h_attempt
    /\ h_pc \in {"attempt", "sent"} => applied < h_attempt

\* A 2xx status of this call's response: the server has executed the request.
Acted ==
    /\ h_pc = "body" /\ Http!Is2xx(rstatus) => applied > 0
    /\ h_pc = "judge" /\ Http!Success => applied > 0

HttpScalars ==
    /\ h_pc \in {"idle", "attempt", "sent", "body", "judge"} /\ conn \in {"open", "closed"}
    /\ serial \in Nat /\ h_body \in [len : 0..MaxBody, got : 0..MaxBody]
    /\ rstatus \in Statuses \cup {-1, 0} /\ status \in Statuses \cup {-1, 0}
    /\ err \in {"OK", "FAIL"} /\ requests \in 0..MaxRequests

BufferBytes == output_len \in 0..Http!Capacity /\ h_buf \in [0..Http!Capacity -> Http!Bytes]

HttpTypes == HttpScalars /\ BufferBytes

\* An open connection has gone through ON_CONNECTED and, between two responses, through
\* ON_FINISH, so the next body is written from the start of a terminated buffer.
Connection ==
    /\ h_pc \in {"sent", "body"} => conn = "open"
    /\ h_pc = "body" => serial > 0
    /\ conn = "open" \/ serial > 0 => h_buf[Http!Capacity] = Http!NUL
    /\ conn = "open" /\ h_pc # "body" => output_len = 0

\* The part of the body that has been delivered is in the buffer, as far as it fits.
Collected ==
    /\ h_pc = "body" => /\ h_body.got <= h_body.len
                        /\ output_len = Http!Shorter(h_body.got, Http!Capacity)
                        /\ h_body.got > 0 => Http!HoldsBody(output_len)
    /\ h_pc \in {"judge", "idle"} /\ err = "OK" /\ h_body.got > 0 =>
          h_buf = Http!Zeroed \/ Http!HoldsBody(Http!Shorter(h_body.got, Http!Capacity))

HttpInv == Attempted /\ Acted /\ HttpTypes /\ Connection /\ Collected


\* The last cell of the buffer is one of its cells.
LEMMA CapacityNat == Http!Capacity \in Nat
  BY HttpAssumption DEF Http!Capacity

LEMMA HttpInit == Http!Init => HttpInv
<1> SUFFICES ASSUME Http!Init PROVE HttpInv
  OBVIOUS
<1> USE HttpAssumption, CapacityNat DEF Http!Init
<1>1. Attempted /\ Acted
  BY DEF Attempted, Acted
<1>2. h_buf \in [0..Http!Capacity -> Http!Bytes]
  BY DEF Http!Zeroed, Http!Bytes
<1>3. HttpTypes
  BY <1>2 DEF HttpTypes, HttpScalars, BufferBytes
<1>4. Connection /\ Collected
  BY DEF Connection, Collected
<1> QED
  BY <1>1, <1>3, <1>4 DEF HttpInv

\* The counters of a call: they do not depend on the buffer.
LEMMA Counters ==
    Attempted /\ Acted /\ HttpScalars /\ [Http!Next]_(Http!vars) => Attempted' /\ Acted'
<1> SUFFICES ASSUME Attempted, Acted, HttpScalars, [Http!Next]_(Http!vars)
           PROVE Attempted' /\ Acted'
  OBVIOUS
<1> USE HttpAssumption DEF Attempted, Acted, HttpScalars, Http!Success
<1>1. CASE Http!PerformRequest
  BY <1>1 DEF Http!PerformRequest
<1>2. CASE Http!Open
  BY <1>2 DEF Http!Open
<1>3. CASE Http!Reuse
  BY <1>3 DEF Http!Reuse
<1>4. CASE Http!ConnectFails
  BY <1>4 DEF Http!ConnectFails
<1>5. CASE Http!NoResponse
  BY <1>5 DEF Http!NoResponse
<1>6. CASE Http!Respond
  BY <1>6 DEF Http!Respond
<1>7. CASE Http!Chunk
  BY <1>7 DEF Http!Chunk
<1>8. CASE Http!Finish
  BY <1>8 DEF Http!Finish
<1>9. CASE Http!Cut
  BY <1>9 DEF Http!Cut
<1>10. CASE Http!Succeed
  BY <1>10 DEF Http!Succeed
<1>11. CASE Http!Retry
  BY <1>11 DEF Http!Retry
<1>12. CASE Http!GiveUp
  BY <1>12 DEF Http!GiveUp
<1>13. CASE Http!ClearHTTPBuffer
  BY <1>13 DEF Http!ClearHTTPBuffer
<1>14. CASE UNCHANGED Http!vars
  BY <1>14 DEF Http!vars
<1> QED
  BY <1>1, <1>2, <1>3, <1>4, <1>5, <1>6, <1>7, <1>8, <1>9, <1>10, <1>11, <1>12, <1>13,
     <1>14 DEF Http!Next, Http!Perform, Http!Loop

\* A byte that ON_DATA copies is one of the body.
LEMMA Offset ==
    ASSUME NEW got \in Nat, NEW o \in Nat, o = got, NEW c \in Nat, NEW i \in Nat, i < o + c,
           NEW n \in Nat, c <= n, NEW l \in Nat, got + n <= l, NEW m \in Nat, l <= m
    PROVE  got + i - o \in 0..m
  OBVIOUS

\* An index below the length after the copy: where its byte comes from.
LEMMA Copied ==
    ASSUME NEW got \in Nat, NEW c \in Nat, NEW cap \in Nat, got + c <= cap,
           NEW i \in 0..(got + c - 1)
    PROVE  /\ i \in 0..cap /\ i < got + c /\ i # got + c /\ got + i - got = i
           /\ i >= got \/ i \in 0..(got - 1)
  OBVIOUS

\* ON_DATA appends to what is in the buffer what fits before the last cell.
LEMMA Appended ==
    ASSUME HttpTypes, Connection, Collected, h_pc = "body", h_body.got < h_body.len,
           NEW n \in 1..(h_body.len - h_body.got), Http!OnData(h_body.got, n), UNCHANGED serial
    PROVE  /\ output_len' \in 0..Http!Capacity
           /\ output_len' = Http!Shorter(h_body.got + n, Http!Capacity)
           /\ h_buf' \in [0..Http!Capacity -> Http!Bytes'] /\ h_buf'[Http!Capacity] = Http!NUL
           /\ \A i \in 0..(output_len' - 1) : h_buf'[i] = Http!ByteOf(serial', i)
           /\ h_buf'[output_len'] = Http!NUL
<1> DEFINE space == Http!Capacity - output_len
           to_copy == IF n < space THEN n ELSE space
<1>1. /\ Http!Capacity \in Nat /\ MaxBody \in Nat /\ serial \in Nat
      /\ output_len \in 0..Http!Capacity
      /\ h_body.got \in Nat /\ h_body.len \in 0..MaxBody /\ n \in Nat /\ n > 0
      /\ h_body.got + n <= h_body.len
      /\ output_len = Http!Shorter(h_body.got, Http!Capacity) /\ h_buf[Http!Capacity] = Http!NUL
      /\ h_buf \in [0..Http!Capacity -> Http!Bytes]
  BY CapacityNat, HttpAssumption DEF HttpTypes, HttpScalars, BufferBytes, Connection, Collected
<1>2. serial > 0
  BY DEF Connection
<1>3. Http!Bytes' = Http!Bytes
  BY DEF Http!Bytes
<1>4. CASE space > 0
  <2>1. output_len = h_body.got
    BY <1>1, <1>4 DEF Http!Shorter
  <2>2. to_copy \in 1..n /\ output_len + to_copy <= Http!Capacity
    BY <1>1, <1>4
  <2>3. h_buf' = [i \in 0..Http!Capacity |->
                  IF i >= output_len /\ i < output_len + to_copy
                  THEN Http!ByteOf(serial, h_body.got + i - output_len)
                  ELSE IF i = output_len + to_copy THEN Http!NUL ELSE h_buf[i]]
    BY <1>4 DEF Http!OnData
  <2>9. output_len' = output_len + to_copy
    BY <1>4 DEF Http!OnData
  <2> HIDE DEF to_copy, space
  <2>4. \A i \in 0..(output_len - 1) : h_buf[i] = Http!ByteOf(serial, i)
    BY <1>1, <2>1 DEF Collected, Http!HoldsBody
  <2>5. /\ output_len' \in 0..Http!Capacity
        /\ output_len' = Http!Shorter(h_body.got + n, Http!Capacity)
    <3>1. /\ h_body.got \in Nat /\ n \in Nat /\ Http!Capacity \in Nat /\ h_body.got < Http!Capacity
          /\ output_len' = h_body.got + to_copy
      BY <1>1, <1>4, <2>1, <2>9 DEF space
    <3>2. CASE n < Http!Capacity - h_body.got
      <4>1. output_len' = h_body.got + n
        BY <2>1, <3>1, <3>2 DEF to_copy, space
      <4> QED
        BY <3>1, <3>2, <4>1 DEF Http!Shorter
    <3>3. CASE ~(n < Http!Capacity - h_body.got)
      <4>1. output_len' = Http!Capacity
        BY <2>1, <3>1, <3>3 DEF to_copy, space
      <4> QED
        BY <3>1, <3>3, <4>1 DEF Http!Shorter
    <3> QED
      BY <3>2, <3>3
  <2>6. \A i \in 0..(output_len' - 1) : h_buf'[i] = Http!ByteOf(serial, i)
    <3> SUFFICES ASSUME NEW i \in 0..(output_len' - 1) PROVE h_buf'[i] = Http!ByteOf(serial, i)
      OBVIOUS
    <3>1. /\ h_body.got \in Nat /\ to_copy \in Nat /\ Http!Capacity \in Nat
          /\ h_body.got + to_copy <= Http!Capacity /\ i \in 0..(h_body.got + to_copy - 1)
      BY <1>1, <2>1, <2>2, <2>9
    <3>2. /\ i \in 0..Http!Capacity /\ i < output_len + to_copy /\ i # output_len + to_copy
          /\ h_body.got + i - output_len = i
          /\ i >= output_len \/ i \in 0..(output_len - 1)
      BY <2>1, <3>1, Copied
    <3>3. h_buf'[i] = IF i >= output_len THEN Http!ByteOf(serial, i) ELSE h_buf[i]
      BY <2>3, <3>2
    <3>4. CASE i >= output_len
      BY <3>3, <3>4
    <3>5. CASE ~(i >= output_len)
      BY <2>4, <3>2, <3>3, <3>5
    <3> QED
      BY <3>4, <3>5
  <2>7. h_buf'[output_len'] = Http!NUL /\ h_buf'[Http!Capacity] = Http!NUL
    <3>1. output_len + to_copy \in 0..Http!Capacity /\ ~(Http!Capacity < output_len + to_copy)
      BY <1>1, <2>2
    <3> QED
      BY <1>1, <2>2, <2>3, <2>9, <3>1
  <2>8. h_buf' \in [0..Http!Capacity -> Http!Bytes]
    <3>1. ASSUME NEW i \in 0..Http!Capacity, i >= output_len, i < output_len + to_copy
          PROVE  Http!ByteOf(serial, h_body.got + i - output_len) \in Http!Bytes
      <4>1. h_body.got + i - output_len \in 0..MaxBody
        <5>1. /\ i \in Nat /\ to_copy \in Nat /\ to_copy <= n /\ h_body.len \in Nat
              /\ h_body.len <= MaxBody
          BY <1>1, <2>2, <3>1
        <5> QED
          BY <1>1, <2>1, <3>1, <5>1, Offset
      <4>2. serial \in 1..serial
        BY <1>1, <1>2
      <4>3. \A r \in 1..serial, k \in 0..MaxBody : Http!ByteOf(r, k) \in Http!Bytes
        BY DEF Http!Bytes
      <4> QED
        BY <4>1, <4>2, <4>3
    <3>2. Http!NUL \in Http!Bytes
      BY DEF Http!Bytes
    <3> QED
      BY <1>1, <2>3, <3>1, <3>2
  <2> QED
    BY <1>3, <2>5, <2>6, <2>7, <2>8
<1>5. CASE ~(space > 0)
  <2>1. output_len = Http!Capacity /\ output_len' = output_len /\ h_buf' = h_buf
    BY <1>1, <1>5 DEF Http!OnData
  <2>2. output_len' = Http!Shorter(h_body.got + n, Http!Capacity)
    BY <1>1, <2>1 DEF Http!Shorter
  <2>3. \A i \in 0..(output_len' - 1) : h_buf'[i] = Http!ByteOf(serial, i)
    <3>1. CASE h_body.got > 0
      BY <2>1, <3>1 DEF Collected, Http!HoldsBody
    <3>2. CASE h_body.got = 0
      BY <1>1, <2>1, <3>2 DEF Http!Shorter
    <3> QED
      BY <1>1, <3>1, <3>2
  <2> QED
    BY <1>1, <1>3, <2>1, <2>2, <2>3
<1> QED
  BY <1>4, <1>5

\* An empty buffer is one of the buffers, and it is terminated.
LEMMA EmptyBuffer ==
    Http!Zeroed \in [0..Http!Capacity -> Http!Bytes] /\ Http!Zeroed[Http!Capacity] = Http!NUL
  BY CapacityNat DEF Http!Zeroed, Http!Bytes

\* The bytes stay bytes when another response begins.
LEMMA MoreBytes ==
    ASSUME serial \in Nat, serial' = serial + 1, h_buf \in [0..Http!Capacity -> Http!Bytes],
           UNCHANGED h_buf
    PROVE  h_buf' \in [0..Http!Capacity -> Http!Bytes']
<1>1. Http!Bytes \subseteq Http!Bytes'
  <2>1. 1..serial \subseteq 1..serial'
    OBVIOUS
  <2> QED
    BY <2>1 DEF Http!Bytes
<1> QED
  BY <1>1

\* What has a type without the buffer keeps it.
LEMMA ScalarsStep == HttpScalars /\ [Http!Next]_(Http!vars) => HttpScalars'
<1> SUFFICES ASSUME HttpScalars, [Http!Next]_(Http!vars) PROVE HttpScalars'
  OBVIOUS
<1> USE HttpAssumption DEF HttpScalars
<1>1. CASE Http!PerformRequest
  BY <1>1 DEF Http!PerformRequest
<1>2. CASE Http!Open
  BY <1>2 DEF Http!Open
<1>3. CASE Http!Reuse
  BY <1>3 DEF Http!Reuse
<1>4. CASE Http!ConnectFails
  BY <1>4 DEF Http!ConnectFails
<1>5. CASE Http!NoResponse
  BY <1>5 DEF Http!NoResponse
<1>6. CASE Http!Respond
  <2>1. PICK s \in Statuses, n \in 0..MaxBody :
           rstatus' = s /\ h_body' = [len |-> n, got |-> 0]
    BY <1>6 DEF Http!Respond
  <2>2. h_body' \in [len : 0..MaxBody, got : 0..MaxBody]
    BY <2>1
  <2> QED
    BY <1>6, <2>1, <2>2 DEF Http!Respond
<1>7. CASE Http!Chunk
  <2>1. PICK n \in 1..(h_body.len - h_body.got) :
           Http!OnData(h_body.got, n) /\ h_body' = [h_body EXCEPT !.got = @ + n]
    BY <1>7 DEF Http!Chunk
  <2>2. h_body.got + n \in 0..MaxBody
    OBVIOUS
  <2>3. h_body' \in [len : 0..MaxBody, got : 0..MaxBody]
    BY <2>1, <2>2
  <2> QED
    BY <1>7, <2>3 DEF Http!Chunk
<1>8. CASE Http!Finish
  BY <1>8 DEF Http!Finish
<1>9. CASE Http!Cut
  BY <1>9 DEF Http!Cut
<1>10. CASE Http!Succeed
  BY <1>10 DEF Http!Succeed
<1>11. CASE Http!Retry
  BY <1>11 DEF Http!Retry
<1>12. CASE Http!GiveUp
  BY <1>12 DEF Http!GiveUp
<1>13. CASE Http!ClearHTTPBuffer
  BY <1>13 DEF Http!ClearHTTPBuffer
<1>14. CASE UNCHANGED Http!vars
  BY <1>14 DEF Http!vars
<1> QED
  BY <1>1, <1>2, <1>3, <1>4, <1>5, <1>6, <1>7, <1>8, <1>9, <1>10, <1>11, <1>12, <1>13,
     <1>14 DEF Http!Next, Http!Perform, Http!Loop

\* The buffer keeps its bytes and, once there was a connection, its terminator.
LEMMA BytesStep == HttpInv /\ [Http!Next]_(Http!vars) => BufferBytes' /\ Connection'
<1> SUFFICES ASSUME HttpInv, [Http!Next]_(Http!vars) PROVE BufferBytes' /\ Connection'
  OBVIOUS
<1>0. /\ Http!Capacity \in Nat /\ BufferBytes /\ Connection /\ serial \in Nat
      /\ conn \in {"open", "closed"}
      /\ UNCHANGED serial => Http!Bytes' = Http!Bytes
  BY CapacityNat DEF HttpInv, HttpTypes, HttpScalars, Http!Bytes
<1> USE <1>0 DEF BufferBytes, Connection
<1>1. CASE Http!PerformRequest
  BY <1>1 DEF Http!PerformRequest
<1>2. CASE Http!Open
  <2>1. h_buf' \in [0..Http!Capacity -> Http!Bytes'] /\ h_buf'[Http!Capacity] = Http!NUL
    BY <1>2, EmptyBuffer DEF Http!Open, Http!OnConnected
  <2> QED
    BY <1>2, <2>1 DEF Http!Open, Http!OnConnected
<1>3. CASE Http!Reuse
  BY <1>3 DEF Http!Reuse
<1>4. CASE Http!ConnectFails
  BY <1>4 DEF Http!ConnectFails
<1>5. CASE Http!NoResponse
  BY <1>5 DEF Http!NoResponse
<1>6. CASE Http!Respond
  <2>1. h_buf' \in [0..Http!Capacity -> Http!Bytes']
    BY <1>6, MoreBytes DEF Http!Respond
  <2> QED
    BY <1>6, <2>1 DEF Http!Respond
<1>7. CASE Http!Chunk
  <2>1. PICK n \in 1..(h_body.len - h_body.got) :
           Http!OnData(h_body.got, n) /\ h_body' = [h_body EXCEPT !.got = @ + n]
    BY <1>7 DEF Http!Chunk
  <2>2. /\ output_len' \in 0..Http!Capacity
        /\ h_buf' \in [0..Http!Capacity -> Http!Bytes'] /\ h_buf'[Http!Capacity] = Http!NUL
    BY <1>7, <2>1, Appended DEF Http!Chunk, HttpInv
  <2> QED
    BY <1>7, <2>2 DEF Http!Chunk
<1>8. CASE Http!Finish
  BY <1>8 DEF Http!Finish, Http!OnFinish
<1>9. CASE Http!Cut
  BY <1>9 DEF Http!Cut, Http!OnFinish
<1>10. CASE Http!Succeed
  BY <1>10 DEF Http!Succeed
<1>11. CASE Http!Retry
  BY <1>11 DEF Http!Retry
<1>12. CASE Http!GiveUp
  BY <1>12 DEF Http!GiveUp
<1>13. CASE Http!ClearHTTPBuffer
  <2>1. h_buf' \in [0..Http!Capacity -> Http!Bytes'] /\ h_buf'[Http!Capacity] = Http!NUL
    BY <1>13, EmptyBuffer DEF Http!ClearHTTPBuffer
  <2> QED
    BY <1>13, <2>1 DEF Http!ClearHTTPBuffer
<1>14. CASE UNCHANGED Http!vars
  BY <1>14 DEF Http!vars
<1> QED
  BY <1>1, <1>2, <1>3, <1>4, <1>5, <1>6, <1>7, <1>8, <1>9, <1>10, <1>11, <1>12, <1>13,
     <1>14 DEF Http!Next, Http!Perform, Http!Loop

\* While no part of a body is delivered the buffer holds what it held, if a response has come
\* to its end before.
LEMMA BodyKept ==
    ASSUME Collected, UNCHANGED <<serial, h_body, h_buf>>, h_pc' # "body",
           h_pc' \in {"judge", "idle"} /\ err' = "OK" => h_pc \in {"judge", "idle"} /\ err = "OK"
    PROVE  Collected'
  BY DEF Collected, Http!HoldsBody

\* The buffer holds the part of the body that has been delivered.
LEMMA CollectedStep == HttpInv /\ [Http!Next]_(Http!vars) => Collected'
<1> SUFFICES ASSUME HttpInv, [Http!Next]_(Http!vars) PROVE Collected'
  OBVIOUS
<1>0. Collected /\ Http!Capacity \in Nat
  BY CapacityNat DEF HttpInv
<1>1. CASE Http!PerformRequest
  BY <1>0, <1>1, BodyKept DEF Http!PerformRequest
<1>2. CASE Http!Open
  BY <1>2 DEF Http!Open, Collected
<1>3. CASE Http!Reuse
  BY <1>0, <1>3, BodyKept DEF Http!Reuse
<1>4. CASE Http!ConnectFails
  BY <1>0, <1>4, BodyKept DEF Http!ConnectFails
<1>5. CASE Http!NoResponse
  BY <1>0, <1>5, BodyKept DEF Http!NoResponse
<1>6. CASE Http!Respond
  <2>1. PICK n \in 0..MaxBody : h_body' = [len |-> n, got |-> 0]
    BY <1>6 DEF Http!Respond
  <2>2. h_body'.got = 0 /\ h_body'.len = n /\ n >= 0
    BY <2>1, HttpAssumption
  <2>3. h_pc' = "body" /\ output_len' = 0
    BY <1>6 DEF Http!Respond, HttpInv, Connection
  <2> QED
    BY <1>0, <2>2, <2>3 DEF Collected, Http!Shorter
<1>7. CASE Http!Chunk
  <2>1. PICK n \in 1..(h_body.len - h_body.got) :
           Http!OnData(h_body.got, n) /\ h_body' = [h_body EXCEPT !.got = @ + n]
    BY <1>7 DEF Http!Chunk
  <2>2. /\ output_len' = Http!Shorter(h_body.got + n, Http!Capacity)
        /\ \A i \in 0..(output_len' - 1) : h_buf'[i] = Http!ByteOf(serial', i)
        /\ h_buf'[output_len'] = Http!NUL
    BY <1>7, <2>1, Appended DEF Http!Chunk, HttpInv
  <2>3. h_body'.got = h_body.got + n /\ h_body'.len = h_body.len /\ h_body'.got <= h_body'.len
    <3>1. h_body \in [len : 0..MaxBody, got : 0..MaxBody]
      BY DEF HttpInv, HttpTypes, HttpScalars
    <3>2. h_body'.got = h_body.got + n /\ h_body'.len = h_body.len
      BY <2>1, <3>1
    <3> QED
      BY <3>1, <3>2, HttpAssumption
  <2>4. h_pc' = "body"
    BY <1>7 DEF Http!Chunk
  <2> QED
    BY <2>2, <2>3, <2>4 DEF Collected, Http!HoldsBody, Http!Shorter
<1>8. CASE Http!Finish
  <2>1. /\ h_pc = "body" /\ h_pc' = "judge" /\ UNCHANGED <<serial, h_body, h_buf>>
    BY <1>8 DEF Http!Finish
  <2>2. h_body.got > 0 => Http!HoldsBody(Http!Shorter(h_body.got, Http!Capacity))
    BY <1>0, <2>1 DEF Collected
  <2>3. h_body'.got > 0 => Http!HoldsBody(Http!Shorter(h_body.got, Http!Capacity))'
    BY <2>1, <2>2 DEF Http!HoldsBody, Http!Shorter
  <2> QED
    BY <2>1, <2>3 DEF Collected, Http!Shorter
<1>9. CASE Http!Cut
  <2>1. /\ h_pc = "body" /\ h_pc' = "judge" /\ UNCHANGED <<serial, h_body, h_buf>>
    BY <1>9 DEF Http!Cut
  <2>2. h_body.got > 0 => Http!HoldsBody(Http!Shorter(h_body.got, Http!Capacity))
    BY <1>0, <2>1 DEF Collected
  <2>3. h_body'.got > 0 => Http!HoldsBody(Http!Shorter(h_body.got, Http!Capacity))'
    BY <2>1, <2>2 DEF Http!HoldsBody, Http!Shorter
  <2> QED
    BY <2>1, <2>3 DEF Collected, Http!Shorter
<1>10. CASE Http!Succeed
  BY <1>0, <1>10, BodyKept DEF Http!Succeed
<1>11. CASE Http!Retry
  BY <1>0, <1>11, BodyKept DEF Http!Retry
<1>12. CASE Http!GiveUp
  BY <1>0, <1>12, BodyKept DEF Http!GiveUp
<1>13. CASE Http!ClearHTTPBuffer
  <2>1. h_pc' = "idle" /\ h_buf' = Http!Zeroed
    BY <1>13 DEF Http!ClearHTTPBuffer
  <2> QED
    BY <2>1 DEF Collected, Http!Zeroed
<1>14. CASE UNCHANGED Http!vars
  BY <1>0, <1>14 DEF Http!vars, Collected, Http!HoldsBody
<1> QED
  BY <1>1, <1>2, <1>3, <1>4, <1>5, <1>6, <1>7, <1>8, <1>9, <1>10, <1>11, <1>12, <1>13,
     <1>14 DEF Http!Next, Http!Perform, Http!Loop

LEMMA HttpInvariant == Http!Spec => []HttpInv
<1>1. HttpInv /\ [Http!Next]_(Http!vars) => HttpInv'
  BY Counters, ScalarsStep, BytesStep, CollectedStep DEF HttpInv, HttpTypes
<1> QED
  BY <1>1, HttpInit, PTL DEF Http!Spec

\* http_event_handler keeps its write position inside the buffer, and the server executes a
\* request at most once per attempt.
THEOREM HttpTyped == Http!Spec => []Http!TypeOK
<1>1. HttpInv => Http!TypeOK
  BY HttpAssumption DEF HttpInv, Attempted, HttpTypes, HttpScalars, BufferBytes, Http!TypeOK
<1> QED
  BY <1>1, HttpInvariant, PTL

\* From the first response on, local_response_buffer ends in a terminator.
THEOREM BufferTerminated == Http!Spec => []Http!Terminated
<1>1. HttpInv => Http!Terminated
  BY DEF HttpInv, Connection, Http!Terminated
<1> QED
  BY <1>1, HttpInvariant, PTL

\* A successful performRequest leaves the body of its own response in the buffer and nothing
\* else, whatever earlier attempts and requests on the same connection have written.
THEOREM BodyAlone == Http!Spec => []Http!BodyIntact
<1>1. HttpInv => Http!BodyIntact
  BY DEF HttpInv, Collected, Http!BodyIntact, Http!Success
<1> QED
  BY <1>1, HttpInvariant, PTL

\* local_response_buffer is a C string with the body of the last response alone.
THEOREM BufferKept == Http!Spec => []BufferSound
  BY BufferTerminated, BodyAlone, PTL DEF BufferSound, Http!BufferSound


\* A step within a call executes the request once or not at all.
LEMMA Within ==
    ASSUME h_pc # "idle", h_pc' # "idle", applied < MaxAttempts \/ applied' = applied,
           applied' \in {applied, applied + 1}
    PROVE  [Http!Request!ReqNext]_(Http!Request!reqVars)
  BY DEF Http!Request!ReqNext, Http!Request!Execute, Http!Request!reqVars

LEMMA StepImplements ==
    HttpInv /\ [Http!Next]_(Http!vars) => [Http!Request!ReqNext]_(Http!Request!reqVars)
<1> SUFFICES ASSUME HttpInv, [Http!Next]_(Http!vars)
           PROVE [Http!Request!ReqNext]_(Http!Request!reqVars)
  OBVIOUS
<1>0. applied \in Nat /\ h_attempt <= MaxAttempts /\ applied <= h_attempt
  BY HttpAssumption DEF HttpInv, Attempted
<1>1. CASE Http!PerformRequest
  BY <1>1 DEF Http!PerformRequest, Http!Request!ReqNext, Http!Request!Begin
<1>2. CASE Http!Open \/ Http!Reuse \/ Http!ConnectFails
  BY <1>2, Within DEF Http!Open, Http!Reuse, Http!ConnectFails
<1>3. CASE Http!NoResponse \/ Http!Respond
  <2>1. h_pc = "sent" /\ h_pc' \in {"judge", "body"} /\ applied' \in {applied, applied + 1}
    BY <1>3 DEF Http!NoResponse, Http!Respond
  <2>2. applied < MaxAttempts
    BY <1>0, <2>1, HttpAssumption DEF HttpInv, Attempted
  <2> QED
    BY <2>1, <2>2, Within
<1>4. CASE Http!Chunk \/ Http!Finish \/ Http!Cut \/ Http!Retry
  BY <1>4, Within DEF Http!Chunk, Http!Finish, Http!Cut, Http!Retry
<1>5. CASE Http!Succeed
  <2>1. h_pc = "judge" /\ h_pc' = "idle" /\ applied' = applied /\ Http!Success'
    BY <1>5 DEF Http!Succeed, Http!Success
  <2>2. applied > 0
    BY <1>5 DEF Http!Succeed, HttpInv, Acted
  <2> QED
    BY <2>1, <2>2 DEF Http!Request!ReqNext, Http!Request!End
<1>6. CASE Http!GiveUp
  <2>1. h_pc = "judge" /\ h_pc' = "idle" /\ applied' = applied /\ ~Http!Success'
    BY <1>6 DEF Http!GiveUp, Http!Success
  <2> QED
    BY <2>1 DEF Http!Request!ReqNext, Http!Request!End
<1>7. CASE Http!ClearHTTPBuffer \/ UNCHANGED Http!vars
  <2>1. h_pc' = h_pc /\ applied' = applied /\ Http!Success' = Http!Success
    BY <1>7 DEF Http!ClearHTTPBuffer, Http!vars, Http!Success
  <2> QED
    BY <2>1 DEF Http!Request!reqVars
<1> QED
  BY <1>1, <1>2, <1>3, <1>4, <1>5, <1>6, <1>7 DEF Http!Next, Http!Perform, Http!Loop

\* performRequest keeps the promise of HttpRequest: a success that it reports was executed by
\* the server in this call, and no request is executed more than MAX_ATTEMPTS times.
THEOREM RequestKept == Http!Spec => ImplementsRequest
<1>1. Http!Init => Http!Request!ReqInit
  BY DEF Http!Init, Http!Success, Http!Request!ReqInit
<1> QED
  BY <1>1, StepImplements, HttpInvariant, PTL
     DEF Http!Spec, ImplementsRequest, Http!ImplementsRequest, Http!Request!ReqSpec
==============================================================================
