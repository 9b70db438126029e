# A TLA+ model of ESP32-WROVER-PPP-AMB

The firmware samples air-quality sensors once a minute, averages five samples,
and stores the averages in a Firebase Realtime Database over a PPP link through
a cellular modem. It reads and writes JSON with its own copy of jsoncpp. This
directory holds TLA+ modules for these parts, the TLC configurations that check
them on small instances, and theorems that TLAPS checks for every instance.

## The system

| Part | Source | Modules | State |
|---|---|---|---|
| HTTP transport: `performRequest`, `http_event_handler` | `components/esp_firebase/app.cpp` | `HttpClient`, abstract `HttpRequest` | modelled |
| Authentication: login, register, refresh | `app.cpp` | `FirebaseClient`, `TokenRefresh` | partly |
| Database client: get, put, post, patch, delete, two trims | `components/esp_firebase/rtdb.cpp` | `FirebaseClient`, abstract `FirebaseStore`, `RtdbTree` | modelled |
| C interface with `g_app`, `g_rtdb` | `components/esp_firebase/firebase_c_shim.cpp` | `FirebaseClient` | modelled |
| Sensor task: sampling, payload, keys, retention, token timer | `main/main.c` 80-241 | `SensorTask`, `PowerCycle`, `TokenRefresh` | modelled |
| Boot: `app_main`, SNTP, geolocation | `main/main.c` 243-304 | `Boot` | modelled |
| Modem and PPP: start, IP events, name servers, serving cell | `main/modem_ppp.c` | `Boot`, `CellInfo`, `City` | partly |
| Sensors: SCD4x, SEN5x, checksum | `main/sensors.c` | `Sensors`, `SensorCrc` | modelled |
| City name | `main.c`, `modem_ppp.c`, `sensors.c` | `City` | modelled |
| JSON library | `components/jsoncpp` | `Json*` | partly |

Three activities run concurrently on the device: the main task, which boots and
then ends; the event task, which runs `on_ip_event` and restarts the device when
the link loses its address; and the sensor task, the only caller of the sensors
and of the Firebase client. The server, the modem, the I2C bus and the network are
the environment. A restart loses everything in RAM and keeps the database; a power
cycle also puts the clock back to 1970.

The parts are layered by promise. `HttpRequest` is what a call of
`performRequest` promises; `HttpClient` implements it, and `FirebaseClient` has
one action per `performRequest` that assumes no more than it. `FirebaseStore` is
what a call of the C interface promises, stated with the outcomes of `RtdbTree`;
`FirebaseClient` implements it, and `SensorTask` takes its calls from those same
outcomes. `FirebaseClient` and `SensorTask` assume that a call returns, which is
the liveness property of the layer below. In the JSON library, `JsonList` is what
the array interface of `Value` promises, and `JsonReader` what `OurReader` does
while its additional features are off.

## The modules

### The device

**`HttpClient`** Variables are the loop variable (`attempt`), the file-static
`output_len`, the buffer cell by cell (a byte is the number of its response and
its offset), the library's connection and status code, and what the call returns.
`PerformRequest` is the entry; `Open` (with `OnConnected`), `Reuse`,
`ConnectFails`, `NoResponse`, `Respond`, `Chunk` (with `OnData`), `Finish` (with
`OnFinish`) and `Cut` are the course of `esp_http_client_perform`; `Succeed`,
`Retry` and `GiveUp` are the code after it. The uninitialized buffer of
`new char[]` is a choice in `Init`. The library is external: each `perform()`
sends its own request, and one that reports an error leaves no connection to
reuse.

**`RtdbTree`** The node as a function from keys to values, and the outcomes of
each call: the value returned and the tree left behind. A call that fails may
have been executed. Keys are integers in the server's key order.

**`FirebaseClient`** Tokens are numbers the server issues, `live` the ones it
accepts, and `Expire` may strike at any moment. `url_token` is the token in the
URL that was built last, so a stale URL shows. `Invoke` and the actions under it
are the shim; `GetRefreshToken`, `GetAuthToken`, `GetAuthTokenFails` with
`AuthDone` are the authentication and the way back to the operation that asked
for it; `FirstRequest`, `SecondRequest`, `TrimOldestList`, `TrimOldestPatch` and
`TrimDaysList` are one `performRequest` each. A 200 with a malformed body stores
an empty token, as `asString` of a missing field does. A 401 may be the status of
an earlier answer, which the library still reports when a connection fails, so it does
not always mean that the token was refused (`Answered`). A body on which jsoncpp
aborts is a `Restart`. `MCFirebaseClient` gives the set of calls.

**`SensorTask`** One action per step of the loop: `ReadSensors`, `SendBatch`,
`RetainAndReset`, `Sleep`. The sums are the set `acc` of the samples they add up,
so a record shows which samples it averages. The clock counts minutes; `Key` and
`Fecha` are what `strftime` makes of it, with the century dropped in the key.
`max_items` depends on a running average of the payload length and is any value
between `ItemsLow` and `ItemsHigh`. `boot`, `taken`, `clean`, `lost`, `ghosts`
and `trimFails` are observers that only properties read.

**`PowerCycle`** extends `SensorTask` by `PowerLoss`, a restart that also loses
the clock. `lag` is what the clock is then behind, until `Sync`.

**`TokenRefresh`** The sensor task on the monotonic timer: when the fifty minutes
are looked at, how long the deletion at boot and the calls of an iteration take, what
a refresh that fails does to the schedule (`Schedule`), and that a PUT and a DELETE
renew the token after a 401 (`RenewIfRefused`) and a trim does not. The period, the
refresh period and the lifetime of a token are constants; the durations of calls are
only bounded for TLC. `looked` and `late` are observers: the last look at the timer,
and the time from the login to the first setting of the timer.

**`Boot`** The program counter of the main task with every early return and every
`ESP_ERROR_CHECK`, the queue of IP events, the event task and the link. The loop
limits are those of the code. Failed checks, `esp_restart` and a panic are the
state `reset`, from which `Reboot` starts again.

**`Sensors`** `AddDevices` and `StartSensors` are `sensors_init_all`; the actions
under `Read` are `sensors_read` up to each of its early returns. A value is the
number of the read it belongs to, so a mixed reading shows; any of the words that
arrive may be damaged, and each has its width.

**`SensorCrc`** The rounds of `sen5x_crc8` on a word and its checksum as received,
against the remainder of a polynomial division.

**`CellInfo`** `AT+CPSI?` with its repetitions, `cpsi_se_ve_valido`, and
`parse_cpsi_line` token by token. A line is the sequence of what stands between its
commas; it may be cut behind a field or within one (`Stumps`), and `strtok_r` passes
over an empty field, so that the ones after it move up.

**`City`** The attempts of the geolocation, `json_get_string` on an answer that may
be cut within a member, `build_city_hyphen` and `sensors_set_city_state` with their
buffers.

**`Device`** puts the parts around the sensor task side by side: the token timer, the
sensors, the cell, the city and the boot. They share no state; each keeps its own
specification, and `Device` states what each must keep. **`HttpCalls`** does the same
for the HTTP client, whose state it names apart from theirs. **`MCDevice`** adds the
checksum and runs them for TLC: a behaviour is one of one part (`part`), and the others
rest in an initial state.

### The JSON library

**`JsonGrammar`** Tokens, trees of Values as functions from paths, and the grammar
of RFC 8259 as an automaton that listens to the tokens read.

**`JsonDescent`, `JsonReader`, `JsonOurReader`** The recursive descent over tokens,
with the call stack, `nodes_`, the tree being filled, the recovery after an error
and the placing of comments. What the two readers have in common is in
`JsonDescent`; each has its own `readObject`, `readArray` and end of `parse`. How the
reader was made is the variable `features`, and the tokens of its documents the
variable `alphabet`: no step changes them, and `Init` leaves them open. The document
is any sequence of these tokens, chosen as it is read, and one reader may read two
documents. **`JsonReading`** states what holds of either reader, and **`JsonReaders`**
what they have in common, with `Reader` as an instance over the state of `OurReader`.

**`JsonLexer`** `readToken` character by character, the features that change it, and
`getLocationLineAndColumn`.

**`JsonNumber`** `readNumber` and both forms of `decodeNumber`, with the largest
integers as constants; `JsonNumbers` names its state apart from that of the readers.

**`JsonString`** `valueToQuotedStringN`, `readString` and `decodeString` byte by
byte, with UTF-8, escapes and surrogates.

**`JsonValue`** The container operations of `Value`: an array is a map from indexes
that may have holes, an object a map from names that may hold zero characters. A
failed `JSON_ASSERT` ends the program.

**`JsonConvert`, `JsonCompare`, `JsonMemory`, `JsonPath`** The questions `isX` and the
conversions `asX`, with doubles whose mantissa is shorter than an `Int64`; the
order of Values; who owns which buffer through copies, moves and swaps; and paths,
from their text to the node they make or find.

**`JsonWriter`** `FastWriter` as a function, and the three writers that indent and
write comments, as a list of what is still to be done. A document is a sequence of
tokens, newlines, blanks and comments.

**`JsonArrays`, `JsonValues`** state what the containers, and the memory and the
order of `Value`, must keep.

**`MCJsonReading`, `MCJsonValues`** instantiate these for TLC, again one part at a
time; the readers in six configurations, each with its own features, tokens and
bounds within `MaxTokens` and `MaxDocs`.

## The runs

| Run | Checks | Distinct states |
|---|---|---|
| `firebase_client` | `FreshUrl` `TimeoutScoped` `ImplementsStore` `CallReturns` | 399 thousand |
| `sensor_task` | `CountDrift` `HistoryTracked` `RecordsSound` `NeverOverwritten` `TrimsOldestOfYear` `BatchFlushed` | 803 thousand |
| `power_cycle` | `OverwrittenOnlyIn1970` | 496 thousand |
| `device` | `TokenFresh` `ReadingSound` `AcceptsOnlyIntact` `CellOfLine` `CityNamed` `ReadReturns`, `OnlineOrDoomed` `BootOrdered` `BootSettles` `LossRestarts`, `BufferSound` `ImplementsRequest` `CallReturns` | 291 thousand |
| `json_reading` | `IntegerIfItFits` `OnThePath` `AcceptsJson` `CommentsPlaced` `TokensEnd` `ParseEnds` `ImplementsReader` `Consecutive` | 1.4 million |
| `json_values` | `ArraysWhole` `ImplementsList` `Conversions` `TotalOrder` `OwnedOnce` `PathFound` `ReadsBack` `StringsKept` | 1.5 million |
| `http_logged_string` | `LoggedStringTerminated`: `app.cpp:59` and `:158` | violated |
| `get_data_retry` | `GetRetriesWithNewToken`: `rtdb.cpp:50` and `:70` | violated |
| `retention_budget` | `RetentionBudget`: `main.c:205` | violated |
| `trims_oldest_unsynced` | `TrimsOldest`: `rtdb.cpp:265`, with a clock that is not set | violated |
| `cell_complete` | `CellComplete`: `modem_ppp.c:105` and `:474` | violated |

What the passing runs show of the device:

- The shared response buffer holds, after a success with a body, that body and
  nothing of an earlier attempt, terminated inside the buffer. `BufferSound` says
  nothing of an answer without a body on a reused connection.
- A reported success was executed by the server in that call. A reported failure
  promises nothing, and `firebase_push` may add several children.
- Every write and every delete sends the token the client holds at that moment,
  and the ten-minute timeout never survives `deleteData`.
- The timer of the renewals leaves the ten minutes by which a token outlives its fifty:
  a PUT or a trim within that time of the last look at the timer, less what the first
  setting of the timer came late, has a token that has not expired, unless the last
  renewal failed. Longer calls, and a deletion at boot of more than ten minutes, use
  the margin up.
- A record averages exactly one batch of one boot; no sample is in two records;
  a date change between two stored records of consecutive batches is marked. No
  record is overwritten, unless a power cycle, a failed deletion at boot and a
  missing SNTP answer come together.
- `approx_count` never falls below the size of the history after a boot that
  emptied it, and it exceeds that size by exactly the PUTs that were not stored
  and the records removed by a PATCH whose answer was lost. So the retention block
  errs on one side: after failures it trims too early, never too late. While the
  records are of one side of the year jump, a trim removes the oldest.
- A boot ends in a running device, an idle one without sensors, or a restart; a
  lost link always restarts the device; each step of `app_main` finds the mode,
  the name servers and the city it needs.
- A reading is of one call and both sensors, and no word of the SEN5x in it failed
  its checksum, which detects every error of up to three bits and every burst of
  up to eight. `sensors_read` returns whether or not the sensors were started.
- The numbers of the cell are those of the third, fourth and fifth field that is not
  empty of the last line, with 0 for a field that is missing, and that line had none
  of the marks of a missing cell; city and state come from one answer, and the name
  fits its buffers without separators.

And of the JSON library:

- `Reader` accepts a document without comments and empty names exactly when it
  begins with a JSON text; in strict mode `OurReader` accepts only JSON texts.
  After any error `nodes_` is still the path to the current Value, the tree is well
  formed, the error is reported, and `parse` ends.
- `OurReader` with its own features off takes the steps of `Reader`.
- `lastValue_` never dangles, and the comments that `OurReader` collects are kept.
- Integers that fit are decoded exactly, at both ends of the range; no others are.
- An array indexed as the readers do it is a list. Conversions agree with their
  questions, the order is total, buffers have one owner, and a path that was made
  is found.
- What a writer writes reads back as the value, with every comment; strings survive
  writing and reading, and bytes that are not UTF-8 are stable after one round.

What the violated properties show:

- A first connection that fails logs a buffer no one has written to.
- `getData` repeats its request with the token that was refused.
- A deletion at boot that fails goes unnoticed: the count starts at zero next to
  the old history, which then outgrows the budget.
- Records stored before the clock is set have keys of 1970, which sort last, so a
  trim removes newer records in their place.
- `cpsi_se_ve_valido` looks for the marks of a null cell and not for its fields, and
  `parse_cpsi_line` is content with the network: a line that ends before the area or
  the cell is taken as complete, with identifiers of 0.

### Where the properties stop

Behaviour of the code that the properties are worded around:

- `performRequest` tries five times; the comment of `app.cpp:109` says twice.
- The checksums of the SCD4x are not looked at, the results of starting the sensors
  are ignored, and a temperature below zero is decoded as an unsigned word.
- A CPSI line with an empty field gives the numbers of the fields after it, and one
  that was cut within a number gives the number that is left. `CellOfLine` states which
  field of the line a number comes from, not that it is the number of the cell.
- A refresh that fails is tried again after fifty more minutes, when the token has
  expired; a PUT then renews it, a trim fails. `TokenFresh` leaves the time after a
  failed renewal out, and says nothing of calls that take longer than the margin.
- `first_send` and `last_fecha_str` change before the PUT (`main.c:166-178`), whose
  result is ignored (`main.c:202`): a PUT that is lost takes the start, the city or the
  new date with it, and the day of the records after it can then not be told from the
  history. `RecordsSound` is about the stored records of two consecutive batches.
- Both readers skip comments inside objects and arrays although they are not
  allowed, and take the token after a comment in place of a comma; `{"":1,}` is
  accepted, because an empty name stands for "no member yet". `AcceptsJson` leaves
  documents with comments and empty names out. A zero byte ends a document.
- `Reader` loses the first of two comments on a line; `CommentsPlaced` states the
  collection of comments for `OurReader` only.
- A lone `-` and leading zeros are numbers for the readers. A slash that ends the text
  closes a comment, so `/*/` is one there (`TokensEnd`).
- An array with holes fails the assertion of `resize`, and `get` answers with the
  default inside it; `ArraysWhole` and `ImplementsList` are about arrays without.
- `removeMember(String)` forwards a C string and loses what follows a zero
  character; the forms with a length are the ones modelled. `StyledWriter` and
  `StyledStreamWriter` write a member name as a C string as well; in `JsonWriter` a
  name is one token, without a zero character.
- `asInt64` and `asUInt64` let the limit rounded to a double through (`Conversions`).
- A line comment that ends in a blank makes `StyledWriter` leave out the newline, and
  the compact `BuiltStyledStreamWriter` writes a line comment without one;
  `ReadsBack` is checked without such comments there, and would not notice either.
- Cases of the JSON library that the inputs leave out: a number with a `+` in front,
  which `OurReader` takes for one and always decodes to a double; in `JsonString`,
  strings in single quotes, and bytes that are no UTF-8 in runs of more than three, so that a lead byte of
  four is met with valid code points only; a zero character within the text of a path.

## Bounds

- `HttpClient`: a buffer of 3 cells and bodies of up to 3 bytes, so that a body is
  shorter than, equal to and longer than what fits; two calls, so that the
  connection, the buffer and the status of the first meet the second; five
  attempts, as in the code; statuses 200, 401 and 500, one of each kind the code
  or the server tells apart.
- `FirebaseClient`: three keys and trims of 0, 1 and 2, so that a trim is refused,
  partial and complete; four calls, enough for `firebase_init`, two writes and a
  trim; two tokens, so that one expires and is replaced; one restart.
- `SensorTask`: batches of 2 (the least at which a batch spans a sleep), a trim
  batch of 2 and a budget of 1 or 2, so that the history passes its high-water mark
  and is trimmed within a dozen minutes; days of 4 minutes; two boots. `PowerCycle`
  has three boots and eight minutes, so that keys of 1970 come twice.
- `Boot`: the constants of the code, 30 polls of CEREG and 3 of CPSI, without CMUX as
  `app_main` asks; two attempts at the city, as in `City`.
- `TokenRefresh`: a period of 1, a refresh every 5, a lifetime of 8, calls of up to 3
  and a deletion at boot of up to 9, so that the margin of 3 is kept, used up and
  exceeded and tokens do expire; three refreshes' worth of time.
- `Sensors`: 3 polls, 3 words of 3 bits (`HalfWord` is half their range), two reads. `SensorCrc`: the real width,
  three words, all errors of the classes above. `CellInfo`: the three tries of the code, and per field a
  null, an ordinary and, for network and cell, an empty text. `City`: two
  attempts, so that the first leaves something behind; names, as texts, that are
  empty, shorter than the buffer, cut by it, and with separators.
- The readers: documents of up to 7 or 8 tokens and two names, with a stack limit
  of 2, so that it is passed; 10 tokens, one name and a limit of 3 where comments
  are collected, the least at which a repeated name destroys a container that held
  the last value. The lexer: all texts of up to 5 fragments of an alphabet per
  question. Numbers: widths of 5 and 8 bits and all tokens of up to 5 characters,
  which pass both limits.
- `Value`: arrays of up to 5 elements, three variables and six buffers,
  widths of 3 and 7 bits with a mantissa of 4. Writers: containers of up to two
  values in containers. Strings: two code points at the limits of each encoding
  length, three bytes, or six fragments of a document.

## Fairness

- `HttpClient`: weak fairness of the steps of a call, not of the caller. Socket
  operations have a timeout and the pause between attempts is finite.
- `FirebaseClient` and `SensorTask`: weak fairness of the steps of the caller,
  because `performRequest` and the C interface return. Nothing is assumed of
  tokens, of the server or of restarts.
- `Boot`: weak fairness of the main task, whose waits all have a timeout, of the
  event task, and of a restart. Nothing is assumed of the link.
- `Sensors`: weak fairness of the steps of `sensors_read`; every transfer on the bus
  has a timeout of a second.
- `MCJsonReading`: weak fairness of the steps of `parse`, which is a sequential
  function. Another document need not follow.

Deadlock is not checked: every run has a part that stops at its bounds. That a boot
and a call do not get stuck is what the liveness properties say.

## The proofs

Eight modules hold theorems, each for every value of the constants that the named
assumptions allow. The properties are seldom kept by every step as they stand; each
entry says what the inductive invariant adds.

### The device

**`SensorTaskProofs`**, from `TaskAssumption`: a batch has at least two samples (the
code has five), a trim batch at least one record, and the other constants are
numbers in the obvious order.

- `TypeCorrect`: `Spec => [](TypeOK /\ Room)`. `TypeOK` is not inductive: a read
  could take `sample_count` past a batch. `Room` adds that outside of the two steps
  that dispose of a batch it is not full.
- `HistoryBounded`: `Spec => []HistoryTracked`. Its two conjuncts are inductive
  together: when the retention block does not trim, the bound on the size follows
  from the count. A trim either removes nothing and is counted in `trimFails`, or
  removes `n > 0` records and takes at most `n` off the count (`TrimSize`).
- `RecordsKept`: `Spec => NeverOverwritten`. `KeyTimes` is the invariant: no key is
  ahead of the clock, and once a batch has a sample and the task has slept, every
  key is behind it. That is why a batch needs two samples: a restart within the
  minute of a PUT still sleeps before its own. `KeysApart` shows that keys of
  different minutes differ whatever the two digits of their years, so the jump from
  1970 does no harm.
- `DriftAccounted`: `Spec => []CountDrift`. It needs `KeyTimes`, because a PUT on an
  existing key would count a record that adds none, and that the counters of a boot
  start at zero.
- `Integrity`, `DatesMarked` and with them `RecordsReadable`,
  `Spec => []RecordsSound`. The invariant adds that a full batch has as many samples
  as `sample_count` says (`Full`, `Accumulated`), that the samples of the open batch
  are younger than those of every record (`Younger`), and that `last_fecha_str` is
  the date of the last record that was sent (`Remembered`).
- `OldestTrimmed`: `Spec => TrimsOldestOfYear`. The key of a record is made of the
  year its date states (`KeyOfYear`), and of two records of one year the one with the
  smaller key was sampled first (`KeyOrder`).
- `ReplacedOnlyIn1970`: `PSpec => OverwrittenOnlyIn1970`, for a device that loses its
  power. `PKeyTimes` states `KeyTimes` twice: in minutes since the first boot, and,
  after a boot that emptied the history, by the clock as it was put back.

The lemmas `PutTree`, `WithoutTree` and `TrimShape` say what the outcomes of
`RtdbTree` do to the keys, and `DbStep` that the history changes in no other way.

**`FirebaseClientProofs`**, from `ClientAssumption`: the calls are those of the C
interface, with keys that are numbers and finite sets of them.

- `CurrentToken`, `Spec => []FreshUrl`, and `TimeoutRestored`,
  `Spec => []TimeoutScoped`. `Places` says which operations can be at which point of
  the client; `Renewed` how every way through the authentication leads back.
- `StoreImplemented`: `Spec => ImplementsStore`. A call of many requests is one step
  of `FirebaseStore`, at its return; until then `RInv` says which trees the call can
  have reached from the tree it found (`Reached`), that nothing is written before the
  first request, and that the keys that `trimDays` has still to delete are not among
  the newest.
- The HTTP client, from `HttpAssumption` (sizes are numbers, the buffer and the
  attempts at least one): `HttpTyped`, `BufferTerminated` and `BodyAlone`, with them
  `BufferKept`, `Http!Spec => []BufferSound`; and `RequestKept`,
  `Http!Spec => ImplementsRequest`. The invariant relates the buffer and `output_len`
  to the part of the body that has arrived (`Collected`), the connection to what has
  been zeroed (`Connection`), and the executions to the attempts (`Attempted`,
  `Acted`).

**`DeviceProofs`**, one section for each part of `Device`.

- The token, from `TimeAssumption`, which says only that times are numbers and the
  refresh period is not 0: nothing is assumed of how long calls take.
  `Fresh`: `Spec => []TokenFresh`. `Timely` is the invariant: at the last look the timer
  was ahead, it is never more than a period ahead of now, and, unless the last renewal
  failed, the token outlives it by the margin less the delay of its first setting. A
  renewal by a PUT moves the expiry and not the timer, which is why the second part is
  needed.
- The other parts, from `DeviceAssumption`: loops run at least once, the
  buffer of the city holds more than four characters.
  - `ReadingKept`: `Sensor!Spec => []ReadingSound`. A read in progress is newer than
    what the caller has, and the words to decode are of it (`SensorInv`).
  - `CellKept`: `Cell!Spec => []CellOfLine`, for lines with empty fields and cut
    anywhere. While `parse_cpsi_line` runs, the tokens are what is left of the line,
    `tokenId` counts the fields passed that are not empty, and what was read of them is
    in the structure (`Parsing`); `FilledStep` and `FilledLater` say how the n-th field
    that is not empty is found one token at a time.
  - `CityKept`: `Geo!Spec => []CityNamed`. No attempt leaves a name behind for the
    next (`CityInv`); `Picked` says where a member was cut, `JoinedName` what
    `build_city_hyphen` makes of it.
  - `BootTyped`, `LossNoticed` (`Start!Spec => []OnlineOrDoomed`), and `CommandMode`,
    `NamesResolve`, `CityKnown`, with them `Ordered` (`Start!Spec => []BootOrdered`).
    `Queue` lists the event queues that can occur with each state of the link and
    `Stages` what each stage of the boot has behind it; without them a LOST_IP could
    be missing from the queue of a device that runs.

### The JSON library

**`JsonPartsProofs`**

- Numbers, from `NumbersAssumption`: the largest integers are in order and hold a
  digit. `NeverWraps`, `Number!Spec => []Number!NoWrap`: the loop of `decodeNumber`
  never wraps around. `exact` is the number without a width; `NoWrap` says that
  `value` is the same number, and the invariant adds that the loop starts from zero.
  `IntegersExact`, `Number!Spec => []IntegerIfItFits`: `Decoding` says that `value` is
  the number of the digits passed, and, when the loop gives up, that the next digit
  makes it too large. The number of a token is a
  recursive function of its prefixes; that it is well defined and grows with each digit
  (`PrefixesExist`, `PrefixesGrow`) is proved by least counterexample (`Least`).
- Arrays, from `ArraysAssumption`. `ArraysKept`, `Container!Spec => []ArraysWhole`: while
  an array is indexed at its end or before it (`dense`) its indexes are those below its
  size. `ListImplemented`, `Container!Spec => ImplementsList`: the map is the list of
  `JsonList` (`ListOf`), operation by operation.

**`JsonValuesProofs`**, from `ValuesAssumption`.

- `OwnershipKept`: `Memory!Spec => []OwnedOnce`. The invariant is the property of Values
  that the operations can leave behind (`IsValue`); every operation lets one or two
  Values exchange what they own for what nobody owns (`Exchanges`).
- `OrderTotal`: `Comparison!Spec => []TotalOrder`, for strings of all bytes and lengths
  and arrays with holes: a lexicographic order of a strict total order is one, applied
  to strings, to entries and to containers.

**`JsonReadingProofs`**, from `DescentAssumption`, for both readers, every choice of
features, every stack limit, and documents of every length and depth. `StepCases` sorts
the steps of both readers once; every proof about them goes by these cases.

- `PathKept`: `Spec \/ OurSpec => []OnThePath`. `Chain` relates the three descriptions of
  where the reader is: each active function reads the Value at its height in `nodes_`,
  and an array has exactly the elements its `readArray` has counted. `Where` says which
  function may be at which point, `Typed` that the comments kept are comments read.
  `SwappedTree` and `ResolvedTree` say what `swapPayload` and `resolveReference` do to a
  tree: they may destroy what is below a repeated name, never what is on the path.
- The invariants `Counted` (errors and failed functions go together), `Begun` (around the
  Value being read, every object has a name and every array an element), `LastPlace`
  (`lastValue_` is never deeper in the container being read than one of its members) and
  `Fresh` (with repeated names refused, a Value that is about to be read is new) are for
  the next two modules.

**`JsonTextProofs`**: `TextsAccepted`, `Spec \/ OurSpec => []AcceptsJson`. `Follows` is the
heart of it: wherever a function is that has not failed, what the automaton of RFC 8259
still expects is what that function and the ones around it will read (`Awaited`). `Ahead`
adds that before the first element the token ahead is no `]`, and `Refused` that a
function of `Reader` fails only where the grammar refuses.

**`JsonReadersProofs`**

- `CommentsKept`: `Spec \/ OurSpec => []CommentsPlaced`. By `LastPlace` the member that is
  destroyed next is not around the last value. With repeated names refused, each comment
  read is pending or kept once, at a Value that exists, and the Values being read have
  none on their line yet (`Kept`, with `Fresh`).
- `ReadersAgree`: `Spec \/ OurSpec => ImplementsReader`. Step by step, what `OurReader` does
  with its own features off is a step of `Reader` in the same state with its features and
  its `nodes_` (the root is popped at the end by one of the two only). `Looked` is needed
  because `OurReader` tests for `]` before every element and `Reader` before the first
  only. With `rejectDupKeys_`, `Fresh` gives that a Value has its payload once.

### Only model-checked

- Liveness: `CallReturns` of both clients, `BatchFlushed`, `BootSettles`, `LossRestarts`,
  `ReadReturns`, `ParseEnds`. It rests on fairness, which the prover does not treat.
- `AcceptsOnlyIntact`, a fact about bitwise operations on one width; `ReadsBack`, whose
  writers and reader are recursive operators: neither is within the provers' reach.
- `TokensEnd`, `Consecutive`, `StringsKept`, `PathFound`: each compares a loop over
  characters with a definition that quantifies over the whole text. `Conversions`
  compares limits of types, which TLC enumerates.

## Assumptions

- One task calls the Firebase client, and only this device writes the history.
- A request whose call has ended is not executed by the server later.
- The wall clock runs on over `esp_restart` and SNTP does not set it back by
  minutes.
- Keys have seconds in the code; the model has minutes, which is coarser, so keys
  that differ in the model differ in the code.
- A build without exceptions, in which `JSON_ASSERT` and `JSON_FAIL_MESSAGE` end the
  program.

## Not modelled

- `refreshAuthIfNeeded` and the expiry bookkeeping it reads: nothing calls it.
- The AT exchange with the modem below its answers, and the buffer of an answer byte
  by byte: the driver is external.
- In jsoncpp: the settings of the two builders, which copy values from one structure
  to another; iterators; the printing of doubles, which is `snprintf`; the offsets of
  Values in a document; overloads that only forward; the wording of errors.
- `TokenRefresh` and `SensorTask` are not composed: the one is about the monotonic
  timer, the other about the wall clock, and the token reaches `SensorTask` only as a
  call that fails, which it may do at any time there.
- Restarts come from anywhere in `SensorTask` rather than from the link of `Boot`,
  which allows more behaviours than a composition of the two would.
- Logging, formatting and the layout of payloads.
