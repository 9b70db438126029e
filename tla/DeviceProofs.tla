----------------------------- MODULE DeviceProofs -----------------------------
(***************************************************************************)
(* The parts of the device, for all values of their constants: the timer of *)
(* the renewals leaves the margin it is meant to leave, a reading is of one *)
(* read, the cell has the numbers of the fields that the line has, the name *)
(* of the city has no separators and fits, and the start does each step     *)
(* when it can and notices the loss of the link.                            *)
(***************************************************************************)
EXTENDS Device, SequenceTheorems, FiniteSetTheorems, WellFoundedInduction, TLAPS

------------------------------------------------------------------------------
(* The token *)

\* What makes it so: at the last look the timer was ahead, and the token was issued no earlier
\* than Refresh before the timer strikes, or than the delay before it was first set.
Timely ==
    /\ pc = "setup" => now = 0 /\ expiry = Lifetime
    /\ pc # "setup" =>
          /\ looked < next_refresh /\ next_refresh <= now + Refresh
          /\ good => next_refresh + Lifetime <= expiry + Refresh + late

TokenInv == TypeOK /\ Timely

\* The invariant holds when firebase_init has returned.
LEMMA TokenInit == Init => TokenInv
BY TimeAssumption DEF Init, TokenInv, TypeOK, Timely

\* A renewal gives a token that lives Lifetime from a time not before the call, whatever
\* forceRefreshAuth does.
LEMMA RenewedExpiry ==
    ASSUME TypeOK, now' \in Nat, Renew
    PROVE  /\ expiry' \in Nat /\ good' \in BOOLEAN
           /\ good' => now + Lifetime <= expiry'
<1>1. CASE good' = TRUE /\ \E issued \in now..now' : expiry' = issued + Lifetime
    <2>1. PICK issued \in now..now' : expiry' = issued + Lifetime
        BY <1>1
    <2>2. expiry' \in Nat /\ now + Lifetime <= expiry'
        BY <2>1, TimeAssumption DEF TypeOK
    <2> QED
        BY <1>1, <2>2
<1>2. CASE good' = FALSE /\ expiry' \in {now', expiry}
    BY <1>2 DEF TypeOK
<1> QED
    BY <1>1, <1>2 DEF Renew

\* After a call that renews when it is refused the token is the one it was, or a new one.
LEMMA RefusedExpiry ==
    ASSUME TypeOK, now' \in Nat, RenewIfRefused
    PROVE  /\ expiry' \in Nat /\ good' \in BOOLEAN
           /\ good' => (good /\ expiry' = expiry) \/ now + Lifetime <= expiry'
BY RenewedExpiry DEF RenewIfRefused, TypeOK

\* Time passes by some natural number.
LEMMA Passing ==
    ASSUME TypeOK, NEW most \in Nat, Passes(most)
    PROVE  now' \in Nat /\ now <= now'
BY DEF Passes, TypeOK

\* A timer set r ahead of a stays at most r ahead of what is later.
LEMMA AheadOf ==
    ASSUME NEW n \in Nat, NEW a \in Nat, NEW b \in Nat, NEW r \in Nat, n <= a + r, a <= b
    PROVE  n <= b + r
OBVIOUS

\* A token issued at a, which lives l, outlives a timer set r after it by what the lifetime
\* leaves.
LEMMA Outlives ==
    ASSUME NEW n \in Nat, NEW a \in Nat, NEW r \in Nat, NEW l \in Nat, NEW e \in Nat, NEW s \in Nat,
           n <= a + r, a + l <= e
    PROVE  n + l <= e + r + s
OBVIOUS

\* A timer n set r after a is ahead of a.
LEMMA TimerAhead ==
    ASSUME NEW a \in Nat, NEW r \in Nat, r > 0, NEW n, n = a + r
    PROVE  n \in Nat /\ a < n /\ n <= a + r
OBVIOUS

\* A token that expires at e outlives a timer n set r after a by what the lifetime l leaves,
\* less the s that has passed since the token was issued.
LEMMA TimerOutlived ==
    ASSUME NEW a \in Nat, NEW r \in Nat, NEW l \in Nat, NEW e \in Nat, NEW s \in Nat,
           NEW n, n = a + r, a + l <= e + s
    PROVE  n + l <= e + r + s
OBVIOUS

\* Sums keep the order.
LEMMA Shifted ==
    ASSUME NEW a \in Nat, NEW b \in Nat, NEW r \in Nat, a <= b
    PROVE  a + r <= b + r /\ r + a <= b + r /\ a <= b + 0
OBVIOUS

\* Every step of sensor_task keeps the invariant.
LEMMA TokenStep == TokenInv /\ [Next]_vars => TokenInv'
<1> SUFFICES ASSUME TokenInv, [Next]_vars PROVE TokenInv'
    OBVIOUS
<1>00. Refresh \in Nat /\ Refresh > 0 /\ Lifetime \in Nat /\ Period \in Nat
       /\ MaxSetup \in Nat /\ MaxWork \in Nat
    BY TimeAssumption
<1> USE <1>00
<1>0. /\ now \in Nat /\ next_refresh \in Nat /\ expiry \in Nat /\ looked \in Nat /\ late \in Nat
      /\ TypeOK
    BY DEF TokenInv, TypeOK
<1>1. CASE Setup
    <2>1. now = 0 /\ expiry = Lifetime /\ now' \in Nat
        BY <1>0, <1>1, Passing DEF Setup, TokenInv, Timely
    <2>2. expiry' \in Nat /\ good' \in BOOLEAN /\ (good' => Lifetime <= expiry')
        BY <1>0, <1>1, <2>1, RefusedExpiry DEF Setup
    <2>3. pc' = "sample" /\ next_refresh' = now' + Refresh /\ looked' = now' /\ late' = now'
        BY <1>1 DEF Setup
    <2>4. ASSUME good' PROVE next_refresh' + Lifetime <= expiry' + Refresh + late'
        <3>1. Lifetime <= expiry'
            BY <2>2, <2>4
        <3>2. now' + Lifetime <= expiry' + now'
            BY <2>1, <2>2, <3>1, Shifted, Zenon
        <3>3. next_refresh' + Lifetime <= expiry' + Refresh + now'
            BY <2>1, <2>2, <2>3, <3>2, TimerOutlived, Zenon
        <3> QED
            BY <2>3, <3>3, Zenon
    <2>5. next_refresh' \in Nat /\ looked' < next_refresh' /\ next_refresh' <= now' + Refresh
        <3>1. next_refresh' \in Nat /\ now' < next_refresh' /\ next_refresh' <= now' + Refresh
            BY <2>1, <2>3, TimerAhead, Zenon
        <3> QED
            BY <2>3, <3>1, Zenon
    <2>6. TypeOK'
        BY <2>1, <2>2, <2>3, <2>5 DEF TypeOK
    <2> QED
        BY <2>3, <2>4, <2>5, <2>6 DEF TokenInv, Timely
<1>2. ASSUME /\ Works /\ pc # "setup" /\ pc' \in {"put", "trim", "check"}
             /\ expiry' \in Nat /\ good' \in BOOLEAN
             /\ good' => (good /\ expiry' = expiry) \/ now + Lifetime <= expiry'
      PROVE  TokenInv'
    <2>1. now' \in Nat /\ now <= now' /\ UNCHANGED <<next_refresh, looked, late>>
        BY <1>0, <1>2, Passing DEF Works
    <2>2. /\ looked < next_refresh /\ next_refresh <= now + Refresh
          /\ good => next_refresh + Lifetime <= expiry + Refresh + late
        BY <1>2 DEF TokenInv, Timely
    <2>3. next_refresh <= now' + Refresh
        BY <1>0, <2>1, <2>2, AheadOf
    <2>4. ASSUME good' PROVE next_refresh + Lifetime <= expiry' + Refresh + late
        <3>1. CASE good /\ expiry' = expiry
            BY <2>2, <3>1
        <3>2. CASE now + Lifetime <= expiry'
            BY <1>0, <1>2, <2>2, <3>2, Outlives
        <3> QED
            BY <1>2, <2>4, <3>1, <3>2
    <2>5. TypeOK'
        BY <1>0, <1>2, <2>1 DEF TypeOK
    <2> QED
        BY <1>2, <2>1, <2>2, <2>3, <2>4, <2>5 DEF TokenInv, Timely
<1>3. CASE Sample
    BY <1>0, <1>2, <1>3 DEF Sample, TypeOK
<1>4. CASE Put
    <2>1. now' \in Nat
        BY <1>0, <1>4, Passing DEF Put, Works
    <2> QED
        BY <1>0, <1>2, <1>4, <2>1, RefusedExpiry DEF Put
<1>5. CASE Trim
    BY <1>0, <1>2, <1>5 DEF Trim, TypeOK
<1>6. CASE CheckTimer
    <2>0. pc = "check" /\ pc' = "sleep" /\ looked' = now
        BY <1>6 DEF CheckTimer
    <2>1. CASE now >= next_refresh
        <3>1. Passes(MaxWork) /\ Renew /\ next_refresh' = now + Refresh /\ late' = 0
            BY <1>6, <2>1 DEF CheckTimer, Schedule
        <3>2. now' \in Nat /\ now <= now'
            BY <1>0, <3>1, Passing
        <3>3. expiry' \in Nat /\ good' \in BOOLEAN /\ (good' => now + Lifetime <= expiry')
            BY <1>0, <3>1, <3>2, RenewedExpiry
        <3>4. next_refresh' \in Nat /\ looked' < next_refresh' /\ next_refresh' <= now' + Refresh
            <4>1. next_refresh' \in Nat /\ now < next_refresh'
                BY <1>0, <3>1, TimerAhead, Zenon
            <4>2. now + Refresh <= now' + Refresh
                BY <1>0, <3>2, Shifted, Zenon
            <4> QED
                BY <2>0, <3>1, <4>1, <4>2, Zenon
        <3>5. ASSUME good' PROVE next_refresh' + Lifetime <= expiry' + Refresh + late'
            <4>1. now + Lifetime <= expiry'
                BY <3>3, <3>5
            <4>2. now + Lifetime \in Nat /\ 0 \in Nat
                BY <1>0
            <4>3. now + Lifetime <= expiry' + 0
                BY <1>0, <3>3, <4>1, <4>2, Shifted, Zenon
            <4>4. next_refresh' + Lifetime <= expiry' + Refresh + 0
                BY <1>0, <3>1, <3>3, <4>2, <4>3, TimerOutlived, Zenon
            <4> QED
                BY <3>1, <4>4, Zenon
        <3>6. TypeOK'
            BY <1>0, <2>0, <3>1, <3>2, <3>3, <3>4 DEF TypeOK
        <3> QED
            BY <2>0, <3>4, <3>5, <3>6 DEF TokenInv, Timely
    <2>2. CASE ~(now >= next_refresh)
        BY <1>0, <1>6, <2>0, <2>2 DEF CheckTimer, TokenInv, TypeOK, Timely
    <2> QED
        BY <2>1, <2>2
<1>7. CASE Sleep
    BY <1>0, <1>7 DEF Sleep, TokenInv, TypeOK, Timely
<1>8. CASE UNCHANGED vars
    BY <1>8 DEF vars, TokenInv, TypeOK, Timely
<1> QED
    BY <1>1, <1>3, <1>4, <1>5, <1>6, <1>7, <1>8 DEF Next

\* In every reachable state the timer was ahead when it was looked at, and the token is no older
\* than the timer allows.
LEMMA TokenInvariant == Spec => []TokenInv
BY TokenInit, TokenStep, PTL DEF Spec

\* A PUT or a trim of sensor_task that is sent no later after the last look at the timer than
\* the lifetime exceeds the period of the timer, the delay of its first setting included, is
\* sent with a token that has not expired, unless the last renewal failed.
THEOREM Fresh == Spec => []TokenFresh
<1>1. TokenInv => TokenFresh
    BY TimeAssumption DEF TokenInv, TypeOK, Timely, TokenFresh
<1> QED
    BY <1>1, TokenInvariant, PTL

------------------------------------------------------------------------------
(* The sensors *)

\* What is inductive of ReadingSound: a read in progress is newer than what the caller has, and
\* the words to decode are of it.
SensorInv ==
    /\ ReadingSound
    /\ s_pc \in {"init", "start", "failed"} => reads = 0
    /\ out.senRead \in Nat /\ out.senRead <= reads
    /\ s_pc \in {"poll", "values", "decode"} => out.senRead < reads
    /\ s_pc = "decode" =>
          actual \in Sensor!Temperatures /\ buf[Words].v = actual % (2 * HalfWord)

\* A word that is not negative as a signed one reads the same as an unsigned one.
LEMMA Unsigned ==
    ASSUME NEW h \in Nat, NEW a \in -h..h - 1, a >= 0
    PROVE  a % (2 * h) = a
  OBVIOUS

LEMMA SensorConstants ==
    Polls \in Nat \ {0} /\ Words \in Nat \ {0} /\ HalfWord \in Nat \ {0} /\ MaxReads \in Nat
  BY DeviceAssumption

LEMMA SensorInit == Sensor!Init => SensorInv
<1> SUFFICES ASSUME Sensor!Init PROVE SensorInv
  OBVIOUS
<1>1. out = Sensor!Reading(0, Sensor!NoWord, <<>>, 0)
  BY DEF Sensor!Init
<1>2. out.scdRead = 0 /\ out.senRead = 0 /\ out.sen = <<>>
  BY <1>1 DEF Sensor!Reading
<1>3. Sensor!TypeOK
  <2>1. 0 \in 0..Polls /\ 0 \in 0..MaxReads
    BY SensorConstants
  <2> QED
    BY <2>1 DEF Sensor!Init, Sensor!TypeOK
<1> QED
  BY <1>2, <1>3 DEF Sensor!Init, SensorInv, ReadingSound, Sensor!OneReading, Sensor!SenIntact,
                    Sensor!TemperatureRead

LEMMA SensorStep == SensorInv /\ [Sensor!Next]_(Sensor!vars) => SensorInv'
<1> SUFFICES ASSUME SensorInv, [Sensor!Next]_(Sensor!vars) PROVE SensorInv'
  OBVIOUS
<1> USE DEF SensorInv, ReadingSound, Sensor!TypeOK, Sensor!OneReading, Sensor!SenIntact,
            Sensor!TemperatureRead, Sensor!sensor, Sensor!Return
<1>1. CASE Sensor!AddDevices
  BY <1>1 DEF Sensor!AddDevices
<1>2. CASE Sensor!StartSensors
  BY <1>2 DEF Sensor!StartSensors
<1>3. CASE Sensor!ReadScd
  <2>1. /\ s_pc = "idle" /\ reads < MaxReads /\ reads' = reads + 1 /\ data_ready' = 0
        /\ timeout' = Polls /\ out' = out
        /\ (s_pc' = "poll" /\ ok' = ok) \/ (s_pc' = "idle" /\ ok' = FALSE)
        /\ UNCHANGED <<scd_on, sen_on, buf, actual>>
    BY <1>3 DEF Sensor!ReadScd, Sensor!Partial
  <2>2. timeout' \in 0..Polls /\ timeout' > 0 /\ reads' \in 0..MaxReads /\ reads < reads'
    BY <2>1, SensorConstants
  <2>3. Sensor!TypeOK'
    BY <2>1, <2>2
  <2>4. out.senRead \in Nat /\ out.senRead <= reads /\ reads \in Nat /\ reads' = reads + 1
    BY <2>1, SensorConstants
  <2>5. out'.senRead \in Nat /\ out'.senRead < reads' /\ out'.senRead <= reads'
    BY <2>1, <2>4
  <2>6. (Sensor!OneReading /\ Sensor!SenIntact /\ Sensor!TemperatureRead)'
    BY <2>1
  <2> QED
    BY <2>1, <2>3, <2>5, <2>6
<1>4. CASE Sensor!PollReady
  <2>1. /\ s_pc = "poll" /\ UNCHANGED <<scd_on, sen_on, scd, buf, actual, out, reads>>
        /\ \/ s_pc' = "idle" /\ ok' = FALSE /\ timeout' = timeout /\ data_ready' = data_ready
           \/ /\ data_ready' \in {0, 1}
              /\ \/ s_pc' = "values" /\ ok' = ok /\ timeout' = timeout
                 \/ s_pc' = "poll" /\ ok' = ok /\ timeout' = timeout - 1 /\ timeout' > 0
                 \/ s_pc' = "idle" /\ ok' = FALSE /\ timeout' = timeout - 1
    BY <1>4 DEF Sensor!PollReady, Sensor!Left
  <2>2. timeout' \in 0..Polls
    BY <2>1, SensorConstants
  <2> QED
    BY <2>1, <2>2
<1>5. CASE Sensor!ReadValues
  <2>1. s_pc = "values" /\ UNCHANGED <<scd_on, sen_on, scd, data_ready, timeout, out, reads>>
    BY <1>5 DEF Sensor!ReadValues
  <2>2. CASE s_pc' = "idle" /\ ok' = FALSE
    BY <2>1, <2>2
  <2>3. CASE /\ s_pc' = "decode" /\ ok' = ok /\ actual' \in Sensor!Temperatures
             /\ \E bad \in SUBSET (1..Words) :
                   buf' = [i \in 1..Words |->
                              Sensor!Word(IF i = Words THEN actual' % (2 * HalfWord) ELSE reads,
                                          i \notin bad)]
    <3>1. Len(buf') = Words /\ buf'[Words].v = actual' % (2 * HalfWord)
      BY <2>3, SensorConstants DEF Sensor!Word
    <3> QED
      BY <2>1, <2>3, <3>1
  <2> QED
    BY <1>5, <2>2, <2>3 DEF Sensor!ReadValues
<1>6. CASE Sensor!Decode
  <2>1. /\ s_pc = "decode" /\ s_pc' = "idle"
        /\ UNCHANGED <<scd_on, sen_on, scd, data_ready, timeout, buf, actual, reads>>
    BY <1>6 DEF Sensor!Decode
  <2>2. CASE Sensor!BadChecksum
    BY <1>6, <2>1, <2>2 DEF Sensor!Decode
  <2>3. CASE ~Sensor!BadChecksum
    <3>1. ok' = TRUE /\ out' = Sensor!Reading(reads, scd, buf, Sensor!Temp(buf[Words]))
      BY <1>6, <2>3 DEF Sensor!Decode
    <3>2. out'.scdRead = reads /\ out'.senRead = reads /\ out'.sen = buf
          /\ out'.temp = buf[Words].v
      BY <3>1 DEF Sensor!Reading, Sensor!Temp
    <3>3. \A i \in 1..Len(buf) : buf[i].intact
      BY <2>1, <2>3 DEF Sensor!BadChecksum
    <3>4. actual >= 0 => out'.temp = actual
      BY <2>1, <3>2, Unsigned, SensorConstants DEF Sensor!Temperatures
    <3>5. Sensor!TypeOK'
      BY <2>1, <3>1
    <3>6. (Sensor!OneReading /\ Sensor!TemperatureRead)' /\ out'.senRead <= reads'
      BY <2>1, <3>2, <3>4, SensorConstants
    <3>7. Sensor!SenIntact' /\ out'.senRead \in Nat
      BY <3>2, <3>3
    <3> QED
      BY <2>1, <3>5, <3>6, <3>7
  <2> QED
    BY <2>2, <2>3
<1>7. CASE UNCHANGED Sensor!vars
  BY <1>7 DEF Sensor!vars, Sensor!Temperatures
<1> QED
  BY <1>1, <1>2, <1>3, <1>4, <1>5, <1>6, <1>7 DEF Sensor!Next, Sensor!Read

\* What sensors_read returns is of one read, intact, and right from zero degrees up, for every
\* number of polls, of words and of values of a word, whatever fails.
THEOREM ReadingKept == Sensor!Spec => []ReadingSound
<1>1. SensorInv => ReadingSound
  BY DEF SensorInv
<1> QED
  BY <1>1, SensorInit, SensorStep, PTL DEF Sensor!Spec

------------------------------------------------------------------------------
(* The serving cell *)

Wholes == Systems \cup Plmns \cup Tacs \cup Cells \cup Bands \cup {"Online", "55"}

FieldTexts == Wholes \cup UNION {Cell!Stumps(t) : t \in Wholes}

IsInfo(x) == x = Cell!Info(x.mcc, x.mnc, x.tac, x.cell_id, x.valid)

\* The fields of the line that parse_cpsi_line has passed
Passed == Len(line) - Len(tokens)

\* What stands in *out when the first n fields of s have been read
ReadOf(x, s, n) ==
    /\ \A i \in 1..n : s[i] # Cell!NoText =>
          /\ Filled(s, i) = 3 => <<x.mcc, x.mnc>> = Cell!PlmnOf(s[i])
          /\ Filled(s, i) = 4 => x.tac = Cell!StrtoulOf(s[i])
          /\ Filled(s, i) = 5 => x.cell_id = Cell!StrtoulOf(s[i])
    /\ Filled(s, n) < 3 => x.mcc = 0
    /\ Filled(s, n) < 4 => x.tac = 0
    /\ Filled(s, n) < 5 => x.cell_id = 0

\* The tokens are the fields of the line that are left, tokenId counts those that were not
\* empty among the others, and what was read of them stands in *out.
Parsing ==
    /\ Cell!LooksValid(line)
    /\ Len(tokens) <= Len(line)
    /\ \A i \in 1..Len(tokens) : tokens[i] = line[i + Passed]
    /\ tokenId = Filled(line, Passed) /\ tokenId <= 5
    /\ ReadOf(info, line, Passed)

CellInv ==
    /\ tokenId \in Nat /\ IsInfo(info)
    /\ line \in Seq(FieldTexts) /\ tokens \in Seq(FieldTexts)
    /\ c_pc = "ask" => tokenId = 0 /\ info = Cell!NoInfo
    /\ c_pc \in {"ask", "parse"} => ue = Cell!NoInfo
    /\ c_pc = "parse" => Parsing
    /\ CellOfLine

\* How the number of fields that are not empty grows along a line
LEMMA FilledStep ==
    ASSUME NEW s, NEW n \in Nat
    PROVE  /\ Filled(s, n) \in Nat
           /\ Filled(s, 0) = 0
           /\ Filled(s, n + 1) = IF s[n + 1] # Cell!NoText THEN Filled(s, n) + 1 ELSE Filled(s, n)
<1> DEFINE F(m) == {i \in 1..m : s[i] # Cell!NoText}
<1>1. IsFiniteSet(F(n))
  <2>1. IsFiniteSet(1..n)
    BY FS_Interval
  <2> QED
    BY <2>1, FS_Subset
<1>2. Filled(s, n) \in Nat
  BY <1>1, FS_CardinalityType DEF Filled
<1>3. Filled(s, 0) = 0
  <2>1. F(0) = {}
    OBVIOUS
  <2> QED
    BY <2>1, FS_EmptySet DEF Filled
<1>4. F(n + 1) = IF s[n + 1] # Cell!NoText THEN F(n) \cup {n + 1} ELSE F(n)
  OBVIOUS
<1>5. n + 1 \notin F(n)
  OBVIOUS
<1>6. Filled(s, n) = Cardinality(F(n)) /\ Filled(s, n + 1) = Cardinality(F(n + 1))
  BY DEF Filled
<1> HIDE DEF F
<1>7. Cardinality(F(n) \cup {n + 1}) = Cardinality(F(n)) + 1
  BY <1>1, <1>5, FS_AddElement
<1> QED
  BY <1>2, <1>3, <1>4, <1>6, <1>7

\* Of two places in a line the later one has at least as many before it, and more when its own
\* field is not empty.
LEMMA FilledLater ==
    ASSUME NEW s, NEW n \in Nat, NEW i \in Nat, n < i
    PROVE  /\ Filled(s, n) <= Filled(s, i)
           /\ s[i] # Cell!NoText => Filled(s, n) < Filled(s, i)
<1> DEFINE F(m) == {k \in 1..m : s[k] # Cell!NoText}
<1>1. IsFiniteSet(F(i))
  <2>1. IsFiniteSet(1..i)
    BY FS_Interval
  <2> QED
    BY <2>1, FS_Subset
<1>2. F(n) \in SUBSET F(i)
  OBVIOUS
<1>3. /\ IsFiniteSet(F(n)) /\ Cardinality(F(n)) <= Cardinality(F(i))
      /\ Cardinality(F(i)) = Cardinality(F(n)) => F(i) = F(n)
  BY <1>1, <1>2, FS_Subset
<1>4. Cardinality(F(n)) \in Nat /\ Cardinality(F(i)) \in Nat
  BY <1>1, <1>3, FS_CardinalityType
<1>5. s[i] # Cell!NoText => F(i) # F(n)
  <2>1. i \notin F(n) /\ (s[i] # Cell!NoText => i \in F(i))
    OBVIOUS
  <2> QED
    BY <2>1
<1> HIDE DEF F
<1>6. Filled(s, n) = Cardinality(F(n)) /\ Filled(s, i) = Cardinality(F(i))
  BY DEF Filled, F
<1> QED
  BY <1>3, <1>4, <1>5, <1>6

\* A line is a sequence of texts.
LEMMA LineTexts == Cell!Lines \subseteq Seq(FieldTexts)
<1> SUFFICES ASSUME NEW s \in Cell!Lines PROVE s \in Seq(FieldTexts)
  OBVIOUS
<1>1. ASSUME NEW l \in Cell!FullLines
      PROVE  /\ l \in Seq(FieldTexts) /\ Len(l) = 7
             /\ \A i \in 1..7 : l[i] \in Wholes /\ l[i] \in FieldTexts
  <2>1. PICK y \in Systems, p \in Plmns, t \in Tacs, c \in Cells, b \in Bands :
           l = <<y, "Online", p, t, c, "55", b>>
    BY <1>1 DEF Cell!FullLines, Cell!Layout
  <2>2. \A i \in 1..7 : l[i] \in Wholes
    <3> TAKE i \in 1..7
    <3>1. i = 1 \/ i = 2 \/ i = 3 \/ i = 4 \/ i = 5 \/ i = 6 \/ i = 7
      OBVIOUS
    <3> QED
      BY <2>1, <3>1 DEF Wholes
  <2>3. \A i \in 1..7 : l[i] \in FieldTexts
    BY <2>2 DEF FieldTexts
  <2>4. Len(l) = 7
    BY <2>1
  <2>5. l \in Seq(FieldTexts)
    <3>1. /\ y \in FieldTexts /\ "Online" \in FieldTexts /\ p \in FieldTexts /\ t \in FieldTexts
          /\ c \in FieldTexts /\ "55" \in FieldTexts /\ b \in FieldTexts
      BY DEF FieldTexts, Wholes
    <3> QED
      BY <2>1, <3>1
  <2> QED
    BY <2>2, <2>3, <2>4, <2>5
<1>2. ASSUME NEW l \in Cell!FullLines, NEW n \in 0..7 PROVE SubSeq(l, 1, n) \in Seq(FieldTexts)
  BY <1>1, <1>2, SubSeqProperties
<1>3. CASE \E l \in Cell!FullLines, n \in 0..7 : s = SubSeq(l, 1, n)
  BY <1>2, <1>3
<1>4. CASE \E l \in Cell!FullLines, n \in 1..7 :
             s \in {Append(SubSeq(l, 1, n - 1), t) : t \in Cell!Stumps(l[n])}
  <2>0. PICK l \in Cell!FullLines, n \in 1..7 :
           s \in {Append(SubSeq(l, 1, n - 1), t) : t \in Cell!Stumps(l[n])}
    BY <1>4
  <2>1. PICK t \in Cell!Stumps(l[n]) : s = Append(SubSeq(l, 1, n - 1), t)
    BY <2>0
  <2>2. t \in FieldTexts
    <3>1. l[n] \in Wholes
      BY <1>1, <2>1
    <3> QED
      BY <2>1, <3>1 DEF FieldTexts
  <2>3. SubSeq(l, 1, n - 1) \in Seq(FieldTexts)
    <3>1. n - 1 \in 0..7
      BY <2>1
    <3> QED
      BY <1>2, <2>1, <3>1
  <2> QED
    BY <2>1, <2>2, <2>3, AppendProperties
<1> QED
  BY <1>3, <1>4 DEF Cell!Lines

\* A field that is passed over or read moves the first n fields of s to n + 1.
LEMMA ReadNext ==
    ASSUME NEW s, NEW n \in Nat, NEW x, NEW y, ReadOf(x, s, n),
           s[n + 1] = Cell!NoText => y = x,
           s[n + 1] # Cell!NoText =>
              /\ IF Filled(s, n) = 2 THEN <<y.mcc, y.mnc>> = Cell!PlmnOf(s[n + 1])
                                     ELSE y.mcc = x.mcc /\ y.mnc = x.mnc
              /\ y.tac = IF Filled(s, n) = 3 THEN Cell!StrtoulOf(s[n + 1]) ELSE x.tac
              /\ y.cell_id = IF Filled(s, n) = 4 THEN Cell!StrtoulOf(s[n + 1]) ELSE x.cell_id
    PROVE  ReadOf(y, s, n + 1)
<1> DEFINE f == Filled(s, n)
           At(z, i) == /\ Filled(s, i) = 3 => <<z.mcc, z.mnc>> = Cell!PlmnOf(s[i])
                       /\ Filled(s, i) = 4 => z.tac = Cell!StrtoulOf(s[i])
                       /\ Filled(s, i) = 5 => z.cell_id = Cell!StrtoulOf(s[i])
<1>1. /\ f \in Nat
      /\ Filled(s, n + 1) = IF s[n + 1] # Cell!NoText THEN f + 1 ELSE f
  BY FilledStep
<1>2. /\ \A i \in 1..n : s[i] # Cell!NoText => At(x, i)
      /\ f < 3 => x.mcc = 0
      /\ f < 4 => x.tac = 0
      /\ f < 5 => x.cell_id = 0
  BY DEF ReadOf
<1>3. CASE s[n + 1] = Cell!NoText
  <2>1. y = x /\ Filled(s, n + 1) = f
    BY <1>1, <1>3
  <2>2. \A i \in 1..n + 1 : s[i] # Cell!NoText => i \in 1..n
    BY <1>3
  <2>3. \A i \in 1..n + 1 : s[i] # Cell!NoText => At(y, i)
    BY <1>2, <2>1, <2>2
  <2> HIDE DEF f
  <2> QED
    BY <1>2, <2>1, <2>3 DEF ReadOf
<1>4. CASE s[n + 1] # Cell!NoText
  <2>1. /\ IF f = 2 THEN <<y.mcc, y.mnc>> = Cell!PlmnOf(s[n + 1])
                    ELSE y.mcc = x.mcc /\ y.mnc = x.mnc
        /\ y.tac = IF f = 3 THEN Cell!StrtoulOf(s[n + 1]) ELSE x.tac
        /\ y.cell_id = IF f = 4 THEN Cell!StrtoulOf(s[n + 1]) ELSE x.cell_id
        /\ Filled(s, n + 1) = f + 1
    BY <1>1, <1>4
  <2>2. ASSUME NEW i \in 1..n, s[i] # Cell!NoText PROVE At(y, i)
    <3>1. Filled(s, i) \in Nat /\ Filled(s, i) <= f
      <4>1. i \in Nat /\ (i = n \/ i < n)
        OBVIOUS
      <4> QED
        BY <1>1, <4>1, FilledStep, FilledLater
    <3>2. At(x, i)
      BY <1>2, <2>2
    <3> HIDE DEF f
    <3>3. Filled(s, i) = 3 => f # 2
      BY <1>1, <3>1
    <3>4. Filled(s, i) = 4 => f # 3
      BY <1>1, <3>1
    <3>5. Filled(s, i) = 5 => f # 4
      BY <1>1, <3>1
    <3> QED
      BY <2>1, <3>2, <3>3, <3>4, <3>5
  <2> HIDE DEF f
  <2>3. At(y, n + 1)
    <3>1. (f + 1 = 3 <=> f = 2) /\ (f + 1 = 4 <=> f = 3) /\ (f + 1 = 5 <=> f = 4)
      BY <1>1
    <3> QED
      BY <2>1, <3>1
  <2>4. \A i \in 1..n + 1 : s[i] # Cell!NoText => At(y, i)
    <3>1. \A i \in 1..n + 1 : i \in 1..n \/ i = n + 1
      OBVIOUS
    <3> HIDE DEF At
    <3> QED
      BY <2>2, <2>3, <3>1
  <2>5. /\ f + 1 < 3 => y.mcc = 0
        /\ f + 1 < 4 => y.tac = 0
        /\ f + 1 < 5 => y.cell_id = 0
    BY <1>1, <1>2, <2>1
  <2> QED
    BY <2>1, <2>4, <2>5 DEF ReadOf
<1> QED
  BY <1>3, <1>4

\* What the loop body stores is the number of the field it is at.
LEMMA StoredField ==
    ASSUME tokenId \in Nat, IsInfo(info), NEW h, tokenId = 2 => Cell!PlmnOf(h) # <<>>,
           NEW y, y = Cell!Stored(h)
    PROVE  /\ IsInfo(y)
           /\ IF tokenId = 2 THEN <<y.mcc, y.mnc>> = Cell!PlmnOf(h)
                             ELSE y.mcc = info.mcc /\ y.mnc = info.mnc
           /\ y.tac = IF tokenId = 3 THEN Cell!StrtoulOf(h) ELSE info.tac
           /\ y.cell_id = IF tokenId = 4 THEN Cell!StrtoulOf(h) ELSE info.cell_id
<1>1. /\ tokenId = 2 => y = [info EXCEPT !.mcc = Cell!PlmnOf(h)[1], !.mnc = Cell!PlmnOf(h)[2]]
      /\ tokenId = 3 => y = [info EXCEPT !.tac = Cell!StrtoulOf(h)]
      /\ tokenId = 4 => y = [info EXCEPT !.cell_id = Cell!StrtoulOf(h)]
      /\ tokenId \notin {2, 3, 4} => y = info
  BY DEF Cell!Stored, Cell!TokenOf
<1>2. tokenId = 2 => <<Cell!PlmnOf(h)[1], Cell!PlmnOf(h)[2]>> = Cell!PlmnOf(h)
  BY DEF Cell!PlmnOf
<1>3. CASE tokenId = 2
  BY <1>1, <1>2, <1>3 DEF IsInfo, Cell!Info
<1>4. CASE tokenId = 3
  BY <1>1, <1>4 DEF IsInfo, Cell!Info
<1>5. CASE tokenId = 4
  BY <1>1, <1>5 DEF IsInfo, Cell!Info
<1>6. CASE tokenId \notin {2, 3, 4}
  BY <1>1, <1>6 DEF IsInfo, Cell!Info
<1> QED
  BY <1>3, <1>4, <1>5, <1>6

\* parse_cpsi_line keeps the rest of the line and what it has read.
LEMMA CellToken == CellInv /\ Cell!NextToken => CellInv'
<1> SUFFICES ASSUME CellInv, Cell!NextToken PROVE CellInv'
  OBVIOUS
<1> DEFINE p == Passed
           h == Head(tokens)
<1>1. c_pc = "parse" /\ tokens # <<>> /\ tokenId <= 4 /\ line' = line
  BY DEF Cell!NextToken, Cell!TokenOf
<1>2. /\ tokens \in Seq(FieldTexts) /\ line \in Seq(FieldTexts) /\ ue = Cell!NoInfo
      /\ tokenId \in Nat /\ IsInfo(info) /\ Parsing
  BY <1>1 DEF CellInv
<1>3. /\ Tail(tokens) \in Seq(FieldTexts) /\ Len(Tail(tokens)) = Len(tokens) - 1
      /\ \A i \in 1..Len(Tail(tokens)) : Tail(tokens)[i] = tokens[i + 1]
      /\ Len(tokens) \in Nat /\ Len(tokens) > 0 /\ h = tokens[1] /\ Len(line) \in Nat
  BY <1>1, <1>2, HeadTailProperties, LenProperties, EmptySeq
<1>4. /\ p \in Nat /\ p + 1 \in 1..Len(line) /\ h = line[p + 1]
      /\ tokenId = Filled(line, p) /\ ReadOf(info, line, p) /\ Cell!LooksValid(line)
      /\ Len(tokens) <= Len(line) /\ \A i \in 1..Len(tokens) : tokens[i] = line[i + p]
  <2>1. /\ Len(tokens) <= Len(line) /\ p = Len(line) - Len(tokens)
        /\ \A i \in 1..Len(tokens) : tokens[i] = line[i + p]
        /\ tokenId = Filled(line, p) /\ ReadOf(info, line, p) /\ Cell!LooksValid(line)
    BY <1>2 DEF Parsing, Passed
  <2> HIDE DEF p, h
  <2>2. p \in Nat /\ p + 1 \in 1..Len(line) /\ 1 \in 1..Len(tokens) /\ 1 + p = p + 1
    BY <1>3, <2>1
  <2> QED
    BY <1>3, <2>1, <2>2
<1>5. ASSUME ue' = ue PROVE CellOfLine'
  <2>1. ue'.valid = FALSE
    BY <1>2, <1>5 DEF Cell!NoInfo, Cell!Info
  <2> QED
    BY <2>1 DEF CellOfLine
<1>6. ASSUME tokens' = Tail(tokens), ue' = ue, c_pc' = c_pc, IsInfo(info'),
             tokenId' = Filled(line, p + 1), tokenId' <= 5, ReadOf(info', line, p + 1)
      PROVE  CellInv'
  <2> HIDE DEF p, h
  <2>1. Len(tokens') \in Nat /\ Len(tokens') = Len(tokens) - 1 /\ Len(tokens') <= Len(line')
    BY <1>1, <1>3, <1>4, <1>6
  <2>2. Passed' = p + 1
    BY <1>1, <1>3, <2>1 DEF p, Passed
  <2>3. \A i \in 1..Len(tokens') : tokens'[i] = line'[i + Passed']
    <3> TAKE i \in 1..Len(tokens')
    <3>1. tokens'[i] = tokens[i + 1] /\ i + 1 \in 1..Len(tokens) /\ i \in Nat
      BY <1>3, <1>6, <2>1
    <3>2. tokens'[i] = line[(i + 1) + p]
      BY <1>4, <3>1
    <3>3. (i + 1) + p = i + (p + 1)
      BY <1>4, <3>1
    <3> QED
      BY <1>1, <2>2, <3>2, <3>3
  <2>4. Filled(line, p + 1) \in Nat
    <3>1. p + 1 \in Nat
      BY <1>4
    <3> QED
      BY <3>1, FilledStep
  <2>5. /\ tokenId' = Filled(line', Passed') /\ ReadOf(info', line', Passed')
        /\ Cell!LooksValid(line')
    BY <1>1, <1>4, <1>6, <2>2
  <2>6. Parsing'
    BY <1>6, <2>1, <2>3, <2>5 DEF Parsing
  <2>7. CellOfLine'
    BY <1>5, <1>6
  <2> QED
    BY <1>1, <1>2, <1>3, <1>6, <2>4, <2>6, <2>7 DEF CellInv
<1>7. CASE h = Cell!NoText /\ tokens' = Tail(tokens) /\ UNCHANGED <<c_pc, tokenId, info, ue>>
  <2> HIDE DEF p, h
  <2>1. line[p + 1] = Cell!NoText /\ Filled(line, p + 1) = Filled(line, p)
    BY <1>4, <1>7, FilledStep
  <2>2. ReadOf(info', line, p + 1)
    BY <1>4, <1>7, <2>1, ReadNext
  <2> QED
    BY <1>1, <1>2, <1>4, <1>6, <1>7, <2>1, <2>2
<1>8. CASE Cell!Refuse
  <2>1. c_pc' = "done" /\ UNCHANGED <<line, tokenId, tokens, info, ue>>
    BY <1>1, <1>8 DEF Cell!Refuse
  <2>2. CellOfLine'
    BY <1>5, <2>1
  <2> QED
    BY <1>2, <2>1, <2>2 DEF CellInv
<1>9. CASE /\ h # Cell!NoText /\ (tokenId = 2 => Cell!PlmnOf(h) # <<>>)
           /\ info' = Cell!Stored(h)
           /\ tokenId' = tokenId + 1 /\ tokens' = Tail(tokens)
           /\ UNCHANGED <<c_pc, ue>>
  <2> HIDE DEF p, h
  <2>1. /\ IsInfo(info')
        /\ IF tokenId = 2 THEN <<info'.mcc, info'.mnc>> = Cell!PlmnOf(h)
                          ELSE info'.mcc = info.mcc /\ info'.mnc = info.mnc
        /\ info'.tac = IF tokenId = 3 THEN Cell!StrtoulOf(h) ELSE info.tac
        /\ info'.cell_id = IF tokenId = 4 THEN Cell!StrtoulOf(h) ELSE info.cell_id
    BY <1>2, <1>9, StoredField
  <2>2. line[p + 1] # Cell!NoText /\ Filled(line, p + 1) = tokenId + 1
    BY <1>4, <1>9, FilledStep
  <2>3. ReadOf(info', line, p + 1)
    BY <1>4, <2>1, <2>2, ReadNext
  <2>4. tokenId' <= 5
    BY <1>1, <1>2, <1>9
  <2> QED
    BY <1>6, <1>9, <2>1, <2>2, <2>3, <2>4
<1> QED
  BY <1>7, <1>8, <1>9 DEF Cell!NextToken

\* When the loop of parse_cpsi_line has ended, every field that it looks at has been read.
LEMMA AllRead ==
    ASSUME CellInv, c_pc = "parse", tokens = <<>> \/ tokenId > 4, info.mcc # 0
    PROVE  /\ \A i \in 1..Len(line) : line[i] # Cell!NoText =>
                 /\ Filled(line, i) = 3 => <<info.mcc, info.mnc>> = Cell!PlmnOf(line[i])
                 /\ Filled(line, i) = 4 => info.tac = Cell!StrtoulOf(line[i])
                 /\ Filled(line, i) = 5 => info.cell_id = Cell!StrtoulOf(line[i])
           /\ Filled(line, Len(line)) >= 3
           /\ Filled(line, Len(line)) < 4 => info.tac = 0
           /\ Filled(line, Len(line)) < 5 => info.cell_id = 0
<1> DEFINE p == Passed
           all == Len(line)
<1>1. /\ tokens \in Seq(FieldTexts) /\ line \in Seq(FieldTexts) /\ tokenId \in Nat
      /\ Len(tokens) <= Len(line) /\ p = Len(line) - Len(tokens)
      /\ tokenId = Filled(line, p) /\ tokenId <= 5 /\ ReadOf(info, line, p)
  BY DEF CellInv, Parsing, Passed
<1> HIDE DEF p
<1>2. /\ Len(tokens) \in Nat /\ all \in Nat /\ p \in Nat /\ p <= all
      /\ tokens = <<>> => p = all
  <2>1. Len(tokens) \in Nat /\ all \in Nat /\ (tokens = <<>> => Len(tokens) = 0)
    BY <1>1, LenProperties, EmptySeq
  <2> QED
    BY <1>1, <2>1
<1>3. tokenId >= 3
  <2>1. ~(Filled(line, p) < 3)
    BY <1>1 DEF ReadOf
  <2> QED
    BY <1>1, <2>1
<1>4. /\ \A i \in 1..p : line[i] # Cell!NoText =>
            /\ Filled(line, i) = 3 => <<info.mcc, info.mnc>> = Cell!PlmnOf(line[i])
            /\ Filled(line, i) = 4 => info.tac = Cell!StrtoulOf(line[i])
            /\ Filled(line, i) = 5 => info.cell_id = Cell!StrtoulOf(line[i])
      /\ tokenId < 4 => info.tac = 0
      /\ tokenId < 5 => info.cell_id = 0
  BY <1>1 DEF ReadOf
<1>5. CASE p = all
  BY <1>1, <1>3, <1>4, <1>5
<1>6. CASE p # all
  <2>1. p < all /\ tokenId = 5
    BY <1>1, <1>2, <1>6
  <2>2. Filled(line, all) \in Nat /\ Filled(line, p) <= Filled(line, all)
    BY <1>2, <2>1, FilledStep, FilledLater
  <2>3. Filled(line, all) >= 5
    BY <1>1, <2>1, <2>2
  <2>4. ASSUME NEW i \in 1..all, line[i] # Cell!NoText, i \notin 1..p PROVE Filled(line, i) \in Nat /\ Filled(line, i) > 5
    <3>1. i \in Nat /\ p < i
      BY <1>2, <2>4
    <3>2. Filled(line, i) \in Nat /\ Filled(line, p) < Filled(line, i)
      BY <1>2, <2>4, <3>1, FilledStep, FilledLater
    <3> QED
      BY <1>1, <2>1, <3>2
  <2>5. ASSUME NEW i \in 1..all, line[i] # Cell!NoText, i \notin 1..p
        PROVE  Filled(line, i) # 3 /\ Filled(line, i) # 4 /\ Filled(line, i) # 5
    <3>1. Filled(line, i) \in Nat /\ Filled(line, i) > 5
      BY <2>4, <2>5
    <3> QED
      BY <3>1
  <2>6. ~(Filled(line, all) < 4) /\ ~(Filled(line, all) < 5) /\ Filled(line, all) >= 3
    BY <2>2, <2>3
  <2> QED
    BY <1>4, <2>5, <2>6
<1> QED
  BY <1>5, <1>6

LEMMA CellFinish == CellInv /\ Cell!Finish => CellInv'
<1> SUFFICES ASSUME CellInv, Cell!Finish PROVE CellInv'
  OBVIOUS
<1> DEFINE inRange == 100 <= info.mcc /\ info.mcc <= 999 /\ 0 <= info.mnc /\ info.mnc <= 999
           kept == info' = [info EXCEPT !.valid = TRUE] /\ ue' = info'
<1>0. /\ c_pc = "parse" /\ UNCHANGED line /\ (tokens = <<>> \/ tokenId > 4)
      /\ c_pc' = "done" /\ UNCHANGED <<tokenId, tokens>>
      /\ (inRange /\ kept) \/ (info' = info /\ ue' = ue)
  <2>1. Cell!TokenOf("cell") = 4
    BY DEF Cell!TokenOf
  <2>2. c_pc = "parse" /\ UNCHANGED line /\ (tokens = <<>> \/ tokenId > Cell!TokenOf("cell"))
    BY DEF Cell!Finish
  <2>3. IF inRange THEN c_pc' = "done" /\ kept /\ UNCHANGED <<tokenId, tokens>>
                   ELSE Cell!Refuse
    BY DEF Cell!Finish
  <2> HIDE DEF inRange, kept
  <2>4. Cell!Refuse => c_pc' = "done" /\ UNCHANGED <<tokenId, tokens, info, ue>>
    BY DEF Cell!Refuse
  <2> QED
    BY <2>1, <2>2, <2>3, <2>4
<1> HIDE DEF inRange, kept
<1>1. c_pc = "parse" /\ c_pc' = "done" /\ UNCHANGED <<line, tokenId, tokens>>
      /\ (tokens = <<>> \/ tokenId > 4)
  BY <1>0
<1>2. /\ tokens \in Seq(FieldTexts) /\ line \in Seq(FieldTexts) /\ ue = Cell!NoInfo
      /\ tokenId \in Nat
      /\ IsInfo(info) /\ Cell!LooksValid(line)
  BY <1>1 DEF CellInv, Parsing
<1>3. CASE info' = info /\ ue' = ue
  <2>1. ue'.valid = FALSE
    BY <1>2, <1>3 DEF Cell!NoInfo, Cell!Info
  <2>2. CellOfLine'
    BY <2>1 DEF CellOfLine
  <2> QED
    BY <1>1, <1>2, <1>3, <2>2 DEF CellInv
<1>4. CASE inRange /\ kept
  <2>0. 100 <= info.mcc /\ info' = [info EXCEPT !.valid = TRUE] /\ ue' = info'
    BY <1>4 DEF inRange, kept
  <2>1. /\ IsInfo(info') /\ ue'.mcc = info.mcc /\ ue'.mnc = info.mnc
        /\ ue'.tac = info.tac /\ ue'.cell_id = info.cell_id
    BY <1>2, <2>0 DEF IsInfo, Cell!Info
  <2>2. info.mcc # 0
    BY <2>0
  <2>3. /\ \A i \in 1..Len(line) : line[i] # Cell!NoText =>
              /\ Filled(line, i) = 3 => <<info.mcc, info.mnc>> = Cell!PlmnOf(line[i])
              /\ Filled(line, i) = 4 => info.tac = Cell!StrtoulOf(line[i])
              /\ Filled(line, i) = 5 => info.cell_id = Cell!StrtoulOf(line[i])
        /\ Filled(line, Len(line)) >= 3
        /\ Filled(line, Len(line)) < 4 => info.tac = 0
        /\ Filled(line, Len(line)) < 5 => info.cell_id = 0
    BY <1>1, <2>2, AllRead
  <2>4. \A i \in 1..Len(line) : line[i] \notin {"NO SERVICE", "000-00", "EUTRAN-BAND0"}
    BY <1>2 DEF Cell!LooksValid
  <2>5. CellOfLine'
    BY <1>1, <2>1, <2>3, <2>4 DEF CellOfLine
  <2> QED
    BY <1>1, <1>2, <2>1, <2>5 DEF CellInv
<1> QED
  BY <1>0, <1>3, <1>4

\* The answer of the modem is taken whole; nothing of it has been read.
LEMMA CellAsk == CellInv /\ Cell!Ask => CellInv'
<1> SUFFICES ASSUME CellInv, Cell!Ask PROVE CellInv'
  OBVIOUS
<1>1. /\ c_pc = "ask" /\ line' \in Seq(FieldTexts) /\ tokens' = line'
      /\ c_pc' \in {"ask", "parse", "done"}
      /\ c_pc' = "parse" => Cell!LooksValid(line')
      /\ UNCHANGED <<tokenId, info, ue>>
  <2>1. PICK answer \in Cell!Lines :
           /\ c_pc' \in {"ask", "parse", "done"}
           /\ c_pc' = "parse" => Cell!LooksValid(answer) /\ line' = answer
           /\ line' \in {line, answer}
    BY DEF Cell!Ask
  <2>2. line' \in Seq(FieldTexts)
    BY <2>1, LineTexts DEF CellInv
  <2>3. c_pc' = "parse" => Cell!LooksValid(line')
    BY <2>1
  <2> QED
    BY <2>1, <2>2, <2>3 DEF Cell!Ask
<1>2. tokenId' = 0 /\ info' = Cell!NoInfo /\ IsInfo(info') /\ ue' = Cell!NoInfo
  BY <1>1 DEF CellInv
<1>3. info'.mcc = 0 /\ info'.tac = 0 /\ info'.cell_id = 0 /\ ue'.valid = FALSE
  BY <1>2 DEF Cell!NoInfo, Cell!Info
<1>4. CellOfLine'
  BY <1>3 DEF CellOfLine
<1>5. Len(line') \in Nat /\ Len(tokens') = Len(line') /\ Passed' = 0
  <2>1. Len(line') \in Nat /\ Len(tokens') = Len(line')
    BY <1>1, LenProperties
  <2> QED
    BY <2>1 DEF Passed
<1>6. Filled(line', Passed') = 0
  BY <1>5, FilledStep
<1>7. ReadOf(info', line', Passed')
  BY <1>3, <1>5, <1>6 DEF ReadOf
<1>8. \A i \in 1..Len(tokens') : tokens'[i] = line'[i + Passed']
  BY <1>1, <1>5
<1>9. c_pc' = "parse" => Parsing'
  BY <1>1, <1>2, <1>5, <1>6, <1>7, <1>8 DEF Parsing
<1> QED
  BY <1>1, <1>2, <1>4, <1>9 DEF CellInv

\* The numbers that modem_unwiredlabs_city_state sends are those of the fields of the last
\* answer to AT+CPSI?, for all texts of its fields, empty ones included, wherever the line was
\* cut, and for any number of tries.
THEOREM CellKept == Cell!Spec => []CellOfLine
<1>1. Cell!Init => CellInv
  <2> SUFFICES ASSUME Cell!Init PROVE CellInv
    OBVIOUS
  <2>1. /\ c_pc = "ask" /\ tokenId = 0 /\ info = Cell!NoInfo /\ ue = Cell!NoInfo
        /\ line = <<>> /\ tokens = <<>>
    BY DEF Cell!Init
  <2>2. IsInfo(info) /\ ue.valid = FALSE
    BY <2>1 DEF IsInfo, Cell!NoInfo, Cell!Info
  <2>3. CellOfLine
    BY <2>2 DEF CellOfLine
  <2>4. line \in Seq(FieldTexts) /\ tokens \in Seq(FieldTexts)
    BY <2>1, EmptySeq
  <2> QED
    BY <2>1, <2>2, <2>3, <2>4 DEF CellInv
<1>2. CellInv /\ [Cell!Next]_(Cell!vars) => CellInv'
  <2> SUFFICES ASSUME CellInv, [Cell!Next]_(Cell!vars) PROVE CellInv'
    OBVIOUS
  <2>1. CASE UNCHANGED Cell!vars
    <3>1. UNCHANGED <<c_pc, line, tokenId, tokens, info, ue>>
      BY <2>1 DEF Cell!vars
    <3>2. CellOfLine'
      BY <3>1 DEF CellInv, CellOfLine
    <3>3. Parsing => Parsing'
      BY <3>1 DEF Parsing, Passed
    <3> QED
      BY <3>1, <3>2, <3>3 DEF CellInv, IsInfo
  <2> QED
    BY <2>1, CellAsk, CellToken, CellFinish DEF Cell!Next
<1>3. CellInv => CellOfLine
  BY DEF CellInv
<1> QED
  BY <1>1, <1>2, <1>3, PTL DEF Cell!Spec

------------------------------------------------------------------------------
(* The name of the city *)

Chars == STRING \cup {"-"}

Member == [key : {"address", "city", "state"}, name : Names, whole : BOOLEAN]

\* No attempt leaves a name behind for the next.
CityInv ==
    /\ city \in Seq(Chars) /\ state \in Seq(Chars)
    /\ g_pc = "ask" => city = <<>> /\ state = <<>>
    /\ CityNamed

LEMMA CityConstants == Size \in Nat /\ Size > 4 /\ MaxMembers \in Nat /\ Names \subseteq Seq(Chars)
<1>1. STRING \subseteq Chars
  BY DEF Chars
<1>2. \A n \in Names : n \in Seq(Chars)
  BY <1>1, SeqMonotonic, DeviceAssumption
<1> QED
  BY <1>2, DeviceAssumption

LEMMA Hyphen == "-" \in Chars
  BY DEF Chars

\* The first of some positions
LEMMA Least ==
    ASSUME NEW S \in SUBSET Nat, S # {}
    PROVE  \E m \in S : \A j \in S : m <= j
<1>1. IsWellFoundedOn(OpToRel(<, Nat), Nat)
  BY NatLessThanWellFounded
<1>2. PICK m \in S : \A j \in S : ~(<<j, m>> \in OpToRel(<, Nat))
  BY <1>1, WFMin
<1>3. \A j \in S : ~(j < m)
  BY <1>2 DEF OpToRel
<1> QED
  BY <1>3

\* A copy to a buffer is the start of the text that fits with the terminator.
LEMMA Clipped ==
    ASSUME NEW t \in Seq(Chars), NEW size \in Nat, size > 0
    PROVE  /\ Geo!Clip(t, size) \in Seq(Chars)
           /\ Len(Geo!Clip(t, size)) = IF Len(t) < size THEN Len(t) ELSE size - 1
           /\ \A i \in 1..Len(Geo!Clip(t, size)) : Geo!Clip(t, size)[i] = t[i]
<1> DEFINE n == IF Len(t) < size THEN Len(t) ELSE size - 1
<1>1. Len(t) \in Nat /\ n \in Nat /\ n <= Len(t)
  BY LenProperties
<1>2. \A i \in 1..n : t[i] \in Chars
  BY <1>1, ElementOfSeq
<1>3. Geo!Clip(t, size) = SubSeq(t, 1, n)
  BY DEF Geo!Clip
<1> HIDE DEF n
<1>4. /\ SubSeq(t, 1, n) \in Seq(Chars)
      /\ Len(SubSeq(t, 1, n)) = n
      /\ \A i \in 1..n : SubSeq(t, 1, n)[i] = t[i]
  BY <1>1, <1>2, SubSeqProperties
<1> QED
  BY <1>3, <1>4 DEF n

\* A body, whole or cut, is a sequence of members.
LEMMA BodyMembers ==
    ASSUME NEW a \in Geo!Answers
    PROVE  a.members \in Seq(Member)
<1>1. PICK b \in Geo!Bodies(MaxMembers) : a.members \in Geo!Cut(b)
  BY DEF Geo!Answers
<1>2. b \in Seq(Member)
  <2>1. b \in [1..MaxMembers -> Member]
    BY <1>1 DEF Geo!Bodies, Member
  <2> QED
    BY <2>1, CityConstants, SeqDef
<1>3. \A n \in 0..Len(b) : SubSeq(b, 1, n) \in Seq(Member) /\ Len(SubSeq(b, 1, n)) = n
  <2> TAKE n \in 0..Len(b)
  <2>1. n \in Int /\ Len(b) \in Nat /\ n <= Len(b)
    BY <1>2, LenProperties
  <2>2. \A i \in 1..n : b[i] \in Member
    BY <1>2, <2>1, ElementOfSeq
  <2>3. SubSeq(b, 1, n) \in Seq(Member) /\ Len(SubSeq(b, 1, n)) = IF 1 <= n THEN n - 1 + 1 ELSE 0
    BY <2>1, <2>2, SubSeqProperties
  <2> QED
    BY <2>1, <2>3
<1>4. ASSUME NEW n \in 1..Len(b)
      PROVE  [SubSeq(b, 1, n) EXCEPT ![n].whole = FALSE] \in Seq(Member)
  <2>1. n \in 0..Len(b) /\ n \in Nat
    BY <1>2, LenProperties
  <2> DEFINE c == SubSeq(b, 1, n)
  <2>2. c \in Seq(Member) /\ Len(c) = n /\ n \in 1..Len(c)
    BY <1>3, <2>1
  <2> HIDE DEF c
  <2>3. c[n] \in Member
    BY <2>2, ElementOfSeq
  <2>4. [c[n] EXCEPT !.whole = FALSE] \in Member
    BY <2>3 DEF Member
  <2>5. [c EXCEPT ![n] = [c[n] EXCEPT !.whole = FALSE]] \in Seq(Member)
    BY <2>2, <2>4, ExceptSeq
  <2> QED
    BY <2>5 DEF c
<1> QED
  BY <1>1, <1>3, <1>4 DEF Geo!Cut

\* json_get_string gives the start of a value that the answer has under that name, or leaves
\* the buffer alone.
LEMMA Picked ==
    ASSUME NEW m \in Seq(Member), NEW key, NEW old
    PROVE  \/ Geo!GetString(Geo!FromAddress(m), key, old) = old
           \/ \E i \in 1..Len(m) :
                 /\ m[i].key = key /\ m[i].name # <<>>
                 /\ Geo!GetString(Geo!FromAddress(m), key, old) = Geo!Clip(m[i].name, Size)
<1> DEFINE at == {i \in 1..Len(m) : m[i].key = "address"}
           f == CHOOSE i \in at : \A j \in at : i <= j
           r == Geo!FromAddress(m)
<1>1. Len(m) \in Nat
  BY LenProperties
<1>2. r \in Seq(Member) /\ \A i \in 1..Len(r) : \E k \in 1..Len(m) : r[i] = m[k]
  <2>1. CASE at = {}
    <3>1. r = m
      BY <2>1 DEF Geo!FromAddress
    <3> QED
      BY <3>1
  <2>2. CASE at # {}
    <3>1. at \in SUBSET Nat
      BY <1>1
    <3>2. f \in at
      <4>1. \E i \in at : \A j \in at : i <= j
        BY <2>2, <3>1, Least
      <4> QED
        BY <4>1
    <3>3. f \in 1..Len(m)
      BY <3>2
    <3>4. r = SubSeq(m, f, Len(m))
      BY <2>2 DEF Geo!FromAddress
    <3> HIDE DEF f, at, r
    <3>5. \A i \in f..Len(m) : m[i] \in Member
      BY <1>1, <3>3, ElementOfSeq
    <3>6. f \in Int /\ Len(m) \in Int
      BY <1>1, <3>3
    <3>7. /\ r \in Seq(Member) /\ Len(r) = Len(m) - f + 1
          /\ \A i \in 1..Len(m) - f + 1 : r[i] = m[f + i - 1]
      BY <1>1, <3>3, <3>4, <3>5, <3>6, SubSeqProperties
    <3>8. \A i \in 1..Len(r) : f + i - 1 \in 1..Len(m)
      BY <1>1, <3>3, <3>7
    <3> QED
      BY <3>7, <3>8
  <2> QED
    BY <2>1, <2>2
<1> DEFINE of == {i \in 1..Len(r) : r[i].key = key}
           g == CHOOSE x \in of : \A j \in of : x <= j
<1>3. \/ Geo!GetString(r, key, old) = old
      \/ of # {} /\ r[g].name # <<>> /\ Geo!GetString(r, key, old) = Geo!Clip(r[g].name, Size)
  <2> HIDE DEF r
  <2> QED
    BY DEF Geo!GetString
<1> HIDE DEF r
<1>4. of # {} => g \in of
  <2>1. of \in SUBSET Nat
    BY <1>2, LenProperties
  <2>2. of # {} => \E i \in of : \A j \in of : i <= j
    BY <2>1, Least
  <2> QED
    BY <2>2
<1>5. CASE of # {} /\ r[g].name # <<>> /\ Geo!GetString(r, key, old) = Geo!Clip(r[g].name, Size)
  <2>1. g \in 1..Len(r) /\ r[g].key = key
    BY <1>4, <1>5
  <2> HIDE DEF g, of
  <2>2. PICK k \in 1..Len(m) : r[g] = m[k]
    BY <1>2, <2>1
  <2> QED
    BY <1>5, <2>1, <2>2 DEF r
<1> QED
  BY <1>3, <1>5 DEF r

\* A buffer that was empty holds a value of the answer, or is still empty.
LEMMA TakenFromAnswer ==
    ASSUME NEW a \in Geo!Answers, NEW key, NEW x,
           x = Geo!GetString(Geo!FromAddress(a.members), key, <<>>), x # <<>>
    PROVE  x \in Seq(Chars) /\ \E t \in Geo!Given(a, key) : x = Geo!Clip(t, Size)
<1> DEFINE m == a.members
<1>1. m \in Seq(Member)
  BY BodyMembers
<1> HIDE DEF m
<1>2. x = Geo!GetString(Geo!FromAddress(m), key, <<>>)
  BY DEF m
<1>3. PICK i \in 1..Len(m) : m[i].key = key /\ x = Geo!Clip(m[i].name, Size)
  <2> DEFINE e == <<>>
             y == Geo!GetString(Geo!FromAddress(m), key, e)
  <2> HIDE DEF e
  <2>1. \/ y = e
        \/ \E i \in 1..Len(m) :
              /\ m[i].key = key /\ m[i].name # <<>>
              /\ y = Geo!Clip(m[i].name, Size)
    BY <1>1, Picked
  <2>2. x = y /\ x # e
    BY <1>2 DEF e
  <2> HIDE DEF y
  <2> QED
    BY <2>1, <2>2
<1>4. m[i] \in Member
  BY <1>1, ElementOfSeq
<1>5. m[i].name \in Seq(Chars)
  BY <1>4, CityConstants DEF Member
<1>6. Size \in Nat /\ Size > 0
  BY CityConstants
<1>7. Geo!Clip(m[i].name, Size) \in Seq(Chars)
  BY <1>5, <1>6, Clipped
<1>8. m[i].name \in Geo!Given(a, key)
  BY <1>3 DEF Geo!Given, m
<1> QED
  BY <1>3, <1>7, <1>8

\* build_city_hyphen: a name that is not empty, fits, and has no separator
LEMMA JoinedName ==
    ASSUME city \in Seq(Chars), state \in Seq(Chars)
    PROVE  LET x == Geo!Clip(Geo!Joined, Size)
           IN  Len(x) \in 1..Size - 1 /\ \A i \in 1..Len(x) : x[i] \notin Geo!Separators
<1> DEFINE c == IF city # <<>> THEN city ELSE Geo!Dashes
           t == IF state # <<>> THEN c \o <<"-">> \o state ELSE c
           u == Geo!Clip(t, Size)
           x == Geo!Clip(Geo!Joined, Size)
<1>1. c \in Seq(Chars) /\ Len(c) \in Nat /\ Len(c) >= 1
  <2>1. Geo!Dashes \in Seq(Chars) /\ Len(Geo!Dashes) = 4
    BY Hyphen DEF Geo!Dashes
  <2>2. city # <<>> => Len(city) \in Nat \ {0}
    BY EmptySeq
  <2>3. CASE city # <<>>
    <3>1. c = city
      BY <2>3
    <3> HIDE DEF c
    <3> QED
      BY <2>2, <2>3, <3>1
  <2>4. CASE city = <<>>
    <3>1. c = Geo!Dashes
      BY <2>4
    <3> HIDE DEF c
    <3> QED
      BY <2>1, <3>1
  <2> QED
    BY <2>3, <2>4
<1> HIDE DEF c
<1>2. t \in Seq(Chars) /\ Len(t) \in Nat /\ Len(t) >= 1
  <2>1. <<"-">> \in Seq(Chars) /\ Len(<<"-">>) = 1
    BY Hyphen
  <2>2. c \o <<"-">> \in Seq(Chars) /\ Len(c \o <<"-">>) = Len(c) + 1
    BY <1>1, <2>1, ConcatProperties
  <2>3. /\ c \o <<"-">> \o state \in Seq(Chars)
        /\ Len(c \o <<"-">> \o state) = Len(c) + 1 + Len(state)
    BY <2>2, ConcatProperties
  <2>4. Len(state) \in Nat
    BY LenProperties
  <2> QED
    BY <1>1, <2>3, <2>4
<1>3. Geo!Joined = Geo!Sanitized(u)
  BY DEF Geo!Joined, c
<1> HIDE DEF t
<1>4. u \in Seq(Chars) /\ Len(u) \in 1..Size - 1
  <2>1. u \in Seq(Chars) /\ Len(u) = IF Len(t) < Size THEN Len(t) ELSE Size - 1
    BY <1>2, CityConstants, Clipped
  <2> QED
    BY <1>2, <2>1, CityConstants
<1> HIDE DEF u
<1>5. /\ Geo!Joined \in Seq(Chars) /\ Len(Geo!Joined) = Len(u)
      /\ \A i \in 1..Len(u) : Geo!Joined[i] \notin Geo!Separators
  <2>1. Geo!Joined = [i \in 1..Len(u) |-> IF u[i] \in Geo!Separators THEN "-" ELSE u[i]]
    BY <1>3 DEF Geo!Sanitized
  <2>2. \A i \in 1..Len(u) : u[i] \in Chars
    BY <1>4, ElementOfSeq
  <2>3. Geo!Joined \in [1..Len(u) -> Chars]
    BY <2>1, <2>2, Hyphen
  <2>4. Len(u) \in Nat
    BY <1>4, LenProperties
  <2>5. Geo!Joined \in Seq(Chars)
    BY <2>3, <2>4, SeqDef
  <2>6. "-" \notin Geo!Separators
    BY DEF Geo!Separators
  <2>7. Len(Geo!Joined) = Len(u)
    BY <2>3, <2>4, <2>5, LenProperties
  <2> QED
    BY <2>1, <2>5, <2>6, <2>7
<1>6. /\ Len(x) = IF Len(Geo!Joined) < Size THEN Len(Geo!Joined) ELSE Size - 1
      /\ \A i \in 1..Len(x) : x[i] = Geo!Joined[i]
  BY <1>5, CityConstants, Clipped
<1> HIDE DEF x
<1>7. Len(x) \in 1..Size - 1 /\ Len(x) = Len(u)
  BY <1>4, <1>5, <1>6, CityConstants
<1>8. \A i \in 1..Len(x) : x[i] \notin Geo!Separators
  BY <1>5, <1>6, <1>7
<1> QED
  BY <1>7, <1>8 DEF x

LEMMA CityAsk == CityInv /\ Geo!Ask => CityInv'
<1> SUFFICES ASSUME CityInv, Geo!Ask PROVE CityInv'
  OBVIOUS
<1>1. g_pc = "ask" /\ UNCHANGED g_city_state /\ city = <<>> /\ state = <<>>
  BY DEF CityInv, Geo!Ask
<1>2. PICK a \in Geo!Answers \cup {Geo!NoAnswer} :
         /\ IF a.ok
            THEN /\ city' = Geo!GetString(Geo!FromAddress(a.members), "city", city)
                 /\ state' = Geo!GetString(Geo!FromAddress(a.members), "state", state)
            ELSE UNCHANGED <<city, state>>
         /\ IF a.ok /\ Geo!Found THEN g_pc' = "join" /\ body' = a /\ UNCHANGED attempt
            ELSE /\ attempt' = attempt + 1 /\ body' = Geo!NoAnswer
                 /\ g_pc' = IF attempt < Attempts THEN "ask" ELSE "unknown"
  BY DEF Geo!Ask
<1>3. (Geo!NoSeparator /\ Geo!NameFits)'
  BY <1>1 DEF CityInv, CityNamed, Geo!NoSeparator, Geo!NameFits
<1>4. CASE a.ok
  <2>1. a \in Geo!Answers
    BY <1>2, <1>4 DEF Geo!NoAnswer
  <2>2. /\ city' = Geo!GetString(Geo!FromAddress(a.members), "city", <<>>)
        /\ state' = Geo!GetString(Geo!FromAddress(a.members), "state", <<>>)
    BY <1>1, <1>2, <1>4
  <2>3. city' # <<>> =>
           city' \in Seq(Chars) /\ \E t \in Geo!Given(a, "city") : city' = Geo!Clip(t, Size)
    BY <2>1, <2>2, TakenFromAnswer
  <2>4. state' # <<>> =>
           state' \in Seq(Chars) /\ \E t \in Geo!Given(a, "state") : state' = Geo!Clip(t, Size)
    BY <2>1, <2>2, TakenFromAnswer
  <2>5. city' \in Seq(Chars) /\ state' \in Seq(Chars)
    BY <2>3, <2>4, EmptySeq
  <2>6. g_pc' = "ask" => city' = <<>> /\ state' = <<>>
    BY <1>2, <1>4 DEF Geo!Found
  <2>7. g_pc' = "join" => body' = a
    BY <1>2
  <2>8. Geo!OneAnswer'
    BY <1>4, <2>3, <2>4, <2>7 DEF Geo!OneAnswer, Geo!Given
  <2> QED
    BY <1>3, <2>5, <2>6, <2>8 DEF CityInv, CityNamed
<1>5. CASE ~a.ok
  <2>1. city' = <<>> /\ state' = <<>> /\ g_pc' # "join"
    BY <1>1, <1>2, <1>5
  <2> QED
    BY <1>3, <2>1, EmptySeq DEF CityInv, CityNamed, Geo!OneAnswer
<1> QED
  BY <1>4, <1>5

\* The name of the city is of one answer, without separators, never empty and fits, for all texts
\* of the members, wherever the body was cut, and for buffers of every size that holds "----".
THEOREM CityKept == Geo!Spec => []CityNamed
<1>1. Geo!Init => CityInv
  <2> SUFFICES ASSUME Geo!Init PROVE CityInv
    OBVIOUS
  <2>1. g_city_state = <<"-", "-", "-", "-">> /\ city = <<>> /\ state = <<>> /\ g_pc = "ask"
    BY DEF Geo!Init, Geo!Dashes
  <2>2. Len(g_city_state) = 4 /\ \A i \in 1..4 : g_city_state[i] = "-"
    BY <2>1
  <2>3. Geo!NameFits
    BY <2>2, CityConstants DEF Geo!NameFits
  <2>4. Geo!NoSeparator
    BY <2>2 DEF Geo!NoSeparator, Geo!Separators
  <2> QED
    BY <2>1, <2>3, <2>4, EmptySeq DEF CityInv, CityNamed, Geo!OneAnswer
<1>2. CityInv /\ [Geo!Next]_(Geo!vars) => CityInv'
  <2> SUFFICES ASSUME CityInv, [Geo!Next]_(Geo!vars) PROVE CityInv'
    OBVIOUS
  <2>1. CASE Geo!Join
    <3>1. g_pc' = "done" /\ g_city_state' = Geo!Clip(Geo!Joined, Size) /\ UNCHANGED <<city, state>>
      BY <2>1 DEF Geo!Join
    <3>2. (Geo!NoSeparator /\ Geo!NameFits)'
      BY <3>1, JoinedName DEF CityInv, Geo!NoSeparator, Geo!NameFits, Geo!Separators
    <3> QED
      BY <3>1, <3>2 DEF CityInv, CityNamed, Geo!OneAnswer
  <2>2. CASE Geo!Unknown
    <3>1. g_pc' = "done" /\ g_city_state' = <<"-", "-", "-", "-">> /\ UNCHANGED <<city, state>>
      BY <2>2 DEF Geo!Unknown, Geo!Dashes
    <3>2. Len(g_city_state') = 4 /\ \A i \in 1..4 : g_city_state'[i] = "-"
      BY <3>1
    <3>3. Geo!NameFits'
      BY <3>2, CityConstants DEF Geo!NameFits
    <3>4. Geo!NoSeparator'
      BY <3>2 DEF Geo!NoSeparator, Geo!Separators
    <3> QED
      BY <3>1, <3>3, <3>4 DEF CityInv, CityNamed, Geo!OneAnswer
  <2>3. CASE UNCHANGED Geo!vars
    BY <2>3 DEF Geo!vars, CityInv, CityNamed, Geo!OneAnswer, Geo!NoSeparator, Geo!NameFits
  <2> QED
    BY <2>1, <2>2, <2>3, CityAsk DEF Geo!Next
<1>3. CityInv => CityNamed
  BY DEF CityInv
<1> QED
  BY <1>1, <1>2, <1>3, PTL DEF Geo!Spec

------------------------------------------------------------------------------
(* The start of the device *)

Labels == {"start", "netif", "dce", "cereg", "cpsi", "handshake", "data", "wait", "failed",
           "reset"} \cup Start!Online

\* The variables that the argument does not follow any further
Types ==
    /\ mpc \in Labels /\ mode \in {"undef", "command", "data", "cmux"}
    /\ handler \in BOOLEAN /\ up_bit \in BOOLEAN /\ ue_valid \in BOOLEAN /\ sensing \in BOOLEAN
    /\ dns \in {"none", "peer", "public"} /\ b_city \in {"unset", "----", "known"}

\* A loop of modem_ppp.c counts below its limit, and nobody else counts.
Counting ==
    /\ b_tries \in Nat
    /\ mpc = "cereg" => b_tries < CeregPolls
    /\ mpc = "cpsi" => b_tries < CpsiTries
    /\ mpc = "geo" => b_tries < Attempts
    /\ mpc \notin {"cereg", "cpsi", "geo"} => b_tries = 0

\* The queue of the event task holds what the link has done and the handler has not seen:
\* while the device runs, the loss of a link is always there.
Queue ==
    \/ link = "down" /\ events = <<>> /\ ~up_bit
    \/ link = "up" /\ events \in {<<>>, <<"GOT_IP">>}
    \/ link = "lost" /\ events \in {<<"LOST_IP">>, <<"GOT_IP", "LOST_IP">>}
    \/ link = "lost" /\ events = <<>> /\ mpc = "reset"

\* The modem enters data mode after the last AT command, the link needs data mode, and the
\* main task goes on after the first link.
Stages ==
    /\ mpc \in {"start", "netif", "dce"} => mode = "undef"
    /\ mpc \in {"cereg", "cpsi", "handshake", "data"} => mode = "command"
    /\ link # "down" => mode \in {"data", "cmux"}
    /\ mpc \in Start!Online => link # "down"

\* No city before the cell is known, and one before the sensors are started
Places ==
    /\ mpc \in {"start", "netif", "dce", "cereg", "cpsi"} => b_city = "unset"
    /\ mpc \in {"sensors", "done", "halted"} => b_city # "unset"

Progress ==
    Types /\ Counting /\ Stages /\ Places /\ Start!DnsConfigured /\ Start!CityFromCell

BootInv == Queue /\ Progress

------------------------------------------------------------------------------

\* The queue when an event is posted to it or taken from it
LEMMA Events ==
    /\ Append(<<>>, "GOT_IP") = <<"GOT_IP">>
    /\ Append(<<>>, "LOST_IP") = <<"LOST_IP">>
    /\ Append(<<"GOT_IP">>, "LOST_IP") = <<"GOT_IP", "LOST_IP">>
    /\ Tail(<<"GOT_IP">>) = <<>> /\ Head(<<"GOT_IP">>) = "GOT_IP"
    /\ Tail(<<"LOST_IP">>) = <<>> /\ Head(<<"LOST_IP">>) = "LOST_IP"
    /\ Tail(<<"GOT_IP", "LOST_IP">>) = <<"LOST_IP">>
    /\ Head(<<"GOT_IP", "LOST_IP">>) = "GOT_IP"
<1>1. Append(<<>>, "GOT_IP") = <<"GOT_IP">>
  OBVIOUS
<1>2. Append(<<>>, "LOST_IP") = <<"LOST_IP">>
  OBVIOUS
<1>3. Append(<<"GOT_IP">>, "LOST_IP") = <<"GOT_IP", "LOST_IP">>
  <2> DEFINE S == {"GOT_IP", "LOST_IP"}
             q == Append(<<"GOT_IP">>, "LOST_IP")
             r == <<"GOT_IP", "LOST_IP">>
  <2>1. <<"GOT_IP">> \in Seq(S)
    OBVIOUS
  <2>2. q \in Seq(S) /\ Len(q) = 2 /\ q[1] = "GOT_IP" /\ q[2] = "LOST_IP"
    BY <2>1
  <2>3. r \in Seq(S) /\ Len(r) = 2 /\ r[1] = "GOT_IP" /\ r[2] = "LOST_IP"
    OBVIOUS
  <2> HIDE DEF q, r, S
  <2>4. \A i \in 1..Len(q) : q[i] = r[i]
    BY <2>2, <2>3
  <2>5. q = r
    BY <2>2, <2>3, <2>4, SeqEqual
  <2> QED
    BY <2>5 DEF q, r
<1>4. Tail(<<"GOT_IP">>) = <<>>
  OBVIOUS
<1>5. Tail(<<"LOST_IP">>) = <<>>
  OBVIOUS
<1>6. Tail(<<"GOT_IP", "LOST_IP">>) = <<"LOST_IP">>
  OBVIOUS
<1>7. Head(<<"GOT_IP">>) = "GOT_IP" /\ Head(<<"LOST_IP">>) = "LOST_IP"
  OBVIOUS
<1>8. Head(<<"GOT_IP", "LOST_IP">>) = "GOT_IP"
  OBVIOUS
<1> QED
  BY <1>1, <1>2, <1>3, <1>4, <1>5, <1>6, <1>7, <1>8

\* What Queue allows has the type that TypeOK asks for.
LEMMA Queues ==
    ASSUME NEW q \in {<<>>, <<"GOT_IP">>, <<"LOST_IP">>, <<"GOT_IP", "LOST_IP">>}
    PROVE  q \in Seq({"GOT_IP", "LOST_IP"}) /\ Len(q) <= 2
<1>1. <<>> \in Seq({"GOT_IP", "LOST_IP"}) /\ Len(<<>>) <= 2
  OBVIOUS
<1>2. <<"GOT_IP">> \in Seq({"GOT_IP", "LOST_IP"}) /\ Len(<<"GOT_IP">>) <= 2
  OBVIOUS
<1>3. <<"LOST_IP">> \in Seq({"GOT_IP", "LOST_IP"}) /\ Len(<<"LOST_IP">>) <= 2
  OBVIOUS
<1>4. <<"GOT_IP", "LOST_IP">> \in Seq({"GOT_IP", "LOST_IP"}) /\ Len(<<"GOT_IP", "LOST_IP">>) <= 2
  OBVIOUS
<1> QED
  BY <1>1, <1>2, <1>3, <1>4

\* Another round of a loop of modem_ppp.c stays below the limit or leaves the loop.
LEMMA Round ==
    ASSUME NEW limit \in Nat, NEW l, b_tries \in Nat, Start!Again(limit, l)
    PROVE  \/ b_tries' \in Nat /\ b_tries' < limit /\ mpc' = mpc
           \/ b_tries' = 0 /\ mpc' = l
  BY DEF Start!Again, Start!Goto

LEMMA BootInit == Start!Init => BootInv
<1> SUFFICES ASSUME Start!Init PROVE BootInv
  OBVIOUS
<1> USE DEF Start!Init
<1>1. Types /\ Counting
  BY DeviceAssumption DEF Types, Labels, Counting
<1>2. Queue
  BY DEF Queue
<1>3. Stages /\ Start!DnsConfigured /\ Places /\ Start!CityFromCell
  BY DEF Stages, Start!Online, Start!DnsConfigured, Places, Start!CityFromCell
<1> QED
  BY <1>1, <1>2, <1>3 DEF BootInv, Progress

\* The queue while the link and the event task do nothing
LEMMA QueueKept ==
    ASSUME Queue, mpc # "reset", UNCHANGED <<link, events, up_bit>>
    PROVE  Queue'
  BY DEF Queue

\* The queue when the link comes up or is lost
LEMMA QueuePosted == Queue /\ (Start!LinkUp \/ Start!LinkLost) => Queue'
<1>1. ASSUME Queue, Start!LinkUp PROVE Queue'
  <2>1. mpc # "reset" /\ link = "down" /\ link' = "up" /\ events' = Append(events, "GOT_IP")
    BY <1>1 DEF Start!LinkUp, Start!Alive
  <2>2. events = <<>>
    BY <1>1, <2>1 DEF Queue
  <2>3. events' = <<"GOT_IP">>
    BY <2>1, <2>2, Events
  <2> QED
    BY <2>1, <2>3 DEF Queue
<1>2. ASSUME Queue, Start!LinkLost PROVE Queue'
  <2>1. mpc # "reset" /\ link # "lost" /\ link' = "lost" /\ events' = Append(events, "LOST_IP")
    BY <1>2 DEF Start!LinkLost, Start!Alive
  <2>2. events \in {<<>>, <<"GOT_IP">>}
    BY <1>2, <2>1 DEF Queue
  <2>3. events' \in {<<"LOST_IP">>, <<"GOT_IP", "LOST_IP">>}
    BY <2>1, <2>2, Events
  <2> QED
    BY <2>1, <2>3 DEF Queue
<1> QED
  BY <1>1, <1>2

\* What on_ip_event finds in the queue, and what it leaves there
LEMMA QueueTaken ==
    ASSUME Queue, Start!OnIpEvent
    PROVE  /\ Queue'
           /\ \/ mpc' = mpc /\ b_tries' = b_tries /\ up_bit' = TRUE
              \/ mpc' = "reset" /\ b_tries' = 0 /\ up_bit' = up_bit
<1>1. /\ mpc # "reset" /\ events # <<>> /\ events' = Tail(events) /\ link' = link
      /\ Head(events) = "GOT_IP" => up_bit' = TRUE /\ mpc' = mpc /\ b_tries' = b_tries
      /\ Head(events) # "GOT_IP" => mpc' = "reset" /\ b_tries' = 0 /\ up_bit' = up_bit
  BY DEF Start!OnIpEvent, Start!Alive, Start!Goto
<1>2. CASE link = "up" /\ events = <<"GOT_IP">>
  <2>1. events' = <<>> /\ Head(events) = "GOT_IP"
    BY <1>1, <1>2, Events
  <2> QED
    BY <1>1, <1>2, <2>1 DEF Queue
<1>3. CASE link = "lost" /\ events = <<"LOST_IP">>
  <2>1. events' = <<>> /\ Head(events) = "LOST_IP"
    BY <1>1, <1>3, Events
  <2> QED
    BY <1>1, <1>3, <2>1 DEF Queue
<1>4. CASE link = "lost" /\ events = <<"GOT_IP", "LOST_IP">>
  <2>1. events' = <<"LOST_IP">> /\ Head(events) = "GOT_IP"
    BY <1>1, <1>4, Events
  <2> QED
    BY <1>1, <1>4, <2>1 DEF Queue
<1>5. \/ link = "up" /\ events = <<"GOT_IP">>
      \/ link = "lost" /\ events \in {<<"LOST_IP">>, <<"GOT_IP", "LOST_IP">>}
  BY <1>1 DEF Queue
<1> QED
  BY <1>2, <1>3, <1>4, <1>5

\* A step keeps the variables in their types.
LEMMA TypesStep == Types /\ b_tries \in Nat /\ [Start!Next]_(Start!vars) => Types'
<1> SUFFICES ASSUME Types, b_tries \in Nat, [Start!Next]_(Start!vars) PROVE Types'
  OBVIOUS
<1> USE DeviceAssumption DEF Types, Labels, Start!Online, Start!Goto, Start!net
<1>1. CASE Start!SystemInit
  BY <1>1 DEF Start!SystemInit
<1>2. CASE Start!CreateNetif
  BY <1>2 DEF Start!CreateNetif
<1>3. CASE Start!CreateDce
  BY <1>3 DEF Start!CreateDce
<1>4. CASE Start!PollCereg
  BY <1>4, Round DEF Start!PollCereg
<1>5. CASE Start!PollCpsi
  BY <1>5, Round DEF Start!PollCpsi
<1>6. CASE Start!Handshake
  BY <1>6 DEF Start!Handshake
<1>7. CASE Start!EnterData
  BY <1>7 DEF Start!EnterData
<1>8. CASE Start!GotIp
  BY <1>8 DEF Start!GotIp
<1>9. CASE Start!IpTimeout
  BY <1>9 DEF Start!IpTimeout
<1>10. CASE Start!StartFailed
  BY <1>10 DEF Start!StartFailed
<1>11. CASE Start!CheckDns
  BY <1>11 DEF Start!CheckDns, Start!DnsFallback
<1>12. CASE Start!WaitSntp
  BY <1>12 DEF Start!WaitSntp
<1>13. CASE Start!SkipGeo
  BY <1>13 DEF Start!SkipGeo
<1>14. CASE Start!TryGeo
  BY <1>14, Round DEF Start!TryGeo
<1>15. CASE Start!StartSensing
  BY <1>15 DEF Start!StartSensing
<1>16. CASE Start!LinkUp
  BY <1>16 DEF Start!LinkUp
<1>17. CASE Start!LinkLost
  BY <1>17 DEF Start!LinkLost
<1>18. CASE Start!OnIpEvent
  <2>1. mpc' \in {mpc, "reset"} /\ up_bit' \in {up_bit, TRUE}
    BY <1>18 DEF Start!OnIpEvent
  <2>2. mpc' \in Labels
    BY <2>1
  <2>3. up_bit' \in BOOLEAN
    BY <2>1
  <2> QED
    BY <1>18, <2>2, <2>3 DEF Start!OnIpEvent
<1>19. CASE Start!Reboot
  BY <1>19 DEF Start!Reboot
<1>20. CASE UNCHANGED Start!vars
  BY <1>20 DEF Start!vars
<1> QED
  BY <1>1, <1>2, <1>3, <1>4, <1>5, <1>6, <1>7, <1>8, <1>9, <1>10, <1>11, <1>12, <1>13,
     <1>14, <1>15, <1>16, <1>17, <1>18, <1>19, <1>20 DEF Start!Next, Start!Main

\* A step keeps the loops below their limits.
LEMMA CountingStep == Counting /\ [Start!Next]_(Start!vars) => Counting'
<1> SUFFICES ASSUME Counting, [Start!Next]_(Start!vars) PROVE Counting'
  OBVIOUS
<1> USE DeviceAssumption DEF Counting, Start!Goto
<1>1. CASE Start!SystemInit
  BY <1>1 DEF Start!SystemInit
<1>2. CASE Start!CreateNetif
  BY <1>2 DEF Start!CreateNetif
<1>3. CASE Start!CreateDce
  BY <1>3 DEF Start!CreateDce
<1>4. CASE Start!PollCereg
  BY <1>4, Round DEF Start!PollCereg
<1>5. CASE Start!PollCpsi
  BY <1>5, Round DEF Start!PollCpsi
<1>6. CASE Start!Handshake
  BY <1>6 DEF Start!Handshake
<1>7. CASE Start!EnterData
  BY <1>7 DEF Start!EnterData
<1>8. CASE Start!GotIp
  BY <1>8 DEF Start!GotIp
<1>9. CASE Start!IpTimeout
  BY <1>9 DEF Start!IpTimeout
<1>10. CASE Start!StartFailed
  BY <1>10 DEF Start!StartFailed
<1>11. CASE Start!CheckDns
  BY <1>11 DEF Start!CheckDns
<1>12. CASE Start!WaitSntp
  BY <1>12 DEF Start!WaitSntp
<1>13. CASE Start!SkipGeo
  BY <1>13 DEF Start!SkipGeo
<1>14. CASE Start!TryGeo
  BY <1>14, Round DEF Start!TryGeo
<1>15. CASE Start!StartSensing
  BY <1>15 DEF Start!StartSensing
<1>16. CASE Start!LinkUp
  BY <1>16 DEF Start!LinkUp
<1>17. CASE Start!LinkLost
  BY <1>17 DEF Start!LinkLost
<1>18. CASE Start!OnIpEvent
  BY <1>18 DEF Start!OnIpEvent
<1>19. CASE Start!Reboot
  BY <1>19 DEF Start!Reboot
<1>20. CASE UNCHANGED Start!vars
  BY <1>20 DEF Start!vars
<1> QED
  BY <1>1, <1>2, <1>3, <1>4, <1>5, <1>6, <1>7, <1>8, <1>9, <1>10, <1>11, <1>12, <1>13,
     <1>14, <1>15, <1>16, <1>17, <1>18, <1>19, <1>20 DEF Start!Next, Start!Main

\* A step keeps the order of command mode, data mode, link and clients.
LEMMA StagesStep ==
    Queue /\ Counting /\ Stages /\ [Start!Next]_(Start!vars) => Stages'
<1> SUFFICES ASSUME Queue, Counting, Stages, [Start!Next]_(Start!vars) PROVE Stages'
  OBVIOUS
<1>0. b_tries \in Nat /\ (up_bit => link # "down")
  BY DEF Queue, Counting
<1> USE DeviceAssumption DEF Stages, Start!Online, Start!Goto, Start!net
<1>1. CASE Start!SystemInit
  BY <1>1 DEF Start!SystemInit
<1>2. CASE Start!CreateNetif
  BY <1>2 DEF Start!CreateNetif
<1>3. CASE Start!CreateDce
  BY <1>3 DEF Start!CreateDce
<1>4. CASE Start!PollCereg
  BY <1>4, <1>0, Round DEF Start!PollCereg
<1>5. CASE Start!PollCpsi
  BY <1>5, <1>0, Round DEF Start!PollCpsi
<1>6. CASE Start!Handshake
  BY <1>6 DEF Start!Handshake
<1>7. CASE Start!EnterData
  BY <1>7 DEF Start!EnterData
<1>8. CASE Start!GotIp
  BY <1>8, <1>0 DEF Start!GotIp
<1>9. CASE Start!IpTimeout
  BY <1>9 DEF Start!IpTimeout
<1>10. CASE Start!StartFailed
  BY <1>10 DEF Start!StartFailed
<1>11. CASE Start!CheckDns
  BY <1>11 DEF Start!CheckDns
<1>12. CASE Start!WaitSntp
  BY <1>12 DEF Start!WaitSntp
<1>13. CASE Start!SkipGeo
  BY <1>13 DEF Start!SkipGeo
<1>14. CASE Start!TryGeo
  BY <1>14, <1>0, Round DEF Start!TryGeo
<1>15. CASE Start!StartSensing
  BY <1>15 DEF Start!StartSensing
<1>16. CASE Start!LinkUp
  BY <1>16 DEF Start!LinkUp
<1>17. CASE Start!LinkLost
  BY <1>17 DEF Start!LinkLost
<1>18. CASE Start!OnIpEvent
  BY <1>18 DEF Start!OnIpEvent
<1>19. CASE Start!Reboot
  BY <1>19 DEF Start!Reboot
<1>20. CASE UNCHANGED Start!vars
  BY <1>20 DEF Start!vars
<1> QED
  BY <1>1, <1>2, <1>3, <1>4, <1>5, <1>6, <1>7, <1>8, <1>9, <1>10, <1>11, <1>12, <1>13,
     <1>14, <1>15, <1>16, <1>17, <1>18, <1>19, <1>20 DEF Start!Next, Start!Main

\* A step keeps the name servers and the city in their places.
LEMMA PlacesStep ==
    ASSUME Counting, Stages, Places, Start!DnsConfigured, Start!CityFromCell,
           [Start!Next]_(Start!vars)
    PROVE  Places' /\ Start!DnsConfigured' /\ Start!CityFromCell'
<1>0. b_tries \in Nat /\ (mpc \in Start!Online => link # "down")
  BY DEF Counting, Stages
<1> USE DeviceAssumption DEF Places, Start!DnsConfigured, Start!CityFromCell, Start!Online,
        Start!Goto, Start!net
<1>1. CASE Start!SystemInit
  BY <1>1 DEF Start!SystemInit
<1>2. CASE Start!CreateNetif
  BY <1>2 DEF Start!CreateNetif
<1>3. CASE Start!CreateDce
  BY <1>3 DEF Start!CreateDce
<1>4. CASE Start!PollCereg
  BY <1>4, <1>0, Round DEF Start!PollCereg
<1>5. CASE Start!PollCpsi
  BY <1>5, <1>0, Round DEF Start!PollCpsi
<1>6. CASE Start!Handshake
  BY <1>6 DEF Start!Handshake
<1>7. CASE Start!EnterData
  BY <1>7 DEF Start!EnterData
<1>8. CASE Start!GotIp
  BY <1>8 DEF Start!GotIp
<1>9. CASE Start!IpTimeout
  BY <1>9 DEF Start!IpTimeout
<1>10. CASE Start!StartFailed
  BY <1>10 DEF Start!StartFailed
<1>11. CASE Start!CheckDns
  BY <1>11 DEF Start!CheckDns, Start!DnsFallback
<1>12. CASE Start!WaitSntp
  BY <1>12 DEF Start!WaitSntp
<1>13. CASE Start!SkipGeo
  BY <1>13 DEF Start!SkipGeo
<1>14. CASE Start!TryGeo
  BY <1>14, <1>0, Round DEF Start!TryGeo, Start!CanGeolocate
<1>15. CASE Start!StartSensing
  BY <1>15 DEF Start!StartSensing
<1>16. CASE Start!LinkUp
  BY <1>16, <1>0 DEF Start!LinkUp
<1>17. CASE Start!LinkLost
  BY <1>17 DEF Start!LinkLost
<1>18. CASE Start!OnIpEvent
  BY <1>18 DEF Start!OnIpEvent
<1>19. CASE Start!Reboot
  BY <1>19 DEF Start!Reboot
<1>20. CASE UNCHANGED Start!vars
  BY <1>20 DEF Start!vars
<1> QED
  BY <1>1, <1>2, <1>3, <1>4, <1>5, <1>6, <1>7, <1>8, <1>9, <1>10, <1>11, <1>12, <1>13,
     <1>14, <1>15, <1>16, <1>17, <1>18, <1>19, <1>20 DEF Start!Next, Start!Main

\* A step keeps the loss of the link in the queue.
LEMMA QueueStep == Queue /\ [Start!Next]_(Start!vars) => Queue'
<1> SUFFICES ASSUME Queue, [Start!Next]_(Start!vars) PROVE Queue'
  OBVIOUS
<1>1. CASE Start!Main
  <2>1. mpc # "reset" /\ UNCHANGED <<link, events, up_bit>>
    BY <1>1 DEF Start!Main, Start!net, Start!SystemInit, Start!CreateNetif, Start!CreateDce,
       Start!PollCereg, Start!PollCpsi, Start!Handshake, Start!EnterData, Start!GotIp,
       Start!IpTimeout, Start!StartFailed, Start!CheckDns, Start!WaitSntp, Start!SkipGeo,
       Start!TryGeo, Start!StartSensing
  <2> QED
    BY <2>1, QueueKept
<1>2. CASE Start!LinkUp \/ Start!LinkLost
  BY <1>2, QueuePosted
<1>3. CASE Start!OnIpEvent
  BY <1>3, QueueTaken
<1>4. CASE Start!Reboot
  BY <1>4 DEF Start!Reboot, Queue
<1>5. CASE UNCHANGED Start!vars
  BY <1>5 DEF Start!vars, Queue
<1> QED
  BY <1>1, <1>2, <1>3, <1>4, <1>5 DEF Start!Next

LEMMA BootStep == BootInv /\ [Start!Next]_(Start!vars) => BootInv'
<1> SUFFICES ASSUME Queue, Progress, [Start!Next]_(Start!vars) PROVE Queue' /\ Progress'
  BY DEF BootInv
<1>1. b_tries \in Nat
  BY DEF Progress, Counting
<1> QED
  BY <1>1, QueueStep, TypesStep, CountingStep, StagesStep, PlacesStep DEF Progress

LEMMA BootImplied == BootInv => Start!TypeOK /\ Start!OnlineOrDoomed /\ Start!AtInCommandMode
<1> SUFFICES ASSUME BootInv PROVE Start!TypeOK /\ Start!OnlineOrDoomed /\ Start!AtInCommandMode
  OBVIOUS
<1> USE DeviceAssumption DEF BootInv, Progress, Types, Labels, Start!Online, Counting, Queue,
        Stages
<1>1. b_tries \in 0..(CeregPolls + CpsiTries + Attempts)
  OBVIOUS
<1>2. events \in Seq({"GOT_IP", "LOST_IP"}) /\ Len(events) <= 2
  <2>1. events \in {<<>>, <<"GOT_IP">>, <<"LOST_IP">>, <<"GOT_IP", "LOST_IP">>}
    OBVIOUS
  <2> QED
    BY <2>1, Queues
<1>3. Start!TypeOK
  BY <1>1, <1>2 DEF Start!TypeOK
<1>4. Start!OnlineOrDoomed
  <2>1. CASE events = <<"LOST_IP">>
    <3>1. 1 \in DOMAIN events /\ events[1] = "LOST_IP"
      BY <2>1
    <3> QED
      BY <3>1 DEF Start!OnlineOrDoomed
  <2>2. CASE events = <<"GOT_IP", "LOST_IP">>
    <3>1. 2 \in DOMAIN events /\ events[2] = "LOST_IP"
      BY <2>2
    <3> QED
      BY <3>1 DEF Start!OnlineOrDoomed
  <2> QED
    BY <2>1, <2>2 DEF Start!OnlineOrDoomed
<1>5. Start!AtInCommandMode
  BY DEF Start!AtInCommandMode
<1> QED
  BY <1>3, <1>4, <1>5

LEMMA BootInvariant == Start!Spec => []BootInv
  BY BootInit, BootStep, PTL DEF Start!Spec

\* The loops of modem_ppp.c are bounded and at most two events wait for on_ip_event.
THEOREM BootTyped == Start!Spec => []Start!TypeOK
  BY BootInvariant, BootImplied, PTL

\* Once modem_ppp_start_blocking has returned ESP_OK, a link that is not up has its loss in
\* the queue of on_ip_event: the device never works on with a dead link.
THEOREM LossNoticed == Start!Spec => []OnlineOrDoomed
  BY BootInvariant, BootImplied, PTL DEF OnlineOrDoomed

\* modem_ppp_start_blocking sends AT commands in command mode only, before there is a link.
THEOREM CommandMode == Start!Spec => []Start!AtInCommandMode
  BY BootInvariant, BootImplied, PTL

\* There are name servers before app_main starts the first client.
THEOREM NamesResolve == Start!Spec => []Start!DnsConfigured
<1>1. BootInv => Start!DnsConfigured
  BY DEF BootInv, Progress
<1> QED
  BY <1>1, BootInvariant, PTL

\* The city comes from a cell of this boot and is set before sensor_task runs.
THEOREM CityKnown == Start!Spec => []Start!CityFromCell
<1>1. BootInv => Start!CityFromCell
  BY DEF BootInv, Progress
<1> QED
  BY <1>1, BootInvariant, PTL

\* The steps of app_main come in an order in which each finds what it needs.
THEOREM Ordered == Start!Spec => []BootOrdered
  BY CommandMode, NamesResolve, CityKnown, PTL DEF BootOrdered, Start!BootOrdered
==============================================================================
