------------------------- MODULE RedisOutageProofs -------------------------
(* Every outage, however long: the limiter lets one probe out at a time, and *)
(* a crash never finds Redis without what the room had, but for the writes    *)
(* that failed.                                                              *)
EXTENDS RedisOutage, FiniteSetTheorems, SequenceTheorems, TLAPS

-----------------------------------------------------------------------------
(* The limiter.                                                            *)

\* No probe is out while the circuit is open, unless a check older than the probe
\* opened it again: then a second may join the first when the period is over.
ProbeInv ==
    /\ checks \in Seq(Check)
    /\ state \in CircuitStates /\ relapsed \in BOOLEAN
    /\ OneProbeAtATime
    /\ ~relapsed /\ state = "OPEN" => Probes = {}

\* A check sent goes to the end, with its place.
LEMMA SentProbes ==
    ASSUME checks \in Seq(Check), NEW p \in BOOLEAN, Send(p)
    PROVE  /\ checks' \in Seq(Check)
           /\ Probes' = IF p THEN Probes \cup {Len(checks) + 1} ELSE Probes
<1> DEFINE c == [probe |-> p, sound |-> redis = "ready"]
<1>1. c \in Check /\ checks' = Append(checks, c)
  BY DEF Send, Check
<1>2. /\ checks' \in Seq(Check) /\ Len(checks') = Len(checks) + 1
      /\ \A i \in 1 .. Len(checks) : checks'[i] = checks[i]
      /\ checks'[Len(checks) + 1] = c
  BY <1>1
<1>3. DOMAIN checks = 1 .. Len(checks) /\ DOMAIN checks' = 1 .. (Len(checks) + 1) /\ Len(checks) \in Nat
  BY <1>2
<1> QED
  BY <1>2, <1>3 DEF Probes

\* When the first is answered the others move up.
LEMMA AnsweredProbes ==
    ASSUME checks \in Seq(Check), checks # <<>>, checks' = Tail(checks)
    PROVE  /\ checks' \in Seq(Check)
           /\ Probes' = {i \in 1 .. (Len(checks) - 1) : i + 1 \in Probes}
           /\ Head(checks).probe <=> 1 \in Probes
<1>1. /\ checks' \in Seq(Check) /\ Len(checks') = Len(checks) - 1
      /\ \A i \in 1 .. (Len(checks) - 1) : checks'[i] = checks[i + 1]
      /\ Len(checks) \in Nat \ {0} /\ Head(checks) = checks[1]
  OBVIOUS
<1>2. DOMAIN checks = 1 .. Len(checks) /\ DOMAIN checks' = 1 .. (Len(checks) - 1)
  BY <1>1
<1> QED
  BY <1>1, <1>2 DEF Probes

LEMMA ProbeInvHolds == OutageSpec => []ProbeInv
<1>1. Init => ProbeInv
  <2> SUFFICES ASSUME BreakerInit PROVE ProbeInv
    BY DEF Init
  <2>1. checks = << >> /\ checks \in Seq(Check) /\ DOMAIN checks = {}
    BY DEF BreakerInit
  <2>2. Probes = {}
    BY <2>1 DEF Probes
  <2> QED
    BY <2>1, <2>2 DEF BreakerInit, ProbeInv, OneProbeAtATime, CircuitStates
<1>2. ProbeInv /\ [Next]_vars => ProbeInv'
  <2> SUFFICES ASSUME ProbeInv, [Next]_vars PROVE ProbeInv'
    OBVIOUS
  <2>1. CASE UNCHANGED breakerVars
    BY <2>1 DEF breakerVars, ProbeInv, OneProbeAtATime, Probes
  <2>2. CASE ChecksInDoubt
    <3>1. checks' \in Seq(Check) /\ Probes' = Probes
      <4>1. Len(checks) \in Nat /\ DOMAIN checks = 1 .. Len(checks)
        BY DEF ProbeInv
      <4>2. \A i \in 1 .. Len(checks) : checks[i] \in Check
        BY <4>1 DEF ProbeInv
      <4>3. \A i \in 1 .. Len(checks) :
              /\ [checks[i] EXCEPT !.sound = FALSE] \in Check
              /\ [checks[i] EXCEPT !.sound = FALSE].probe = checks[i].probe
        BY <4>2 DEF Check
      <4>4. checks' = [i \in 1 .. Len(checks) |-> [checks[i] EXCEPT !.sound = FALSE]]
        BY <2>2, <4>1 DEF ChecksInDoubt
      <4>5. checks' \in Seq(Check) /\ DOMAIN checks' = DOMAIN checks
        BY <4>1, <4>3, <4>4
      <4> QED
        BY <4>1, <4>3, <4>4, <4>5 DEF Probes
    <3> QED
      BY <2>2, <3>1 DEF ChecksInDoubt, ProbeInv, OneProbeAtATime
  <2>3. CASE CheckLimit
    <3>1. CASE state = "CLOSED" /\ UNCHANGED state /\ Send(FALSE)
      BY <2>3, <3>1, SentProbes DEF CheckLimit, ProbeInv, OneProbeAtATime, CircuitStates
    <3>2. CASE state = "OPEN" /\ state' = "HALF_OPEN" /\ Send(TRUE)
      BY <2>3, <3>2, SentProbes DEF CheckLimit, ProbeInv, OneProbeAtATime, CircuitStates
    <3> QED
      BY <2>3, <3>1, <3>2 DEF CheckLimit, AttemptRedis
  <2>4. CASE Succeed
    <3>1. /\ checks' \in Seq(Check)
          /\ Probes' = {i \in 1 .. (Len(checks) - 1) : i + 1 \in Probes}
      BY <2>4, AnsweredProbes DEF Succeed, ProbeInv
    <3>2. Len(checks) \in Nat /\ Probes \subseteq Nat
      BY DEF Probes, ProbeInv
    <3>3. relapsed' = relapsed /\ state' = "CLOSED"
      BY <2>4 DEF Succeed, OnSuccess
    <3>4. relapsed \/ \A i, j \in Probes' : i = j
      BY <3>1, <3>2 DEF ProbeInv, OneProbeAtATime
    <3> QED
      BY <3>1, <3>3, <3>4 DEF ProbeInv, OneProbeAtATime, CircuitStates
  <2>5. CASE Fail
    <3>1. /\ checks' \in Seq(Check)
          /\ Probes' = {i \in 1 .. (Len(checks) - 1) : i + 1 \in Probes}
          /\ Head(checks).probe <=> 1 \in Probes
      BY <2>5, AnsweredProbes DEF Fail, ProbeInv
    <3>2. Len(checks) \in Nat /\ Probes \subseteq Nat
      BY DEF Probes, ProbeInv
    <3>3. state' \in {"CLOSED", "OPEN"}
      BY <2>5 DEF Fail, OnFailure, ProbeInv, CircuitStates
    <3>4. relapsed' = (relapsed \/ (Probes # {} /\ ~Head(checks).probe))
      BY <2>5 DEF Fail
    <3>5. relapsed' \in BOOLEAN /\ (relapsed' <=> relapsed \/ (Probes # {} /\ 1 \notin Probes))
      BY <3>1, <3>4 DEF ProbeInv
    <3>6. relapsed' \/ Probes' = {}
      BY <3>1, <3>2, <3>5 DEF ProbeInv, OneProbeAtATime
    <3> QED
      BY <3>1, <3>3, <3>5, <3>6 DEF ProbeInv, OneProbeAtATime, CircuitStates
  <2>6. CASE ResetPeriodEnds
    BY <2>6 DEF ResetPeriodEnds, ProbeInv, OneProbeAtATime, Probes
  <2> QED
    BY <2>1, <2>2, <2>3, <2>4, <2>5, <2>6
    DEF Next, vars, OutageBegins, OutageEnds, LimiterSteps, StoreSteps, BreakerNext, Answer
<1> QED
  BY <1>1, <1>2, PTL DEF OutageSpec

\* "Only one probe at a time", for every threshold, number of checks and outages.
THEOREM LimiterProbesOnce == OutageSpec => []OneProbeAtATime
<1>1. ProbeInv => OneProbeAtATime
  BY DEF ProbeInv
<1> QED
  BY <1>1, ProbeInvHolds, PTL

-----------------------------------------------------------------------------
(* The store.                                                              *)

StoreShape ==
    /\ status \in [Instances -> Statuses] /\ memory \in [Instances -> Versions]
    /\ version \in 0 .. MaxVersion
    /\ line \in [Instances -> Seq(Write)] /\ waiting \in [Instances -> SUBSET Write]
    /\ unsaved \in [Instances -> Int]
    /\ missed \in BOOLEAN /\ together \in BOOLEAN

\* An instance that is not running has no writes and nothing unsaved, and two run only when they met.
Alone ==
    /\ \A i \in Instances : ~Running(i) => line[i] = << >> /\ waiting[i] = {} /\ unsaved[i] = 0
    /\ together \/ \A i, j \in Instances : Running(i) /\ Running(j) => i = j

\* A write waits to be sent again only after one failed; `missed` is not forgotten before.
WaitingMissed == together \/ missed \/ \A i \in Instances : waiting[i] = {}

StoreInv == StoreShape /\ Alone /\ WaitingMissed /\ StoreFollowsMemory

\* A write sent is the last in line.
LEMMA SentIsLast ==
    ASSUME NEW s \in Seq(Write), NEW w \in Write
    PROVE  Append(s, w) \in Seq(Write) /\ Append(s, w) # << >> /\ Last(Append(s, w)) = w
BY DEF Last

\* The answer to the first leaves the last, or nothing after what was last.
LEMMA SettledFirst ==
    ASSUME NEW s \in Seq(Write), s # << >>
    PROVE  /\ Tail(s) \in Seq(Write) /\ Head(s) \in Write
           /\ IF Tail(s) = << >> THEN Head(s) = Last(s) ELSE Last(Tail(s)) = Last(s)
<1>1. /\ Len(s) \in Nat \ {0} /\ Head(s) = s[1] /\ Tail(s) \in Seq(Write)
      /\ Len(Tail(s)) = Len(s) - 1
      /\ \A i \in 1 .. (Len(s) - 1) : Tail(s)[i] = s[i + 1]
      /\ s[1] \in Write
  OBVIOUS
<1>2. Tail(s) = << >> <=> Len(s) = 1
  <2>1. Tail(s) # << >> => Len(Tail(s)) \in Nat \ {0}
    BY <1>1, EmptySeq
  <2>2. Tail(s) = << >> => Len(Tail(s)) = 0
    BY EmptySeq
  <2> QED
    BY <1>1, <2>1, <2>2
<1>3. CASE Len(s) = 1
  BY <1>1, <1>2, <1>3 DEF Last
<1>4. CASE Len(s) > 1
  <2>1. Len(s) - 1 \in 1 .. (Len(s) - 1) /\ (Len(s) - 1) + 1 = Len(s)
    BY <1>1, <1>4
  <2>2. Tail(s)[Len(s) - 1] = s[Len(s)]
    BY <1>1, <2>1
  <2> QED
    BY <1>1, <1>2, <1>4, <2>2 DEF Last
<1> QED
  BY <1>1, <1>3, <1>4

\* While nobody runs besides instance i, only what it has and does matters.
LEMMA OneRuns ==
    ASSUME Alone, ~together, NEW i \in Instances, Running(i)
    PROVE  \A j \in Instances : j # i => ~Running(j) /\ line[j] = << >> /\ waiting[j] = {}
BY DEF Alone

\* A handler that changes the room, or that closes it or stops with it, sends what memory
\* has after it.
LEMMA MemoryIsSent ==
    ASSUME StoreInv, NEW i \in Instances, NEW v \in Versions, NEW last \in BOOLEAN, Running(i),
           SendWrite(i, v, last), memory' = [memory EXCEPT ![i] = v],
           UNCHANGED <<stored, missed, together>>,
           status' \in [Instances -> Statuses], version' \in 0 .. MaxVersion,
           \A j \in Instances : Running(j)' <=> Running(j)
    PROVE  StoreInv'
<1> DEFINE w == [version |-> v, tries |-> 0, last |-> last]
<1>1. w \in Write
  BY StoreAssumption DEF Write
<1>2. /\ line' = [line EXCEPT ![i] = Append(@, w)] /\ waiting' = waiting
      /\ unsaved' = [unsaved EXCEPT ![i] = 0]
  BY DEF SendWrite
<1>3. /\ line[i] \in Seq(Write) /\ Append(line[i], w) \in Seq(Write)
      /\ Append(line[i], w) # << >> /\ Last(Append(line[i], w)) = w
  BY <1>1, SentIsLast DEF StoreInv, StoreShape
<1>4. line'[i] = Append(line[i], w) /\ LastSaved(i)' = v
  <2>1. memory'[i] = v /\ unsaved'[i] = 0 /\ v \in Int
    BY <1>2, StoreAssumption DEF StoreInv, StoreShape, Versions, NoVersion, Removed
  <2> QED
    BY <1>2, <2>1 DEF StoreInv, StoreShape, LastSaved
<1>5. StoreShape'
  BY <1>2, <1>3 DEF StoreInv, StoreShape
<1>6. Alone' /\ WaitingMissed'
  BY <1>2 DEF StoreInv, StoreShape, Alone, WaitingMissed
<1>7. Saves(i, LastSaved(i))'
  BY <1>3, <1>4 DEF Saves
<1>8. StoreFollowsMemory'
  BY <1>7, OneRuns DEF StoreFollowsMemory, StoreInv
<1> QED
  BY <1>5, <1>6, <1>8 DEF StoreInv

\* Each operation keeps the invariant.
LEMMA BootKeeps == ASSUME StoreInv, NEW i \in Instances, Boot(i) PROVE StoreInv'
<1> DEFINE found == redis = "ready" /\ stored \in Rooms
<1>1. /\ status[i] = "off" /\ status' = [status EXCEPT ![i] = "up"]
      /\ memory' = [memory EXCEPT ![i] = IF found THEN stored ELSE NoVersion]
      /\ UNCHANGED <<stored, version, line, waiting, unsaved, missed, revived>>
      /\ together' = (together \/ \E j \in Instances : Running(j))
  BY DEF Boot
<1>2. ~Running(i) /\ line[i] = << >> /\ waiting[i] = {} /\ unsaved[i] = 0
  BY <1>1 DEF Running, StoreInv, Alone
<1>3. (IF found THEN stored ELSE NoVersion) \in Versions
  BY StoreAssumption DEF Versions, NoVersion, Removed, Rooms
<1>4. StoreShape'
  BY <1>1, <1>3 DEF StoreInv, StoreShape, Statuses
<1>5. \A j \in Instances : j # i => (Running(j)' <=> Running(j)) /\ memory'[j] = memory[j]
  BY <1>1 DEF Running, StoreInv, StoreShape
<1>6. Alone'
  BY <1>1, <1>2, <1>5 DEF StoreInv, Alone
<1>7. WaitingMissed'
  BY <1>1 DEF StoreInv, WaitingMissed
<1>8. memory'[i] # NoVersion => stored' = LastSaved(i)'
  <2>1. memory'[i] # NoVersion => stored' = memory'[i] /\ stored \in Rooms
    BY <1>1 DEF StoreInv, StoreShape
  <2> QED
    BY <1>1, <1>2, <2>1 DEF LastSaved, Rooms
<1>9. line'[i] = << >> /\ stored' = stored /\ line' = line /\ (~together' => ~together)
  BY <1>1, <1>2 DEF StoreInv, StoreShape
<1>10. StoreFollowsMemory'
  <2>1. \A j \in Instances : j # i => LastSaved(j)' = LastSaved(j) /\ (~together' => ~Running(j)')
    BY <1>1, <1>5 DEF LastSaved
  <2> QED
    BY <1>1, <1>8, <1>9, <2>1 DEF StoreFollowsMemory, Saves
<1> QED
  BY <1>4, <1>6, <1>7, <1>10 DEF StoreInv

LEMMA ChangeKeeps ==
    ASSUME StoreInv, NEW i \in Instances, ChangeRoom(i) \/ ComeBack(i) PROVE StoreInv'
<1>1. version' = version + 1 /\ version < MaxVersion
  BY DEF ChangeRoom, ComeBack
<1>2. version + 1 \in Versions /\ version + 1 \in 0 .. MaxVersion
  BY <1>1, StoreAssumption DEF StoreInv, StoreShape, Versions, NoVersion, Removed
<1>3. /\ Running(i) /\ SendWrite(i, version + 1, FALSE)
      /\ memory' = [memory EXCEPT ![i] = version + 1]
      /\ UNCHANGED <<stored, missed, together, status>>
  BY DEF ChangeRoom, ComeBack, history
<1> QED
  BY <1>1, <1>2, <1>3, MemoryIsSent DEF Running, StoreInv, StoreShape

\* A lost connection takes memory further from its last snapshot, which stays the last.
LEMMA DisconnectKeeps == ASSUME StoreInv, NEW i \in Instances, Disconnect(i) PROVE StoreInv'
<1>1. /\ version' = version + 1 /\ version < MaxVersion
      /\ memory' = [memory EXCEPT ![i] = version + 1]
      /\ unsaved' = [unsaved EXCEPT ![i] = unsaved[i] + version + 1 - memory[i]]
      /\ UNCHANGED <<status, stored, line, waiting, missed, revived, together>> /\ Running(i)
  BY DEF Disconnect, history, StoreInv, StoreShape
<1>2. /\ version + 1 \in Versions /\ version + 1 \in 0 .. MaxVersion
      /\ memory[i] \in Int /\ unsaved[i] \in Int /\ version \in Int
  BY <1>1, StoreAssumption DEF StoreInv, StoreShape, Versions, NoVersion, Removed
<1>3. StoreShape'
  BY <1>1, <1>2 DEF StoreInv, StoreShape
<1>4. Alone' /\ WaitingMissed'
  BY <1>1 DEF StoreInv, StoreShape, Alone, WaitingMissed, Running
<1>5. \A j \in Instances : (Running(j)' <=> Running(j)) /\ (j # i => memory'[j] = memory[j])
  BY <1>1 DEF StoreInv, StoreShape, Running
<1>6. \A j \in Instances : LastSaved(j)' = LastSaved(j)
  <2>1. LastSaved(i)' = LastSaved(i)
    <3>1. memory'[i] = version + 1 /\ unsaved'[i] = unsaved[i] + version + 1 - memory[i]
      BY <1>1 DEF StoreInv, StoreShape
    <3> QED
      BY <1>2, <3>1 DEF LastSaved
  <2>2. \A j \in Instances : j # i => memory'[j] = memory[j] /\ unsaved'[j] = unsaved[j]
    BY <1>1 DEF StoreInv, StoreShape
  <2> QED
    BY <2>1, <2>2 DEF LastSaved
<1>7. \A j \in Instances : Saves(j, LastSaved(j))' <=> Saves(j, LastSaved(j))
  BY <1>1, <1>6 DEF Saves
<1>8. memory[i] # NoVersion
  BY DEF Disconnect, Rooms, NoVersion
<1>9. StoreFollowsMemory'
  BY <1>1, <1>5, <1>7, <1>8 DEF StoreInv, StoreFollowsMemory
<1> QED
  BY <1>3, <1>4, <1>9 DEF StoreInv

LEMMA DeleteKeeps == ASSUME StoreInv, NEW i \in Instances, DeleteRoom(i) PROVE StoreInv'
<1>1. Removed \in Versions
  BY StoreAssumption DEF Versions, NoVersion, Removed
<1>2. /\ Running(i) /\ SendWrite(i, Removed, FALSE)
      /\ memory' = [memory EXCEPT ![i] = Removed]
      /\ UNCHANGED <<stored, missed, together, status, version>>
  BY DEF DeleteRoom, history, Running
<1> QED
  BY <1>1, <1>2, MemoryIsSent DEF Running, StoreInv, StoreShape

\* A late join writes what no memory has: that is what `revived` tells.
LEMMA LateJoinKeeps == ASSUME StoreInv, NEW i \in Instances, LateJoin(i) PROVE StoreInv'
<1>1. version + 1 \in Versions /\ version' \in 0 .. MaxVersion
  BY StoreAssumption DEF LateJoin, StoreInv, StoreShape, Versions, NoVersion, Removed
<1> DEFINE w == [version |-> version + 1, tries |-> 0, last |-> FALSE]
<1>2. w \in Write
  BY <1>1, StoreAssumption DEF Write
<1>3. /\ line' = [line EXCEPT ![i] = Append(@, w)]
      /\ UNCHANGED <<waiting, status, memory, stored, missed, together>>
      /\ unsaved' = [unsaved EXCEPT ![i] = 0]
      /\ revived' = TRUE /\ Running(i)
  BY DEF LateJoin, SendWrite
<1>4. Append(line[i], w) \in Seq(Write)
  BY <1>2, SentIsLast DEF StoreInv, StoreShape
<1>5. StoreShape'
  BY <1>1, <1>3, <1>4 DEF StoreInv, StoreShape
<1>6. Alone' /\ WaitingMissed'
  BY <1>3 DEF StoreInv, StoreShape, Alone, WaitingMissed, Running
<1> QED
  BY <1>3, <1>5, <1>6 DEF StoreInv, StoreFollowsMemory

\* The command done is the first in line: Redis has what memory has when it was the last,
\* and a failure is forgotten only when nothing is open.
LEMMA SettleKeeps == ASSUME StoreInv, NEW i \in Instances, Settle(i) PROVE StoreInv'
<1>1. /\ Running(i) /\ line[i] # << >> /\ stored' = Head(line[i]).version
      /\ line' = [line EXCEPT ![i] = Tail(line[i])]
      /\ missed' = (missed /\ (stored' # LastSaved(i) \/ waiting[i] # {} \/ line'[i] # << >>))
      /\ UNCHANGED <<status, memory, version, waiting, unsaved, revived, together>>
  BY DEF Settle, StoreInv, StoreShape
<1>2. line[i] \in Seq(Write)
  BY DEF StoreInv, StoreShape
<1>3. /\ Tail(line[i]) \in Seq(Write)
      /\ IF Tail(line[i]) = << >> THEN Head(line[i]) = Last(line[i])
                                  ELSE Last(Tail(line[i])) = Last(line[i])
  BY <1>1, <1>2, SettledFirst
<1>4. /\ line'[i] = Tail(line[i]) /\ (missed' \in BOOLEAN)
      /\ \A j \in Instances : j # i => line'[j] = line[j]
  BY <1>1 DEF StoreInv, StoreShape
<1>5. StoreShape'
  BY <1>1, <1>3, <1>4 DEF StoreInv, StoreShape
<1>6. Alone'
  BY <1>1, <1>4 DEF StoreInv, Alone, Running
<1>7. together \/ \A j \in Instances : j # i => waiting[j] = {}
  BY <1>1, OneRuns DEF StoreInv
<1>8. WaitingMissed'
  BY <1>1, <1>7 DEF StoreInv, WaitingMissed
<1>9. StoreFollowsMemory'
  <2> SUFFICES ASSUME ~missed', ~revived, ~together, memory[i] # NoVersion
               PROVE  Saves(i, LastSaved(i))'
    BY <1>1, OneRuns DEF StoreFollowsMemory, StoreInv, Running
  <2>1. LastSaved(i)' = LastSaved(i)
    BY <1>1 DEF LastSaved
  <2>2. CASE missed
    BY <1>1, <2>1, <2>2 DEF Saves
  <2>3. CASE ~missed
    <3>1. Last(line[i]).version = LastSaved(i)
      BY <1>1, <2>3 DEF StoreInv, StoreFollowsMemory, Saves
    <3> QED
      BY <1>1, <1>3, <1>4, <2>1, <3>1 DEF Saves
  <2> QED
    BY <2>2, <2>3
<1> QED
  BY <1>5, <1>6, <1>8, <1>9 DEF StoreInv

\* A write that failed may be sent again later than a newer one: `missed` remembers it.
LEMMA MissKeeps == ASSUME StoreInv, NEW i \in Instances, Miss(i) PROVE StoreInv'
<1> DEFINE w == Head(line[i])
<1> DEFINE again == [w EXCEPT !.tries = @ + 1]
<1>1. /\ Running(i) /\ line[i] # << >> /\ missed' = TRUE
      /\ line' = [line EXCEPT ![i] = Tail(line[i])]
      /\ \/ waiting' = waiting
         \/ w.tries < MaxRetries /\ waiting' = [waiting EXCEPT ![i] = waiting[i] \cup {again}]
      /\ UNCHANGED <<status, memory, version, unsaved, revived, together>>
  BY DEF Miss, StoreInv, StoreShape
<1>2. line[i] \in Seq(Write)
  BY DEF StoreInv, StoreShape
<1>3. Tail(line[i]) \in Seq(Write) /\ w \in Write
  BY <1>1, <1>2, SettledFirst
<1>4. w.tries < MaxRetries => again \in Write
  <2>1. /\ w.version \in Versions /\ w.last \in BOOLEAN /\ w.tries \in 0 .. MaxRetries
        /\ w = [version |-> w.version, tries |-> w.tries, last |-> w.last]
    BY <1>3 DEF Write
  <2>2. w.tries < MaxRetries => w.tries + 1 \in 0 .. MaxRetries
    BY <2>1, StoreAssumption
  <2>3. again = [version |-> w.version, tries |-> w.tries + 1, last |-> w.last]
    BY <2>1
  <2> QED
    BY <2>1, <2>2, <2>3 DEF Write
<1>5. waiting' \in [Instances -> SUBSET Write]
  <2> HIDE DEF again
  <2>1. CASE waiting' = waiting
    BY <2>1 DEF StoreInv, StoreShape
  <2>2. CASE w.tries < MaxRetries /\ waiting' = [waiting EXCEPT ![i] = waiting[i] \cup {again}]
    BY <1>4, <2>2 DEF StoreInv, StoreShape
  <2> QED
    BY <1>1, <2>1, <2>2
<1>6. StoreShape'
  BY <1>1, <1>3, <1>5 DEF StoreInv, StoreShape
<1>7. \A j \in Instances : j # i => line'[j] = line[j] /\ waiting'[j] = waiting[j]
  BY <1>1 DEF StoreInv, StoreShape
<1>8. Alone'
  BY <1>1, <1>7 DEF StoreInv, Alone, Running
<1> QED
  BY <1>1, <1>6, <1>8 DEF StoreInv, WaitingMissed, StoreFollowsMemory

LEMMA RetryKeeps == ASSUME StoreInv, NEW i \in Instances, Retry(i) PROVE StoreInv'
<1>1. PICK w \in waiting[i] :
        /\ waiting' = [waiting EXCEPT ![i] = waiting[i] \ {w}]
        /\ line' = [line EXCEPT ![i] = Append(line[i], w)]
  BY DEF Retry, StoreInv, StoreShape
<1>2. Running(i) /\ UNCHANGED <<status, memory, version, stored, unsaved, missed, revived, together>>
  BY DEF Retry, history
<1>3. w \in Write /\ line[i] \in Seq(Write)
  BY DEF StoreInv, StoreShape
<1>4. Append(line[i], w) \in Seq(Write)
  BY <1>3, SentIsLast
<1>5. StoreShape'
  BY <1>1, <1>2, <1>4 DEF StoreInv, StoreShape
<1>6. \A j \in Instances : j # i => line'[j] = line[j] /\ waiting'[j] = waiting[j]
  BY <1>1 DEF StoreInv, StoreShape
<1>7. Alone'
  BY <1>2, <1>6 DEF StoreInv, Alone, Running
<1>8. together \/ missed
  BY DEF StoreInv, WaitingMissed
<1> QED
  BY <1>2, <1>5, <1>7, <1>8 DEF StoreInv, WaitingMissed, StoreFollowsMemory

\* With its process everything it had open is gone.
LEMMA GoneKeeps ==
    ASSUME StoreInv, NEW i \in Instances, Running(i), Gone(i) PROVE StoreInv'
<1>1. /\ status' = [status EXCEPT ![i] = "gone"] /\ memory' = [memory EXCEPT ![i] = NoVersion]
      /\ line' = [line EXCEPT ![i] = << >>] /\ waiting' = [waiting EXCEPT ![i] = {}]
      /\ unsaved' = [unsaved EXCEPT ![i] = 0]
      /\ missed' = FALSE /\ UNCHANGED <<version, revived, together>>
  BY DEF Gone
<1>2. NoVersion \in Versions /\ << >> \in Seq(Write)
  BY StoreAssumption DEF Versions, NoVersion, Removed
<1>3. StoreShape'
  <2>1. /\ status' \in [Instances -> Statuses] /\ memory' \in [Instances -> Versions]
        /\ line' \in [Instances -> Seq(Write)] /\ waiting' \in [Instances -> SUBSET Write]
    BY <1>1, <1>2 DEF StoreInv, StoreShape, Statuses
  <2>2. unsaved' \in [Instances -> Int]
    BY <1>1 DEF StoreInv, StoreShape
  <2> QED
    BY <1>1, <2>1, <2>2 DEF StoreInv, StoreShape
<1>4. line'[i] = << >> /\ waiting'[i] = {} /\ unsaved'[i] = 0 /\ memory'[i] = NoVersion /\ ~Running(i)'
  BY <1>1 DEF StoreInv, StoreShape, Running
<1>5. \A j \in Instances : j # i => /\ line'[j] = line[j] /\ waiting'[j] = waiting[j]
                                    /\ unsaved'[j] = unsaved[j]
                                    /\ memory'[j] = memory[j] /\ (Running(j)' <=> Running(j))
  BY <1>1 DEF StoreInv, StoreShape, Running
<1>6. Alone'
  BY <1>1, <1>4, <1>5 DEF StoreInv, Alone
<1>7. together \/ \A j \in Instances : j # i => waiting[j] = {} /\ ~Running(j)
  BY OneRuns DEF StoreInv
<1>8. WaitingMissed'
  BY <1>1, <1>4, <1>5, <1>7 DEF WaitingMissed
<1>9. StoreFollowsMemory'
  BY <1>1, <1>4, <1>5, <1>7 DEF StoreFollowsMemory
<1> QED
  BY <1>3, <1>6, <1>8, <1>9 DEF StoreInv

LEMMA ShutdownKeeps == ASSUME StoreInv, NEW i \in Instances, Shutdown(i) PROVE StoreInv'
<1>1. /\ Running(i) /\ status' = [status EXCEPT ![i] = "stopping"]
      /\ UNCHANGED <<memory, version, stored, missed, revived, together>>
  BY DEF Shutdown, Running, history
<1>2. /\ status' \in [Instances -> Statuses]
      /\ \A j \in Instances : Running(j)' <=> Running(j)
  BY <1>1 DEF StoreInv, StoreShape, Statuses, Running
<1>3. CASE SendWrite(i, memory[i], TRUE)
  <2>1. memory[i] \in Versions /\ version' \in 0 .. MaxVersion
    BY <1>1 DEF StoreInv, StoreShape
  <2>2. memory' = [memory EXCEPT ![i] = memory[i]]
    BY <1>1 DEF StoreInv, StoreShape
  <2> QED
    BY <1>1, <1>2, <1>3, <2>1, <2>2, MemoryIsSent
<1>4. CASE UNCHANGED <<line, waiting, unsaved>>
  <2>1. StoreShape' /\ Alone' /\ WaitingMissed'
    BY <1>1, <1>2, <1>4 DEF StoreInv, StoreShape, Alone, WaitingMissed
  <2> QED
    BY <1>1, <1>2, <1>4, <2>1 DEF StoreInv, StoreFollowsMemory, Saves, LastSaved
<1> QED
  BY <1>3, <1>4 DEF Shutdown

LEMMA StoreInvHolds == OutageSpec => []StoreInv
<1>1. Init => StoreInv
  <2> SUFFICES ASSUME StoreInit PROVE StoreInv
    BY DEF Init
  <2>1. NoVersion \in Versions /\ NoVersion \in 0 .. MaxVersion /\ << >> \in Seq(Write)
    BY StoreAssumption DEF Versions, NoVersion, Removed
  <2>2. StoreShape
    <3>1. /\ status \in [Instances -> Statuses] /\ memory \in [Instances -> Versions]
          /\ line \in [Instances -> Seq(Write)] /\ waiting \in [Instances -> SUBSET Write]
      BY <2>1 DEF StoreInit, Statuses
    <3>2. unsaved \in [Instances -> Int]
      BY DEF StoreInit
    <3> QED
      BY <2>1, <3>1, <3>2 DEF StoreInit, StoreShape
  <2>3. \A j \in Instances : ~Running(j) /\ line[j] = << >> /\ waiting[j] = {} /\ unsaved[j] = 0
    BY DEF StoreInit, Running
  <2> QED
    BY <2>2, <2>3 DEF StoreInv, Alone, WaitingMissed, StoreFollowsMemory
<1>2. StoreInv /\ [Next]_vars => StoreInv'
  <2> SUFFICES ASSUME StoreInv, [Next]_vars PROVE StoreInv'
    OBVIOUS
  <2>1. CASE UNCHANGED storeVars
    BY <2>1 DEF storeVars, StoreInv, StoreShape, Alone, Running, WaitingMissed, StoreFollowsMemory,
              Saves, LastSaved
  <2>2. CASE StoreNext
    <3>1. PICK i \in Instances :
            \/ Boot(i) \/ ChangeRoom(i) \/ Disconnect(i) \/ ComeBack(i) \/ DeleteRoom(i) \/ LateJoin(i)
            \/ Settle(i) \/ Miss(i) \/ Retry(i)
            \/ Crash(i) \/ Shutdown(i) \/ Exit(i)
      BY <2>2 DEF StoreNext
    <3>2. CASE Boot(i)
      BY <3>2, BootKeeps
    <3>3. CASE ChangeRoom(i) \/ ComeBack(i)
      BY <3>3, ChangeKeeps
    <3>4. CASE DeleteRoom(i)
      BY <3>4, DeleteKeeps
    <3>5. CASE LateJoin(i)
      BY <3>5, LateJoinKeeps
    <3>6. CASE Settle(i)
      BY <3>6, SettleKeeps
    <3>7. CASE Miss(i)
      BY <3>7, MissKeeps
    <3>8. CASE Retry(i)
      BY <3>8, RetryKeeps
    <3>9. CASE Crash(i) \/ Exit(i)
      BY <3>9, GoneKeeps DEF Crash, Exit, Running
    <3>10. CASE Shutdown(i)
      BY <3>10, ShutdownKeeps
    <3>11. CASE Disconnect(i)
      BY <3>11, DisconnectKeeps
    <3> QED
      BY <3>1, <3>2, <3>3, <3>4, <3>5, <3>6, <3>7, <3>8, <3>9, <3>10, <3>11
  <2> QED
    BY <2>1, <2>2 DEF Next, vars, OutageBegins, OutageEnds, LimiterSteps, StoreSteps
<1> QED
  BY <1>1, <1>2, PTL DEF OutageSpec

\* What a crash would leave, for every number of instances, versions, writes, retries and
\* outages, and with deploys that overlap or not.
THEOREM StoreFollows == OutageSpec => []StoreFollowsMemory
<1>1. StoreInv => StoreFollowsMemory
  BY DEF StoreInv
<1> QED
  BY <1>1, StoreInvHolds, PTL

-----------------------------------------------------------------------------
(* The versions.                                                           *)

\* A write was taken from a room that was there, or says that it is removed; the last one of
\* an instance is of a room.
Taken(w, newest) ==
    /\ w.version <= newest \/ w.version = Removed
    /\ w.last => w.version <= newest

WritesTaken ==
    \A i \in Instances : /\ \A w \in waiting[i] : Taken(w, version)
                         /\ \A k \in 1 .. Len(line[i]) : Taken(line[i][k], version)

WritesBounded ==
    \A i \in Instances : /\ IsFiniteSet(waiting[i])
                         /\ Cardinality(waiting[i]) + Len(line[i]) <= MaxWrites

\* What a room, Redis and a shutdown have was taken too.
KeptVersions ==
    /\ \A i \in Instances : memory[i] <= version \/ memory[i] = Removed
    /\ \A i \in Instances : ~Running(i) => memory[i] = NoVersion
    /\ stored \in Versions /\ (stored <= version \/ stored = Removed)
    /\ handedOver \in 0 .. version
    /\ restored \subseteq Instances /\ revived \in BOOLEAN

VersionInv == WritesTaken /\ WritesBounded /\ KeptVersions

LEMMA VersionsAreNumbers ==
    /\ \A v \in Versions : v \in Nat
    /\ \A w \in Write : w.version \in Versions /\ w.last \in BOOLEAN
    /\ NoVersion \in Versions /\ Removed \in Versions /\ 0 .. MaxVersion \subseteq Versions
    /\ \A v \in Versions : v \in Rooms => v \in 1 .. MaxVersion /\ v # Removed
    /\ MaxVersion \in Nat /\ MaxWrites \in Nat
BY StoreAssumption DEF Versions, NoVersion, Removed, Rooms, Write

\* As versions only grow, what was taken once remains so.
LEMMA TakenStays ==
    ASSUME StoreShape, NEW w \in Write, Taken(w, version), version' \in Nat, version' >= version
    PROVE  Taken(w, version')
<1>1. w.version \in Nat /\ version \in Nat
  BY VersionsAreNumbers DEF StoreShape
<1> QED
  BY <1>1 DEF Taken, Removed

ToBeTaken(v, last, newest) ==
    /\ v \in Versions /\ last \in BOOLEAN /\ newest \in Nat /\ newest >= version
    /\ v <= newest \/ v = Removed
    /\ last => v <= newest

\* A write sent is one more in line.
LEMMA VersionSent ==
    ASSUME StoreShape, WritesTaken, WritesBounded, NEW i \in Instances, NEW v, NEW last,
           SendWrite(i, v, last), ToBeTaken(v, last, version')
    PROVE  WritesTaken' /\ WritesBounded'
<1> DEFINE w == [version |-> v, tries |-> 0, last |-> last]
<1>1. w \in Write /\ Taken(w, version') /\ version' \in Nat /\ version' >= version
  BY StoreAssumption DEF Write, Taken, ToBeTaken, Removed
<1>2. /\ line' = [line EXCEPT ![i] = Append(line[i], w)] /\ waiting' = waiting
      /\ Cardinality(waiting[i]) + Len(line[i]) < MaxWrites
  BY DEF SendWrite, StoreShape
<1> HIDE DEF w
<1>3. /\ line[i] \in Seq(Write) /\ line'[i] = Append(line[i], w)
      /\ \A j \in Instances : j # i => line'[j] = line[j]
  BY <1>2 DEF StoreShape
<1>4. /\ Len(line[i]) \in Nat /\ Len(line'[i]) = Len(line[i]) + 1
      /\ \A k \in 1 .. Len(line[i]) : line'[i][k] = line[i][k]
      /\ line'[i][Len(line[i]) + 1] = w
  BY <1>1, <1>3
<1>5. \A j \in Instances : /\ \A x \in waiting[j] : x \in Write /\ Taken(x, version')
                           /\ \A k \in 1 .. Len(line[j]) : line[j][k] \in Write /\ Taken(line[j][k], version')
  BY <1>1, TakenStays DEF WritesTaken, StoreShape
<1>6. \A k \in 1 .. Len(line'[i]) : k \in 1 .. Len(line[i]) \/ k = Len(line[i]) + 1
  BY <1>4
<1>7. \A k \in 1 .. Len(line'[i]) : Taken(line'[i][k], version')
  BY <1>1, <1>4, <1>5, <1>6
<1>8. WritesTaken'
  BY <1>2, <1>3, <1>5, <1>7 DEF WritesTaken
<1>9. WritesBounded'
  <2>1. Cardinality(waiting[i]) \in Nat
    BY FS_CardinalityType DEF WritesBounded
  <2>2. Cardinality(waiting'[i]) + Len(line'[i]) <= MaxWrites
    BY <1>2, <1>4, <2>1, VersionsAreNumbers
  <2> QED
    BY <1>2, <1>3, <2>2 DEF WritesBounded
<1> QED
  BY <1>8, <1>9

\* An answer takes the first away.
LEMMA VersionAnswered ==
    ASSUME NEW s \in Seq(Write), s # << >>
    PROVE  /\ Head(s) = s[1] /\ 1 \in 1 .. Len(s) /\ Len(s) \in Nat
           /\ Len(Tail(s)) = Len(s) - 1
           /\ \A k \in 1 .. Len(Tail(s)) : k + 1 \in 1 .. Len(s) /\ Tail(s)[k] = s[k + 1]
<1>1. Len(s) \in Nat \ {0} /\ Head(s) = s[1] /\ Len(Tail(s)) = Len(s) - 1
  OBVIOUS
<1>2. \A k \in 1 .. (Len(s) - 1) : Tail(s)[k] = s[k + 1] /\ k + 1 \in 1 .. Len(s)
  BY <1>1
<1> QED
  BY <1>1, <1>2

\* A failure moves the first in line to those waiting, or nowhere.
LEMMA VersionMoved ==
    ASSUME StoreShape, WritesTaken, WritesBounded, NEW i \in Instances, line[i] # << >>,
           NEW again \in Write, again.version = Head(line[i]).version,
           again.last = Head(line[i]).last, version' = version,
           line' = [line EXCEPT ![i] = Tail(line[i])],
           \/ waiting' = waiting
           \/ waiting' = [waiting EXCEPT ![i] = waiting[i] \cup {again}]
    PROVE  WritesTaken' /\ WritesBounded' /\ Taken(Head(line[i]), version)
<1>1. line[i] \in Seq(Write) /\ line'[i] = Tail(line[i])
  BY DEF StoreShape
<1>2. /\ Head(line[i]) = line[i][1] /\ 1 \in 1 .. Len(line[i]) /\ Len(line[i]) \in Nat
      /\ Len(Tail(line[i])) = Len(line[i]) - 1
      /\ \A k \in 1 .. Len(Tail(line[i])) : k + 1 \in 1 .. Len(line[i]) /\ Tail(line[i])[k] = line[i][k + 1]
  BY <1>1, VersionAnswered
<1>3. Taken(Head(line[i]), version) /\ Taken(again, version)
  BY <1>2 DEF WritesTaken, Taken
<1>4. /\ \A j \in Instances : j # i => line'[j] = line[j] /\ waiting'[j] = waiting[j]
      /\ waiting'[i] = waiting[i] \/ waiting'[i] = waiting[i] \cup {again}
  BY DEF StoreShape
<1>5. \A k \in 1 .. Len(line'[i]) : Taken(line'[i][k], version)
  BY <1>1, <1>2 DEF WritesTaken
<1>6. WritesTaken'
  BY <1>3, <1>4, <1>5 DEF WritesTaken
<1>7. WritesBounded'
  <2>1. IsFiniteSet(waiting[i]) /\ Cardinality(waiting[i]) \in Nat
    BY FS_CardinalityType DEF WritesBounded
  <2>2. /\ IsFiniteSet(waiting[i] \cup {again})
        /\ Cardinality(waiting[i] \cup {again}) \in Nat
        /\ Cardinality(waiting[i] \cup {again}) <= Cardinality(waiting[i]) + 1
    <3>1. /\ IsFiniteSet(waiting[i] \cup {again})
          /\ Cardinality(waiting[i] \cup {again})
               = IF again \in waiting[i] THEN Cardinality(waiting[i]) ELSE Cardinality(waiting[i]) + 1
      BY <2>1, FS_AddElement
    <3> QED
      BY <2>1, <3>1
  <2>3. Cardinality(waiting[i]) + Len(line[i]) <= MaxWrites
    BY DEF WritesBounded
  <2>4. /\ IsFiniteSet(waiting'[i]) /\ Cardinality(waiting'[i]) \in Nat
        /\ Cardinality(waiting'[i]) <= Cardinality(waiting[i]) + 1
    <3>1. CASE waiting'[i] = waiting[i]
      BY <2>1, <3>1
    <3>2. CASE waiting'[i] = waiting[i] \cup {again}
      BY <2>2, <3>2
    <3> QED
      BY <1>4, <3>1, <3>2
  <2>5. Len(line'[i]) = Len(line[i]) - 1
    BY <1>1, <1>2
  <2>6. Cardinality(waiting'[i]) + Len(line'[i]) <= MaxWrites
    BY <1>2, <2>1, <2>3, <2>4, <2>5, VersionsAreNumbers
  <2> QED
    BY <1>4, <2>4, <2>6 DEF WritesBounded
<1> QED
  BY <1>3, <1>6, <1>7

\* The end of a delay moves one of those waiting to the end of the line.
LEMMA VersionRetried ==
    ASSUME StoreShape, WritesTaken, WritesBounded, NEW i \in Instances, Retry(i)
    PROVE  WritesTaken' /\ WritesBounded'
<1>1. PICK w \in waiting[i] : /\ waiting' = [waiting EXCEPT ![i] = waiting[i] \ {w}]
                              /\ line' = [line EXCEPT ![i] = Append(line[i], w)]
  BY DEF Retry, StoreShape
<1>2. version' = version
  BY DEF Retry
<1>3. /\ w \in Write /\ line[i] \in Seq(Write)
      /\ line'[i] = Append(line[i], w) /\ waiting'[i] = waiting[i] \ {w}
      /\ \A j \in Instances : j # i => line'[j] = line[j] /\ waiting'[j] = waiting[j]
  BY <1>1 DEF StoreShape
<1>4. /\ Len(line[i]) \in Nat /\ Len(line'[i]) = Len(line[i]) + 1
      /\ \A k \in 1 .. Len(line[i]) : line'[i][k] = line[i][k]
      /\ line'[i][Len(line[i]) + 1] = w
  BY <1>3
<1>5. \A k \in 1 .. Len(line'[i]) : k \in 1 .. Len(line[i]) \/ k = Len(line[i]) + 1
  BY <1>4
<1>6. \A k \in 1 .. Len(line'[i]) : Taken(line'[i][k], version)
  BY <1>1, <1>4, <1>5 DEF WritesTaken
<1>7. WritesTaken'
  BY <1>2, <1>3, <1>6 DEF WritesTaken
<1>8. WritesBounded'
  <2>1. IsFiniteSet(waiting[i]) /\ Cardinality(waiting[i]) \in Nat
    BY FS_CardinalityType DEF WritesBounded
  <2>2. IsFiniteSet(waiting[i] \ {w}) /\ Cardinality(waiting[i] \ {w}) = Cardinality(waiting[i]) - 1
    BY <2>1, FS_RemoveElement
  <2>3. Cardinality(waiting[i]) + Len(line[i]) <= MaxWrites
    BY DEF WritesBounded
  <2>4. Cardinality(waiting'[i]) + Len(line'[i]) <= MaxWrites
    BY <1>3, <1>4, <2>1, <2>2, <2>3, VersionsAreNumbers
  <2> QED
    BY <1>3, <2>2, <2>4 DEF WritesBounded
<1> QED
  BY <1>7, <1>8

\* An instance that is gone has nothing.
LEMMA VersionGone ==
    ASSUME StoreShape, WritesTaken, WritesBounded, NEW i \in Instances, Gone(i)
    PROVE  WritesTaken' /\ WritesBounded'
<1>1. /\ line'[i] = << >> /\ waiting'[i] = {} /\ version' = version
      /\ \A j \in Instances : j # i => line'[j] = line[j] /\ waiting'[j] = waiting[j]
  BY DEF Gone, StoreShape
<1>2. Len(<< >>) = 0 /\ IsFiniteSet({}) /\ Cardinality({}) = 0
  BY FS_EmptySet
<1>3. 1 .. 0 = {}
  OBVIOUS
<1>4. WritesTaken'
  BY <1>1, <1>2, <1>3 DEF WritesTaken
<1>5. Cardinality(waiting'[i]) + Len(line'[i]) <= MaxWrites
  BY <1>1, <1>2, VersionsAreNumbers
<1>6. WritesBounded'
  BY <1>1, <1>2, <1>5 DEF WritesBounded
<1> QED
  BY <1>4, <1>6

\* What instance i does to its memory concerns no other.
LEMMA VersionKept ==
    ASSUME StoreShape, KeptVersions, NEW i \in Instances, NEW v \in Versions,
           memory' = [memory EXCEPT ![i] = v], v <= version' \/ v = Removed,
           version' \in Nat, version' >= version,
           \A j \in Instances : Running(j) /\ j # i => Running(j)',
           Running(i)' \/ v = NoVersion,
           stored' \in Versions, stored' <= version' \/ stored' = Removed,
           handedOver' \in 0 .. version',
           restored' \subseteq Instances, revived' \in BOOLEAN
    PROVE  KeptVersions'
<1>1. version \in Nat /\ \A j \in Instances : memory[j] \in Nat
  BY VersionsAreNumbers DEF StoreShape
<1>2. memory'[i] = v /\ \A j \in Instances : j # i => memory'[j] = memory[j]
  BY DEF StoreShape
<1>3. \A j \in Instances : memory'[j] <= version' \/ memory'[j] = Removed
  BY <1>1, <1>2 DEF KeptVersions
<1>4. \A j \in Instances : ~Running(j)' => memory'[j] = NoVersion
  BY <1>2 DEF KeptVersions
<1> QED
  BY <1>3, <1>4 DEF KeptVersions, Removed

LEMMA VersionsBoot ==
    ASSUME StoreShape, VersionInv, NEW i \in Instances, Boot(i) PROVE VersionInv'
<1> DEFINE v == IF redis = "ready" /\ stored \in Rooms THEN stored ELSE NoVersion
<1>1. /\ status' = [status EXCEPT ![i] = "up"] /\ memory' = [memory EXCEPT ![i] = v]
      /\ UNCHANGED <<stored, version, line, waiting, revived, handedOver>>
      /\ restored' \subseteq restored \cup {i}
  BY DEF Boot
<1>2. version \in Nat
  BY VersionsAreNumbers DEF StoreShape
<1>3. v \in Versions /\ (v <= version \/ v = Removed)
  BY <1>2, VersionsAreNumbers DEF VersionInv, KeptVersions, NoVersion
<1> HIDE DEF v
<1>4. \A j \in Instances : (Running(j) /\ j # i => Running(j)') /\ Running(i)'
  BY <1>1 DEF Running, StoreShape
<1>5. KeptVersions'
  BY <1>1, <1>2, <1>3, <1>4, VersionKept DEF VersionInv, KeptVersions
<1> QED
  BY <1>1, <1>5 DEF VersionInv, WritesTaken, WritesBounded

LEMMA VersionsChange ==
    ASSUME StoreShape, VersionInv, NEW i \in Instances, ChangeRoom(i) \/ ComeBack(i) PROVE VersionInv'
<1>1. /\ Running(i) /\ version < MaxVersion /\ version' = version + 1
      /\ memory' = [memory EXCEPT ![i] = version + 1] /\ SendWrite(i, version + 1, FALSE)
      /\ UNCHANGED <<status, stored, revived, handedOver>> /\ restored' \subseteq restored
  BY DEF ChangeRoom, ComeBack, history
<1>2. version \in Nat /\ version + 1 \in Nat /\ version + 1 >= version /\ version + 1 \in Versions
  BY <1>1, VersionsAreNumbers DEF StoreShape
<1>3. WritesTaken' /\ WritesBounded'
  <2>1. ToBeTaken(version + 1, FALSE, version')
    BY <1>1, <1>2 DEF ToBeTaken
  <2> QED
    BY <1>1, <2>1, VersionSent DEF VersionInv
<1>4. \A j \in Instances : Running(j)' <=> Running(j)
  BY <1>1 DEF Running
<1>5. stored' \in Versions /\ (stored' <= version' \/ stored' = Removed) /\ handedOver' \in 0 .. version'
  BY <1>1, <1>2, VersionsAreNumbers DEF VersionInv, KeptVersions
<1>6. KeptVersions'
  <2>1. restored' \subseteq Instances /\ revived' \in BOOLEAN /\ KeptVersions
    BY <1>1 DEF VersionInv, KeptVersions
  <2>2. version' \in Nat /\ version' >= version /\ version + 1 <= version'
    BY <1>1, <1>2
  <2> QED
    BY <1>1, <1>2, <1>4, <1>5, <2>1, <2>2, VersionKept
<1> QED
  BY <1>3, <1>6 DEF VersionInv

LEMMA VersionsDisconnect ==
    ASSUME StoreShape, VersionInv, NEW i \in Instances, Disconnect(i) PROVE VersionInv'
<1>1. /\ Running(i) /\ version < MaxVersion /\ version' = version + 1
      /\ memory' = [memory EXCEPT ![i] = version + 1]
      /\ UNCHANGED <<status, line, waiting, restored, stored, revived, handedOver>>
  BY DEF Disconnect, history
<1>2. version \in Nat /\ version' \in Nat /\ version' >= version /\ version + 1 \in Versions
  BY <1>1, VersionsAreNumbers DEF StoreShape
<1>3. WritesTaken'
  <2>1. \A j \in Instances : /\ \A w \in waiting[j] : Taken(w, version')
                             /\ \A k \in 1 .. Len(line[j]) : Taken(line[j][k], version')
    BY <1>2, TakenStays DEF VersionInv, WritesTaken, StoreShape
  <2> QED
    BY <1>1, <2>1 DEF WritesTaken
<1>4. WritesBounded'
  BY <1>1 DEF VersionInv, WritesBounded
<1>5. \A j \in Instances : Running(j)' <=> Running(j)
  BY <1>1 DEF Running
<1>6. stored' \in Versions /\ (stored' <= version' \/ stored' = Removed) /\ handedOver' \in 0 .. version'
  BY <1>1, <1>2, VersionsAreNumbers DEF VersionInv, KeptVersions
<1>7. KeptVersions'
  <2>1. restored' \subseteq Instances /\ revived' \in BOOLEAN /\ KeptVersions
    BY <1>1 DEF VersionInv, KeptVersions
  <2>2. version + 1 <= version'
    BY <1>1, <1>2
  <2> QED
    BY <1>1, <1>2, <1>5, <1>6, <2>1, <2>2, VersionKept
<1> QED
  BY <1>3, <1>4, <1>7 DEF VersionInv

LEMMA VersionsDelete ==
    ASSUME StoreShape, VersionInv, NEW i \in Instances, DeleteRoom(i) PROVE VersionInv'
<1>1. /\ Running(i) /\ memory' = [memory EXCEPT ![i] = Removed] /\ SendWrite(i, Removed, FALSE)
      /\ UNCHANGED <<status, stored, version, revived, handedOver>> /\ restored' \subseteq restored
  BY DEF DeleteRoom, history, Running
<1>2. version \in Nat /\ Removed \in Versions
  BY VersionsAreNumbers DEF StoreShape
<1>3. WritesTaken' /\ WritesBounded'
  <2>1. ToBeTaken(Removed, FALSE, version')
    BY <1>1, <1>2 DEF ToBeTaken
  <2> QED
    BY <1>1, <2>1, VersionSent DEF VersionInv
<1>4. \A j \in Instances : Running(j)' <=> Running(j)
  BY <1>1 DEF Running
<1>5. KeptVersions'
  BY <1>1, <1>2, <1>4, VersionKept DEF VersionInv, KeptVersions
<1> QED
  BY <1>3, <1>5 DEF VersionInv

LEMMA VersionsLateJoin ==
    ASSUME StoreShape, VersionInv, NEW i \in Instances, LateJoin(i) PROVE VersionInv'
<1>1. /\ version < MaxVersion /\ version' = version + 1 /\ SendWrite(i, version + 1, FALSE)
      /\ revived' = TRUE /\ UNCHANGED <<status, memory, stored, restored, handedOver>>
  BY DEF LateJoin
<1>2. version \in Nat /\ version + 1 \in Nat /\ version + 1 >= version /\ version + 1 \in Versions
  BY <1>1, VersionsAreNumbers DEF StoreShape
<1>3. WritesTaken' /\ WritesBounded'
  <2>1. ToBeTaken(version + 1, FALSE, version')
    BY <1>1, <1>2 DEF ToBeTaken
  <2> QED
    BY <1>1, <2>1, VersionSent DEF VersionInv
<1>4. \A j \in Instances : Running(j)' <=> Running(j)
  BY <1>1 DEF Running
<1>5. \A j \in Instances : memory[j] \in Nat
  BY VersionsAreNumbers DEF StoreShape
<1>6. \A j \in Instances : memory'[j] <= version' \/ memory'[j] = Removed
  BY <1>1, <1>2, <1>5 DEF VersionInv, KeptVersions
<1>7. stored' \in Versions /\ (stored' <= version' \/ stored' = Removed) /\ handedOver' \in 0 .. version'
  BY <1>1, <1>2, VersionsAreNumbers DEF VersionInv, KeptVersions
<1>8. KeptVersions'
  BY <1>1, <1>4, <1>6, <1>7 DEF VersionInv, KeptVersions, Removed
<1> QED
  BY <1>3, <1>8 DEF VersionInv

\* What Redis has from a write is as old as the write; what a shutdown hands over is of a room.
LEMMA VersionsAnswer ==
    ASSUME StoreShape, VersionInv, NEW i \in Instances, Settle(i) \/ Miss(i) PROVE VersionInv'
<1> DEFINE w == Head(line[i])
           again == [w EXCEPT !.tries = @ + 1]
<1>1. line[i] # << >> /\ UNCHANGED <<status, memory, restored, version, revived>>
  BY DEF Settle, Miss
<1>2. line[i] \in Seq(Write) /\ line' = [line EXCEPT ![i] = Tail(line[i])]
  BY DEF Settle, Miss, StoreShape
<1>3. w \in Write /\ again.version = w.version /\ again.last = w.last
  BY <1>1, <1>2, SettledFirst DEF Write
<1>4. w.tries < MaxRetries => again \in Write
  <2>1. /\ w.version \in Versions /\ w.last \in BOOLEAN /\ w.tries \in 0 .. MaxRetries
        /\ w = [version |-> w.version, tries |-> w.tries, last |-> w.last]
    BY <1>3 DEF Write
  <2>2. w.tries < MaxRetries => w.tries + 1 \in 0 .. MaxRetries
    BY <2>1, StoreAssumption
  <2>3. again = [version |-> w.version, tries |-> w.tries + 1, last |-> w.last]
    BY <2>1
  <2> QED
    BY <2>1, <2>2, <2>3 DEF Write
<1>5. \/ waiting' = waiting
      \/ w.tries < MaxRetries /\ waiting' = [waiting EXCEPT ![i] = waiting[i] \cup {again}]
  BY DEF Settle, Miss, StoreShape
<1>6. stored' = stored \/ stored' = w.version
  BY DEF Settle, Miss
<1>7. handedOver' = handedOver \/ (w.last /\ handedOver' = w.version)
  BY DEF Settle, Miss
<1> HIDE DEF again
<1>8. WritesTaken' /\ WritesBounded' /\ Taken(w, version)
  <2>1. CASE waiting' = waiting
    BY <1>1, <1>2, <1>3, <2>1, VersionMoved DEF VersionInv
  <2>2. CASE w.tries < MaxRetries /\ waiting' = [waiting EXCEPT ![i] = waiting[i] \cup {again}]
    BY <1>1, <1>2, <1>3, <1>4, <2>2, VersionMoved DEF VersionInv
  <2> QED
    BY <1>5, <2>1, <2>2
<1>9. w.version \in Versions /\ w.version \in Nat /\ version \in Nat
  BY <1>3, VersionsAreNumbers DEF StoreShape
<1> HIDE DEF w
<1>10. stored' \in Versions /\ (stored' <= version \/ stored' = Removed) /\ handedOver' \in 0 .. version
  BY <1>6, <1>7, <1>8, <1>9 DEF Taken, VersionInv, KeptVersions
<1>11. \A j \in Instances : Running(j)' <=> Running(j)
  BY <1>1 DEF Running
<1>12. KeptVersions'
  BY <1>1, <1>10, <1>11 DEF VersionInv, KeptVersions, Removed
<1> QED
  BY <1>8, <1>12 DEF VersionInv

LEMMA VersionsGone ==
    ASSUME StoreShape, VersionInv, NEW i \in Instances, Crash(i) \/ Exit(i) PROVE VersionInv'
<1>1. Gone(i) /\ handedOver' = handedOver /\ stored' \in {stored, Removed}
  BY DEF Crash, Exit
<1>2. /\ status' = [status EXCEPT ![i] = "gone"] /\ memory' = [memory EXCEPT ![i] = NoVersion]
      /\ restored' \subseteq restored /\ UNCHANGED <<version, revived>>
  BY <1>1 DEF Gone
<1>3. WritesTaken' /\ WritesBounded'
  BY <1>1, VersionGone DEF VersionInv
<1>4. version \in Nat /\ NoVersion \in Versions /\ Removed \in Versions /\ NoVersion <= version
  BY VersionsAreNumbers DEF StoreShape, NoVersion
<1>5. \A j \in Instances : Running(j) /\ j # i => Running(j)'
  BY <1>2 DEF Running, StoreShape
<1>6. KeptVersions'
  <2>1. /\ stored' \in Versions /\ (stored' <= version' \/ stored' = Removed)
        /\ handedOver' \in 0 .. version' /\ version' \in Nat /\ version' >= version
        /\ restored' \subseteq Instances /\ revived' \in BOOLEAN /\ KeptVersions
    BY <1>1, <1>2, <1>4 DEF VersionInv, KeptVersions
  <2> QED
    BY <1>2, <1>4, <1>5, <2>1, VersionKept
<1> QED
  BY <1>3, <1>6 DEF VersionInv

LEMMA VersionsShutdown ==
    ASSUME StoreShape, VersionInv, NEW i \in Instances, Shutdown(i) PROVE VersionInv'
<1>1. /\ status' = [status EXCEPT ![i] = "stopping"]
      /\ UNCHANGED <<memory, restored, version, stored, revived, handedOver>>
  BY DEF Shutdown, history
<1>2. \A j \in Instances : Running(j) => Running(j)'
  BY <1>1 DEF Running, StoreShape
<1>3. KeptVersions'
  BY <1>1, <1>2 DEF VersionInv, KeptVersions, Removed
<1>4. CASE memory[i] \in Rooms /\ SendWrite(i, memory[i], TRUE)
  <2>1. memory[i] \in Versions /\ version \in Nat
    BY VersionsAreNumbers DEF StoreShape
  <2>2. memory[i] <= version
    BY <1>4, <2>1, VersionsAreNumbers DEF VersionInv, KeptVersions
  <2>3. WritesTaken' /\ WritesBounded'
    <3>1. ToBeTaken(memory[i], TRUE, version')
      BY <1>1, <2>1, <2>2 DEF ToBeTaken
    <3> QED
      BY <1>4, <3>1, VersionSent DEF VersionInv
  <2> QED
    BY <1>3, <2>3 DEF VersionInv
<1>5. CASE UNCHANGED <<line, waiting>>
  BY <1>1, <1>3, <1>5 DEF VersionInv, WritesTaken, WritesBounded
<1> QED
  BY <1>4, <1>5 DEF Shutdown

LEMMA VersionInvHolds == OutageSpec => []VersionInv
<1>1. Init => VersionInv
  <2> SUFFICES ASSUME StoreInit PROVE VersionInv
    BY DEF Init
  <2>1. \A i \in Instances : /\ waiting[i] = {} /\ line[i] = << >> /\ memory[i] = NoVersion
                             /\ ~Running(i)
    BY DEF StoreInit, Running
  <2>2. 1 .. Len(<< >>) = {} /\ Len(<< >>) = 0 /\ IsFiniteSet({}) /\ Cardinality({}) = 0
    BY FS_EmptySet
  <2>3. WritesTaken
    BY <2>1, <2>2 DEF WritesTaken
  <2>4. WritesBounded
    <3>1. Cardinality({}) + Len(<< >>) <= MaxWrites
      BY <2>2, VersionsAreNumbers
    <3> QED
      BY <2>1, <2>2, <3>1 DEF WritesBounded
  <2>5. KeptVersions
    <3>1. version = NoVersion /\ stored = NoVersion /\ handedOver = NoVersion
          /\ restored = {} /\ revived = FALSE
      BY DEF StoreInit
    <3>2. NoVersion \in Versions /\ NoVersion <= NoVersion /\ NoVersion \in 0 .. NoVersion
      BY VersionsAreNumbers DEF NoVersion
    <3> QED
      BY <2>1, <3>1, <3>2 DEF KeptVersions
  <2> QED
    BY <2>3, <2>4, <2>5 DEF VersionInv
<1>2. VersionInv /\ StoreInv /\ [Next]_vars => VersionInv'
  <2> SUFFICES ASSUME VersionInv, StoreShape, [Next]_vars PROVE VersionInv'
    BY DEF StoreInv
  <2>1. CASE UNCHANGED storeVars
    BY <2>1 DEF storeVars, history, VersionInv, WritesTaken, WritesBounded, KeptVersions, Running
  <2>2. CASE StoreNext
    <3>1. PICK i \in Instances :
            \/ Boot(i) \/ ChangeRoom(i) \/ Disconnect(i) \/ ComeBack(i) \/ DeleteRoom(i) \/ LateJoin(i)
            \/ Settle(i) \/ Miss(i) \/ Retry(i)
            \/ Crash(i) \/ Shutdown(i) \/ Exit(i)
      BY <2>2 DEF StoreNext
    <3>2. CASE Boot(i)
      BY <3>2, VersionsBoot
    <3>3. CASE ChangeRoom(i) \/ ComeBack(i)
      BY <3>3, VersionsChange
    <3>4. CASE DeleteRoom(i)
      BY <3>4, VersionsDelete
    <3>5. CASE LateJoin(i)
      BY <3>5, VersionsLateJoin
    <3>6. CASE Settle(i) \/ Miss(i)
      BY <3>6, VersionsAnswer
    <3>7. CASE Retry(i)
      <4>1. WritesTaken' /\ WritesBounded'
        BY <3>7, VersionRetried DEF VersionInv
      <4>2. KeptVersions'
        BY <3>7 DEF Retry, history, VersionInv, KeptVersions, Running
      <4> QED
        BY <4>1, <4>2 DEF VersionInv
    <3>8. CASE Crash(i) \/ Exit(i)
      BY <3>8, VersionsGone
    <3>9. CASE Shutdown(i)
      BY <3>9, VersionsShutdown
    <3>10. CASE Disconnect(i)
      BY <3>10, VersionsDisconnect
    <3> QED
      BY <3>1, <3>2, <3>3, <3>4, <3>5, <3>6, <3>7, <3>8, <3>9, <3>10
  <2> QED
    BY <2>1, <2>2 DEF Next, vars, OutageBegins, OutageEnds, LimiterSteps, StoreSteps
<1> QED
  BY <1>1, <1>2, StoreInvHolds, PTL DEF OutageSpec

\* No more is unsaved than there is.
SavedOfMemory == \A i \in Instances : unsaved[i] \in 0 .. memory[i]

LEMMA SavedKept ==
    ASSUME SavedOfMemory, StoreShape',
           \A j \in Instances : \/ unsaved'[j] = 0
                                \/ unsaved'[j] = unsaved[j] /\ memory'[j] = memory[j]
    PROVE  SavedOfMemory'
<1>1. \A j \in Instances : memory'[j] \in Nat
  BY StoreAssumption DEF StoreShape, Versions, NoVersion, Removed
<1> QED
  BY <1>1 DEF SavedOfMemory

LEMMA SavedHolds == OutageSpec => []SavedOfMemory
<1>1. Init /\ StoreInv => SavedOfMemory
  BY DEF Init, StoreInit, SavedOfMemory, NoVersion
<1>2. SavedOfMemory /\ StoreInv /\ VersionInv /\ StoreInv' /\ [Next]_vars => SavedOfMemory'
  <2> SUFFICES ASSUME SavedOfMemory, StoreShape, StoreShape', Alone, KeptVersions, [Next]_vars
               PROVE  SavedOfMemory'
    BY DEF StoreInv, VersionInv
  <2>1. CASE UNCHANGED storeVars
    BY <2>1 DEF storeVars, SavedOfMemory
  <2>2. CASE StoreNext
    <3>1. PICK i \in Instances :
            \/ Boot(i) \/ ChangeRoom(i) \/ Disconnect(i) \/ ComeBack(i) \/ DeleteRoom(i) \/ LateJoin(i)
            \/ Settle(i) \/ Miss(i) \/ Retry(i)
            \/ Crash(i) \/ Shutdown(i) \/ Exit(i)
      BY <2>2 DEF StoreNext
    <3>2. CASE Boot(i)
      <4>1. unsaved' = unsaved /\ unsaved[i] = 0
        BY <3>2 DEF Boot, Alone, Running
      <4>2. \A j \in Instances : j # i => memory'[j] = memory[j]
        BY <3>2 DEF Boot, StoreShape
      <4> QED
        BY <4>1, <4>2, SavedKept
    <3>3. CASE Disconnect(i)
      <4>1. memory'[i] = version + 1 /\ unsaved'[i] = unsaved[i] + version + 1 - memory[i]
        BY <3>3 DEF Disconnect, StoreShape
      <4>2. memory[i] \in Nat /\ version \in Nat /\ memory[i] <= version /\ unsaved[i] \in 0 .. memory[i]
        BY <3>3, StoreAssumption
        DEF Disconnect, StoreShape, KeptVersions, SavedOfMemory, Rooms, Removed, Versions, NoVersion
      <4>3. unsaved'[i] \in 0 .. memory'[i]
        BY <4>1, <4>2
      <4>4. \A j \in Instances : j # i => memory'[j] = memory[j] /\ unsaved'[j] = unsaved[j]
        BY <3>3 DEF Disconnect, StoreShape
      <4> QED
        BY <4>3, <4>4 DEF SavedOfMemory
    <3>4. CASE ChangeRoom(i) \/ ComeBack(i) \/ DeleteRoom(i) \/ LateJoin(i)
      <4>1. /\ unsaved' = [unsaved EXCEPT ![i] = 0]
            /\ \A j \in Instances : j # i => memory'[j] = memory[j]
        BY <3>4 DEF ChangeRoom, ComeBack, DeleteRoom, LateJoin, SendWrite, StoreShape
      <4> QED
        BY <4>1, SavedKept DEF StoreShape
    <3>5. CASE Settle(i) \/ Miss(i) \/ Retry(i)
      BY <3>5, SavedKept DEF Settle, Miss, Retry
    <3>6. CASE Crash(i) \/ Exit(i)
      <4>1. /\ unsaved' = [unsaved EXCEPT ![i] = 0]
            /\ \A j \in Instances : j # i => memory'[j] = memory[j]
        BY <3>6 DEF Crash, Exit, Gone, StoreShape
      <4> QED
        BY <4>1, SavedKept DEF StoreShape
    <3>7. CASE Shutdown(i)
      <4>1. /\ unsaved' = unsaved \/ unsaved' = [unsaved EXCEPT ![i] = 0]
            /\ memory' = memory
        BY <3>7 DEF Shutdown, SendWrite
      <4> QED
        BY <4>1, SavedKept DEF StoreShape
    <3> QED
      BY <3>1, <3>2, <3>3, <3>4, <3>5, <3>6, <3>7
  <2> QED
    BY <2>1, <2>2 DEF Next, vars, OutageBegins, OutageEnds, LimiterSteps, StoreSteps
<1> QED
  BY <1>1, <1>2, StoreInvHolds, VersionInvHolds, PTL DEF OutageSpec

\* What the limiter counts, and the connection.
CountersGood ==
    /\ RedisTypeOK /\ outages \in 0 .. MaxOutages
    /\ failureCount \in 0 .. CIRCUIT_BREAKER_THRESHOLD /\ resetOver \in BOOLEAN
    /\ Len(checks) <= MaxChecks

LEMMA CountersHold == OutageSpec => []CountersGood
<1>1. Init => CountersGood
  <2> SUFFICES ASSUME Init PROVE CountersGood
    OBVIOUS
  <2>1. checks = << >> /\ failureCount = 0 /\ resetOver = FALSE /\ outages = 0 /\ redis = "ready"
    BY DEF Init, BreakerInit, RedisInit
  <2>2. Len(checks) = 0
    BY <2>1
  <2>3. 0 \in 0 .. MaxOutages /\ 0 \in 0 .. CIRCUIT_BREAKER_THRESHOLD /\ 0 <= MaxChecks
    BY BreakerAssumption, OutagesAssumption
  <2>4. RedisTypeOK /\ resetOver \in BOOLEAN
    BY <2>1 DEF RedisTypeOK
  <2> QED
    BY <2>1, <2>2, <2>3, <2>4, Zenon DEF CountersGood
<1>2. CountersGood /\ ProbeInv /\ [Next]_vars => CountersGood'
  <2> SUFFICES ASSUME CountersGood, checks \in Seq(Check), [Next]_vars PROVE CountersGood'
    BY DEF ProbeInv
  <2>1. Len(checks) \in Nat /\ DOMAIN checks = 1 .. Len(checks)
    OBVIOUS
  <2>2. CASE UNCHANGED <<outages, breakerVars, redis>>
    BY <2>2 DEF breakerVars, CountersGood, RedisTypeOK
  <2>3. CASE OutageBegins
    <3>1. checks' = [i \in 1 .. Len(checks) |-> [checks[i] EXCEPT !.sound = FALSE]]
      BY <2>1, <2>3 DEF OutageBegins, ChecksInDoubt
    <3>2. Len(checks') = Len(checks)
      BY <2>1, <3>1
    <3>3. /\ redis' \in {"failing", "down"} /\ outages' \in 0 .. MaxOutages
          /\ UNCHANGED <<failureCount, resetOver>>
      BY <2>3, OutagesAssumption DEF OutageBegins, Outage, ChecksInDoubt, CountersGood
    <3> QED
      BY <3>2, <3>3 DEF CountersGood, RedisTypeOK
  <2>4. CASE OutageEnds
    BY <2>4 DEF OutageEnds, Recovery, breakerVars, CountersGood, RedisTypeOK
  <2>5. CASE CheckLimit /\ UNCHANGED <<redis, outages>>
    <3>1. PICK p \in BOOLEAN : Send(p)
      BY <2>5 DEF CheckLimit, AttemptRedis
    <3>2. Len(checks') = Len(checks) + 1
      BY <3>1 DEF Send
    <3>3. Len(checks') <= MaxChecks
      BY <2>1, <2>5, <3>2, BreakerAssumption DEF CheckLimit
    <3> QED
      BY <2>5, <3>3 DEF CheckLimit, CountersGood, RedisTypeOK
  <2>6. CASE Answer /\ UNCHANGED <<redis, outages>>
    <3>1. checks # << >> /\ checks' = Tail(checks)
      BY <2>6 DEF Answer, Succeed, Fail
    <3>2. Len(checks') = Len(checks) - 1
      BY <3>1
    <3>3. Len(checks') <= MaxChecks
      BY <2>1, <3>2, BreakerAssumption DEF CountersGood
    <3>4. failureCount' \in 0 .. CIRCUIT_BREAKER_THRESHOLD /\ resetOver' = FALSE
      BY <2>6, BreakerAssumption DEF Answer, Succeed, Fail, OnSuccess, OnFailure, CountersGood
    <3> QED
      BY <2>6, <3>3, <3>4 DEF CountersGood, RedisTypeOK
  <2>7. CASE ResetPeriodEnds /\ UNCHANGED <<redis, outages>>
    BY <2>7 DEF ResetPeriodEnds, CountersGood, RedisTypeOK
  <2>8. StoreNext => redis' = redis
    BY DEF StoreNext, Boot, ChangeRoom, Disconnect, ComeBack, DeleteRoom, LateJoin, Settle, Miss, Retry,
           Crash, Shutdown, Exit, Gone
  <2> QED
    BY <2>2, <2>3, <2>4, <2>5, <2>6, <2>7, <2>8
    DEF Next, vars, LimiterSteps, StoreSteps, BreakerNext
<1> QED
  BY <1>1, <1>2, ProbeInvHolds, PTL DEF OutageSpec

\* Versions only grow, and whatever Redis has, a write carries or a shutdown hands over was
\* taken from a room, for any number of instances, retries, checks and outages.
THEOREM OutageTypes == OutageSpec => []OutageTypeOK
<1>1. StoreInv /\ VersionInv /\ SavedOfMemory => StoreTypeOK
  <2> SUFFICES ASSUME StoreInv, VersionInv, SavedOfMemory PROVE StoreTypeOK
    OBVIOUS
  <2>1. \A i \in Instances : ~Running(i) => memory[i] = NoVersion /\ Open(i) = {}
    <3> SUFFICES ASSUME NEW i \in Instances, ~Running(i)
                 PROVE  memory[i] = NoVersion /\ Open(i) = {}
      OBVIOUS
    <3>1. memory[i] = NoVersion /\ line[i] = << >> /\ waiting[i] = {}
      BY DEF VersionInv, KeptVersions, StoreInv, Alone
    <3>2. Range(<< >>) = {}
      BY DEF Range
    <3> QED
      BY <3>1, <3>2 DEF Open
  <2>2. \A i \in Instances : waiting[i] \subseteq Write /\ line[i] \in Seq(Write)
    BY DEF StoreInv, StoreShape
  <2> QED
    BY <2>1, <2>2 DEF StoreInv, StoreShape, VersionInv, WritesBounded, KeptVersions,
       SavedOfMemory, StoreTypeOK
<1>2. ProbeInv /\ CountersGood => BreakerTypeOK
  <2> SUFFICES ASSUME ProbeInv, CountersGood PROVE BreakerTypeOK
    OBVIOUS
  <2>1. checks \in [1 .. Len(checks) -> Check] /\ Len(checks) \in 0 .. MaxChecks
    BY BreakerAssumption DEF ProbeInv, CountersGood
  <2>2. checks \in BoundedSeq(Check, MaxChecks)
    BY <2>1 DEF BoundedSeq, SeqOf
  <2> QED
    BY <2>2 DEF ProbeInv, CountersGood, BreakerTypeOK
<1> QED
  BY <1>1, <1>2, StoreInvHolds, VersionInvHolds, SavedHolds, ProbeInvHolds, CountersHold, PTL
  DEF OutageTypeOK, CountersGood

=============================================================================
