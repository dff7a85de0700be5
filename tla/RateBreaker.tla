----------------------------- MODULE RateBreaker -----------------------------
(***************************************************************************)
(* The circuit breaker of the rate limiter (server/src/rateLimit.ts): who  *)
(* asks Redis, who is served from memory, and what late answers do.        *)
(*                                                                         *)
(* A check sends one command and awaits it; the client answers commands in *)
(* the order they were sent.  failureCount is compared with the threshold  *)
(* only, so it is not counted further.  Of lastFailureTime there is        *)
(* `resetOver`: whether the reset period has passed since.                 *)
(***************************************************************************)
EXTENDS Redis, Naturals, Sequences, SequencesExt

CONSTANTS
    CIRCUIT_BREAKER_THRESHOLD,
    MaxChecks                   \* checks that await an answer

ASSUME BreakerAssumption ==
    CIRCUIT_BREAKER_THRESHOLD \in Nat \ {0} /\ MaxChecks \in Nat \ {0}

VARIABLES
    state,
    failureCount,
    resetOver,
    checks,      \* the checks awaiting an answer: [probe, sound], oldest first
    relapsed     \* history: an older check failed while a probe was out

breakerVars == <<state, failureCount, resetOver, checks, relapsed>>

CircuitStates == {"CLOSED", "OPEN", "HALF_OPEN"}
Check == [probe : BOOLEAN, sound : BOOLEAN]
Probes == {i \in DOMAIN checks : checks[i].probe}

BreakerInit ==
    /\ state = "CLOSED" /\ failureCount = 0 /\ resetOver = FALSE
    /\ checks = <<>> /\ relapsed = FALSE

Send(probe) == checks' = Append(checks, [probe |-> probe, sound |-> redis = "ready"])

\* Mutant: everyone may probe while the circuit is half open.
ManyProbe ==
    \/ state = "CLOSED" /\ UNCHANGED state /\ Send(FALSE)
    \/ /\ (state = "OPEN" /\ resetOver) \/ state = "HALF_OPEN"
       /\ state' = "HALF_OPEN" /\ Send(TRUE)

\* shouldAttemptRedis, when it says yes.  Saying no changes nothing: the check
\* is made in memory.
AttemptRedis ==
    \/ state = "CLOSED" /\ UNCHANGED state /\ Send(FALSE)
    \/ state = "OPEN" /\ resetOver /\ state' = "HALF_OPEN" /\ Send(TRUE)

\* checkWindow and checkCooldown: a client that is not ready is passed over
\* before the breaker is asked, which would spend the probe.
CheckLimit ==
    /\ redis # "down" /\ Len(checks) < MaxChecks
    /\ AttemptRedis
    /\ UNCHANGED <<failureCount, resetOver, relapsed>>

OnSuccess == state' = "CLOSED" /\ failureCount' = 0 /\ resetOver' = FALSE

\* Mutant: a probe that fails leaves the circuit half open.
StayHalfOpen ==
    LET count == IF failureCount < CIRCUIT_BREAKER_THRESHOLD THEN failureCount + 1 ELSE failureCount
    IN  /\ failureCount' = count /\ resetOver' = FALSE
        /\ state' = IF state = "CLOSED" /\ count = CIRCUIT_BREAKER_THRESHOLD THEN "OPEN" ELSE state

OnFailure ==
    LET count == IF failureCount < CIRCUIT_BREAKER_THRESHOLD THEN failureCount + 1 ELSE failureCount
    IN  /\ failureCount' = count /\ resetOver' = FALSE
        /\ state' = IF state = "HALF_OPEN" \/ count = CIRCUIT_BREAKER_THRESHOLD THEN "OPEN"
                    ELSE state

Succeed ==
    /\ redis = "ready" /\ checks # <<>>
    /\ checks' = Tail(checks)
    /\ OnSuccess
    /\ UNCHANGED relapsed

\* An error, which a command sent before or during an outage may also meet when
\* the outage is over.
Fail ==
    /\ checks # <<>> /\ (redis # "ready" \/ ~Head(checks).sound)
    /\ checks' = Tail(checks)
    /\ OnFailure
    /\ relapsed' = (relapsed \/ (Probes # {} /\ ~Head(checks).probe))

ResetPeriodEnds ==
    /\ state = "OPEN" /\ ~resetOver
    /\ resetOver' = TRUE
    /\ UNCHANGED <<state, failureCount, checks, relapsed>>

\* What is on its way when the outage begins may be lost.
ChecksInDoubt ==
    /\ checks' = [i \in DOMAIN checks |-> [checks[i] EXCEPT !.sound = FALSE]]
    /\ UNCHANGED <<state, failureCount, resetOver, relapsed>>

Answer == Succeed \/ Fail
BreakerNext == CheckLimit \/ Answer \/ ResetPeriodEnds

-----------------------------------------------------------------------------
(* Properties.                                                             *)

BreakerTypeOK ==
    /\ state \in CircuitStates
    /\ failureCount \in 0 .. CIRCUIT_BREAKER_THRESHOLD
    /\ resetOver \in BOOLEAN /\ relapsed \in BOOLEAN
    /\ checks \in BoundedSeq(Check, MaxChecks)

\* "Only one probe at a time": while one is out everyone else is served from
\* memory, and a circuit that is half open has a probe out whose answer will
\* move it.  A command sent before the circuit opened, which fails only after
\* the probe was sent, opens it again, and then a second probe may join the first.
OneProbeAtATime ==
    /\ relapsed \/ \A i, j \in Probes : i = j
    /\ state = "HALF_OPEN" => Probes # {}

\* When the outage is over for good, the limiter uses Redis again for good: no
\* order of late answers, spent probes and reset periods keeps it out.
LimiterRecovers == <>[](redis = "ready") => <>[](state = "CLOSED")
=============================================================================
