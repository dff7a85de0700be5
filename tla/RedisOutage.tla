----------------------------- MODULE RedisOutage -----------------------------
(***************************************************************************)
(* RoomStore and RateBreaker on one Redis: an outage meets both, the store *)
(* with its retries and the limiter with its breaker, and the end of the   *)
(* outage must find both able to go on.                                    *)
(***************************************************************************)
EXTENDS RoomStore, RateBreaker

CONSTANT MaxOutages
ASSUME OutagesAssumption == MaxOutages \in Nat

VARIABLE outages    \* how many there were; the only bound on them

vars == <<redis, outages, storeVars, breakerVars>>

Init == RedisInit /\ StoreInit /\ BreakerInit /\ outages = 0

OutageBegins ==
    /\ outages < MaxOutages /\ outages' = outages + 1
    /\ Outage /\ ChecksInDoubt
    /\ UNCHANGED storeVars

OutageEnds == Recovery /\ UNCHANGED <<outages, storeVars, breakerVars>>

LimiterSteps == BreakerNext /\ UNCHANGED <<redis, outages, storeVars>>
StoreSteps == StoreNext /\ UNCHANGED <<outages, breakerVars>>

Next == OutageBegins \/ OutageEnds \/ LimiterSteps \/ StoreSteps
OutageSpec == Init /\ [][Next]_vars

\* A command that was sent is answered or fails, the reset period passes, and
\* players keep sending messages, each of which is checked.
FairOutageSpec ==
    /\ OutageSpec
    /\ WF_vars(Answer /\ UNCHANGED <<redis, outages, storeVars>>)
    /\ WF_vars(ResetPeriodEnds /\ UNCHANGED <<redis, outages, storeVars>>)
    /\ WF_vars(CheckLimit /\ UNCHANGED <<redis, outages, storeVars>>)

-----------------------------------------------------------------------------
(* Property.                                                               *)

\* The shape of both, and the store's versions: they only grow, and every write
\* on its way was taken from a room.
OutageTypeOK == RedisTypeOK /\ StoreTypeOK /\ BreakerTypeOK /\ outages \in 0 .. MaxOutages
=============================================================================
