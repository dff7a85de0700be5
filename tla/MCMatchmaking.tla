--------------------------- MODULE MCMatchmaking ---------------------------
(* Matchmaking with three users, the first on two sockets.  In heads-up the  *)
(* first two are near enough for each other only when a window is wider; in  *)
(* multiplayer they are, and the third is too far from both.                 *)
EXTENDS Matchmaking

Owners == [s \in Sockets |-> <<1, 2, 3, 1>>[s]]
Wishes == [s \in Sockets |-> <<{"heads_up"}, Modes, {"multiplayer"}, {"multiplayer"}>>[s]]
Ratings == [mode \in Modes |->
    [u \in Users |-> IF mode = "heads_up" THEN 3 * u ELSE <<0, 2, 9>>[u]]]

\* Arrivals that go on: when all rooms are over, what is numbered is numbered anew, from
\* the beginning but for who still waits.  Nothing else tells the two states apart.  (Once
\* something has failed, or two operations have met, MaxJoins ends arrivals.)
Renumber ==
    LET waiting == UNION {queue[m] : m \in Modes}
    IN  /\ troubles = 0 /\ raced = {}
        /\ line = <<>> /\ asking = {}
        /\ matches # <<>> /\ \A m \in DOMAIN matches : matches[m].stage \in {"over", "gone"}
        /\ joins' = [s \in Sockets |-> IF s \in {e.socket : e \in waiting} THEN joins[s] ELSE 0]
        /\ overdue' = overdue \cap waiting
        /\ matches' = <<>> /\ roomOf' = [s \in Sockets |-> 0]
        /\ UNCHANGED <<connected, asking, line, queue, maps, troubles, history>>

EndlessSpec ==
    /\ Init /\ [][Next \/ Renumber]_vars
    /\ RedisAnswers /\ WF_vars(RatingAnswers)
    /\ WF_vars(StartPass) /\ WF_vars(\E e \in Entry : WaitTooLong(e))
=============================================================================
