---------------------------- MODULE BluffRound ----------------------------
(***************************************************************************)
(* The rules of a round of Bull 'Em, with no seats, indexes or history:    *)
(* a bid is open, every other player owes one answer to it, a higher bid   *)
(* starts the answers afresh, and a bid that nobody believes gives its     *)
(* bidder one last chance before the cards are revealed.  GameEngine       *)
(* implements this module at a small table that nobody leaves.             *)
(***************************************************************************)
EXTENDS Integers, FiniteSets

CONSTANTS Seats, TopHand

VARIABLES
    limit,      \* the most cards a player may hold
    hold,       \* the cards each player is dealt
    out,        \* the players who are out
    stage,      \* "bidding", "lastChance" or "revealed"
    bid,        \* the open bid, 0 before the first
    bidder,
    owing,      \* the players who owe an answer to the bid
    believers,  \* those who answered that the hand is there
    chanceUsed  \* the bid was made on the last chance

roundVars == <<limit, hold, out, stage, bid, bidder, owing, believers, chanceUsed>>

Remaining == Seats \ out

Open(p, h, last) ==
    /\ h \in bid + 1 .. TopHand
    /\ stage' = "bidding"
    /\ bid' = h
    /\ bidder' = p
    /\ owing' = Remaining \ {p}
    /\ believers' = {}
    /\ chanceUsed' = last
    /\ UNCHANGED <<limit, hold, out>>

\* Those who were wrong draw a card, and are out when it is one too many;
\* if that would put everybody out, nobody draws.
Reveal(faith) ==
    \E there \in BOOLEAN :
        LET wrong == {p \in Remaining : IF p = bidder \/ p \in faith THEN ~there ELSE there}
            full == {p \in Remaining : hold[p] >= limit}
            draws == IF wrong = Remaining /\ full = Remaining THEN {} ELSE wrong
        IN  /\ stage' = "revealed"
            /\ hold' = [p \in Seats |-> hold[p] + IF p \in draws THEN 1 ELSE 0]
            /\ out' = out \union (draws \intersect full)
            /\ owing' = {}

Bid(p, h) ==
    /\ stage = "bidding"
    /\ p \in owing
    /\ Open(p, h, FALSE)

Answer(p, believes) ==
    LET faith == IF believes THEN believers \union {p} ELSE believers
    IN  /\ stage = "bidding" /\ bid # 0
        /\ p \in owing
        /\ believers' = faith
        /\ UNCHANGED <<limit, bid, bidder, chanceUsed>>
        /\ \/ /\ owing # {p}
              /\ owing' = owing \ {p}
              /\ UNCHANGED <<stage, hold, out>>
           \/ /\ owing = {p} /\ faith = {} /\ ~chanceUsed
              /\ stage' = "lastChance"
              /\ owing' = {}
              /\ UNCHANGED <<hold, out>>
           \/ /\ owing = {p} /\ (faith # {} \/ chanceUsed)
              /\ Reveal(faith)

RaiseOnLastChance(h) == stage = "lastChance" /\ Open(bidder, h, TRUE)

Pass ==
    /\ stage = "lastChance"
    /\ Reveal(believers)
    /\ UNCHANGED <<limit, bid, bidder, believers, chanceUsed>>

Deal ==
    /\ stage = "revealed" /\ Cardinality(Remaining) > 1
    /\ stage' = "bidding"
    /\ bid' = 0
    /\ bidder' = 0
    /\ owing' = Remaining
    /\ believers' = {}
    /\ chanceUsed' = FALSE
    /\ UNCHANGED <<limit, hold, out>>

RoundInit ==
    /\ limit \in Nat \ {0}
    /\ hold = [p \in Seats |-> 1]
    /\ out = {}
    /\ stage = "bidding"
    /\ bid = 0 /\ bidder = 0
    /\ owing = Seats
    /\ believers = {}
    /\ chanceUsed = FALSE

RoundNext ==
    \/ \E p \in Seats, h \in 1 .. TopHand : Bid(p, h)
    \/ \E p \in Seats, believes \in BOOLEAN : Answer(p, believes)
    \/ \E h \in 1 .. TopHand : RaiseOnLastChance(h)
    \/ Pass
    \/ Deal

RoundSpec == RoundInit /\ [][RoundNext]_roundVars
============================================================================
