---------------------------- MODULE HandChecker ----------------------------
(***************************************************************************)
(* Whether a called hand is in the cards of all players together            *)
(* (shared/src/engine/HandChecker.ts), and which cards show it.             *)
(*                                                                         *)
(* The deck has each card once (Deck.ts), so the cards that are no jokers   *)
(* are a set; of the jokers their number is enough.                         *)
(***************************************************************************)
EXTENDS HandOrder, FiniteSets

Deck == [rank : Ranks, suit : Suits]
Pools == {cards \in SUBSET Deck : IsFiniteSet(cards)}

OfOneRank(cards, rank) == {c \in cards : c.rank = rank}
OfOneSuit(cards, suit) == {c \in cards : c.suit = suit}
countByRank(cards, rank) == Cardinality(OfOneRank(cards, rank))
countBySuit(cards, suit) == Cardinality(OfOneSuit(cards, suit))

\* Cards that `have` lacks to `need`: Math.max(0, need - have).
Short(have, need) == IF have >= need THEN 0 ELSE need - have

\* getStraightRanks: the five ranks up to the highest, the ace below the two.
getStraightRanks(high) ==
    IF high = Five THEN {Ace} \cup Two .. Five ELSE (high - 4) .. high

HasRank(cards, rank) == \E c \in cards : c.rank = rank
HasCard(cards, rank, suit) == \E c \in cards : c.rank = rank /\ c.suit = suit

MissingRanks(cards, high) == {r \in getStraightRanks(high) : ~HasRank(cards, r)}
MissingCards(cards, high, suit) == {r \in getStraightRanks(high) : ~HasCard(cards, r, suit)}

\* How many cards of one rank a hand of one rank takes.
OfAKind(type) ==
    CASE type = HIGH_CARD -> 1 [] type = PAIR -> 2
      [] type = THREE_OF_A_KIND -> 3 [] type = FOUR_OF_A_KIND -> 4

\* The cases of exists: the jokers that a hand takes.
Missing(cards, h) ==
    CASE h.type \in OfRank -> Short(countByRank(cards, h.main), OfAKind(h.type))
      [] h.type = TWO_PAIR ->
           Short(countByRank(cards, h.main), 2) + Short(countByRank(cards, h.second), 2)
      [] h.type = FULL_HOUSE ->
           Short(countByRank(cards, h.main), 3) + Short(countByRank(cards, h.second), 2)
      [] h.type = FLUSH -> Short(countBySuit(cards, h.suit), 5)
      [] h.type = STRAIGHT -> Cardinality(MissingRanks(cards, h.main))
      [] h.type = STRAIGHT_FLUSH -> Cardinality(MissingCards(cards, h.main, h.suit))
      [] h.type = ROYAL_FLUSH -> Cardinality(MissingCards(cards, Ace, h.suit))

exists(cards, jokers, h) == Missing(cards, h) <= jokers

-----------------------------------------------------------------------------
(* findMatchingCards: how many cards it returns, and how many jokers are    *)
(* among them.                                                             *)

Null == [cards |-> 0, jokers |-> 0]

\* pickWithJokers, and the straights, which take the missing ranks from the jokers.
pickWithJokers(short, jokers, needed) ==
    IF short > jokers THEN Null ELSE [cards |-> needed, jokers |-> short]

\* A second pick, from the jokers that the first left.
PickTwice(short, needed, short2, needed2, jokers) ==
    LET first == pickWithJokers(short, jokers, needed)
        second == pickWithJokers(short2, jokers - first.jokers, needed2)
    IN  IF Null \in {first, second} THEN Null
        ELSE [cards |-> first.cards + second.cards, jokers |-> first.jokers + second.jokers]

findMatchingCards(cards, jokers, h) ==
    IF ~exists(cards, jokers, h) THEN Null
    ELSE CASE h.type \in OfRank -> pickWithJokers(Missing(cards, h), jokers, OfAKind(h.type))
           [] h.type \in {TWO_PAIR, FULL_HOUSE} ->
                LET n == IF h.type = TWO_PAIR THEN 2 ELSE 3
                IN  PickTwice(Short(countByRank(cards, h.main), n), n,
                              Short(countByRank(cards, h.second), 2), 2, jokers)
           [] OTHER -> pickWithJokers(Missing(cards, h), jokers, 5)
=============================================================================
