----------------------------- MODULE HandOrder -----------------------------
(***************************************************************************)
(* The order of the hands that can be called (shared/src/hands.ts): which   *)
(* calls are valid, which of two is higher and what the least raise is.     *)
(*                                                                         *)
(* Ranks are their RANK_VALUES, suits their SUIT_ORDER.  A hand is a record *)
(* of its type and of three numbers, of which a type uses those it needs    *)
(* and has 0 for the others: `main` and `second` are the ranks in the order *)
(* in which isHigherHand compares them.                                     *)
(***************************************************************************)
EXTENDS Integers

Two == 2
Five == 5
King == 13
Ace == 14
Ranks == Two .. Ace

Clubs == 0
Spades == 3
Suits == Clubs .. Spades

HIGH_CARD == 0
PAIR == 1
TWO_PAIR == 2
FLUSH == 3
THREE_OF_A_KIND == 4
STRAIGHT == 5
FULL_HOUSE == 6
FOUR_OF_A_KIND == 7
STRAIGHT_FLUSH == 8
ROYAL_FLUSH == 9
HandTypes == HIGH_CARD .. ROYAL_FLUSH

OfRank == {HIGH_CARD, PAIR, THREE_OF_A_KIND, FOUR_OF_A_KIND}

HandCall == [type : HandTypes, main : Ranks \cup {0}, second : Ranks \cup {0}, suit : Suits]

Hand(type, main, second, suit) == [type |-> type, main |-> main, second |-> second, suit |-> suit]
Ranked(type, rank) == Hand(type, rank, 0, 0)

\* validateHandCall: what a hand's type asks of it.  sanitizeHandCall keeps the
\* fields of the type, so the others are 0.
Valid(h) ==
    /\ h \in HandCall
    /\ h.type \in {FLUSH, ROYAL_FLUSH} => h.main = 0
    /\ h.type \notin {FLUSH, ROYAL_FLUSH} => h.main \in Ranks
    /\ h.type \in {TWO_PAIR, FULL_HOUSE} <=> h.second \in Ranks
    /\ h.type = TWO_PAIR => h.main > h.second
    /\ h.type = FULL_HOUSE => h.main # h.second
    /\ h.type \in {STRAIGHT, STRAIGHT_FLUSH} => h.main >= Five
    /\ h.type = STRAIGHT_FLUSH => h.main # Ace
    /\ h.type \notin {FLUSH, STRAIGHT_FLUSH, ROYAL_FLUSH} => h.suit = 0

ValidHands == {h \in HandCall : Valid(h)}

\* isHigherHand: by type, then by ranks; a suit only decides between straight
\* flushes of one rank.
IsHigherHand(new, current) ==
    \/ new.type > current.type
    \/ /\ new.type = current.type
       /\ \/ new.main > current.main
          \/ new.main = current.main /\ new.second > current.second
          \/ /\ new.type = STRAIGHT_FLUSH
             /\ new.main = current.main /\ new.suit > current.suit

\* What follows the highest hand of a type: the lowest of the next.
LowestAbove(type) ==
    CASE type = HIGH_CARD -> Ranked(PAIR, Two)
      [] type = PAIR -> Hand(TWO_PAIR, Two + 1, Two, 0)
      [] type = TWO_PAIR -> Hand(FLUSH, 0, 0, Clubs)
      [] type = FLUSH -> Ranked(THREE_OF_A_KIND, Two)
      [] type = THREE_OF_A_KIND -> Ranked(STRAIGHT, Five)
      [] type = STRAIGHT -> Hand(FULL_HOUSE, Two, Two + 1, 0)
      [] type = FULL_HOUSE -> Ranked(FOUR_OF_A_KIND, Two)
      [] type = FOUR_OF_A_KIND -> Hand(STRAIGHT_FLUSH, Five, 0, Clubs)
      [] type = STRAIGHT_FLUSH -> Hand(ROYAL_FLUSH, 0, 0, Clubs)

\* The next rank for the pair of a full house.
NextPair(h) == IF h.second + 1 = h.main THEN h.second + 2 ELSE h.second + 1

CanBeRaised(h) == h.type # ROYAL_FLUSH

\* getMinimumRaise of a hand that can be raised.
MinimumRaise(h) ==
    CASE h.type \in OfRank \cup {STRAIGHT} /\ h.main < Ace -> Ranked(h.type, h.main + 1)
      [] h.type = TWO_PAIR /\ h.second + 1 < h.main -> [h EXCEPT !.second = @ + 1]
      [] h.type = TWO_PAIR /\ h.second + 1 >= h.main /\ h.main < Ace ->
           Hand(TWO_PAIR, h.main + 1, Two, 0)
      [] h.type = FULL_HOUSE /\ NextPair(h) <= Ace -> [h EXCEPT !.second = NextPair(h)]
      [] h.type = FULL_HOUSE /\ NextPair(h) > Ace /\ h.main < Ace ->
           Hand(FULL_HOUSE, h.main + 1, Two, 0)
      [] h.type = STRAIGHT_FLUSH /\ h.suit < Spades -> [h EXCEPT !.suit = @ + 1]
      [] h.type = STRAIGHT_FLUSH /\ h.suit = Spades /\ h.main < King ->
           Hand(STRAIGHT_FLUSH, h.main + 1, 0, Clubs)
      [] OTHER -> LowestAbove(h.type)
=============================================================================
