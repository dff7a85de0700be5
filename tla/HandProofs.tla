------------------------------ MODULE HandProofs ------------------------------
(* hands.ts: isHigherHand orders the valid calls, and getMinimumRaise steps   *)
(* through them without leaving one out.  HandChecker.ts: what is in the cards *)
(* stays there when cards are added, and a joker is worth the best card one    *)
(* could have in its place, no more.                                          *)
EXTENDS HandChecker, FiniteSetTheorems, TLAPS

USE DEF Two, Five, King, Ace, Clubs, Spades, HIGH_CARD, PAIR, TWO_PAIR, FLUSH, THREE_OF_A_KIND,
        STRAIGHT, FULL_HOUSE, FOUR_OF_A_KIND, STRAIGHT_FLUSH, ROYAL_FLUSH, OfRank,
        Ranks, Suits, HandTypes

-----------------------------------------------------------------------------
(* The order of the calls.                                                 *)

\* The fields of a call are numbers.
LEMMA Fields ==
    ASSUME NEW h \in ValidHands
    PROVE  /\ h.type \in 0 .. 9 /\ h.main \in 0 .. 14 /\ h.second \in 0 .. 14 /\ h.suit \in 0 .. 3
           /\ h.type \notin {TWO_PAIR, FULL_HOUSE} => h.second = 0
           /\ h.type \in {FLUSH, ROYAL_FLUSH} => h.main = 0
           /\ h = Hand(h.type, h.main, h.second, h.suit)
BY DEF ValidHands, Valid, HandCall, Hand

\* No hand is higher than itself, nor each of two higher than the other: calls that
\* raise each other could go round for ever.
THEOREM HigherIsAsymmetric ==
    ASSUME NEW g \in ValidHands, NEW h \in ValidHands, IsHigherHand(g, h)
    PROVE  ~IsHigherHand(h, g)
<1>1. /\ g.type \in Int /\ g.main \in Int /\ g.second \in Int /\ g.suit \in Int
      /\ h.type \in Int /\ h.main \in Int /\ h.second \in Int /\ h.suit \in Int
      /\ g.type = STRAIGHT_FLUSH => g.second = 0
      /\ h.type = STRAIGHT_FLUSH => h.second = 0
  BY Fields
<1> QED
  BY <1>1 DEF IsHigherHand

\* A hand that is no higher than a second that is no higher than a third is no higher
\* than the third: hands fall into classes, the calls of one class being the flushes or
\* the royal flushes, and the classes are in a line.
THEOREM HandsAreInALine ==
    ASSUME NEW f \in ValidHands, NEW g \in ValidHands, NEW h \in ValidHands,
           ~IsHigherHand(f, g), ~IsHigherHand(g, h)
    PROVE  ~IsHigherHand(f, h)
BY Fields DEF IsHigherHand

\* Two calls that neither raises are the same, two flushes or two royal flushes.
THEOREM OnlyFlushesTie ==
    ASSUME NEW g \in ValidHands, NEW h \in ValidHands,
           ~IsHigherHand(g, h), ~IsHigherHand(h, g)
    PROVE  g = h \/ (g.type = h.type /\ g.type \in {FLUSH, ROYAL_FLUSH})
BY Fields DEF IsHigherHand, ValidHands, Valid, Hand

\* A type is followed by the next, from its lowest hand.
LEMMA LowestOfNext ==
    ASSUME NEW t \in 0 .. 8
    PROVE  LowestAbove(t) \in ValidHands /\ LowestAbove(t).type = t + 1
<1> DEFINE h == LowestAbove(t)
<1>1. /\ t = 0 => h = Hand(1, 2, 0, 0)
      /\ t = 1 => h = Hand(2, 3, 2, 0)
      /\ t = 2 => h = Hand(3, 0, 0, 0)
      /\ t = 3 => h = Hand(4, 2, 0, 0)
      /\ t = 4 => h = Hand(5, 5, 0, 0)
      /\ t = 5 => h = Hand(6, 2, 3, 0)
      /\ t = 6 => h = Hand(7, 2, 0, 0)
      /\ t = 7 => h = Hand(8, 5, 0, 0)
      /\ t = 8 => h = Hand(9, 0, 0, 0)
  BY DEF LowestAbove, Ranked
<1> HIDE DEF h
<1>2. h.type = t + 1
  BY <1>1 DEF Hand
<1>3. h \in HandCall
  BY <1>1 DEF Hand, HandCall
<1>4. Valid(h)
  BY <1>1, <1>3 DEF Hand, Valid
<1> QED
  BY <1>2, <1>3, <1>4 DEF h, ValidHands

\* And its lowest hand is no higher than any other of its.
LEMMA LowestIsLowest ==
    ASSUME NEW t \in 0 .. 8, NEW g \in ValidHands, g.type = t + 1
    PROVE  ~IsHigherHand(LowestAbove(t), g)
<1>1. /\ LowestAbove(t).type = g.type
      /\ LowestAbove(t).main <= g.main
      /\ LowestAbove(t).main = g.main => LowestAbove(t).second <= g.second
      /\ LowestAbove(t).suit = 0
  BY Fields DEF LowestAbove, Ranked, Hand, ValidHands, Valid
<1>2. LowestAbove(t) \in ValidHands
  BY LowestOfNext
<1> QED
  BY <1>1, <1>2, Fields DEF IsHigherHand

\* What getMinimumRaise offers can be called and beats the bid: the automatic raise of
\* a timer and a bot's is never refused.
THEOREM RaiseIsHigher ==
    ASSUME NEW h \in ValidHands, CanBeRaised(h)
    PROVE  MinimumRaise(h) \in ValidHands /\ IsHigherHand(MinimumRaise(h), h)
<1>1. h.type \in 0 .. 8
  BY Fields DEF CanBeRaised
<1>2. CASE h.type \in {0, 1, 4, 7} /\ h.main < 14
  <2>1. MinimumRaise(h) = Ranked(h.type, h.main + 1) /\ h.main \in Ranks
    BY <1>2, Fields DEF MinimumRaise, ValidHands, Valid
  <2> QED
    BY <1>2, <2>1, Fields DEF Ranked, Hand, IsHigherHand, ValidHands, Valid, HandCall
<1>3. CASE h.type \in {0, 1, 4, 7} /\ h.main >= 14
  <2>1. MinimumRaise(h) = LowestAbove(h.type)
    BY <1>3, Fields DEF MinimumRaise
  <2> QED
    BY <1>3, <2>1, Fields, LowestOfNext DEF IsHigherHand
<1>4. CASE h.type = 2
  BY <1>4, Fields DEF MinimumRaise, LowestAbove, Ranked, Hand, IsHigherHand, ValidHands, Valid, HandCall
<1>5. CASE h.type = 3
  BY <1>5, Fields DEF MinimumRaise, LowestAbove, Ranked, Hand, IsHigherHand, ValidHands, Valid, HandCall
<1>6. CASE h.type = 5
  BY <1>6, Fields DEF MinimumRaise, LowestAbove, Ranked, Hand, IsHigherHand, ValidHands, Valid, HandCall
<1>7. CASE h.type = 6
  BY <1>7, Fields DEF MinimumRaise, LowestAbove, Ranked, Hand, IsHigherHand, ValidHands, Valid, HandCall, NextPair
<1>8. CASE h.type = 8
  BY <1>8, Fields DEF MinimumRaise, LowestAbove, Ranked, Hand, IsHigherHand, ValidHands, Valid, HandCall
<1> QED
  BY <1>1, <1>2, <1>3, <1>4, <1>5, <1>6, <1>7, <1>8, Fields

\* Nothing lies between a bid and its least raise: the automatic raise gives nothing away.
THEOREM RaiseIsLeast ==
    ASSUME NEW h \in ValidHands, CanBeRaised(h),
           NEW g \in ValidHands, IsHigherHand(g, h)
    PROVE  ~IsHigherHand(MinimumRaise(h), g)
<1>1. h.type \in 0 .. 8
  BY Fields DEF CanBeRaised
<1> DEFINE r == MinimumRaise(h)
<1>2. CASE g.type > h.type
  <2>1. r = LowestAbove(h.type) \/ r.type = h.type
    BY <1>1, Fields DEF MinimumRaise, Ranked, Hand
  <2>2. r.type <= h.type + 1 /\ (r.type = h.type + 1 => r = LowestAbove(h.type))
    BY <1>1, <2>1, Fields, LowestOfNext
  <2>3. h.type + 1 = g.type => ~IsHigherHand(LowestAbove(h.type), g)
    BY <1>1, Fields, LowestIsLowest
  <2>4. CASE g.type = h.type + 1 /\ r = LowestAbove(h.type)
    BY <2>3, <2>4
  <2>5. CASE r.type < g.type
    BY <2>5, Fields, RaiseIsHigher DEF IsHigherHand
  <2> QED
    BY <1>1, <1>2, <2>2, <2>4, <2>5, Fields, RaiseIsHigher
<1>3. CASE g.type = h.type
  <2>1. CASE h.type \in {0, 1, 4, 5, 7}
    BY <1>3, <2>1, Fields DEF MinimumRaise, Ranked, Hand, IsHigherHand
  <2>2. CASE h.type = 2
    BY <1>3, <2>2, Fields DEF MinimumRaise, Hand, IsHigherHand, ValidHands, Valid
  <2>3. CASE h.type = 3
    BY <1>3, <2>3, Fields DEF IsHigherHand
  <2>4. CASE h.type = 6
    BY <1>3, <2>4, Fields DEF MinimumRaise, Hand, IsHigherHand, ValidHands, Valid, NextPair
  <2>5. CASE h.type = 8
    BY <1>3, <2>5, Fields DEF MinimumRaise, Hand, IsHigherHand, ValidHands, Valid
  <2> QED
    BY <1>1, <2>1, <2>2, <2>3, <2>4, <2>5
<1> QED
  BY <1>2, <1>3, Fields DEF IsHigherHand

\* Only a royal flush cannot be raised: getMinimumRaise's null is the end of the line.
THEOREM OnlyRoyalFlushesEnd ==
    ASSUME NEW h \in ValidHands
    PROVE  CanBeRaised(h) <=> \E g \in ValidHands : IsHigherHand(g, h)
<1>1. ASSUME h.type = 9, NEW g \in ValidHands PROVE ~IsHigherHand(g, h)
  BY <1>1, Fields DEF IsHigherHand
<1> QED
  BY <1>1, RaiseIsHigher DEF CanBeRaised

-----------------------------------------------------------------------------
(* The checker.                                                            *)

\* A card added is one more of its rank and of its suit, and of no other.
LEMMA OneCardMore ==
    ASSUME NEW cards \in Pools, NEW c \in Deck, c \notin cards
    PROVE  /\ cards \cup {c} \in Pools
           /\ \A r \in Int : /\ countByRank(cards, r) \in Nat
                             /\ countByRank(cards \cup {c}, r)
                                = countByRank(cards, r) + IF c.rank = r THEN 1 ELSE 0
           /\ \A s \in Int : /\ countBySuit(cards, s) \in Nat
                             /\ countBySuit(cards \cup {c}, s)
                                = countBySuit(cards, s) + IF c.suit = s THEN 1 ELSE 0
<1>1. IsFiniteSet(cards) /\ cards \subseteq Deck
  BY DEF Pools
<1>2. cards \cup {c} \in Pools
  BY <1>1, FS_AddElement DEF Pools
<1>3. ASSUME NEW r \in Int
      PROVE  /\ countByRank(cards, r) \in Nat
             /\ countByRank(cards \cup {c}, r)
                = countByRank(cards, r) + IF c.rank = r THEN 1 ELSE 0
  <2>1. IsFiniteSet(OfOneRank(cards, r)) /\ c \notin OfOneRank(cards, r)
    BY <1>1, FS_Subset DEF OfOneRank
  <2>2. OfOneRank(cards \cup {c}, r)
        = IF c.rank = r THEN OfOneRank(cards, r) \cup {c} ELSE OfOneRank(cards, r)
    BY DEF OfOneRank
  <2> QED
    BY <2>1, <2>2, FS_AddElement, FS_CardinalityType DEF countByRank
<1>4. ASSUME NEW s \in Int
      PROVE  /\ countBySuit(cards, s) \in Nat
             /\ countBySuit(cards \cup {c}, s)
                = countBySuit(cards, s) + IF c.suit = s THEN 1 ELSE 0
  <2>1. IsFiniteSet(OfOneSuit(cards, s)) /\ c \notin OfOneSuit(cards, s)
    BY <1>1, FS_Subset DEF OfOneSuit
  <2>2. OfOneSuit(cards \cup {c}, s)
        = IF c.suit = s THEN OfOneSuit(cards, s) \cup {c} ELSE OfOneSuit(cards, s)
    BY DEF OfOneSuit
  <2> QED
    BY <2>1, <2>2, FS_AddElement, FS_CardinalityType DEF countBySuit
<1> QED
  BY <1>2, <1>3, <1>4

\* Counts are numbers.
LEMMA CountsAreNumbers ==
    ASSUME NEW cards \in Pools, NEW x
    PROVE  countByRank(cards, x) \in Nat /\ countBySuit(cards, x) \in Nat
<1>1. IsFiniteSet(OfOneRank(cards, x)) /\ IsFiniteSet(OfOneSuit(cards, x))
  BY FS_Subset DEF Pools, OfOneRank, OfOneSuit
<1> QED
  BY <1>1, FS_CardinalityType DEF countByRank, countBySuit

\* The ranks of a straight are numbers in a finite set.
LEMMA StraightIsFinite ==
    ASSUME NEW high \in 5 .. 14
    PROVE  IsFiniteSet(getStraightRanks(high)) /\ getStraightRanks(high) \subseteq Ranks
<1>1. high - 4 \in Int /\ high \in Int /\ 2 \in Int /\ 5 \in Int
  OBVIOUS
<1>2. IsFiniteSet(2 .. 5) /\ IsFiniteSet((high - 4) .. high)
  BY <1>1, FS_Interval
<1>3. IsFiniteSet((2 .. 5) \cup {14})
  BY <1>2, FS_AddElement
<1>4. CASE high = 5
  BY <1>3, <1>4 DEF getStraightRanks
<1>5. CASE high # 5
  <2>1. getStraightRanks(high) = (high - 4) .. high
    BY <1>5 DEF getStraightRanks
  <2>2. (high - 4) .. high \subseteq Ranks
    BY <1>5
  <2> QED
    BY <1>2, <2>1, <2>2
<1> QED
  BY <1>4, <1>5

\* Of a straight or a straight flush a card added supplies what has its rank, if that
\* was missing.
LEMMA OneRankLess ==
    ASSUME NEW cards \in Pools, NEW c \in Deck, NEW high \in 5 .. 14, NEW suit \in Int
    PROVE  /\ Cardinality(MissingRanks(cards, high)) \in Nat
           /\ Cardinality(MissingRanks(cards \cup {c}, high)) \in Nat
           /\ Cardinality(MissingRanks(cards, high))
              - Cardinality(MissingRanks(cards \cup {c}, high)) \in {0, 1}
           /\ Cardinality(MissingCards(cards, high, suit)) \in Nat
           /\ Cardinality(MissingCards(cards \cup {c}, high, suit)) \in Nat
           /\ Cardinality(MissingCards(cards, high, suit))
              - Cardinality(MissingCards(cards \cup {c}, high, suit)) \in {0, 1}
<1> DEFINE R == MissingRanks(cards, high)
           C == MissingCards(cards, high, suit)
<1>1. IsFiniteSet(R) /\ IsFiniteSet(C)
  BY StraightIsFinite, FS_Subset DEF MissingRanks, MissingCards
<1>2. MissingRanks(cards \cup {c}, high) = R \ {c.rank}
  BY DEF MissingRanks, HasRank
<1>3. MissingCards(cards \cup {c}, high, suit) = IF c.suit = suit THEN C \ {c.rank} ELSE C
  BY DEF MissingCards, HasCard
<1> HIDE DEF R, C
<1>4. ASSUME NEW S, IsFiniteSet(S)
      PROVE  /\ Cardinality(S) \in Nat /\ Cardinality(S \ {c.rank}) \in Nat
             /\ Cardinality(S) - Cardinality(S \ {c.rank}) \in {0, 1}
  <2>1. Cardinality(S) \in Nat
    BY <1>4, FS_CardinalityType
  <2>2. IsFiniteSet(S \ {c.rank})
    BY <1>4, FS_RemoveElement
  <2>3. Cardinality(S \ {c.rank}) \in Nat
    BY <2>2, FS_CardinalityType
  <2>4. Cardinality(S \ {c.rank}) = IF c.rank \in S THEN Cardinality(S) - 1 ELSE Cardinality(S)
    BY <1>4, FS_RemoveElement
  <2> QED
    BY <2>1, <2>3, <2>4
<1>5. CASE c.suit = suit
  <2>1. MissingCards(cards \cup {c}, high, suit) = C \ {c.rank}
    BY <1>3, <1>5
  <2> QED
    BY <1>1, <1>2, <1>4, <2>1, Zenon DEF R, C
<1>6. CASE c.suit # suit
  <2>1. MissingCards(cards \cup {c}, high, suit) = C
    BY <1>3, <1>6
  <2>2. Cardinality(C) \in Nat
    BY <1>1, FS_CardinalityType
  <2>3. Cardinality(C) - Cardinality(C) \in {0, 1}
    BY <2>2
  <2> QED
    BY <1>1, <1>2, <1>4, <2>1, <2>2, <2>3, Zenon DEF R, C
<1> QED
  BY <1>5, <1>6

\* So whatever is in the pool already.
LEMMA CountsGrowByOne ==
    ASSUME NEW cards \in Pools, NEW c \in Deck, NEW x \in Int
    PROVE  /\ countByRank(cards, x) \in Nat /\ countBySuit(cards, x) \in Nat
           /\ countByRank(cards \cup {c}, x) \in
                countByRank(cards, x) .. (countByRank(cards, x) + IF c.rank = x THEN 1 ELSE 0)
           /\ countBySuit(cards \cup {c}, x) \in countBySuit(cards, x) .. (countBySuit(cards, x) + 1)
<1>1. countByRank(cards, x) \in Nat /\ countBySuit(cards, x) \in Nat
  BY CountsAreNumbers
<1>2. CASE c \notin cards
  <2>1. /\ countByRank(cards \cup {c}, x) = countByRank(cards, x) + IF c.rank = x THEN 1 ELSE 0
        /\ countBySuit(cards \cup {c}, x) = countBySuit(cards, x) + IF c.suit = x THEN 1 ELSE 0
    BY <1>2, OneCardMore
  <2> QED
    BY <1>1, <2>1
<1>3. CASE c \in cards
  <2>1. cards \cup {c} = cards
    BY <1>3
  <2>2. /\ countByRank(cards \cup {c}, x) = countByRank(cards, x)
        /\ countBySuit(cards \cup {c}, x) = countBySuit(cards, x)
    BY <2>1, Zenon
  <2> QED
    BY <1>1, <2>2
<1> QED
  BY <1>2, <1>3

\* A card more is worth one joker at most, whatever is called, and never harms.
LEMMA OneCardIsOneJoker ==
    ASSUME NEW cards \in Pools, NEW c \in Deck, NEW h \in ValidHands
    PROVE  /\ Missing(cards, h) \in Nat
           /\ Missing(cards \cup {c}, h) \in Nat
           /\ Missing(cards \cup {c}, h) <= Missing(cards, h)
           /\ Missing(cards, h) <= Missing(cards \cup {c}, h) + 1
<1>1. h \in HandCall /\ h.main \in Int /\ h.second \in Int /\ h.suit \in Int /\ h.type \in 0 .. 9
  BY DEF ValidHands, HandCall
<1> DEFINE m  == countByRank(cards, h.main)
           m1 == countByRank(cards \cup {c}, h.main)
           n  == countByRank(cards, h.second)
           n1 == countByRank(cards \cup {c}, h.second)
           s  == countBySuit(cards, h.suit)
           s1 == countBySuit(cards \cup {c}, h.suit)
<1>2. /\ m \in Nat /\ m1 \in m .. (m + IF c.rank = h.main THEN 1 ELSE 0)
      /\ n \in Nat /\ n1 \in n .. (n + IF c.rank = h.second THEN 1 ELSE 0)
      /\ s \in Nat /\ s1 \in s .. (s + 1)
  BY <1>1, CountsGrowByOne
<1>4. CASE h.type \in OfRank
  <2>1. /\ Missing(cards, h) = Short(m, OfAKind(h.type))
        /\ Missing(cards \cup {c}, h) = Short(m1, OfAKind(h.type))
    BY <1>4 DEF Missing
  <2>2. OfAKind(h.type) \in 1 .. 4
    BY <1>4 DEF OfAKind
  <2> HIDE DEF m, m1, n, n1, s, s1
  <2> QED
    BY <1>2, <2>1, <2>2 DEF Short
<1>5. CASE h.type = FLUSH
  <2>1. Missing(cards, h) = Short(s, 5) /\ Missing(cards \cup {c}, h) = Short(s1, 5)
    BY <1>5 DEF Missing
  <2> HIDE DEF m, m1, n, n1, s, s1
  <2> QED
    BY <1>2, <2>1 DEF Short
<1>6. CASE h.type \in {TWO_PAIR, FULL_HOUSE}
  <2>1. h.main # h.second
    BY <1>1, <1>6 DEF ValidHands, Valid
  <2>2. \E k \in {2, 3} : /\ Missing(cards, h) = Short(m, k) + Short(n, 2)
                          /\ Missing(cards \cup {c}, h) = Short(m1, k) + Short(n1, 2)
    BY <1>6 DEF Missing
  <2> HIDE DEF m, m1, n, n1, s, s1
  <2> QED
    BY <1>2, <2>1, <2>2 DEF Short
<1>7. CASE h.type = STRAIGHT
  <2>1. h.main \in 5 .. 14
    BY <1>1, <1>7 DEF ValidHands, Valid
  <2>2. /\ Missing(cards, h) = Cardinality(MissingRanks(cards, h.main))
        /\ Missing(cards \cup {c}, h) = Cardinality(MissingRanks(cards \cup {c}, h.main))
    BY <1>7 DEF Missing
  <2> DEFINE a == Cardinality(MissingRanks(cards, h.main))
             b == Cardinality(MissingRanks(cards \cup {c}, h.main))
  <2>3. a \in Nat /\ b \in Nat /\ a - b \in {0, 1}
    BY <1>1, <2>1, OneRankLess
  <2> HIDE DEF a, b
  <2>4. Missing(cards, h) = a /\ Missing(cards \cup {c}, h) = b
    BY <2>2 DEF a, b
  <2> QED
    BY <2>3, <2>4
<1>8. CASE h.type \in {STRAIGHT_FLUSH, ROYAL_FLUSH}
  <2>1. PICK high \in 5 .. 14 :
          /\ Missing(cards, h) = Cardinality(MissingCards(cards, high, h.suit))
          /\ Missing(cards \cup {c}, h) = Cardinality(MissingCards(cards \cup {c}, high, h.suit))
    BY <1>1, <1>8 DEF Missing, ValidHands, Valid
  <2> DEFINE a == Cardinality(MissingCards(cards, high, h.suit))
             b == Cardinality(MissingCards(cards \cup {c}, high, h.suit))
  <2>2. a \in Nat /\ b \in Nat /\ a - b \in {0, 1}
    BY <1>1, OneRankLess
  <2> HIDE DEF a, b
  <2>3. Missing(cards, h) = a /\ Missing(cards \cup {c}, h) = b
    BY <2>1 DEF a, b
  <2> QED
    BY <2>2, <2>3
<1> QED
  BY <1>1, <1>4, <1>5, <1>6, <1>7, <1>8

\* Cards and jokers added never take a hand away: what a player has seen stays in the pool
\* when the others' cards are laid beside it.
THEOREM MoreCardsKeepTheHand ==
    ASSUME NEW cards \in Pools, NEW c \in Deck, NEW h \in ValidHands, NEW jokers \in Nat,
           exists(cards, jokers, h)
    PROVE  exists(cards \cup {c}, jokers, h) /\ exists(cards, jokers + 1, h)
BY OneCardIsOneJoker DEF exists

\* A joker "can substitute for any missing card": it is worth whatever card one had in
\* its place.
THEOREM JokerIsAnyCard ==
    ASSUME NEW cards \in Pools, NEW c \in Deck, NEW h \in ValidHands, NEW jokers \in Nat,
           exists(cards \cup {c}, jokers, h)
    PROVE  exists(cards, jokers + 1, h)
BY OneCardIsOneJoker DEF exists

\* A hand that is there is shown: none of the null returns behind the check of exists is
\* reached, and the cards shown hold the jokers the hand takes, each once.
THEOREM WhatExistsIsFound ==
    ASSUME NEW cards \in Pools, NEW h \in ValidHands, NEW jokers \in Nat, exists(cards, jokers, h)
    PROVE  LET found == findMatchingCards(cards, jokers, h)
           IN  found.cards > 0 /\ found.jokers = Missing(cards, h) /\ found.jokers <= jokers
<1>1. h.main \in Int /\ h.second \in Int /\ h.type \in 0 .. 9 /\ Missing(cards, h) \in Nat
      /\ Missing(cards, h) <= jokers
  <2>1. h.main \in Int /\ h.second \in Int /\ h.type \in 0 .. 9
    BY DEF ValidHands, HandCall
  <2>2. \E c : c \in Deck
    <3>1. [rank |-> 2, suit |-> 0] \in Deck
      BY DEF Deck
    <3> QED
      BY <3>1
  <2> QED
    BY <2>1, <2>2, OneCardIsOneJoker DEF exists
<1>2. CASE h.type \in OfRank
  <2>1. OfAKind(h.type) \in 1 .. 4
    BY <1>2 DEF OfAKind
  <2>2. findMatchingCards(cards, jokers, h)
        = [cards |-> OfAKind(h.type), jokers |-> Missing(cards, h)]
    BY <1>1, <1>2 DEF findMatchingCards, pickWithJokers
  <2> QED
    BY <1>1, <2>1, <2>2
<1>3. CASE h.type \in {TWO_PAIR, FULL_HOUSE}
  <2> DEFINE n == IF h.type = TWO_PAIR THEN 2 ELSE 3
             s == Short(countByRank(cards, h.main), n)
             t == Short(countByRank(cards, h.second), 2)
  <2>1. n \in {2, 3} /\ s \in Nat /\ t \in Nat
    BY <1>1, CountsAreNumbers DEF Short
  <2>2. Missing(cards, h) = s + t
    BY <1>3 DEF Missing
  <2>3. findMatchingCards(cards, jokers, h) = PickTwice(s, n, t, 2, jokers)
    BY <1>3 DEF findMatchingCards
  <2> HIDE DEF n, s, t
  <2>4. PickTwice(s, n, t, 2, jokers) = [cards |-> n + 2, jokers |-> s + t]
    BY <1>1, <2>1, <2>2 DEF PickTwice, pickWithJokers, Null
  <2> QED
    BY <1>1, <2>1, <2>2, <2>3, <2>4
<1>4. CASE h.type \notin OfRank \cup {TWO_PAIR, FULL_HOUSE}
  <2>1. findMatchingCards(cards, jokers, h) = [cards |-> 5, jokers |-> Missing(cards, h)]
    BY <1>1, <1>4 DEF findMatchingCards, pickWithJokers
  <2> QED
    BY <1>1, <2>1
<1> QED
  BY <1>2, <1>3, <1>4
=============================================================================
