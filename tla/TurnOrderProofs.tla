-------------------------- MODULE TurnOrderProofs --------------------------
(***************************************************************************)
(* Whose turn it is: the index arithmetic of GameEngine, for every table   *)
(* and whoever leaves; then what the history of a round says, what the     *)
(* memo of its last call is good for, and that the rules of BluffRound are *)
(* implemented.                                                            *)
(***************************************************************************)
EXTENDS GameEngineProofs, MCGameEngine

-----------------------------------------------------------------------------
(* Going round the table.                                                  *)

\* How many seats q is behind seat c; from c itself it is a whole round, and from
\* NoPlayer, before the first seat, it is the number of the seat.
Behind(c, q) == IF q > c THEN q - c ELSE q + NumPlayers - c

LEMMA ModSmall ==
    ASSUME NEW n \in Nat \ {0}, NEW a \in 0 .. n - 1
    PROVE  a % n = a
OBVIOUS

LEMMA ModOnce ==
    ASSUME NEW n \in Nat \ {0}, NEW a \in n .. n + n - 1
    PROVE  a % n = a - n
OBVIOUS

\* Of the players of S, the ones before p, going round from c, are those of R.
AnsweredBefore(S, R, c, p) == \A q \in S : q \in R <=> Behind(c, q) < Behind(c, p)

\* The steps of AnsweredInTurn and OpenerRotates count the same.
LEMMA BehindIsSteps ==
    ASSUME NEW c \in Players, NEW q \in Players, q # c
    PROVE  /\ (q + NumPlayers - c) % NumPlayers = Behind(c, q)
           /\ Behind(c, q) \in 1 .. NumPlayers - 1
<1>1. NumPlayers \in Nat \ {0} /\ c \in 1 .. NumPlayers /\ q \in 1 .. NumPlayers
  BY NumPlayersAssumption DEF Players
<1>2. CASE q > c
  <2>1. q + NumPlayers - c \in NumPlayers .. NumPlayers + NumPlayers - 1
    BY <1>1, <1>2
  <2> QED
    BY <1>1, <1>2, <2>1, ModOnce DEF Behind
<1>3. CASE q < c
  <2>1. q + NumPlayers - c \in 0 .. NumPlayers - 1
    BY <1>1, <1>3
  <2> QED
    BY <1>1, <1>3, <2>1, ModSmall DEF Behind
<1> QED
  BY <1>1, <1>2, <1>3

\* The first of S behind seat x, when j of S sit before or on x.
LEMMA FirstBehind ==
    ASSUME NEW S \in SUBSET Players, S # {}, NEW x \in Players \union {NoPlayer},
           NEW j \in 0 .. Cardinality(S),
           \A q \in S : q > x <=> IndexIn(S, q) >= j
    PROVE  LET next == PlayerAt(S, j % Cardinality(S))
           IN  /\ next \in S
               /\ \A q \in S : Behind(x, next) <= Behind(x, q)
<1> DEFINE n == Cardinality(S)
           next == PlayerAt(S, j % n)
<1>1. n \in Nat \ {0} /\ NumPlayers \in Nat \ {0} /\ x \in 0 .. NumPlayers
      /\ \A q \in S : q \in 1 .. NumPlayers
  BY PlayersFinite, FS_EmptySet, NumPlayersAssumption DEF Players, NoPlayer
<1>2. \A q \in S : IndexIn(S, q) \in 0 .. n - 1
  BY IndexInRange
<1>3. \A p, q \in S : IndexIn(S, p) <= IndexIn(S, q) => p <= q
  <2> SUFFICES ASSUME NEW p \in S, NEW q \in S, IndexIn(S, p) <= IndexIn(S, q), q < p PROVE FALSE
    BY <1>1
  <2> QED
    BY <1>2, IndexInMonotone
<1>4. CASE j < n
  <2>1. j % n = j /\ j \in 0 .. n - 1
    BY <1>1, <1>4, ModSmall
  <2>2. next \in S /\ IndexIn(S, next) = j
    BY <2>1, PlayerAtIndex
  <2>3. next > x /\ next \in 1 .. NumPlayers
    <3>1. IndexIn(S, next) >= j
      BY <2>1, <2>2
    <3> HIDE DEF next
    <3> QED
      BY <1>1, <2>2, <3>1
  <2>4. ASSUME NEW q \in S PROVE Behind(x, next) <= Behind(x, q)
    <3>1. q \in 1 .. NumPlayers
      BY <1>1
    <3>2. CASE q > x
      <4>1. IndexIn(S, next) <= IndexIn(S, q)
        BY <2>2, <3>2
      <4>2. next <= q
        BY <1>3, <2>2, <4>1
      <4> QED
        BY <1>1, <2>3, <3>1, <3>2, <4>2 DEF Behind
    <3>3. CASE ~(q > x)
      BY <1>1, <2>3, <3>1, <3>3 DEF Behind
    <3> QED
      BY <3>2, <3>3
  <2> QED
    BY <2>2, <2>4
<1>5. CASE j = n
  <2>1. j % n = 0 /\ 0 \in 0 .. n - 1
    BY <1>1, <1>5, ModOnce
  <2>2. next \in S /\ IndexIn(S, next) = 0
    BY <2>1, PlayerAtIndex
  <2>3. \A q \in S : ~(q > x)
    <3> SUFFICES ASSUME NEW q \in S PROVE ~(q > x)
      OBVIOUS
    <3>1. IndexIn(S, q) \in 0 .. n - 1 /\ (q > x <=> IndexIn(S, q) >= j)
      BY <1>2
    <3> QED
      BY <1>1, <1>5, <3>1
  <2>4. ASSUME NEW q \in S PROVE Behind(x, next) <= Behind(x, q)
    <3>1. ~(q > x) /\ ~(next > x) /\ q \in 1 .. NumPlayers /\ next \in 1 .. NumPlayers
      BY <1>1, <2>2, <2>3
    <3>2. IndexIn(S, next) <= IndexIn(S, q)
      BY <1>1, <1>2, <2>2
    <3>3. next <= q
      BY <1>3, <2>2, <3>2
    <3> QED
      BY <1>1, <3>1, <3>3 DEF Behind
  <2> QED
    BY <2>2, <2>4
<1> QED
  <2>1. j < n \/ j = n
    BY <1>1
  <2> QED
    BY <1>4, <1>5, <2>1

\* Seats are told apart by how far they are behind.
LEMMA BehindInjective ==
    ASSUME NEW c \in Players \union {NoPlayer}, NEW p \in Players, NEW q \in Players,
           Behind(c, p) = Behind(c, q)
    PROVE  p = q
BY NumPlayersAssumption DEF Behind, Players, NoPlayer

\* Whoever is first behind the player `cur` is, of those further behind c than cur, the one
\* least behind c, as long as there is anybody further but c.
LEMMA NextFromOrigin ==
    ASSUME NEW c \in Players \union {NoPlayer}, NEW cur \in Players, cur # c,
           NEW S \in SUBSET Players, NEW next \in S,
           \A q \in S : Behind(cur, next) <= Behind(cur, q),
           NEW last \in S, last # c, Behind(c, last) > Behind(c, cur)
    PROVE  /\ next # c
           /\ Behind(c, next) > Behind(c, cur)
           /\ \A q \in S : Behind(c, q) > Behind(c, cur) => Behind(c, q) >= Behind(c, next)
<1>1. NumPlayers \in Nat \ {0} /\ c \in 0 .. NumPlayers /\ cur \in 1 .. NumPlayers
      /\ next \in 1 .. NumPlayers /\ last \in 1 .. NumPlayers /\ \A q \in S : q \in 1 .. NumPlayers
  BY NumPlayersAssumption DEF Players, NoPlayer
<1>2. Behind(cur, next) <= Behind(cur, last)
  OBVIOUS
<1>3. next # c /\ Behind(c, next) > Behind(c, cur)
  BY <1>1, <1>2 DEF Behind
<1>4. ASSUME NEW q \in S, Behind(c, q) > Behind(c, cur)
      PROVE  Behind(c, q) >= Behind(c, next)
  <2>1. Behind(cur, next) <= Behind(cur, q) /\ q \in 1 .. NumPlayers
    BY <1>1
  <2> QED
    BY <1>1, <1>3, <1>4, <2>1 DEF Behind
<1> QED
  BY <1>3, <1>4

\* Of a set with somebody besides x, the first behind x is somebody else.
LEMMA FirstIsOther ==
    ASSUME NEW S \in SUBSET Players, NEW x \in Players, NEW next \in S, NEW other \in S, other # x,
           \A q \in S : Behind(x, next) <= Behind(x, q)
    PROVE  next # x
<1>1. x \in 1 .. NumPlayers /\ other \in 1 .. NumPlayers /\ NumPlayers \in Nat
  BY NumPlayersAssumption DEF Players
<1>2. Behind(x, next) <= Behind(x, other)
  OBVIOUS
<1> QED
  BY <1>1, <1>2 DEF Behind

\* A set of more than one has somebody besides x.
LEMMA SomebodyElse ==
    ASSUME NEW S \in SUBSET Players, Cardinality(S) > 1, NEW x
    PROVE  \E other \in S : other # x
<1> SUFFICES ASSUME S \subseteq {x} PROVE FALSE
  OBVIOUS
<1>1. IsFiniteSet({x}) /\ Cardinality({x}) = 1
  BY FS_Singleton
<1>2. Cardinality(S) <= 1 /\ Cardinality(S) \in Int
  BY <1>1, FS_Subset, PlayersFinite
<1> QED
  BY <1>2

\* The next index is that of the first player behind the one whose index it was.
LEMMA NextIndexIsFirstBehind ==
    ASSUME NEW S \in SUBSET Players, Cardinality(S) > 1, NEW x \in S
    PROVE  LET next == PlayerAt(S, (IndexIn(S, x) + 1) % Cardinality(S))
           IN  /\ next \in S /\ next # x
               /\ \A q \in S : Behind(x, next) <= Behind(x, q)
<1> DEFINE j == IndexIn(S, x) + 1
           next == PlayerAt(S, j % Cardinality(S))
<1>1. IndexIn(S, x) \in 0 .. Cardinality(S) - 1 /\ Cardinality(S) \in Nat
  BY IndexInRange, PlayersFinite
<1>2. j \in 0 .. Cardinality(S)
  BY <1>1
<1>3. ASSUME NEW q \in S PROVE q > x <=> IndexIn(S, q) >= j
  <2>1. IndexIn(S, q) \in Int /\ q \in Int /\ x \in Int
    BY IndexInRange, NumPlayersAssumption DEF Players
  <2>2. q > x => IndexIn(S, x) < IndexIn(S, q)
    BY <2>1, IndexInMonotone
  <2>3. q < x => IndexIn(S, q) < IndexIn(S, x)
    BY <2>1, IndexInMonotone
  <2> QED
    BY <1>1, <2>1, <2>2, <2>3
<1>4. next \in S /\ \A q \in S : Behind(x, next) <= Behind(x, q)
  <2> HIDE DEF j
  <2> QED
    BY <1>2, <1>3, FirstBehind
<1>5. next # x
  <2> HIDE DEF next
  <2> QED
    BY <1>4, SomebodyElse, FirstIsOther
<1> QED
  BY <1>4, <1>5

\* Once x has dropped out, the index x had is that of the first player behind x, or
\* comes round to the head of the table.
LEMMA LeaversIndexIsFirstBehind ==
    ASSUME NEW S \in SUBSET Players, NEW x \in S, S \ {x} # {}
    PROVE  LET next == PlayerAt(S \ {x}, IndexIn(S, x) % Cardinality(S \ {x}))
           IN  /\ next \in S \ {x}
               /\ \A q \in S \ {x} : Behind(x, next) <= Behind(x, q)
<1> DEFINE T == S \ {x}
           j == IndexIn(S, x)
<1>1. /\ IsFiniteSet(S) /\ Cardinality(S) \in Nat /\ Cardinality(T) = Cardinality(S) - 1
  BY PlayersFinite, FS_RemoveElement
<1>2. j \in 0 .. Cardinality(T)
  <2>1. j \in 0 .. Cardinality(S) - 1
    BY IndexInRange
  <2> QED
    BY <1>1, <2>1
<1>3. ASSUME NEW q \in T PROVE q > x <=> IndexIn(T, q) >= j
  <2> DEFINE B == {r \in S : r < x}
             C == {r \in T : r < q}
  <2>1. q \in Int /\ x \in Int /\ q # x /\ S \subseteq Int
    BY NumPlayersAssumption DEF Players
  <2>2. j = Cardinality(B) /\ IndexIn(T, q) = Cardinality(C)
    BY DEF IndexIn
  <2>3. IsFiniteSet(B) /\ IsFiniteSet(C) /\ Cardinality(B) \in Nat /\ Cardinality(C) \in Nat
    BY PlayersFinite
  <2>4. CASE q > x
    <3>1. B \subseteq C
      <4> SUFFICES ASSUME NEW r \in S, r < x PROVE r \in T /\ r < q
        OBVIOUS
      <4> QED
        BY <2>1, <2>4
    <3>2. Cardinality(B) <= Cardinality(C)
      BY <2>3, <3>1, FS_Subset
    <3> QED
      BY <2>2, <2>3, <2>4, <3>2
  <2>5. CASE q < x
    <3>1. C \subseteq B
      <4> SUFFICES ASSUME NEW r \in T, r < q PROVE r \in S /\ r < x
        OBVIOUS
      <4> QED
        BY <2>1, <2>5
    <3>2. q \in B /\ q \notin C
      <4>1. ~(q < q)
        BY <2>1
      <4> QED
        BY <2>5, <4>1
    <3>3. Cardinality(C) <= Cardinality(B) /\ Cardinality(C) # Cardinality(B)
      BY <2>3, <3>1, <3>2, FS_Subset
    <3> QED
      BY <2>1, <2>2, <2>3, <2>5, <3>3
  <2> QED
    BY <2>1, <2>4, <2>5
<1>4. T \in SUBSET Players /\ T # {} /\ x \in Players
  OBVIOUS
<1> HIDE DEF T, j
<1>5. /\ PlayerAt(T, j % Cardinality(T)) \in T
      /\ \A q \in T : Behind(x, PlayerAt(T, j % Cardinality(T))) <= Behind(x, q)
  BY <1>2, <1>3, <1>4, FirstBehind
<1> QED
  BY <1>5 DEF T, j

\* The first index is that of the first player behind no seat at all.
LEMMA FirstIndexIsHead ==
    ASSUME NEW S \in SUBSET Players, S # {}
    PROVE  /\ PlayerAt(S, 0) \in S
           /\ \A q \in S : Behind(NoPlayer, PlayerAt(S, 0)) <= Behind(NoPlayer, q)
<1>1. Cardinality(S) \in Nat \ {0} /\ 0 \in 0 .. Cardinality(S)
  BY PlayersFinite, FS_EmptySet
<1>2. 0 % Cardinality(S) = 0
  BY <1>1, ModSmall
<1>3. \A q \in S : q > NoPlayer <=> IndexIn(S, q) >= 0
  <2> SUFFICES ASSUME NEW q \in S PROVE q > NoPlayer /\ IndexIn(S, q) >= 0
    OBVIOUS
  <2>1. q > NoPlayer
    BY NumPlayersAssumption DEF Players, NoPlayer
  <2>2. IndexIn(S, q) >= 0
    BY <1>1, IndexInRange
  <2> QED
    BY <2>1, <2>2
<1>4. LET next == PlayerAt(S, 0 % Cardinality(S))
      IN  next \in S /\ \A q \in S : Behind(NoPlayer, next) <= Behind(NoPlayer, q)
  BY <1>1, <1>3, FirstBehind
<1> QED
  BY <1>2, <1>4

\* The turn passes from cur, who answers or leaves, to the first player behind: those
\* before that player have answered, the others, of whom there is one, have not.
LEMMA TurnPassesInOrder ==
    ASSUME NEW S \in SUBSET Players, NEW R, NEW caller,
           NEW c \in Players \union {NoPlayer}, c = caller \/ (c = NoPlayer /\ caller \notin S),
           NEW cur \in Players, cur # caller,
           AnsweredBefore(S \ {caller, cur}, R, c, cur),
           NEW next \in S, \A q \in S : Behind(cur, next) <= Behind(cur, q),
           NEW last \in S, last \notin R \union {cur, caller}
    PROVE  /\ next \notin R \union {cur, caller}
           /\ AnsweredBefore(S \ {caller}, R \union {cur}, c, next)
<1>0. \A q \in S \ {caller, cur} : q \in R <=> Behind(c, q) < Behind(c, cur)
  BY DEF AnsweredBefore
<1>1. \A q \in Players : Behind(c, q) \in Int /\ Behind(c, cur) \in Int
  BY NumPlayersAssumption DEF Behind, Players, NoPlayer
<1>2. cur # c /\ last # c
  BY DEF NoPlayer, Players
<1>3. Behind(c, last) > Behind(c, cur)
  <2>1. ~(Behind(c, last) < Behind(c, cur)) /\ Behind(c, last) # Behind(c, cur)
    BY <1>0, BehindInjective
  <2> QED
    BY <1>1, <2>1
<1>4. /\ next # c
      /\ Behind(c, next) > Behind(c, cur)
      /\ \A q \in S : Behind(c, q) > Behind(c, cur) => Behind(c, q) >= Behind(c, next)
  BY <1>2, <1>3, NextFromOrigin
<1>5. next # caller /\ next # cur
  BY <1>1, <1>4
<1>6. next \notin R
  <2>1. ~(Behind(c, next) < Behind(c, cur))
    BY <1>1, <1>4
  <2> QED
    BY <1>0, <1>5, <2>1
<1>7. ASSUME NEW q \in S \ {caller}
      PROVE  q \in R \union {cur} <=> Behind(c, q) < Behind(c, next)
  <2>0. Behind(c, q) \in Int /\ Behind(c, cur) \in Int /\ Behind(c, next) \in Int
    BY <1>1
  <2>1. CASE q = cur
    BY <1>4, <2>1
  <2>2. CASE q # cur /\ q \in R
    <3>1. Behind(c, q) < Behind(c, cur)
      BY <1>0, <2>2
    <3> QED
      BY <1>4, <2>0, <2>2, <3>1
  <2>3. CASE q # cur /\ q \notin R
    <3>1. ~(Behind(c, q) < Behind(c, cur)) /\ Behind(c, q) # Behind(c, cur)
      BY <1>0, <2>3, BehindInjective
    <3>2. Behind(c, q) > Behind(c, cur)
      BY <2>0, <3>1
    <3>3. Behind(c, q) >= Behind(c, next)
      BY <1>4, <3>2
    <3> QED
      BY <2>0, <2>3, <3>3
  <2> QED
    BY <2>1, <2>2, <2>3
<1> QED
  BY <1>5, <1>6, <1>7 DEF AnsweredBefore

-----------------------------------------------------------------------------
(* The inductive invariant.  AnsweredInTurn alone is not inductive: the    *)
(* last chance interrupts it, and a caller who has left has no seat to     *)
(* count from.                                                             *)

\* Where the answering goes on from: the caller's seat, or the head of the table when
\* the caller raised on the last chance after leaving.
Origins == {lastCallerId} \union
              (IF lastChanceUsed /\ lastCallerId \notin ActivePlayers THEN {NoPlayer} ELSE {})

\* Of those still in, the ones before p have answered the call and the rest have not.
AskedUpTo(p) ==
    /\ p \notin respondedPlayers \union {lastCallerId}
    /\ \E c \in Origins :
          AnsweredBefore(ActivePlayers \ {lastCallerId}, respondedPlayers, c, p)

HandHasCaller == currentHand # NoHand => lastCallerId \in Players
AnswersNeedHand == roundPhase \in {"BULL_PHASE", "LAST_CHANCE"} => currentHand # NoHand
TurnIsAskedUpTo ==
    AwaitsTurn /\ ~GameOver =>
        /\ CurrentPlayerId \in ActivePlayers
        /\ currentHand # NoHand => AskedUpTo(CurrentPlayerId)
LastChanceIsLast ==
    roundPhase = "LAST_CHANCE" /\ ~GameOver =>
        /\ ActivePlayers \subseteq respondedPlayers \union {lastCallerId}
        /\ currentPlayerIndex = IndexIn(ActivePlayers, lastCallerId)

TurnInv == HandHasCaller /\ AnswersNeedHand /\ TurnIsAskedUpTo /\ LastChanceIsLast

\* A game that is not over has several players in.
LEMMA SeveralAreIn ==
    ASSUME ~GameOver
    PROVE  ActivePlayers \in SUBSET Players /\ Cardinality(ActivePlayers) > 1 /\ ActivePlayers # {}
<1>1. ActivePlayers \in SUBSET Players
  BY DEF ActivePlayers, StillIn
<1>2. Cardinality(ActivePlayers) \in Nat
  BY <1>1, PlayersFinite
<1> QED
  BY <1>1, <1>2, FS_EmptySet DEF GameOver

\* The player whose turn it is has the current index.
LEMMA CurrentIndex ==
    ASSUME NEW p \in ActivePlayers, CurrentPlayerId = p
    PROVE  currentPlayerIndex = IndexIn(ActivePlayers, p)
<1>1. \E x \in ActivePlayers : IndexIn(ActivePlayers, x) = currentPlayerIndex
  BY DEF CurrentPlayerId, PlayerAt, NoPlayer, ActivePlayers, StillIn, Players
<1> QED
  BY <1>1 DEF CurrentPlayerId, PlayerAt

\* A call, or a raise on the last chance, asks everybody anew: first the player behind the
\* caller, or the first at the table when the caller has left.
LEMMA AcceptCallTurn ==
    ASSUME NEW p \in Players, NEW h \in Hands, NEW a, AcceptCall(p, h, a),
           roundPhase' \in {"CALLING", "BULL_PHASE"},
           ~GameOver => currentPlayerIndex = IndexIn(ActivePlayers, p),
           p \in ActivePlayers \/ lastChanceUsed'
    PROVE  TurnInv'
<1> DEFINE n == Cardinality(ActivePlayers)
           next == PlayerAt(ActivePlayers, (currentPlayerIndex + 1) % n)
<1>1. /\ currentHand' = h /\ lastCallerId' = p /\ respondedPlayers' = {p}
      /\ isEliminated' = isEliminated
      /\ ActivePlayers' = ActivePlayers
  BY DEF AcceptCall, scoreVars, ActivePlayers, StillIn
<1>2. HandHasCaller' /\ AnswersNeedHand' /\ LastChanceIsLast'
  <2>1. h # NoHand
    BY MaxHandAssumption DEF Hands, NoHand
  <2> QED
    BY <1>1, <2>1 DEF HandHasCaller, AnswersNeedHand, LastChanceIsLast
<1>3. ASSUME ~GameOver, next \in ActivePlayers, next # p,
             NEW c \in {p} \union
                          (IF lastChanceUsed' /\ p \notin ActivePlayers THEN {NoPlayer} ELSE {}),
             \A q \in ActivePlayers \ {p} : ~(Behind(c, q) < Behind(c, next))
      PROVE  TurnIsAskedUpTo'
  <2>1. n # 0 /\ currentPlayerIndex' = (currentPlayerIndex + 1) % n
    BY <1>3, SeveralAreIn DEF AcceptCall, AdvanceTurn, SkipCaller
  <2>2. CurrentPlayerId' = next
    BY <1>1, <2>1 DEF CurrentPlayerId
  <2>3. c \in Origins'
    BY <1>1, <1>3 DEF Origins
  <2> HIDE DEF next
  <2>4. AskedUpTo(CurrentPlayerId)'
    BY <1>1, <1>3, <2>2, <2>3 DEF AskedUpTo, AnsweredBefore
  <2> QED
    BY <1>1, <1>3, <2>2, <2>4 DEF TurnIsAskedUpTo
<1>4. CASE GameOver
  <2>1. TurnIsAskedUpTo'
    BY <1>1, <1>4 DEF TurnIsAskedUpTo, GameOver
  <2> QED
    BY <1>2, <2>1 DEF TurnInv
<1>5. CASE ~GameOver /\ p \in ActivePlayers
  <2>1. /\ next \in ActivePlayers /\ next # p
        /\ \A q \in ActivePlayers : Behind(p, next) <= Behind(p, q)
    BY <1>5, SeveralAreIn, NextIndexIsFirstBehind
  <2>2. \A q \in ActivePlayers \ {p} : ~(Behind(p, q) < Behind(p, next))
    <3> SUFFICES ASSUME NEW q \in ActivePlayers PROVE ~(Behind(p, q) < Behind(p, next))
      OBVIOUS
    <3>1. q \in 1 .. NumPlayers /\ p \in 1 .. NumPlayers /\ next \in 1 .. NumPlayers
      BY <2>1 DEF ActivePlayers, StillIn, Players
    <3> QED
      BY <2>1, <3>1, NumPlayersAssumption DEF Behind
  <2> QED
    BY <1>3, <1>5, <2>1, <2>2, <1>2 DEF TurnInv
<1>6. CASE ~GameOver /\ p \notin ActivePlayers
  <2>1. (currentPlayerIndex + 1) % n = 0
    <3>1. currentPlayerIndex + 1 = 0
      BY <1>6 DEF IndexIn
    <3>2. n \in Nat \ {0} /\ 0 \in 0 .. n - 1
      BY <1>6, SeveralAreIn, PlayersFinite
    <3> QED
      BY <3>1, <3>2, ModSmall
  <2>2. /\ next \in ActivePlayers
        /\ \A q \in ActivePlayers : Behind(NoPlayer, next) <= Behind(NoPlayer, q)
    BY <1>6, <2>1, SeveralAreIn, FirstIndexIsHead
  <2>3. \A q \in ActivePlayers \ {p} : ~(Behind(NoPlayer, q) < Behind(NoPlayer, next))
    <3> SUFFICES ASSUME NEW q \in ActivePlayers
                 PROVE  ~(Behind(NoPlayer, q) < Behind(NoPlayer, next))
      OBVIOUS
    <3>1. q \in 1 .. NumPlayers /\ next \in 1 .. NumPlayers
      BY <2>2 DEF ActivePlayers, StillIn, Players
    <3> QED
      BY <2>2, <3>1, NumPlayersAssumption DEF Behind, NoPlayer
  <2>4. next # p
    BY <1>6, <2>2
  <2> QED
    BY <1>2, <1>3, <1>6, <2>2, <2>3, <2>4 DEF TurnInv
<1> QED
  BY <1>4, <1>5, <1>6

\* The caller's turn order as TurnPassesInOrder asks for it.
LEMMA OriginFacts ==
    ASSUME currentHand # NoHand, HandHasCaller, NEW c \in Origins, NEW S \in SUBSET ActivePlayers
    PROVE  /\ c \in Players \union {NoPlayer}
           /\ c = lastCallerId \/ (c = NoPlayer /\ lastCallerId \notin S)
BY DEF Origins, HandHasCaller

\* An answer that leaves others to answer passes the turn on to the first of them.
LEMMA AnswerTurn ==
    ASSUME TurnInv, NEW p \in Players, MayTakeTurn(p), currentHand # NoHand,
           ~AllNonCallersResponded(ActivePlayers, WithAnswer(p)),
           AdvanceTurn(lastCallerId), respondedPlayers' = WithAnswer(p),
           roundPhase' \in {"CALLING", "BULL_PHASE"},
           UNCHANGED <<isEliminated, currentHand, lastCallerId, lastChanceUsed>>
    PROVE  TurnInv'
<1> DEFINE n == Cardinality(ActivePlayers)
           next == PlayerAt(ActivePlayers, (currentPlayerIndex + 1) % n)
<1>1. ActivePlayers' = ActivePlayers /\ Origins' = Origins /\ GameOver' = GameOver
  BY DEF ActivePlayers, StillIn, Origins, GameOver
<1>2. HandHasCaller' /\ AnswersNeedHand' /\ LastChanceIsLast'
  BY DEF TurnInv, HandHasCaller, AnswersNeedHand, LastChanceIsLast
<1>3. CASE GameOver
  BY <1>1, <1>2, <1>3 DEF TurnInv, TurnIsAskedUpTo
<1>4. CASE ~GameOver
  <2>1. p \in ActivePlayers /\ CurrentPlayerId = p /\ AskedUpTo(p)
    BY <1>4 DEF TurnInv, TurnIsAskedUpTo, MayTakeTurn, AwaitsTurn
  <2>2. /\ next \in ActivePlayers
        /\ \A q \in ActivePlayers : Behind(p, next) <= Behind(p, q)
    BY <1>4, <2>1, SeveralAreIn, CurrentIndex, NextIndexIsFirstBehind
  <2>3. PICK last \in ActivePlayers : last \notin respondedPlayers \union {p, lastCallerId}
    BY DEF AllNonCallersResponded, WithAnswer
  <2>4. PICK c \in Origins :
            AnsweredBefore(ActivePlayers \ {lastCallerId}, respondedPlayers, c, p)
    BY <2>1 DEF AskedUpTo
  <2>5. /\ c \in Players \union {NoPlayer}
        /\ c = lastCallerId \/ (c = NoPlayer /\ lastCallerId \notin ActivePlayers)
    BY OriginFacts DEF TurnInv
  <2>6. ActivePlayers \in SUBSET Players /\ p # lastCallerId
    BY <2>1 DEF ActivePlayers, StillIn, AskedUpTo
  <2>7. AnsweredBefore(ActivePlayers \ {lastCallerId, p}, respondedPlayers, c, p)
    BY <2>4 DEF AnsweredBefore
  <2> HIDE DEF next
  <2>8. /\ next \notin respondedPlayers \union {p, lastCallerId}
        /\ AnsweredBefore(ActivePlayers \ {lastCallerId}, respondedPlayers \union {p}, c, next)
    <3> SUFFICES ASSUME NEW S, S = ActivePlayers
                 PROVE  /\ next \notin respondedPlayers \union {p, lastCallerId}
                        /\ AnsweredBefore(S \ {lastCallerId}, respondedPlayers \union {p}, c, next)
      OBVIOUS
    <3> QED
      BY <2>2, <2>3, <2>5, <2>6, <2>7, TurnPassesInOrder
  <2>9. CurrentPlayerId' = next
    <3>1. n # 0
      BY <1>4, SeveralAreIn
    <3>2. currentPlayerIndex' = (currentPlayerIndex + 1) % n
      BY <2>8, <3>1 DEF next, AdvanceTurn, SkipCaller
    <3> QED
      BY <1>1, <3>2 DEF next, CurrentPlayerId
  <2>10. AskedUpTo(CurrentPlayerId)'
    BY <1>1, <2>8, <2>9 DEF AskedUpTo, WithAnswer
  <2> QED
    BY <1>1, <1>2, <2>2, <2>9, <2>10 DEF TurnInv, TurnIsAskedUpTo
<1> QED
  BY <1>3, <1>4

\* With the cards on the table nobody is asked.
LEMMA RevealTurn ==
    ASSUME TurnInv, roundPhase' = "RESOLVING", UNCHANGED <<currentHand, lastCallerId>>
    PROVE  TurnInv'
BY DEF TurnInv, HandHasCaller, AnswersNeedHand, TurnIsAskedUpTo, LastChanceIsLast, AwaitsTurn

\* The last chance is offered once everybody else still in has answered.
LEMMA OfferTurn ==
    ASSUME TurnInv, NEW elim, OfferLastChance(elim), currentHand # NoHand,
           AllNonCallersResponded(StillIn(elim), respondedPlayers'),
           UNCHANGED <<currentHand, lastCallerId>>
    PROVE  TurnInv'
<1>1. ActivePlayers' = StillIn(elim) /\ roundPhase' = "LAST_CHANCE"
      /\ currentPlayerIndex' = IndexIn(StillIn(elim), lastCallerId)
  BY DEF OfferLastChance, ActivePlayers, StillIn
<1> QED
  BY <1>1 DEF TurnInv, HandHasCaller, AnswersNeedHand, TurnIsAskedUpTo, LastChanceIsLast,
              AwaitsTurn, AllNonCallersResponded

\* A player drops out and the turn goes on: it stays with whom it was, or passes from the
\* one who left to the first behind.
LEMMA LeaverTurn ==
    ASSUME TurnInv, NEW p \in ActivePlayers, NEW S, S = ActivePlayers \ {p}, Cardinality(S) > 1,
           ~(/\ roundPhase # "RESOLVING"
             /\ currentHand # NoHand
             /\ AllNonCallersResponded(S, respondedPlayers)),
           ActivePlayers' = S, ReindexCurrentPlayer(S, CurrentPlayerId, p),
           UNCHANGED <<currentHand, lastCallerId, lastChanceUsed, respondedPlayers, roundPhase>>
    PROVE  TurnInv'
<1>1. S \in SUBSET Players /\ S \subseteq ActivePlayers /\ S # {}
      /\ ActivePlayers \in SUBSET Players /\ p \in Players
  BY FS_EmptySet DEF ActivePlayers, StillIn
<1>2. ~GameOver
  <2>1. Cardinality(S) <= Cardinality(ActivePlayers) /\ Cardinality(S) \in Int
        /\ Cardinality(ActivePlayers) \in Int
    BY <1>1, FS_Subset, PlayersFinite
  <2> QED
    BY <2>1 DEF GameOver
<1>3. HandHasCaller' /\ AnswersNeedHand'
  BY DEF TurnInv, HandHasCaller, AnswersNeedHand
<1>4. CASE ~AwaitsTurn
  <2>1. roundPhase # "LAST_CHANCE"
    BY <1>1, <1>2 DEF TurnInv, AnswersNeedHand, LastChanceIsLast, AllNonCallersResponded
  <2> QED
    BY <1>3, <1>4, <2>1 DEF TurnInv, TurnIsAskedUpTo, LastChanceIsLast, AwaitsTurn
<1>5. CASE AwaitsTurn
  <2> DEFINE cur == CurrentPlayerId
             next == PlayerAt(S, currentPlayerIndex % Cardinality(S))
  <2>1. cur \in ActivePlayers /\ cur \in Players /\ (currentHand # NoHand => AskedUpTo(cur))
    BY <1>1, <1>2, <1>5 DEF TurnInv, TurnIsAskedUpTo
  <2>2. LastChanceIsLast'
    BY <1>5 DEF AwaitsTurn, LastChanceIsLast
  <2>3. \A c \in Origins : c \in Origins'
    BY <1>1 DEF Origins
  <2>4. CASE cur # p
    <3>1. cur \in S /\ cur # NoPlayer
      BY <2>1, <2>4 DEF NoPlayer, Players
    <3>2. currentPlayerIndex' = IndexIn(S, cur)
      BY <2>4, <3>1 DEF ReindexCurrentPlayer
    <3>3. CurrentPlayerId' = cur
      BY <1>1, <3>1, <3>2, PlayerAtIndex DEF CurrentPlayerId
    <3> HIDE DEF cur
    <3>4. currentHand # NoHand => AskedUpTo(CurrentPlayerId)'
      BY <1>1, <2>1, <2>3, <3>3 DEF AskedUpTo, AnsweredBefore
    <3> QED
      BY <1>3, <2>2, <3>1, <3>3, <3>4 DEF TurnInv, TurnIsAskedUpTo
  <2>5. CASE cur = p
    <3>1. currentPlayerIndex = IndexIn(ActivePlayers, p)
      BY <2>1, <2>5, CurrentIndex
    <3>2. next \in S /\ \A q \in S : Behind(p, next) <= Behind(p, q)
      BY <1>1, <3>1, LeaversIndexIsFirstBehind
    <3>3. currentPlayerIndex' = SkipCaller(S, currentPlayerIndex % Cardinality(S), lastCallerId)
      BY <2>5 DEF ReindexCurrentPlayer
    <3>4. CASE currentHand = NoHand
      <4>1. currentPlayerIndex' \in 0 .. Cardinality(S) - 1
        <5>1. Cardinality(S) \in Nat \ {0} /\ IndexIn(ActivePlayers, p) \in Int
          BY <1>1, PlayersFinite, IndexInRange, NumPlayersAssumption
        <5>2. currentPlayerIndex % Cardinality(S) \in 0 .. Cardinality(S) - 1
          BY <3>1, <5>1, ModRange
        <5> QED
          BY <1>1, <3>3, <5>2, SkipCallerRange
      <4>2. CurrentPlayerId' \in ActivePlayers'
        BY <1>1, <4>1, PlayerAtIndex DEF CurrentPlayerId
      <4> QED
        BY <1>3, <2>2, <3>4, <4>2 DEF TurnInv, TurnIsAskedUpTo
    <3>5. CASE currentHand # NoHand
      <4>1. PICK last \in S : last \notin respondedPlayers \union {p, lastCallerId}
        BY <1>5, <3>5 DEF AllNonCallersResponded, AwaitsTurn
      <4>2. PICK c \in Origins :
                AnsweredBefore(ActivePlayers \ {lastCallerId}, respondedPlayers, c, p)
        BY <2>1, <2>5, <3>5 DEF AskedUpTo
      <4>3. /\ c \in Players \union {NoPlayer}
            /\ c = lastCallerId \/ (c = NoPlayer /\ lastCallerId \notin S)
        BY <1>1, <3>5, OriginFacts DEF TurnInv
      <4>4. p # lastCallerId
        BY <2>1, <2>5, <3>5 DEF AskedUpTo
      <4>5. AnsweredBefore(S \ {lastCallerId, p}, respondedPlayers, c, p)
        BY <1>1, <4>2 DEF AnsweredBefore
      <4> HIDE DEF next
      <4>6. /\ next \notin respondedPlayers \union {p, lastCallerId}
            /\ AnsweredBefore(S \ {lastCallerId}, respondedPlayers \union {p}, c, next)
        BY <1>1, <3>2, <4>1, <4>3, <4>4, <4>5, TurnPassesInOrder
      <4>7. CurrentPlayerId' = next
        BY <3>3, <4>6 DEF next, SkipCaller, CurrentPlayerId
      <4>8. AskedUpTo(CurrentPlayerId)'
        BY <1>1, <2>3, <4>2, <4>6, <4>7 DEF AskedUpTo, AnsweredBefore
      <4> QED
        BY <1>3, <2>2, <3>2, <4>7, <4>8 DEF TurnInv, TurnIsAskedUpTo
    <3> QED
      BY <3>4, <3>5
  <2> QED
    BY <2>4, <2>5
<1> QED
  BY <1>4, <1>5

\* handleBull: the turn passes on, the last chance is offered or the cards are revealed.
LEMMA BullTurn ==
    ASSUME TypeOK, TurnInv, NEW p \in Players, HandleBull(p)
    PROVE  TurnInv'
<1>1. /\ MayTakeTurn(p) /\ currentHand # NoHand
      /\ respondedPlayers' = WithAnswer(p)
      /\ UNCHANGED <<currentHand, lastCallerId, lastChanceUsed>>
  BY DEF HandleBull
<1>2. CASE ~AllNonCallersResponded(ActivePlayers, WithAnswer(p))
  <2>1. /\ roundPhase' = "BULL_PHASE" /\ AdvanceTurn(lastCallerId) /\ UNCHANGED isEliminated
    BY <1>2 DEF HandleBull, scoreVars
  <2> QED
    BY <1>1, <1>2, <2>1, AnswerTurn
<1>3. CASE AllNonCallersResponded(ActivePlayers, WithAnswer(p)) /\ OfferLastChance(isEliminated)
  BY <1>1, <1>3, OfferTurn DEF ActivePlayers
<1>4. CASE roundPhase' = "RESOLVING"
  BY <1>1, <1>4, RevealTurn
<1> QED
  BY <1>2, <1>3, <1>4 DEF HandleBull, ResolveRound

\* handleTrue: the turn passes on or the cards are revealed.
LEMMA TrueTurn ==
    ASSUME TurnInv, NEW p \in Players, HandleTrue(p)
    PROVE  TurnInv'
<1>1. /\ MayTakeTurn(p) /\ currentHand # NoHand
      /\ respondedPlayers' = WithAnswer(p)
      /\ UNCHANGED <<currentHand, lastCallerId, lastChanceUsed>>
  BY DEF HandleTrue, TurnInv, AnswersNeedHand
<1>2. CASE ~AllNonCallersResponded(ActivePlayers, WithAnswer(p))
  <2>1. /\ roundPhase' = "BULL_PHASE" /\ AdvanceTurn(lastCallerId) /\ UNCHANGED isEliminated
    BY <1>2 DEF HandleTrue, scoreVars
  <2> QED
    BY <1>1, <1>2, <2>1, AnswerTurn
<1>3. CASE roundPhase' = "RESOLVING"
  BY <1>1, <1>3, RevealTurn
<1> QED
  BY <1>2, <1>3 DEF HandleTrue, ResolveRound

\* eliminatePlayer, branch by branch.
LEMMA EliminateTurn ==
    ASSUME TypeOK, TurnInv, NEW p \in Players, EliminatePlayer(p)
    PROVE  TurnInv'
<1> DEFINE elim == [isEliminated EXCEPT ![p] = TRUE]
           left == StillIn(elim)
<1>1. /\ UNCHANGED <<currentHand, lastCallerId, lastChanceUsed, respondedPlayers>>
      /\ p \in ActivePlayers /\ left = ActivePlayers \ {p}
  BY DEF EliminatePlayer, turnVars, TypeOK, ActivePlayers, StillIn
<1>2. CASE roundPhase' = "RESOLVING"
  BY <1>1, <1>2, RevealTurn
<1>3. CASE /\ Cardinality(left) <= 1
           /\ isEliminated' = elim
           /\ UNCHANGED roundPhase
  <2>1. GameOver' /\ HandHasCaller' /\ AnswersNeedHand'
    BY <1>1, <1>3 DEF GameOver, ActivePlayers, TurnInv, HandHasCaller, AnswersNeedHand
  <2> QED
    BY <2>1 DEF TurnInv, TurnIsAskedUpTo, LastChanceIsLast
<1>4. CASE /\ Cardinality(left) > 1
           /\ isEliminated' = elim
           /\ ~(/\ roundPhase # "RESOLVING"
                /\ currentHand # NoHand
                /\ AllNonCallersResponded(left, respondedPlayers))
           /\ ReindexCurrentPlayer(left, CurrentPlayerId, p)
           /\ UNCHANGED roundPhase
  <2>1. ActivePlayers' = left
    BY <1>4 DEF ActivePlayers
  <2> HIDE DEF left
  <2> QED
    BY <1>1, <1>4, <2>1, LeaverTurn
<1>5. CASE /\ OfferLastChance(elim)
           /\ currentHand # NoHand
           /\ AllNonCallersResponded(left, respondedPlayers)
  BY <1>1, <1>5, OfferTurn
<1> QED
  BY <1>2, <1>3, <1>4, <1>5 DEF EliminatePlayer, ResolveRound

\* startNextRound gives the first turn to the opener, and nobody has called.
LEMMA NextRoundTurn ==
    ASSUME TypeOK, TurnInv, StartNextRound
    PROVE  TurnInv'
<1>1. CASE GameOver
  BY <1>1 DEF StartNextRound, turnVars, TurnInv, HandHasCaller, AnswersNeedHand,
              TurnIsAskedUpTo, LastChanceIsLast, AwaitsTurn
<1>2. CASE ~GameOver
  <2>1. /\ ActivePlayers' = ActivePlayers /\ roundPhase' = "CALLING" /\ currentHand' = NoHand
        /\ currentPlayerIndex' = IndexIn(ActivePlayers, startingPlayerId')
        /\ startingPlayerId' \in ActivePlayers
    <3>1. NextSeatAfter(startingPlayerId, ActivePlayers) \in ActivePlayers
      BY <1>2, SeveralAreIn, NextSeatIsIn DEF TypeOK
    <3> QED
      BY <1>2, <3>1 DEF StartNextRound, ActivePlayers, StillIn
  <2>2. CurrentPlayerId' = startingPlayerId'
    BY <1>2, <2>1, SeveralAreIn, PlayerAtIndex DEF CurrentPlayerId
  <2> QED
    BY <2>1, <2>2 DEF TurnInv, HandHasCaller, AnswersNeedHand, TurnIsAskedUpTo,
                      LastChanceIsLast
<1> QED
  BY <1>1, <1>2

\* A new game starts with the first seat.
LEMMA InitTurn ==
    ASSUME Init
    PROVE  TurnInv
<1>1. ActivePlayers = Players
  BY DEF Init, ActivePlayers, StillIn
<1>2. CurrentPlayerId \in ActivePlayers
  <2>1. Players \in SUBSET Players /\ 1 \in Players
    BY NumPlayersAssumption DEF Players
  <2>2. Cardinality(Players) \in Nat \ {0}
    BY <2>1, PlayersFinite, FS_EmptySet
  <2>3. 0 \in 0 .. Cardinality(Players) - 1
    BY <2>2
  <2>4. PlayerAt(Players, 0) \in Players
    BY <2>1, <2>3, PlayerAtIndex
  <2> QED
    BY <1>1, <2>4 DEF Init, CurrentPlayerId
<1> QED
  BY <1>2 DEF Init, TurnInv, HandHasCaller, AnswersNeedHand, TurnIsAskedUpTo, LastChanceIsLast

\* No step breaks the turn order.
LEMMA TurnStep ==
    ASSUME TypeOK, TurnInv, [Next]_vars
    PROVE  TurnInv'
<1>1. ASSUME NEW p \in Players, NEW h \in Hands, HandleCall(p, h)
      PROVE  TurnInv'
  <2>1. p \in ActivePlayers /\ currentPlayerIndex = IndexIn(ActivePlayers, p)
    BY <1>1, CurrentIndex DEF HandleCall, MayTakeTurn
  <2>2. AcceptCall(p, h, "CALL") /\ roundPhase' \in {"CALLING", "BULL_PHASE"}
    BY <1>1 DEF HandleCall
  <2> QED
    BY <2>1, <2>2, AcceptCallTurn
<1>2. ASSUME NEW p \in Players, HandleBull(p)
      PROVE  TurnInv'
  BY <1>2, BullTurn
<1>3. ASSUME NEW p \in Players, HandleTrue(p)
      PROVE  TurnInv'
  BY <1>3, TrueTurn
<1>4. ASSUME NEW p \in Players, NEW h \in Hands, HandleLastChanceRaise(p, h)
      PROVE  TurnInv'
  <2>1. ~GameOver => currentPlayerIndex = IndexIn(ActivePlayers, p)
    BY <1>4 DEF HandleLastChanceRaise, TurnInv, LastChanceIsLast
  <2>2. /\ AcceptCall(p, h, "LAST_CHANCE_RAISE") /\ roundPhase' \in {"CALLING", "BULL_PHASE"}
        /\ lastChanceUsed'
    BY <1>4 DEF HandleLastChanceRaise
  <2> QED
    BY <2>1, <2>2, AcceptCallTurn
<1>5. ASSUME NEW p \in Players, HandleLastChancePass(p)
      PROVE  TurnInv'
  BY <1>5, RevealTurn DEF HandleLastChancePass, ResolveRound
<1>6. ASSUME NEW p \in Leavers, EliminatePlayer(p)
      PROVE  TurnInv'
  BY <1>6, EliminateTurn, LeaversAssumption DEF Players
<1>7. CASE StartNextRound
  BY <1>7, NextRoundTurn
<1>8. CASE Restore \/ UNCHANGED vars
  <2>1. /\ ActivePlayers' = ActivePlayers
        /\ UNCHANGED <<turnVars, roundPhase, currentPlayerIndex>>
    BY <1>8 DEF Restore, vars, turnVars, ActivePlayers, StillIn
  <2> QED
    BY <2>1 DEF turnVars, TurnInv, HandHasCaller, AnswersNeedHand, TurnIsAskedUpTo,
        LastChanceIsLast, AwaitsTurn, GameOver, CurrentPlayerId, AskedUpTo, Origins
<1> QED
  BY <1>1, <1>2, <1>3, <1>4, <1>5, <1>6, <1>7, <1>8 DEF Next, TurnAction

\* The turn order holds throughout the game.
THEOREM TurnOrderKept == Spec => []TurnInv
BY InitTurn, TurnStep, TypeCorrect, PTL DEF Spec

\* While a turn is awaited, it is that of a player still in who owes an answer, whoever
\* has dropped out of the game and in whatever order.
THEOREM TurnStaysPending == Spec => []TurnIsPending
<1>1. TurnInv => TurnIsPending
  BY DEF TurnInv, TurnIsAskedUpTo, TurnIsPending, AskedUpTo
<1> QED
  BY <1>1, TurnOrderKept, PTL

\* Answers to a call come in seating order, starting behind the caller.
THEOREM AnswersComeInTurn == Spec => []AnsweredInTurn
<1>1. TurnInv => AnsweredInTurn
  <2> SUFFICES ASSUME TurnInv, AwaitsTurn, ~GameOver, currentHand # NoHand,
                      lastChanceUsed => lastCallerId \in ActivePlayers,
                      NEW p \in ActivePlayers \ {lastCallerId}
               PROVE  LET steps(q) == (q + NumPlayers - lastCallerId) % NumPlayers
                      IN  p \in respondedPlayers <=> steps(p) < steps(CurrentPlayerId)
    BY DEF AnsweredInTurn
  <2>1. CurrentPlayerId \in ActivePlayers /\ AskedUpTo(CurrentPlayerId)
    BY DEF TurnInv, TurnIsAskedUpTo
  <2>2. Origins = {lastCallerId} /\ lastCallerId \in Players
    BY DEF Origins, TurnInv, HandHasCaller
  <2>3. p \in respondedPlayers <=> Behind(lastCallerId, p) < Behind(lastCallerId, CurrentPlayerId)
    BY <2>1, <2>2 DEF AskedUpTo, AnsweredBefore
  <2>4. p \in Players /\ CurrentPlayerId \in Players /\ CurrentPlayerId # lastCallerId
    BY <2>1 DEF ActivePlayers, StillIn, AskedUpTo
  <2>5. (p + NumPlayers - lastCallerId) % NumPlayers = Behind(lastCallerId, p)
    BY <2>2, <2>4, BehindIsSteps
  <2>6. (CurrentPlayerId + NumPlayers - lastCallerId) % NumPlayers
           = Behind(lastCallerId, CurrentPlayerId)
    BY <2>2, <2>4, BehindIsSteps
  <2> QED
    BY <2>3, <2>5, <2>6
<1> QED
  BY <1>1, TurnOrderKept, PTL

-----------------------------------------------------------------------------
(* Who opens a round.                                                      *)

\* The next opener is the first player still in behind the last one, and another one.
LEMMA NextOpener ==
    ASSUME NEW S \in SUBSET Players, Cardinality(S) > 1, NEW s \in Players
    PROVE  /\ NextSeatAfter(s, S) \in S /\ NextSeatAfter(s, S) # s
           /\ \A q \in S : Behind(s, NextSeatAfter(s, S)) <= Behind(s, q)
<1> DEFINE steps(p) == (p + NumPlayers - s - 1) % NumPlayers
           next == NextSeatAfter(s, S)
<1>1. ASSUME NEW p \in Players PROVE steps(p) = Behind(s, p) - 1 /\ Behind(s, p) \in Nat
  <2>1. NumPlayers \in Nat \ {0} /\ s \in 1 .. NumPlayers /\ p \in 1 .. NumPlayers
    BY NumPlayersAssumption DEF Players
  <2>2. CASE p > s
    <3>1. p + NumPlayers - s - 1 \in NumPlayers .. NumPlayers + NumPlayers - 1
      BY <2>1, <2>2
    <3> DEFINE a == p + NumPlayers - s - 1
    <3>2. a \in NumPlayers .. NumPlayers + NumPlayers - 1
      BY <3>1
    <3>3. a % NumPlayers = a - NumPlayers
      <4> HIDE DEF a
      <4> QED
        BY <2>1, <3>2, ModOnce
    <3>4. steps(p) = p - s - 1
      BY <2>1, <3>3
    <3> QED
      BY <2>1, <2>2, <3>4 DEF Behind
  <2>3. CASE ~(p > s)
    <3>1. p + NumPlayers - s - 1 \in 0 .. NumPlayers - 1
      BY <2>1, <2>3
    <3>2. steps(p) = p + NumPlayers - s - 1
      BY <2>1, <3>1, ModSmall
    <3> QED
      BY <2>1, <2>3, <3>2 DEF Behind
  <2> QED
    BY <2>2, <2>3
<1>2. next \in S /\ \A q \in S : steps(next) <= steps(q)
  <2> DEFINE T == {steps(p) : p \in S}
  <2>1. T \in SUBSET Nat /\ T # {}
    <3>1. S # {}
      BY FS_EmptySet
    <3>2. ASSUME NEW p \in S PROVE steps(p) \in Nat
      <4>1. NumPlayers \in Nat \ {0} /\ p + NumPlayers - s - 1 \in Int
        BY NumPlayersAssumption DEF Players
      <4>2. steps(p) \in 0 .. NumPlayers - 1
        BY <4>1, ModRange
      <4> QED
        BY <4>1, <4>2
    <3> QED
      BY <3>1, <3>2
  <2>2. PICK x \in T : \A y \in T : x <= y
    BY <2>1, SmallestInSet
  <2>3. PICK p \in S : x = steps(p)
    OBVIOUS
  <2>4. \A q \in S : steps(p) <= steps(q)
    BY <2>2, <2>3
  <2> QED
    BY <2>4 DEF NextSeatAfter
<1>3. ASSUME NEW q \in S PROVE Behind(s, next) <= Behind(s, q)
  <2>1. /\ steps(next) <= steps(q)
        /\ steps(next) = Behind(s, next) - 1 /\ Behind(s, next) \in Nat
        /\ steps(q) = Behind(s, q) - 1 /\ Behind(s, q) \in Nat
    BY <1>1, <1>2
  <2> QED
    BY <2>1
<1>4. next # s
  <2> HIDE DEF next
  <2> QED
    BY <1>2, <1>3, SomebodyElse, FirstIsOther
<1> QED
  BY <1>2, <1>3, <1>4

\* The first turn of every round passes on to the next player still in, also when the
\* last opener has dropped out.
THEOREM OpenerPassesOn == Spec => OpenerRotates
<1>1. TypeOK /\ [Next]_vars =>
        [ turnResult' = "new_round" /\ roundPhase = "RESOLVING" =>
            /\ startingPlayerId' # startingPlayerId
            /\ CurrentPlayerId' = startingPlayerId'
            /\ LET steps(q) == (q + NumPlayers - startingPlayerId) % NumPlayers
               IN  \A q \in ActivePlayers \ {startingPlayerId} :
                       steps(q) >= steps(startingPlayerId') ]_vars
  <2> SUFFICES ASSUME TypeOK, Next, turnResult' = "new_round", roundPhase = "RESOLVING"
               PROVE  /\ startingPlayerId' # startingPlayerId
                      /\ CurrentPlayerId' = startingPlayerId'
                      /\ LET steps(q) == (q + NumPlayers - startingPlayerId) % NumPlayers
                         IN  \A q \in ActivePlayers \ {startingPlayerId} :
                                 steps(q) >= steps(startingPlayerId')
    OBVIOUS
  <2>1. StartNextRound /\ ~GameOver
    BY DEF Next, TurnAction, HandleCall, HandleBull, HandleTrue, HandleLastChanceRaise,
           HandleLastChancePass, MayTakeTurn, EliminatePlayer, ResolveRound, OfferLastChance,
           StartNextRound, Restore
  <2> DEFINE next == NextSeatAfter(startingPlayerId, ActivePlayers)
  <2>2. /\ ActivePlayers' = ActivePlayers /\ startingPlayerId' = next
        /\ currentPlayerIndex' = IndexIn(ActivePlayers, next)
    BY <2>1 DEF StartNextRound, ActivePlayers, StillIn
  <2>3. startingPlayerId \in Players /\ ActivePlayers \in SUBSET Players
    BY DEF TypeOK, ActivePlayers, StillIn
  <2>4. /\ next \in ActivePlayers /\ next # startingPlayerId
        /\ \A q \in ActivePlayers : Behind(startingPlayerId, next) <= Behind(startingPlayerId, q)
    BY <2>1, <2>3, SeveralAreIn, NextOpener
  <2>5. CurrentPlayerId' = next
    BY <2>2, <2>3, <2>4, PlayerAtIndex DEF CurrentPlayerId
  <2>6. ASSUME NEW q \in ActivePlayers \ {startingPlayerId}
        PROVE  (q + NumPlayers - startingPlayerId) % NumPlayers
                  >= (next + NumPlayers - startingPlayerId) % NumPlayers
    <3> HIDE DEF next
    <3>1. /\ (q + NumPlayers - startingPlayerId) % NumPlayers = Behind(startingPlayerId, q)
          /\ (next + NumPlayers - startingPlayerId) % NumPlayers = Behind(startingPlayerId, next)
          /\ Behind(startingPlayerId, q) \in 1 .. NumPlayers - 1
          /\ Behind(startingPlayerId, next) \in 1 .. NumPlayers - 1
      BY <2>3, <2>4, BehindIsSteps
    <3> QED
      BY <2>4, <3>1, NumPlayersAssumption
  <2> QED
    BY <2>2, <2>4, <2>5, <2>6
<1> QED
  BY <1>1, TypeCorrect, PTL DEF Spec, OpenerRotates

\* The indexes of a snapshot that is refused are those of a larger table: as long as nobody
\* is put out, what the engine persists can be restored.
THEOREM SnapshotStaysValid == Spec => RestorableUntilSomeoneGoes
<1> DEFINE Stays ==
        /\ turnResult' = "new_round" => SnapshotIsValid'
        /\ SnapshotIsValid /\ UNCHANGED isEliminated =>
              \/ SnapshotIsValid'
              \/ roundPhase' = "LAST_CHANCE" /\ lastCallerId \notin ActivePlayers
<1>1. ASSUME TypeOK, Next
      PROVE  Stays
  <2>0. ActivePlayers \in SUBSET Players /\ (UNCHANGED isEliminated => ActivePlayers' = ActivePlayers)
    BY DEF ActivePlayers, StillIn
  <2>1. CASE StartNextRound
    <3>1. CASE GameOver
      BY <2>0, <2>1, <3>1 DEF StartNextRound, SnapshotIsValid
    <3>2. CASE ~GameOver
      <4>1. /\ ActivePlayers' = ActivePlayers
            /\ startingPlayerId' \in ActivePlayers
            /\ currentPlayerIndex' = IndexIn(ActivePlayers, startingPlayerId')
            /\ startingPlayerIndex' = IndexIn(ActivePlayers, startingPlayerId')
        <5>1. NextSeatAfter(startingPlayerId, ActivePlayers) \in ActivePlayers
          BY <1>1, <3>2, SeveralAreIn, NextSeatIsIn DEF TypeOK
        <5> QED
          BY <2>0, <2>1, <3>2, <5>1 DEF StartNextRound
      <4>2. IndexIn(ActivePlayers, startingPlayerId') \in 0 .. Cardinality(ActivePlayers) - 1
        BY <2>0, <4>1, IndexInRange
      <4> QED
        BY <4>1, <4>2 DEF SnapshotIsValid
    <3> QED
      BY <3>1, <3>2
  <2>2. CASE Restore
    BY <2>0, <2>2 DEF Restore, SnapshotIsValid, fixedVars
  <2>3. CASE \E p \in Players : EliminatePlayer(p)
    BY <1>1, <2>3 DEF EliminatePlayer, ResolveRound, OfferLastChance, TypeOK
  <2>4. ASSUME NEW p \in Players, TurnAction(p)
        PROVE  Stays
    <3>1. UNCHANGED startingPlayerIndex /\ turnResult' # "new_round"
      BY <2>4 DEF TurnAction, HandleCall, HandleBull, HandleTrue, HandleLastChanceRaise,
         HandleLastChancePass, AcceptCall, ResolveRound, OfferLastChance, fixedVars
    <3>2. \/ \E c : AdvanceTurn(c)
          \/ UNCHANGED currentPlayerIndex
          \/ OfferLastChance(isEliminated)
      BY <2>4 DEF TurnAction, HandleCall, HandleBull, HandleTrue, HandleLastChanceRaise,
         HandleLastChancePass, AcceptCall
    <3> SUFFICES ASSUME SnapshotIsValid, UNCHANGED isEliminated, ActivePlayers # {},
                        ~(roundPhase' = "LAST_CHANCE" /\ lastCallerId \notin ActivePlayers)
                 PROVE  currentPlayerIndex' \in 0 .. Cardinality(ActivePlayers) - 1
      BY <2>0, <3>1 DEF SnapshotIsValid
    <3>3. CASE \E c : AdvanceTurn(c)
      BY <1>1, <3>3, AdvanceTurnRange
    <3>4. CASE UNCHANGED currentPlayerIndex
      BY <3>4 DEF SnapshotIsValid
    <3>5. CASE OfferLastChance(isEliminated)
      BY <2>0, <3>5, IndexInRange DEF OfferLastChance, ActivePlayers
    <3> QED
      BY <3>2, <3>3, <3>4, <3>5
  <2> QED
    BY <1>1, <2>1, <2>2, <2>3, <2>4, LeaversAssumption DEF Next, Players
<1>2. TypeOK /\ [Next]_vars => [Stays]_vars
  <2> HIDE DEF Stays
  <2> QED
    BY <1>1
<1> QED
  BY <1>2, TypeCorrect, PTL DEF Spec, RestorableUntilSomeoneGoes

-----------------------------------------------------------------------------
(***************************************************************************)
(* What the history of a round says: the bid, the last chance, the answers *)
(* to the last call and the penalties that follow from them.               *)
(***************************************************************************)

(* The bid and the last chance.                                            *)

\* Every call and every raise is higher than the hand it follows; only a new round takes
\* the hand away.
THEOREM BidOnlyRises == Spec => BidRises
<1>1. TypeOK /\ [Next]_vars =>
        [currentHand' # currentHand => currentHand' > currentHand \/ turnResult' = "new_round"]_vars
  <2> SUFFICES ASSUME Next, currentHand' # currentHand
               PROVE  currentHand' > currentHand \/ turnResult' = "new_round"
    OBVIOUS
  <2>1. ASSUME NEW p \in Players, NEW h \in Hands, HandleCall(p, h) \/ HandleLastChanceRaise(p, h)
        PROVE  currentHand' > currentHand
    BY <2>1 DEF HandleCall, HandleLastChanceRaise, AcceptCall
  <2>2. ASSUME NEW p \in Players, HandleBull(p) \/ HandleTrue(p) \/ HandleLastChancePass(p)
        PROVE  FALSE
    BY <2>2 DEF HandleBull, HandleTrue, HandleLastChancePass
  <2>3. ASSUME NEW p \in Leavers, EliminatePlayer(p)
        PROVE  FALSE
    BY <2>3 DEF EliminatePlayer, turnVars
  <2>4. CASE StartNextRound
    BY <2>4 DEF StartNextRound, turnVars
  <2>5. CASE Restore
    BY <2>5 DEF Restore, turnVars
  <2> QED
    BY <2>1, <2>2, <2>3, <2>4, <2>5 DEF Next, TurnAction
<1> QED
  BY <1>1, TypeCorrect, PTL DEF Spec, BidRises

\* The history after an entry was appended.
LEMMA AppendEntry ==
    ASSUME NEW H \in Seq(TurnEntry), NEW e \in TurnEntry
    PROVE  /\ Append(H, e) \in Seq(TurnEntry) /\ Len(H) \in Nat
           /\ DOMAIN H = 1 .. Len(H) /\ DOMAIN Append(H, e) = 1 .. Len(H) + 1
           /\ \A i \in 1 .. Len(H) : Append(H, e)[i] = H[i]
           /\ Append(H, e)[Len(H) + 1] = e
OBVIOUS

\* Every raise on the last chance is followed by a fresh call, unless the chance is used.
RaisesAreFollowed(hist, used) ==
    \A i \in DOMAIN hist : hist[i].action = "LAST_CHANCE_RAISE" =>
        used \/ \E k \in DOMAIN hist : k > i /\ hist[k].action = "CALL"

RaiseInv ==
    /\ roundPhase = "LAST_CHANCE" => ~lastChanceUsed
    /\ RaisesAreFollowed(turnHistory, lastChanceUsed)
    /\ OneLastChancePerCall

\* An entry that is no last-chance raise leaves the raises as far apart as they were.
LEMMA OtherEntry ==
    ASSUME TypeOK, RaiseInv, NEW e \in TurnEntry, e.action # "LAST_CHANCE_RAISE",
           turnHistory' = Append(turnHistory, e),
           e.action = "CALL" \/ lastChanceUsed' = lastChanceUsed
    PROVE  RaisesAreFollowed(turnHistory, lastChanceUsed)' /\ OneLastChancePerCall'
<1> DEFINE n == Len(turnHistory)
<1>1. /\ n \in Nat /\ DOMAIN turnHistory = 1 .. n /\ DOMAIN turnHistory' = 1 .. n + 1
      /\ \A i \in 1 .. n : turnHistory'[i] = turnHistory[i]
      /\ turnHistory'[n + 1] = e
  BY AppendEntry DEF TypeOK
<1> HIDE DEF n
<1>2. ASSUME NEW i \in DOMAIN turnHistory', turnHistory'[i].action = "LAST_CHANCE_RAISE"
      PROVE  /\ i \in 1 .. n /\ turnHistory[i].action = "LAST_CHANCE_RAISE"
             /\ \/ lastChanceUsed'
                \/ \E k \in DOMAIN turnHistory' : k > i /\ turnHistory'[k].action = "CALL"
  <2>1. i \in 1 .. n /\ turnHistory[i].action = "LAST_CHANCE_RAISE"
    BY <1>1, <1>2
  <2>2. CASE e.action = "CALL"
    BY <1>1, <2>1, <2>2
  <2>3. CASE e.action # "CALL" /\ lastChanceUsed
    BY <2>1, <2>3
  <2>4. CASE ~lastChanceUsed
    <3>1. PICK k \in 1 .. n : k > i /\ turnHistory[k].action = "CALL"
      BY <1>1, <2>1, <2>4 DEF RaiseInv, RaisesAreFollowed
    <3>2. k \in 1 .. n + 1 /\ turnHistory'[k].action = "CALL"
      BY <1>1, <3>1
    <3> QED
      BY <1>1, <2>1, <3>1, <3>2
  <2> QED
    BY <2>2, <2>3, <2>4
<1>3. ASSUME NEW i \in DOMAIN turnHistory', NEW j \in DOMAIN turnHistory', i < j,
             turnHistory'[i].action = "LAST_CHANCE_RAISE",
             turnHistory'[j].action = "LAST_CHANCE_RAISE"
      PROVE  \E k \in i .. j : turnHistory'[k].action = "CALL"
  <2>1. /\ i \in 1 .. n /\ turnHistory[i].action = "LAST_CHANCE_RAISE"
        /\ j \in 1 .. n /\ turnHistory[j].action = "LAST_CHANCE_RAISE"
    BY <1>2, <1>3
  <2>2. PICK k \in i .. j : turnHistory[k].action = "CALL"
    BY <1>1, <1>3, <2>1 DEF RaiseInv, OneLastChancePerCall
  <2> QED
    BY <1>1, <2>1, <2>2
<1> QED
  BY <1>2, <1>3 DEF RaisesAreFollowed, OneLastChancePerCall

\* A raise on the last chance comes after a fresh call, if there was a raise before.
LEMMA RaiseEntry ==
    ASSUME TypeOK, RaiseInv, ~lastChanceUsed, NEW e \in TurnEntry,
           turnHistory' = Append(turnHistory, e)
    PROVE  OneLastChancePerCall'
<1> DEFINE n == Len(turnHistory)
<1>1. /\ n \in Nat /\ DOMAIN turnHistory = 1 .. n /\ DOMAIN turnHistory' = 1 .. n + 1
      /\ \A i \in 1 .. n : turnHistory'[i] = turnHistory[i]
  BY AppendEntry DEF TypeOK
<1> HIDE DEF n
<1> SUFFICES ASSUME NEW i \in DOMAIN turnHistory', NEW j \in DOMAIN turnHistory', i < j,
                    turnHistory'[i].action = "LAST_CHANCE_RAISE",
                    turnHistory'[j].action = "LAST_CHANCE_RAISE"
             PROVE  \E k \in i .. j : turnHistory'[k].action = "CALL"
  BY DEF OneLastChancePerCall
<1>2. i \in 1 .. n /\ turnHistory[i].action = "LAST_CHANCE_RAISE"
  BY <1>1
<1>3. CASE j \in 1 .. n
  <2>1. PICK k \in i .. j : turnHistory[k].action = "CALL"
    BY <1>1, <1>2, <1>3 DEF RaiseInv, OneLastChancePerCall
  <2> QED
    BY <1>1, <1>2, <1>3, <2>1
<1>4. CASE j = n + 1
  <2>1. PICK k \in 1 .. n : k > i /\ turnHistory[k].action = "CALL"
    BY <1>1, <1>2 DEF RaiseInv, RaisesAreFollowed
  <2> QED
    BY <1>1, <1>2, <1>4, <2>1
<1> QED
  BY <1>1, <1>3, <1>4

\* The caller's last chance comes at most once for a chain of bids: between two raises
\* on the last chance somebody made a fresh call.
THEOREM ChanceComesOnce == Spec => []OneLastChancePerCall
<1>1. Init => RaiseInv
  BY DEF Init, RaiseInv, RaisesAreFollowed, OneLastChancePerCall
<1>2. TypeOK /\ RaiseInv /\ [Next]_vars => RaiseInv'
  <2> SUFFICES ASSUME TypeOK, RaiseInv, [Next]_vars PROVE RaiseInv'
    OBVIOUS
  <2>0. ASSUME NEW p \in Players, NEW a \in TurnActions, NEW h \in Hands \union {NoHand}
        PROVE  Entry(p, a, h) \in TurnEntry /\ Entry(p, a, h).action = a
    BY DEF Entry, TurnEntry
  <2>1. ASSUME NEW p \in Players, NEW h \in Hands, HandleCall(p, h)
        PROVE  RaiseInv'
    <3>1. /\ turnHistory' = Append(turnHistory, Entry(p, "CALL", h))
          /\ roundPhase' # "LAST_CHANCE"
      BY <2>1 DEF HandleCall, AcceptCall
    <3>2. Entry(p, "CALL", h) \in TurnEntry /\ Entry(p, "CALL", h).action = "CALL"
      BY <2>0 DEF TurnActions, CallActions
    <3> QED
      BY <3>1, <3>2, OtherEntry DEF RaiseInv
  <2>2. ASSUME NEW p \in Players, HandleBull(p)
        PROVE  RaiseInv'
    <3>1. /\ turnHistory' = Append(turnHistory, Entry(p, "BULL", NoHand))
          /\ lastChanceUsed' = lastChanceUsed
          /\ roundPhase' = "LAST_CHANCE" => ~lastChanceUsed
      BY <2>2 DEF HandleBull, ResolveRound
    <3>2. Entry(p, "BULL", NoHand) \in TurnEntry /\ Entry(p, "BULL", NoHand).action = "BULL"
      BY <2>0 DEF TurnActions, Responses
    <3> QED
      BY <3>1, <3>2, OtherEntry DEF RaiseInv
  <2>3. ASSUME NEW p \in Players, HandleTrue(p)
        PROVE  RaiseInv'
    <3>1. /\ turnHistory' = Append(turnHistory, Entry(p, "TRUE", NoHand))
          /\ lastChanceUsed' = lastChanceUsed
          /\ roundPhase' # "LAST_CHANCE"
      BY <2>3 DEF HandleTrue, ResolveRound
    <3>2. Entry(p, "TRUE", NoHand) \in TurnEntry /\ Entry(p, "TRUE", NoHand).action = "TRUE"
      BY <2>0 DEF TurnActions, Responses
    <3> QED
      BY <3>1, <3>2, OtherEntry DEF RaiseInv
  <2>4. ASSUME NEW p \in Players, NEW h \in Hands, HandleLastChanceRaise(p, h)
        PROVE  RaiseInv'
    <3>1. /\ turnHistory' = Append(turnHistory, Entry(p, "LAST_CHANCE_RAISE", h))
          /\ lastChanceUsed' = TRUE /\ ~lastChanceUsed
          /\ roundPhase' # "LAST_CHANCE"
      BY <2>4 DEF HandleLastChanceRaise, AcceptCall, RaiseInv
    <3>2. Entry(p, "LAST_CHANCE_RAISE", h) \in TurnEntry
      BY <2>0 DEF TurnActions, CallActions
    <3> QED
      BY <3>1, <3>2, RaiseEntry DEF RaiseInv, RaisesAreFollowed
  <2>5. ASSUME NEW p \in Players, HandleLastChancePass(p)
        PROVE  RaiseInv'
    <3>1. /\ turnHistory' = Append(turnHistory, Entry(p, "LAST_CHANCE_PASS", NoHand))
          /\ lastChanceUsed' = lastChanceUsed
          /\ roundPhase' # "LAST_CHANCE"
      BY <2>5 DEF HandleLastChancePass, ResolveRound
    <3>2. /\ Entry(p, "LAST_CHANCE_PASS", NoHand) \in TurnEntry
          /\ Entry(p, "LAST_CHANCE_PASS", NoHand).action = "LAST_CHANCE_PASS"
      BY <2>0 DEF TurnActions
    <3> QED
      BY <3>1, <3>2, OtherEntry DEF RaiseInv
  <2>6. ASSUME NEW p \in Leavers, EliminatePlayer(p)
        PROVE  RaiseInv'
    <3>1. /\ UNCHANGED <<turnHistory, lastChanceUsed>>
          /\ roundPhase' = "LAST_CHANCE" => roundPhase = "LAST_CHANCE" \/ ~lastChanceUsed
      BY <2>6 DEF EliminatePlayer, turnVars, ResolveRound
    <3> QED
      BY <3>1 DEF RaiseInv, RaisesAreFollowed, OneLastChancePerCall
  <2>7. CASE StartNextRound
    BY <2>7 DEF StartNextRound, turnVars, RaiseInv, RaisesAreFollowed, OneLastChancePerCall
  <2>8. CASE Restore \/ UNCHANGED vars
    BY <2>8 DEF Restore, turnVars, vars, RaiseInv, RaisesAreFollowed, OneLastChancePerCall
  <2> QED
    BY <2>1, <2>2, <2>3, <2>4, <2>5, <2>6, <2>7, <2>8 DEF Next, TurnAction
<1>3. RaiseInv => OneLastChancePerCall
  BY DEF RaiseInv
<1> QED
  BY <1>1, <1>2, <1>3, TypeCorrect, PTL DEF Spec

-----------------------------------------------------------------------------
(* The answers to the last call.                                           *)

\* The last call is where it says: it is a call, and none comes after it.
LEMMA LastCallIs ==
    ASSUME NEW hist \in Seq(TurnEntry)
    PROVE  /\ LastCallIndexOf(hist) \in 0 .. Len(hist)
           /\ LastCallIndexOf(hist) # 0 => hist[LastCallIndexOf(hist)].action \in CallActions
           /\ \A i \in DOMAIN hist : i > LastCallIndexOf(hist) => hist[i].action \notin CallActions
<1> DEFINE M == {0} \union {i \in DOMAIN hist : hist[i].action \in CallActions}
           T == {Len(hist) - i : i \in M}
<1>1. M \subseteq 0 .. Len(hist) /\ Len(hist) \in Nat /\ DOMAIN hist = 1 .. Len(hist)
  OBVIOUS
<1>2. PICK x \in T : \A y \in T : x <= y
  <2>1. T \in SUBSET Nat /\ T # {}
    BY <1>1
  <2> QED
    BY <2>1, SmallestInSet
<1>3. PICK m \in M : x = Len(hist) - m
  OBVIOUS
<1>4. ASSUME NEW i \in M
      PROVE  m >= i
  <2>1. Len(hist) - m <= Len(hist) - i
    BY <1>2, <1>3
  <2> QED
    BY <1>1, <2>1
<1>5. Max(M) \in M /\ \A i \in M : Max(M) >= i
  BY <1>4 DEF Max
<1>6. LastCallIndexOf(hist) = Max(M)
  BY DEF LastCallIndexOf
<1>7. ASSUME NEW i \in DOMAIN hist, i > Max(M)
      PROVE  hist[i].action \notin CallActions
  <2>1. i \notin M
    BY <1>1, <1>5, <1>7
  <2> QED
    BY <2>1
<1> QED
  BY <1>1, <1>5, <1>6, <1>7

\* A place that is a call, or the beginning, with none after it, is that of the last call.
LEMMA LastCallUnique ==
    ASSUME NEW hist \in Seq(TurnEntry), NEW k \in 0 .. Len(hist),
           k # 0 => hist[k].action \in CallActions,
           \A i \in DOMAIN hist : i > k => hist[i].action \notin CallActions
    PROVE  LastCallIndexOf(hist) = k
<1> DEFINE m == LastCallIndexOf(hist)
<1>1. /\ m \in 0 .. Len(hist)
      /\ m # 0 => hist[m].action \in CallActions
      /\ \A i \in DOMAIN hist : i > m => hist[i].action \notin CallActions
      /\ DOMAIN hist = 1 .. Len(hist) /\ Len(hist) \in Nat
  BY LastCallIs
<1> HIDE DEF m
<1>2. ~(m > k)
  BY <1>1
<1>3. ~(k > m)
  BY <1>1
<1> QED
  BY <1>1, <1>2, <1>3 DEF m

\* Appending a call makes it the last one; appending anything else does not.
LEMMA LastCallOfAppend ==
    ASSUME NEW H \in Seq(TurnEntry), NEW e \in TurnEntry
    PROVE  LastCallIndexOf(Append(H, e)) =
              IF e.action \in CallActions THEN Len(H) + 1 ELSE LastCallIndexOf(H)
<1> DEFINE hist == Append(H, e)
           n == Len(H)
           m == LastCallIndexOf(H)
<1>1. /\ hist \in Seq(TurnEntry) /\ n \in Nat
      /\ DOMAIN H = 1 .. n /\ DOMAIN hist = 1 .. n + 1 /\ Len(hist) = n + 1
      /\ \A i \in 1 .. n : hist[i] = H[i]
      /\ hist[n + 1] = e
  BY AppendEntry
<1>2. /\ m \in 0 .. n
      /\ m # 0 => H[m].action \in CallActions
      /\ \A i \in 1 .. n : i > m => H[i].action \notin CallActions
  BY <1>1, LastCallIs
<1> HIDE DEF hist, n, m
<1>3. CASE e.action \in CallActions
  <2>1. n + 1 \in 0 .. Len(hist) /\ \A i \in DOMAIN hist : ~(i > n + 1)
    BY <1>1
  <2>2. LastCallIndexOf(hist) = n + 1
    BY <1>1, <1>3, <2>1, LastCallUnique
  <2> QED
    BY <1>3, <2>2 DEF hist, n
<1>4. CASE e.action \notin CallActions
  <2>1. m \in 0 .. Len(hist)
    BY <1>1, <1>2
  <2>2. m # 0 => hist[m].action \in CallActions
    BY <1>1, <1>2
  <2>3. ASSUME NEW i \in DOMAIN hist, i > m PROVE hist[i].action \notin CallActions
    <3>1. i \in 1 .. n \/ i = n + 1
      BY <1>1
    <3> QED
      BY <1>1, <1>2, <1>4, <2>3, <3>1
  <2>4. LastCallIndexOf(hist) = m
    BY <1>1, <2>1, <2>2, <2>3, LastCallUnique
  <2> QED
    BY <1>4, <2>4 DEF hist, m
<1> QED
  BY <1>3, <1>4

\* The places of the answers to the last call in a history.
AnswersIn(hist, p) ==
    {i \in DOMAIN hist : /\ i > LastCallIndexOf(hist)
                         /\ hist[i].player = p
                         /\ hist[i].action \in Responses}

\* A call is unanswered; an answer is one more of its player; a pass is none.
LEMMA AnswersOfAppend ==
    ASSUME NEW H \in Seq(TurnEntry), NEW e \in TurnEntry, NEW q
    PROVE  AnswersIn(Append(H, e), q) =
              IF e.action \in CallActions THEN {}
              ELSE IF e.action \in Responses /\ e.player = q
                THEN AnswersIn(H, q) \union {Len(H) + 1}
              ELSE AnswersIn(H, q)
<1> DEFINE hist == Append(H, e)
           n == Len(H)
           m == LastCallIndexOf(H)
<1>1. /\ hist \in Seq(TurnEntry) /\ n \in Nat
      /\ DOMAIN H = 1 .. n /\ DOMAIN hist = 1 .. n + 1
      /\ \A i \in 1 .. n : hist[i] = H[i]
      /\ hist[n + 1] = e
  BY AppendEntry
<1>2. m \in 0 .. n
  BY <1>1, LastCallIs
<1>3. LastCallIndexOf(hist) = IF e.action \in CallActions THEN n + 1 ELSE m
  BY LastCallOfAppend
<1> HIDE DEF hist, n, m
<1>4. CASE e.action \in CallActions
  <2>1. \A i \in DOMAIN hist : ~(i > LastCallIndexOf(hist))
    BY <1>1, <1>3, <1>4
  <2>2. AnswersIn(hist, q) = {}
    BY <2>1 DEF AnswersIn
  <2> QED
    BY <1>4, <2>2 DEF hist
<1>5. CASE e.action \notin CallActions
  <2>1. LastCallIndexOf(hist) = m
    BY <1>3, <1>5
  <2>2. ASSUME NEW i
        PROVE  i \in AnswersIn(hist, q) <=>
                 i \in AnswersIn(H, q) \/ (i = n + 1 /\ e.action \in Responses /\ e.player = q)
    <3>1. CASE i \in 1 .. n
      <4>1. i # n + 1 /\ i \in DOMAIN hist /\ i \in DOMAIN H /\ hist[i] = H[i]
        BY <1>1, <3>1
      <4> QED
        BY <2>1, <4>1 DEF AnswersIn, m
    <3>2. CASE i = n + 1
      <4>1. i \in DOMAIN hist /\ i \notin DOMAIN H /\ hist[i] = e /\ i > m
        BY <1>1, <1>2, <3>2
      <4> QED
        BY <2>1, <3>2, <4>1 DEF AnswersIn
    <3>3. CASE i \notin 1 .. n + 1
      <4>1. i \notin DOMAIN hist /\ i \notin DOMAIN H /\ i # n + 1
        BY <1>1, <3>3
      <4> QED
        BY <4>1 DEF AnswersIn
    <3> QED
      BY <1>1, <3>1, <3>2, <3>3
  <2>3. CASE e.action \in Responses /\ e.player = q
    <3>1. AnswersIn(hist, q) = AnswersIn(H, q) \union {n + 1}
      BY <2>2, <2>3
    <3> QED
      BY <1>5, <2>3, <3>1 DEF hist, n
  <2>4. CASE ~(e.action \in Responses /\ e.player = q)
    <3>1. AnswersIn(hist, q) = AnswersIn(H, q)
      BY <2>2, <2>4
    <3> QED
      BY <1>5, <2>4, <3>1 DEF hist
  <2> QED
    BY <2>3, <2>4
<1> QED
  BY <1>4, <1>5

\* Each of those who responded answered the last call once, and nobody else did.
AnswersMatch ==
    ~GameOver /\ currentHand # NoHand =>
        \A p \in Players :
            IF p \in respondedPlayers \ {lastCallerId}
              THEN \E i : AnswersIn(turnHistory, p) = {i}
              ELSE AnswersIn(turnHistory, p) = {}

\* A pass ends the round.
NoPassYet ==
    roundPhase # "RESOLVING" =>
        \A i \in DOMAIN turnHistory : turnHistory[i].action # "LAST_CHANCE_PASS"

HistInv == AnswersMatch /\ NoPassYet

\* Nobody comes back into the game, so a game that is over stays so.
LEMMA OverStaysOver ==
    ASSUME TypeOK, [Next]_vars, GameOver
    PROVE  GameOver'
<1>1. ActivePlayers' \subseteq ActivePlayers
  <2>1. CASE \A p \in ActivePlayers' : p \in ActivePlayers
    BY <2>1
  <2>2. ASSUME NEW elim \in [Players -> BOOLEAN], NEW hist, ResolveRound(elim, hist),
               StillIn(elim) \subseteq ActivePlayers
        PROVE  ActivePlayers' \subseteq ActivePlayers
    BY <2>2 DEF ResolveRound, ActivePlayers, StillIn
  <2> QED
    BY <2>1, <2>2, ScoreSteps
<1>2. ActivePlayers \in SUBSET Players
  BY DEF ActivePlayers, StillIn
<1>3. Cardinality(ActivePlayers') <= Cardinality(ActivePlayers)
      /\ Cardinality(ActivePlayers') \in Int /\ Cardinality(ActivePlayers) \in Int
  BY <1>1, <1>2, FS_Subset, PlayersFinite
<1> QED
  BY <1>3 DEF GameOver

\* Answering adds the answer to those of the player who gave it, who had none.
LEMMA AnswerHist ==
    ASSUME TypeOK, TurnInv, HistInv, GameOver => GameOver',
           NEW p \in Players, MayTakeTurn(p), currentHand # NoHand, NEW a \in Responses,
           turnHistory' = Append(turnHistory, Entry(p, a, NoHand)),
           respondedPlayers' = WithAnswer(p), UNCHANGED <<currentHand, lastCallerId>>
    PROVE  HistInv'
<1> DEFINE e == Entry(p, a, NoHand)
<1>1. /\ e \in TurnEntry /\ e.player = p /\ e.action = a
      /\ a \notin CallActions /\ a # "LAST_CHANCE_PASS"
      /\ turnHistory \in Seq(TurnEntry)
  BY DEF Entry, TurnEntry, TurnActions, Responses, CallActions, TypeOK
<1>2. NoPassYet'
  <2>1. /\ DOMAIN turnHistory' = 1 .. Len(turnHistory) + 1 /\ Len(turnHistory) \in Nat
        /\ DOMAIN turnHistory = 1 .. Len(turnHistory)
        /\ \A i \in 1 .. Len(turnHistory) : turnHistory'[i] = turnHistory[i]
        /\ turnHistory'[Len(turnHistory) + 1] = e
    BY <1>1, AppendEntry
  <2>2. \A i \in DOMAIN turnHistory : turnHistory[i].action # "LAST_CHANCE_PASS"
    BY DEF HistInv, NoPassYet, MayTakeTurn
  <2> QED
    BY <1>1, <2>1, <2>2 DEF NoPassYet
<1>3. CASE GameOver
  BY <1>2, <1>3 DEF HistInv, AnswersMatch
<1>4. CASE ~GameOver
  <2>1. p \notin respondedPlayers \union {lastCallerId}
    BY <1>4 DEF TurnInv, TurnIsAskedUpTo, AskedUpTo, MayTakeTurn, AwaitsTurn
  <2>2. ASSUME NEW q \in Players
        PROVE  AnswersIn(turnHistory', q) =
                  IF q = p THEN AnswersIn(turnHistory, q) \union {Len(turnHistory) + 1}
                  ELSE AnswersIn(turnHistory, q)
    <3> HIDE DEF e
    <3>1. turnHistory' = Append(turnHistory, e)
      BY DEF e
    <3> QED
      BY <1>1, <3>1, AnswersOfAppend
  <2>3. ASSUME NEW q \in Players
        PROVE  IF q \in respondedPlayers' \ {lastCallerId'}
                 THEN \E i : AnswersIn(turnHistory', q) = {i}
                 ELSE AnswersIn(turnHistory', q) = {}
    <3>1. IF q \in respondedPlayers \ {lastCallerId}
            THEN \E i : AnswersIn(turnHistory, q) = {i}
            ELSE AnswersIn(turnHistory, q) = {}
      BY <1>4 DEF HistInv, AnswersMatch
    <3>2. CASE q = p
      <4>1. AnswersIn(turnHistory', q) = {Len(turnHistory) + 1}
        BY <2>1, <2>2, <3>1, <3>2
      <4> QED
        BY <2>1, <3>2, <4>1 DEF WithAnswer
    <3>3. CASE q # p
      <4>1. AnswersIn(turnHistory', q) = AnswersIn(turnHistory, q)
        BY <2>2, <3>3
      <4> QED
        BY <3>1, <3>3, <4>1 DEF WithAnswer
    <3> QED
      BY <3>2, <3>3
  <2> QED
    BY <1>2, <2>3 DEF HistInv, AnswersMatch
<1> QED
  BY <1>3, <1>4

\* A call starts the answers anew.
LEMMA CallHist ==
    ASSUME TypeOK, HistInv, NEW p \in Players, NEW h \in Hands, NEW a \in CallActions,
           AcceptCall(p, h, a), roundPhase # "RESOLVING"
    PROVE  HistInv'
<1> DEFINE e == Entry(p, a, h)
<1>1. /\ e \in TurnEntry /\ e.action = a /\ a # "LAST_CHANCE_PASS"
      /\ turnHistory \in Seq(TurnEntry) /\ turnHistory' = Append(turnHistory, e)
  BY DEF Entry, TurnEntry, TurnActions, CallActions, TypeOK, AcceptCall
<1> HIDE DEF e
<1>2. NoPassYet'
  <2>1. /\ DOMAIN turnHistory' = 1 .. Len(turnHistory) + 1 /\ Len(turnHistory) \in Nat
        /\ DOMAIN turnHistory = 1 .. Len(turnHistory)
        /\ \A i \in 1 .. Len(turnHistory) : turnHistory'[i] = turnHistory[i]
        /\ turnHistory'[Len(turnHistory) + 1] = e
    BY <1>1, AppendEntry
  <2>2. \A i \in DOMAIN turnHistory : turnHistory[i].action # "LAST_CHANCE_PASS"
    BY DEF HistInv, NoPassYet
  <2> QED
    BY <1>1, <2>1, <2>2 DEF NoPassYet
<1>3. \A q : AnswersIn(turnHistory', q) = {}
  BY <1>1, AnswersOfAppend
<1>4. respondedPlayers' \ {lastCallerId'} = {}
  BY DEF AcceptCall
<1>5. AnswersMatch'
  BY <1>3, <1>4 DEF AnswersMatch
<1> QED
  BY <1>2, <1>5 DEF HistInv

\* Passing on the last chance is no answer.
LEMMA PassHist ==
    ASSUME TypeOK, HistInv, GameOver => GameOver', NEW p \in Players, HandleLastChancePass(p)
    PROVE  HistInv'
<1> DEFINE e == Entry(p, "LAST_CHANCE_PASS", NoHand)
<1>1. /\ e \in TurnEntry /\ e.action = "LAST_CHANCE_PASS"
      /\ e.action \notin CallActions /\ e.action \notin Responses
      /\ turnHistory \in Seq(TurnEntry) /\ turnHistory' = Append(turnHistory, e)
      /\ roundPhase' = "RESOLVING"
      /\ UNCHANGED <<currentHand, lastCallerId, respondedPlayers>>
  BY DEF Entry, TurnEntry, TurnActions, CallActions, Responses, TypeOK, HandleLastChancePass,
         ResolveRound
<1> HIDE DEF e
<1>2. \A q : AnswersIn(turnHistory', q) = AnswersIn(turnHistory, q)
  BY <1>1, AnswersOfAppend
<1>3. AnswersMatch'
  BY <1>1, <1>2 DEF HistInv, AnswersMatch
<1> QED
  BY <1>1, <1>3 DEF HistInv, NoPassYet

\* A step that writes nothing into the round leaves its answers.
LEMMA SameHist ==
    ASSUME HistInv, GameOver => GameOver',
           UNCHANGED <<currentHand, lastCallerId, respondedPlayers, turnHistory>>,
           roundPhase' # "RESOLVING" => roundPhase # "RESOLVING"
    PROVE  HistInv'
BY DEF HistInv, AnswersMatch, NoPassYet, AnswersIn

\* No step breaks the book-keeping of the answers.
LEMMA HistStep ==
    ASSUME TypeOK, TurnInv, HistInv, [Next]_vars
    PROVE  HistInv'
<1>0. GameOver => GameOver'
  BY OverStaysOver
<1>1. ASSUME NEW p \in Players, NEW h \in Hands, HandleCall(p, h)
      PROVE  HistInv'
  BY <1>1, CallHist DEF HandleCall, MayTakeTurn, CallActions
<1>2. ASSUME NEW p \in Players, HandleBull(p)
      PROVE  HistInv'
  <2>1. "BULL" \in Responses
    BY DEF Responses
  <2> QED
    BY <1>0, <1>2, <2>1, AnswerHist DEF HandleBull
<1>3. ASSUME NEW p \in Players, HandleTrue(p)
      PROVE  HistInv'
  <2>1. "TRUE" \in Responses /\ currentHand # NoHand
    BY <1>3 DEF Responses, HandleTrue, TurnInv, AnswersNeedHand
  <2> QED
    BY <1>0, <1>3, <2>1, AnswerHist DEF HandleTrue
<1>4. ASSUME NEW p \in Players, NEW h \in Hands, HandleLastChanceRaise(p, h)
      PROVE  HistInv'
  BY <1>4, CallHist DEF HandleLastChanceRaise, CallActions
<1>5. ASSUME NEW p \in Players, HandleLastChancePass(p)
      PROVE  HistInv'
  BY <1>0, <1>5, PassHist
<1>6. ASSUME NEW p \in Leavers, EliminatePlayer(p)
      PROVE  HistInv'
  <2>1. /\ UNCHANGED <<currentHand, lastCallerId, respondedPlayers, turnHistory>>
        /\ roundPhase' # "RESOLVING" => roundPhase # "RESOLVING"
    BY <1>6 DEF EliminatePlayer, turnVars, ResolveRound, OfferLastChance
  <2> QED
    BY <1>0, <2>1, SameHist
<1>7. CASE StartNextRound
  <2>1. CASE GameOver
    <3>1. /\ UNCHANGED <<currentHand, lastCallerId, respondedPlayers, turnHistory>>
          /\ roundPhase' = roundPhase
      BY <1>7, <2>1 DEF StartNextRound, turnVars
    <3> QED
      BY <1>0, <3>1, SameHist
  <2>2. CASE ~GameOver
    BY <1>7, <2>2 DEF StartNextRound, HistInv, AnswersMatch, NoPassYet
  <2> QED
    BY <2>1, <2>2
<1>8. CASE Restore \/ UNCHANGED vars
  BY <1>0, <1>8, SameHist DEF Restore, turnVars, vars
<1> QED
  BY <1>1, <1>2, <1>3, <1>4, <1>5, <1>6, <1>7, <1>8 DEF Next, TurnAction

\* The answers of a round are kept throughout.
THEOREM AnswersKept == Spec => []HistInv
<1>1. Init => HistInv
  BY DEF Init, HistInv, AnswersMatch, NoPassYet
<1> QED
  BY <1>1, HistStep, TypeCorrect, TurnOrderKept, PTL DEF Spec

\* Nobody answers the same call twice, and the caller never answers it.
THEOREM AnswersAreSingle == Spec => []OneAnswerPerCall
<1>1. HistInv => OneAnswerPerCall
  <2> SUFFICES ASSUME HistInv, ~GameOver, currentHand # NoHand, NEW p \in Players
               PROVE  Cardinality(AnswersOf(p)) <= IF p = lastCallerId THEN 0 ELSE 1
    BY DEF OneAnswerPerCall
  <2>1. AnswersOf(p) = AnswersIn(turnHistory, p)
    BY DEF AnswersOf, AnswersIn, CallAt
  <2>2. CASE \E i : AnswersOf(p) = {i} /\ p # lastCallerId
    BY <2>2, FS_Singleton
  <2>3. CASE AnswersOf(p) = {}
    BY <2>3, FS_EmptySet
  <2> QED
    BY <2>1, <2>2, <2>3 DEF HistInv, AnswersMatch
<1> QED
  BY <1>1, AnswersKept, PTL

-----------------------------------------------------------------------------
(* The penalties.                                                          *)

\* Since the last call, everybody but the caller has done nothing but answer.
OthersOnlyAnswer(hist) ==
    \A i \in DOMAIN hist :
        i > LastCallIndexOf(hist) /\ hist[i].player # lastCallerId => hist[i].action \in Responses

LEMMA NoPassOnlyAnswers ==
    ASSUME NEW hist \in Seq(TurnEntry),
           \A i \in DOMAIN hist :
               hist[i].action = "LAST_CHANCE_PASS" => hist[i].player = lastCallerId
    PROVE  OthersOnlyAnswer(hist)
<1> SUFFICES ASSUME NEW i \in DOMAIN hist, i > LastCallIndexOf(hist),
                    hist[i].player # lastCallerId
             PROVE  hist[i].action \in Responses
  BY DEF OthersOnlyAnswer
<1>1. hist[i].action \notin CallActions
  BY LastCallIs
<1>2. hist[i] \in TurnEntry
  OBVIOUS
<1>3. hist[i].action \in TurnActions
  BY <1>2 DEF TurnEntry
<1> QED
  BY <1>1, <1>3 DEF TurnActions

\* A player with one answer to the last call: it is the player's last action of the round.
LEMMA LastActionIsAnswer ==
    ASSUME NEW hist \in Seq(TurnEntry), NEW p \in Players, p # lastCallerId,
           OthersOnlyAnswer(hist), NEW i, AnswersIn(hist, p) = {i}
    PROVE  LastAction(hist, p) = hist[i].action /\ hist[i].action \in Responses
<1> DEFINE own == {j \in DOMAIN hist : hist[j].player = p}
<1>1. /\ i \in DOMAIN hist /\ i > LastCallIndexOf(hist)
      /\ hist[i].player = p /\ hist[i].action \in Responses
  BY DEF AnswersIn
<1>2. own \subseteq Int /\ LastCallIndexOf(hist) \in Int /\ i \in own
  BY <1>1, LastCallIs
<1>3. ASSUME NEW j \in own PROVE i >= j
  <2> SUFFICES ASSUME j > i PROVE FALSE
    BY <1>2
  <2>1. j > LastCallIndexOf(hist)
    BY <1>1, <1>2
  <2>2. j \in AnswersIn(hist, p)
    BY <2>1 DEF AnswersIn, OthersOnlyAnswer
  <2>3. j = i
    BY <2>2
  <2> QED
    BY <1>2, <2>3
<1>4. Max(own) = i
  <2>1. Max(own) \in own /\ \A j \in own : Max(own) >= j
    BY <1>2, <1>3 DEF Max
  <2>2. Max(own) >= i /\ i >= Max(own)
    BY <1>2, <1>3, <2>1
  <2> QED
    BY <1>2, <2>1, <2>2
<1>5. LastAction(hist, p) = hist[Max(own)].action
  BY <1>2 DEF LastAction
<1> QED
  BY <1>1, <1>4, <1>5

\* A reveal after which the game goes on punishes by the answers to the last call.
LEMMA RevealPenalties ==
    ASSUME TypeOK, TypeOK', HistInv', NEW elim \in [Players -> BOOLEAN],
           NEW hist, hist = turnHistory', ResolveRound(elim, hist), lastCallerId' = lastCallerId,
           currentHand' # NoHand, OthersOnlyAnswer(hist),
           ~GameOver' => StillIn(elim) \subseteq respondedPlayers' \union {lastCallerId}
    PROVE  PenaltiesFollowAnswers'
<1> DEFINE in == StillIn(elim)
<1>1. PICK handExists \in BOOLEAN :
        LET atLimit == AtLimit(in)
            penalized == Penalized(in, {p \in in : Incorrect(hist, handExists, p)})
        IN  /\ isEliminated' = [p \in Players |-> elim[p] \/ p \in penalized \intersect atLimit]
            /\ lastRoundResult' = [handExists |-> handExists,
                                   penalized |-> penalized,
                                   eliminated |-> penalized \intersect atLimit]
            /\ turnResult' = IF Cardinality(in \ (penalized \intersect atLimit)) <= 1
                               THEN "game_over" ELSE "resolve"
  BY DEF ResolveRound
<1> DEFINE wrong == {p \in in : Incorrect(hist, handExists, p)}
           penalized == Penalized(in, wrong)
           eliminated == penalized \intersect AtLimit(in)
<1>2. penalized \in {wrong, {}} /\ (penalized # wrong => wrong = in) /\ wrong \subseteq in
  BY DEF Penalized
<1>3. ActivePlayers' = in \ eliminated /\ in \subseteq Players
  BY <1>1 DEF ActivePlayers, StillIn
<1>4. lastRoundResult'.handExists = handExists /\ lastRoundResult'.penalized = penalized
      /\ lastRoundResult'.eliminated = eliminated
  BY <1>1
<1>5. InTheReveal' = in
  BY <1>2, <1>3, <1>4 DEF InTheReveal
<1> SUFFICES ASSUME turnResult' = "resolve" PROVE PenaltiesFollowAnswers'
  BY DEF PenaltiesFollowAnswers
<1>6. ~GameOver'
  BY <1>1, <1>3 DEF GameOver
<1>7. ASSUME NEW p \in in, p # lastCallerId
      PROVE  /\ AnswersOf(p)' # {}
             /\ Incorrect(hist, handExists, p) <=> (Believed(p)' # handExists)
  <2>1. p \in respondedPlayers' \ {lastCallerId'} /\ p \in Players
    BY <1>3, <1>6, <1>7
  <2>2. PICK i : AnswersIn(hist, p) = {i}
    BY <1>6, <2>1 DEF HistInv, AnswersMatch
  <2>3. AnswersOf(p)' = {i}
    BY <2>2 DEF AnswersOf, AnswersIn, CallAt
  <2>4. hist \in Seq(TurnEntry)
    BY DEF TypeOK
  <2>5. LastAction(hist, p) = hist[i].action /\ hist[i].action \in Responses
    BY <1>7, <2>1, <2>2, <2>4, LastActionIsAnswer
  <2>6. Believed(p)' <=> hist[i].action = "TRUE"
    BY <2>3 DEF Believed
  <2>7. CASE hist[i].action = "TRUE"
    <3>1. Incorrect(hist, handExists, p) = ~handExists
      BY <1>7, <2>5, <2>7 DEF Incorrect
    <3>2. Believed(p)'
      BY <2>6, <2>7
    <3> QED
      BY <2>3, <3>1, <3>2 DEF Believed
  <2>8. CASE hist[i].action = "BULL"
    <3>1. Incorrect(hist, handExists, p) = handExists
      BY <1>7, <2>5, <2>8 DEF Incorrect
    <3>2. ~Believed(p)'
      BY <2>6, <2>8
    <3> QED
      BY <2>3, <3>1, <3>2 DEF Believed
  <2> QED
    BY <2>5, <2>7, <2>8 DEF Responses
<1>8. wrong = {p \in in : IF p = lastCallerId THEN ~handExists ELSE Believed(p)' # handExists}
  <2>1. ASSUME NEW p \in in
        PROVE  Incorrect(hist, handExists, p)
                 <=> (IF p = lastCallerId THEN ~handExists ELSE Believed(p)' # handExists)
    BY <1>7, <2>1 DEF Incorrect
  <2> QED
    BY <2>1
<1>9. \A p \in in \ {lastCallerId} : AnswersOf(p)' # {}
  BY <1>7
<1> HIDE DEF in, wrong, penalized, eliminated
<1> QED
  BY <1>2, <1>4, <1>5, <1>8, <1>9 DEF PenaltiesFollowAnswers

\* An operation that does not end in a reveal with survivors leaves nothing to check.
LEMMA NoReveal ==
    ASSUME roundPhase' # "RESOLVING" \/ turnResult' # "resolve"
    PROVE  PenaltiesFollowAnswers'
BY DEF PenaltiesFollowAnswers

\* A believer's or doubter's answer that ends in a reveal.
LEMMA AnswerReveals ==
    ASSUME TypeOK, TypeOK', TurnInv, HistInv, HistInv', NEW p \in Players, MayTakeTurn(p),
           currentHand # NoHand, NEW a \in Responses,
           AllNonCallersResponded(ActivePlayers, WithAnswer(p)),
           turnHistory' = Append(turnHistory, Entry(p, a, NoHand)),
           respondedPlayers' = WithAnswer(p), UNCHANGED <<currentHand, lastCallerId>>,
           ResolveRound(isEliminated, Append(turnHistory, Entry(p, a, NoHand)))
    PROVE  PenaltiesFollowAnswers'
<1> DEFINE hist == Append(turnHistory, Entry(p, a, NoHand))
<1>1. hist = turnHistory' /\ hist \in Seq(TurnEntry)
  BY DEF TypeOK
<1>2. OthersOnlyAnswer(hist)
  <2>1. ASSUME NEW i \in DOMAIN hist PROVE hist[i].action # "LAST_CHANCE_PASS"
    <3>1. /\ Len(turnHistory) \in Nat /\ DOMAIN turnHistory = 1 .. Len(turnHistory)
          /\ DOMAIN hist = 1 .. Len(turnHistory) + 1
          /\ \A j \in 1 .. Len(turnHistory) : hist[j] = turnHistory[j]
          /\ hist[Len(turnHistory) + 1] = Entry(p, a, NoHand)
      <4>1. Entry(p, a, NoHand) \in TurnEntry
        BY DEF Entry, TurnEntry, TurnActions
      <4> QED
        BY <4>1, AppendEntry DEF TypeOK
    <3>2. \A j \in DOMAIN turnHistory : turnHistory[j].action # "LAST_CHANCE_PASS"
      BY DEF HistInv, NoPassYet, MayTakeTurn
    <3>3. Entry(p, a, NoHand).action # "LAST_CHANCE_PASS"
      BY DEF Entry, Responses
    <3> QED
      BY <3>1, <3>2, <3>3
  <2> QED
    BY <1>1, <2>1, NoPassOnlyAnswers
<1>3. StillIn(isEliminated) \subseteq respondedPlayers' \union {lastCallerId}
  BY DEF AllNonCallersResponded, ActivePlayers
<1>4. isEliminated \in [Players -> BOOLEAN]
  BY DEF TypeOK
<1> QED
  BY <1>1, <1>2, <1>3, <1>4, RevealPenalties

\* Only the caller passes.
LEMMA PassOnlyByCaller ==
    ASSUME TypeOK, HistInv, NEW p \in Players, HandleLastChancePass(p)
    PROVE  OthersOnlyAnswer(turnHistory')
<1> DEFINE e == Entry(p, "LAST_CHANCE_PASS", NoHand)
<1>1. e \in TurnEntry /\ e.player = lastCallerId /\ turnHistory' = Append(turnHistory, e)
  BY DEF Entry, TurnEntry, TurnActions, HandleLastChancePass
<1> HIDE DEF e
<1>2. /\ turnHistory' \in Seq(TurnEntry)
      /\ Len(turnHistory) \in Nat /\ DOMAIN turnHistory = 1 .. Len(turnHistory)
      /\ DOMAIN turnHistory' = 1 .. Len(turnHistory) + 1
      /\ \A j \in 1 .. Len(turnHistory) : turnHistory'[j] = turnHistory[j]
      /\ turnHistory'[Len(turnHistory) + 1] = e
  BY <1>1, AppendEntry DEF TypeOK
<1>3. \A j \in DOMAIN turnHistory : turnHistory[j].action # "LAST_CHANCE_PASS"
  BY DEF HistInv, NoPassYet, HandleLastChancePass
<1>4. ASSUME NEW i \in DOMAIN turnHistory', turnHistory'[i].action = "LAST_CHANCE_PASS"
      PROVE  turnHistory'[i].player = lastCallerId
  <2>1. i \notin DOMAIN turnHistory
    BY <1>2, <1>3, <1>4
  <2> QED
    BY <1>1, <1>2, <2>1
<1> QED
  BY <1>2, <1>4, NoPassOnlyAnswers

\* No step leaves a result whose penalties do not follow from the answers.
LEMMA PenaltyStep ==
    ASSUME TypeOK, TypeOK', TurnInv, HistInv, HistInv', PenaltiesFollowAnswers, [Next]_vars
    PROVE  PenaltiesFollowAnswers'
<1>0. GameOver => GameOver'
  BY OverStaysOver
<1>1. ASSUME NEW p \in Players, NEW h \in Hands, HandleCall(p, h) \/ HandleLastChanceRaise(p, h)
      PROVE  PenaltiesFollowAnswers'
  BY <1>1, NoReveal DEF HandleCall, HandleLastChanceRaise
<1>2. ASSUME NEW p \in Players, HandleBull(p)
      PROVE  PenaltiesFollowAnswers'
  <2>1. CASE roundPhase' # "RESOLVING"
    BY <2>1, NoReveal
  <2>2. CASE roundPhase' = "RESOLVING"
    <3>1. /\ AllNonCallersResponded(ActivePlayers, WithAnswer(p))
          /\ ResolveRound(isEliminated, Append(turnHistory, Entry(p, "BULL", NoHand)))
      BY <1>2, <2>2 DEF HandleBull, OfferLastChance
    <3>2. "BULL" \in Responses
      BY DEF Responses
    <3> QED
      BY <1>2, <3>1, <3>2, AnswerReveals DEF HandleBull
  <2> QED
    BY <2>1, <2>2
<1>3. ASSUME NEW p \in Players, HandleTrue(p)
      PROVE  PenaltiesFollowAnswers'
  <2>1. CASE roundPhase' # "RESOLVING"
    BY <2>1, NoReveal
  <2>2. CASE roundPhase' = "RESOLVING"
    <3>1. /\ AllNonCallersResponded(ActivePlayers, WithAnswer(p))
          /\ ResolveRound(isEliminated, Append(turnHistory, Entry(p, "TRUE", NoHand)))
      BY <1>3, <2>2 DEF HandleTrue
    <3>2. "TRUE" \in Responses /\ currentHand # NoHand
      BY <1>3 DEF Responses, HandleTrue, TurnInv, AnswersNeedHand
    <3> QED
      BY <1>3, <3>1, <3>2, AnswerReveals DEF HandleTrue
  <2> QED
    BY <2>1, <2>2
<1>4. ASSUME NEW p \in Players, HandleLastChancePass(p)
      PROVE  PenaltiesFollowAnswers'
  <2> DEFINE hist == Append(turnHistory, Entry(p, "LAST_CHANCE_PASS", NoHand))
  <2>1. /\ hist = turnHistory' /\ hist \in Seq(TurnEntry) /\ ResolveRound(isEliminated, hist)
        /\ p = lastCallerId /\ UNCHANGED <<currentHand, lastCallerId, respondedPlayers>>
        /\ currentHand # NoHand
        /\ isEliminated \in [Players -> BOOLEAN]
    BY <1>4 DEF HandleLastChancePass, TypeOK, TurnInv, AnswersNeedHand
  <2>2. OthersOnlyAnswer(hist)
    BY <1>4, <2>1, PassOnlyByCaller
  <2>3. ~GameOver' => StillIn(isEliminated) \subseteq respondedPlayers' \union {lastCallerId}
    BY <1>0, <1>4, <2>1 DEF HandleLastChancePass, TurnInv, LastChanceIsLast, ActivePlayers
  <2> QED
    BY <2>1, <2>2, <2>3, RevealPenalties
<1>5. ASSUME NEW p \in Leavers, EliminatePlayer(p)
      PROVE  PenaltiesFollowAnswers'
  <2> DEFINE elim == [isEliminated EXCEPT ![p] = TRUE]
  <2>1. UNCHANGED <<turnHistory, currentHand, lastCallerId, respondedPlayers>>
    BY <1>5 DEF EliminatePlayer, turnVars
  <2>2. elim \in [Players -> BOOLEAN] /\ StillIn(elim) \subseteq ActivePlayers
    BY DEF TypeOK, StillIn, ActivePlayers
  <2>3. CASE roundPhase' # "RESOLVING" \/ turnResult' # "resolve"
    BY <2>3, NoReveal
  <2>4. CASE /\ ResolveRound(elim, turnHistory) /\ roundPhase # "RESOLVING"
             /\ currentHand # NoHand
             /\ ~GameOver' => StillIn(elim) \subseteq respondedPlayers \union {lastCallerId}
    <3>1. OthersOnlyAnswer(turnHistory)
      <4>1. \A j \in DOMAIN turnHistory : turnHistory[j].action # "LAST_CHANCE_PASS"
        BY <2>4 DEF HistInv, NoPassYet
      <4> QED
        BY <4>1, NoPassOnlyAnswers DEF TypeOK
    <3> HIDE DEF elim
    <3>2. PICK hist : hist = turnHistory
      OBVIOUS
    <3> QED
      BY <2>1, <2>2, <2>4, <3>1, <3>2, RevealPenalties
  <2>5. CASE /\ ResolveRound(elim, turnHistory)
             /\ roundPhase = "LAST_CHANCE"
    BY <1>0, <2>2, <2>4, <2>5 DEF TurnInv, AnswersNeedHand, LastChanceIsLast
  <2>6. CASE /\ ResolveRound(elim, turnHistory)
             /\ roundPhase # "RESOLVING" /\ currentHand # NoHand
             /\ AllNonCallersResponded(StillIn(elim), respondedPlayers)
    BY <2>4, <2>6 DEF AllNonCallersResponded
  <2>7. \/ turnResult' # "resolve"
        \/ ResolveRound(elim, turnHistory) /\ roundPhase = "LAST_CHANCE"
        \/ /\ ResolveRound(elim, turnHistory)
           /\ roundPhase # "RESOLVING" /\ currentHand # NoHand
           /\ AllNonCallersResponded(StillIn(elim), respondedPlayers)
    BY <1>5 DEF EliminatePlayer, OfferLastChance
  <2> HIDE DEF elim
  <2> QED
    BY <2>3, <2>5, <2>6, <2>7
<1>6. CASE StartNextRound \/ Restore
  BY <1>6, NoReveal DEF StartNextRound, Restore
<1>7. CASE UNCHANGED vars
  <2>1. InTheReveal' = InTheReveal
    BY <1>7 DEF vars, InTheReveal, ActivePlayers, StillIn
  <2>2. ASSUME NEW p PROVE AnswersOf(p)' = AnswersOf(p)
    BY <1>7 DEF vars, AnswersOf, CallAt
  <2>3. ASSUME NEW p PROVE Believed(p)' <=> Believed(p)
    BY <1>7, <2>2 DEF vars, Believed
  <2>4. {p \in InTheReveal' : IF p = lastCallerId' THEN ~lastRoundResult'.handExists
                             ELSE Believed(p)' # lastRoundResult'.handExists}
          = {p \in InTheReveal : IF p = lastCallerId THEN ~lastRoundResult.handExists
                                ELSE Believed(p) # lastRoundResult.handExists}
    BY <1>7, <2>1, <2>3 DEF vars
  <2> QED
    BY <1>7, <2>1, <2>2, <2>4 DEF vars, PenaltiesFollowAnswers
<1> QED
  BY <1>1, <1>2, <1>3, <1>4, <1>5, <1>6, <1>7 DEF Next, TurnAction

\* In a resolved round the penalties are those of the rules, by the answers to the last
\* call, although the code looks at the last action of the whole round.
THEOREM PenaltiesAreDeserved == Spec => []PenaltiesFollowAnswers
<1>1. Init => PenaltiesFollowAnswers
  BY DEF Init, PenaltiesFollowAnswers
<1>2. [](TypeOK /\ TurnInv /\ HistInv) /\ [][Next]_vars /\ PenaltiesFollowAnswers
        => []PenaltiesFollowAnswers
  BY PenaltyStep, PTL
<1> QED
  BY <1>1, <1>2, TypeCorrect, TurnOrderKept, AnswersKept, PTL DEF Spec

-----------------------------------------------------------------------------
(* The memo of the last call.  It may be that of an earlier round, and be  *)
(* wrong; at a small table that makes no difference.                       *)

Seated == ActivePlayers \union respondedPlayers \union ({lastCallerId} \ {NoPlayer})
NoRaiseYet == \A i \in DOMAIN turnHistory : turnHistory[i].action # "LAST_CHANCE_RAISE"

HistoryNeedsHand == currentHand = NoHand => turnHistory = << >>

\* There is one answer for each who responded.
AnswersCounted ==
    roundPhase # "RESOLVING" /\ currentHand # NoHand =>
        /\ CallAt # 0
        /\ Len(turnHistory) - CallAt = Cardinality(respondedPlayers \ {lastCallerId})

\* Until the last chance is used the first answer to a call that can be raised is a doubt.
DoubtComesFirst ==
    NoRaiseYet /\ currentHand # MaxHand /\ roundPhase # "RESOLVING" =>
        /\ roundPhase = "BULL_PHASE" => Len(turnHistory) > CallAt
        /\ \A i \in DOMAIN turnHistory :
              turnHistory[i].action = "TRUE" /\ i > CallAt => i > CallAt + 1

\* A call that was believed and raised all the same was made, doubted, believed and
\* raised by four players.
BeliefNeedsFour ==
    NoRaiseYet /\ roundPhase # "RESOLVING" =>
        \A i \in DOMAIN turnHistory : turnHistory[i].action = "TRUE" /\ i < CallAt =>
            NumPlayers >= 4 /\ (Leavers = {} => Cardinality(ActivePlayers) >= 4)

\* Of whichever round the memo is, as many answers followed its call as there were
\* others then, and there are no more by now.
MemoOfAnswers ==
    lastCallIndexLength # -1 =>
        /\ lastCallIndex \in 1 .. lastCallIndexLength
        /\ lastCallIndexLength - lastCallIndex \in Cardinality(Seated) - 1 .. NumPlayers - 1

\* The last chance was offered after a look at the memo, so that it is of this round.
MemoBeforeRaise ==
    /\ roundPhase = "LAST_CHANCE" => lastCallIndexLength <= Len(turnHistory)
    /\ AwaitsTurn /\ ~NoRaiseYet => lastCallIndexLength < Len(turnHistory)

StaySeated == Leavers = {} /\ roundPhase # "RESOLVING" => Seated = ActivePlayers

MemoFits == /\ HistoryNeedsHand /\ AnswersCounted /\ DoubtComesFirst /\ BeliefNeedsFour
            /\ MemoOfAnswers /\ MemoBeforeRaise /\ StaySeated
MemoInv == ~GameOver => MemoFits

\* Tables at which the memo does no harm.
SmallTable == NumPlayers <= 3 \/ (Leavers = {} /\ NumPlayers <= 5)

\* Those who are seated, of whom each but the caller has answered.
LEMMA SeatedCount ==
    ASSUME NEW S \in SUBSET Players, NEW R \in SUBSET Players, NEW c \in Players, S \subseteq R \union {c}
    PROVE  /\ Cardinality(S \union R \union {c}) - 1 = Cardinality(R \ {c})
           /\ Cardinality(R \ {c}) \in 0 .. NumPlayers - 1
           /\ Cardinality(S) - 1 <= Cardinality(R \ {c})
<1> DEFINE A == R \ {c}
<1>1. S \union R \union {c} = A \union {c} /\ c \notin A /\ A \in SUBSET Players
  OBVIOUS
<1>2. IsFiniteSet(A) /\ Cardinality(A) \in Nat
  BY <1>1, PlayersFinite
<1>3. Cardinality(A \union {c}) = Cardinality(A) + 1 /\ IsFiniteSet(A \union {c})
  BY <1>1, <1>2, FS_AddElement
<1>4. Cardinality(A \union {c}) \in 0 .. NumPlayers /\ A \union {c} \in SUBSET Players
  BY <1>1, PlayersFinite
<1>5. Cardinality(S) <= Cardinality(A \union {c}) /\ Cardinality(S) \in Nat
  BY <1>1, <1>3, FS_Subset, PlayersFinite
<1> HIDE DEF A
<1>6. /\ Cardinality(A \union {c}) - 1 = Cardinality(A)
      /\ Cardinality(A) \in 0 .. NumPlayers - 1
      /\ Cardinality(S) - 1 <= Cardinality(A)
  BY <1>2, <1>3, <1>4, <1>5, NumPlayersAssumption
<1> QED
  BY <1>1, <1>6 DEF A

\* An answer is one entry and one player more.
LEMMA AnswerCounted ==
    ASSUME TypeOK, TurnInv, AnswersCounted, ~GameOver, NEW p \in Players, MayTakeTurn(p),
           currentHand # NoHand, NEW a \in Responses,
           turnHistory' = Append(turnHistory, Entry(p, a, NoHand))
    PROVE  /\ turnHistory' \in Seq(TurnEntry) /\ Len(turnHistory') = Len(turnHistory) + 1
           /\ LastCallIndexOf(turnHistory') = CallAt /\ CallAt \in 1 .. Len(turnHistory)
           /\ DOMAIN turnHistory = 1 .. Len(turnHistory) /\ DOMAIN turnHistory' = 1 .. Len(turnHistory) + 1
           /\ \A i \in DOMAIN turnHistory : turnHistory'[i] = turnHistory[i]
           /\ turnHistory'[Len(turnHistory) + 1].action = a
           /\ p \notin respondedPlayers \union {lastCallerId} /\ lastCallerId \in Players
           /\ Len(turnHistory') - CallAt = Cardinality(WithAnswer(p) \ {lastCallerId})
<1> DEFINE e == Entry(p, a, NoHand)
<1>1. e \in TurnEntry /\ e.action = a /\ a \notin CallActions /\ turnHistory \in Seq(TurnEntry)
  BY DEF Entry, TurnEntry, TurnActions, Responses, CallActions, TypeOK
<1> HIDE DEF e
<1>2. turnHistory' = Append(turnHistory, e)
  BY DEF e
<1>3. /\ turnHistory' \in Seq(TurnEntry) /\ Len(turnHistory') = Len(turnHistory) + 1 /\ Len(turnHistory) \in Nat
      /\ DOMAIN turnHistory = 1 .. Len(turnHistory) /\ DOMAIN turnHistory' = 1 .. Len(turnHistory) + 1
      /\ \A i \in DOMAIN turnHistory : turnHistory'[i] = turnHistory[i]
      /\ turnHistory'[Len(turnHistory) + 1].action = a
  BY <1>1, <1>2, AppendEntry
<1>4. LastCallIndexOf(turnHistory') = CallAt
  BY <1>1, <1>2, LastCallOfAppend DEF CallAt
<1>5. CallAt \in 0 .. Len(turnHistory)
  BY <1>1, LastCallIs DEF CallAt
<1>6. CallAt # 0 /\ Len(turnHistory) - CallAt = Cardinality(respondedPlayers \ {lastCallerId})
  BY DEF AnswersCounted, MayTakeTurn
<1>7. p \notin respondedPlayers \union {lastCallerId} /\ lastCallerId \in Players
  BY DEF TurnInv, HandHasCaller, TurnIsAskedUpTo, AskedUpTo, MayTakeTurn, AwaitsTurn
<1>8. Cardinality(WithAnswer(p) \ {lastCallerId}) = Cardinality(respondedPlayers \ {lastCallerId}) + 1
  <2> DEFINE A == respondedPlayers \ {lastCallerId}
  <2>1. WithAnswer(p) \ {lastCallerId} = A \union {p} /\ p \notin A /\ A \in SUBSET Players
    BY <1>7 DEF WithAnswer, TypeOK
  <2>2. IsFiniteSet(A)
    BY <2>1, PlayersFinite
  <2> QED
    BY <2>1, <2>2, FS_AddElement
<1>9. Len(turnHistory') - CallAt = Cardinality(WithAnswer(p) \ {lastCallerId})
  <2>1. Cardinality(respondedPlayers \ {lastCallerId}) \in Nat
    BY PlayersFinite DEF TypeOK
  <2> QED
    BY <1>3, <1>5, <1>6, <1>8, <2>1
<1> QED
  BY <1>3, <1>4, <1>5, <1>6, <1>7, <1>9

\* When everybody has answered the engine asks whether hist has a TRUE after its last call:
\* S are those still in, R those who have responded, and all of S have.
AllHaveAnswered(hist, S, R) ==
    /\ LastCallIndexOf(hist) = CallAt /\ CallAt # 0
    /\ Len(turnHistory) <= Len(hist) /\ CallAt <= Len(turnHistory)
    /\ \A i \in DOMAIN turnHistory : hist[i] = turnHistory[i]
    /\ lastCallerId \in Players
    /\ S \subseteq R \union {lastCallerId}
    /\ S \union R \union {lastCallerId} \subseteq Seated
    /\ Len(hist) - CallAt = Cardinality(R \ {lastCallerId})
    /\ lastCallIndexLength = Len(hist) => NoRaiseYet

\* At a small table the memo answers the question as the scan would.
LEMMA MemoServes ==
    ASSUME SmallTable, TypeOK, MemoOfAnswers, BeliefNeedsFour, ~GameOver, roundPhase # "RESOLVING",
           NEW hist \in Seq(TurnEntry), NEW S \in SUBSET Players, NEW R \in SUBSET Players,
           S = ActivePlayers \/ Leavers # {}, AllHaveAnswered(hist, S, R), RememberLastCall(hist)
    PROVE  TrueAfter(hist, lastCallIndex') <=> TrueAfter(hist, CallAt)
<1>0. /\ LastCallIndexOf(hist) = CallAt /\ CallAt # 0
      /\ Len(turnHistory) <= Len(hist) /\ CallAt <= Len(turnHistory)
      /\ \A i \in DOMAIN turnHistory : hist[i] = turnHistory[i]
      /\ lastCallerId \in Players
      /\ S \subseteq R \union {lastCallerId}
      /\ S \union R \union {lastCallerId} \subseteq Seated
      /\ Len(hist) - CallAt = Cardinality(R \ {lastCallerId})
      /\ lastCallIndexLength = Len(hist) => NoRaiseYet
      /\ turnHistory \in Seq(TurnEntry) /\ Seated \in SUBSET Players
  BY DEF AllHaveAnswered, Seated, ActivePlayers, StillIn, TypeOK
<1> DEFINE k == CallAt
           m == lastCallIndex
           n == Len(hist)
           U == S \union R \union {lastCallerId}
<1>1. CASE lastCallIndexLength # Len(hist)
  BY <1>0, <1>1 DEF RememberLastCall
<1>2. CASE lastCallIndexLength = Len(hist)
  <2>1. lastCallIndex' = m
    BY <1>2 DEF RememberLastCall
  <2>2. n \in Nat /\ DOMAIN hist = 1 .. n /\ Len(turnHistory) \in Nat /\ k \in 1 .. n
        /\ DOMAIN turnHistory = 1 .. Len(turnHistory)
    <3>1. k \in 0 .. Len(hist)
      BY <1>0, LastCallIs
    <3> QED
      BY <1>0, <3>1
  <2>3. /\ Cardinality(U) - 1 = n - k
        /\ n - k <= NumPlayers - 1
        /\ Cardinality(S) - 1 <= n - k
    <3>1. /\ Cardinality(S \union R \union {lastCallerId}) - 1 = Cardinality(R \ {lastCallerId})
          /\ Cardinality(R \ {lastCallerId}) \in 0 .. NumPlayers - 1
          /\ Cardinality(S) - 1 <= Cardinality(R \ {lastCallerId})
      BY <1>0, SeatedCount
    <3>2. Cardinality(R \ {lastCallerId}) = n - k
      BY <1>0, <2>2
    <3> QED
      BY <3>1, <3>2, NumPlayersAssumption
  <2>4. Cardinality(U) <= Cardinality(Seated) /\ Cardinality(U) \in Nat /\ Cardinality(Seated) \in Nat
        /\ Cardinality(S) \in Nat
    BY <1>0, PlayersFinite, FS_Subset
  <2>5. m \in 1 .. n /\ n - m \in Cardinality(Seated) - 1 .. NumPlayers - 1
    BY <1>2, <2>2 DEF MemoOfAnswers
  <2> HIDE DEF U, k, m, n
  <2>6. m <= k
    BY <2>2, <2>3, <2>4, <2>5
  <2>7. ASSUME NEW i \in DOMAIN hist, i > m, hist[i].action = "TRUE"
        PROVE  i > k
    <3> SUFFICES ASSUME ~(i > k) PROVE FALSE
      OBVIOUS
    <3>1. hist[k].action \in CallActions
      BY <1>0, <2>2, LastCallIs DEF k
    <3>2. i # k /\ i < k
      <4>1. i # k
        BY <2>7, <3>1 DEF CallActions
      <4> QED
        BY <2>2, <4>1
    <3>3. i \in DOMAIN turnHistory /\ turnHistory[i].action = "TRUE" /\ i < CallAt
      BY <1>0, <2>2, <2>7, <3>2 DEF k
    <3>4. NoRaiseYet
      BY <1>0, <1>2
    <3>5. NumPlayers >= 4 /\ (Leavers = {} => Cardinality(ActivePlayers) >= 4)
      BY <3>3, <3>4 DEF BeliefNeedsFour
    <3>6. NumPlayers <= 5 /\ Cardinality(S) >= 4
      BY <3>5, NumPlayersAssumption DEF SmallTable
    <3>7. n - k >= 3 /\ n - m <= 4
      BY <2>2, <2>3, <2>4, <2>5, <3>6, NumPlayersAssumption
    <3> QED
      BY <2>2, <2>5, <2>7, <3>2, <3>7
  <2>8. TrueAfter(hist, m) <=> TrueAfter(hist, k)
    <3>1. ASSUME TrueAfter(hist, m) PROVE TrueAfter(hist, k)
      <4>1. PICK i \in DOMAIN hist : i > m /\ hist[i].action = "TRUE"
        BY <3>1 DEF TrueAfter
      <4>2. i > k /\ k # 0
        BY <2>2, <2>7, <4>1
      <4> QED
        BY <4>1, <4>2 DEF TrueAfter
    <3>2. ASSUME TrueAfter(hist, k) PROVE TrueAfter(hist, m)
      <4>1. PICK i \in DOMAIN hist : i > k /\ hist[i].action = "TRUE"
        BY <3>2 DEF TrueAfter
      <4>2. i > m /\ m # 0
        BY <2>2, <2>5, <2>6, <4>1
      <4> QED
        BY <4>1, <4>2 DEF TrueAfter
    <3> QED
      BY <3>1, <3>2
  <2> QED
    BY <2>1, <2>8 DEF k
<1> QED
  BY <1>1, <1>2

\* Whichever it is that is remembered, it is a memo of as many answers.
LEMMA MemoRemembered ==
    ASSUME TypeOK, TypeOK', MemoOfAnswers,
           NEW hist \in Seq(TurnEntry), RememberLastCall(hist),
           LastCallIndexOf(hist) # 0, lastCallerId \in Players, lastCallerId' = lastCallerId,
           ActivePlayers' \subseteq respondedPlayers' \union {lastCallerId},
           Len(hist) - LastCallIndexOf(hist) = Cardinality(respondedPlayers' \ {lastCallerId}),
           Seated' \subseteq Seated
    PROVE  MemoOfAnswers'
<1>1. Seated \in SUBSET Players /\ Seated' \in SUBSET Players /\ ActivePlayers' \in SUBSET Players
      /\ respondedPlayers' \in SUBSET Players
  BY DEF Seated, ActivePlayers, StillIn, TypeOK
<1>2. Cardinality(Seated') <= Cardinality(Seated) /\ Cardinality(Seated') \in Nat
      /\ Cardinality(Seated) \in Nat
  BY <1>1, PlayersFinite, FS_Subset
<1>3. Len(hist) \in Nat /\ LastCallIndexOf(hist) \in 1 .. Len(hist)
  <2>1. LastCallIndexOf(hist) \in 0 .. Len(hist)
    BY LastCallIs
  <2> QED
    BY <2>1
<1>4. CASE lastCallIndexLength = Len(hist)
  <2>1. lastCallIndex' = lastCallIndex /\ lastCallIndexLength' = lastCallIndexLength
    BY <1>4 DEF RememberLastCall
  <2>2. /\ lastCallIndex \in 1 .. lastCallIndexLength
        /\ lastCallIndexLength - lastCallIndex \in Cardinality(Seated) - 1 .. NumPlayers - 1
    BY <1>3, <1>4 DEF MemoOfAnswers
  <2>3. lastCallIndexLength - lastCallIndex \in Cardinality(Seated') - 1 .. NumPlayers - 1
    BY <1>2, <1>3, <1>4, <2>2, NumPlayersAssumption
  <2> QED
    BY <2>1, <2>2, <2>3 DEF MemoOfAnswers
<1>5. CASE lastCallIndexLength # Len(hist)
  <2>1. lastCallIndex' = LastCallIndexOf(hist) /\ lastCallIndexLength' = Len(hist)
    BY <1>5 DEF RememberLastCall
  <2>2. Seated' = ActivePlayers' \union respondedPlayers' \union {lastCallerId}
    BY DEF Seated, NoPlayer, Players
  <2>3. /\ Cardinality(Seated') - 1 = Len(hist) - LastCallIndexOf(hist)
        /\ Len(hist) - LastCallIndexOf(hist) \in 0 .. NumPlayers - 1
    <3>0. PICK S \in SUBSET Players, R \in SUBSET Players : S = ActivePlayers' /\ R = respondedPlayers'
      BY <1>1
    <3>1. S \subseteq R \union {lastCallerId}
      BY <3>0
    <3>3. Seated' = S \union R \union {lastCallerId}
      BY <2>2, <3>0
    <3>4. Len(hist) - LastCallIndexOf(hist) = Cardinality(R \ {lastCallerId})
      BY <3>0
    <3>2. /\ Cardinality(S \union R \union {lastCallerId}) - 1 = Cardinality(R \ {lastCallerId})
          /\ Cardinality(R \ {lastCallerId}) \in 0 .. NumPlayers - 1
          /\ Cardinality(S) - 1 <= Cardinality(R \ {lastCallerId})
      BY <3>1, SeatedCount
    <3> QED
      BY <3>2, <3>3, <3>4
  <2>4. lastCallIndexLength' - lastCallIndex' \in Cardinality(Seated') - 1 .. NumPlayers - 1
    BY <1>2, <1>3, <2>1, <2>3, NumPlayersAssumption
  <2> QED
    BY <1>3, <2>1, <2>4 DEF MemoOfAnswers
<1> QED
  BY <1>4, <1>5

\* A call or a raise begins the counting anew.
LEMMA CallMemo ==
    ASSUME TypeOK, TurnInv, MemoFits, ~GameOver, NEW p \in Players, NEW h \in Hands,
           HandleCall(p, h) \/ HandleLastChanceRaise(p, h)
    PROVE  MemoFits'
<1> DEFINE a == IF roundPhase = "LAST_CHANCE" THEN "LAST_CHANCE_RAISE" ELSE "CALL"
           e == Entry(p, a, h)
           n == Len(turnHistory)
<1>1. /\ AcceptCall(p, h, a) /\ roundPhase' \in {"CALLING", "BULL_PHASE"}
      /\ roundPhase \in {"CALLING", "BULL_PHASE", "LAST_CHANCE"} /\ h > currentHand
      /\ roundPhase = "LAST_CHANCE" => p = lastCallerId
      /\ roundPhase # "LAST_CHANCE" =>
            /\ MayTakeTurn(p)
            /\ roundPhase' = "BULL_PHASE" => h = MaxHand
  BY DEF HandleCall, HandleLastChanceRaise, MayTakeTurn
<1>2. /\ e \in TurnEntry /\ e.action = a /\ a \in CallActions /\ turnHistory \in Seq(TurnEntry)
      /\ turnHistory' = Append(turnHistory, e)
  BY <1>1 DEF Entry, TurnEntry, TurnActions, CallActions, TypeOK, AcceptCall
<1>3. /\ currentHand' = h /\ lastCallerId' = p /\ respondedPlayers' = {p}
      /\ UNCHANGED <<isEliminated, lastCallIndex, lastCallIndexLength>>
  BY <1>1 DEF AcceptCall, scoreVars, memoVars
<1>4. ActivePlayers' = ActivePlayers /\ (GameOver' <=> GameOver)
  BY <1>3 DEF ActivePlayers, StillIn, GameOver
<1> HIDE DEF e
<1>5. /\ n \in Nat /\ Len(turnHistory') = n + 1
      /\ DOMAIN turnHistory = 1 .. n /\ DOMAIN turnHistory' = 1 .. n + 1
      /\ \A i \in DOMAIN turnHistory : turnHistory'[i] = turnHistory[i]
      /\ turnHistory'[n + 1] = e
  BY <1>2, AppendEntry
<1>6. CallAt' = n + 1
  BY <1>2, LastCallOfAppend DEF CallAt
<1> HIDE DEF n
<1>7. NoRaiseYet' => NoRaiseYet /\ roundPhase # "LAST_CHANCE"
  <2>1. ASSUME NoRaiseYet', roundPhase = "LAST_CHANCE" PROVE FALSE
    BY <1>2, <1>5, <2>1 DEF NoRaiseYet
  <2>2. NoRaiseYet' => NoRaiseYet
    BY <1>5 DEF NoRaiseYet
  <2> QED
    BY <2>1, <2>2
<1>8. Seated' \subseteq Seated /\ p \in Players \ {NoPlayer}
  <2>1. p \in Players /\ p # NoPlayer
    BY DEF Players, NoPlayer
  <2>2. p \in Seated
    BY <1>1, <2>1 DEF Seated, MayTakeTurn
  <2> QED
    BY <1>3, <1>4, <2>1, <2>2 DEF Seated
<1>9. AnswersCounted'
  <2>1. respondedPlayers' \ {lastCallerId'} = {}
    BY <1>3
  <2>2. Len(turnHistory') - CallAt' = Cardinality({}) /\ CallAt' # 0
    BY <1>5, <1>6, FS_EmptySet
  <2> QED
    BY <2>1, <2>2 DEF AnswersCounted
<1>10. DoubtComesFirst'
  <2>1. NoRaiseYet' /\ currentHand' # MaxHand => roundPhase' # "BULL_PHASE"
    BY <1>1, <1>3, <1>7
  <2>2. \A i \in DOMAIN turnHistory' : ~(i > CallAt')
    BY <1>5, <1>6
  <2> QED
    BY <2>1, <2>2 DEF DoubtComesFirst
<1>11. BeliefNeedsFour'
  <2> SUFFICES ASSUME NoRaiseYet', NEW i \in DOMAIN turnHistory',
                      turnHistory'[i].action = "TRUE", i < CallAt'
               PROVE  NumPlayers >= 4 /\ (Leavers = {} => Cardinality(ActivePlayers) >= 4)
    BY <1>4 DEF BeliefNeedsFour
  <2>1. i \in DOMAIN turnHistory /\ turnHistory[i].action = "TRUE"
    BY <1>5, <1>6
  <2>2. NoRaiseYet /\ MayTakeTurn(p) /\ roundPhase # "RESOLVING"
    BY <1>1, <1>7
  <2>3. CASE i < CallAt
    BY <2>1, <2>2, <2>3 DEF MemoFits, BeliefNeedsFour
  <2>4. CASE ~(i < CallAt)
    <3>1. CallAt \in 0 .. n /\ (CallAt # 0 => turnHistory[CallAt].action \in CallActions)
      BY <1>2, LastCallIs DEF CallAt, n
    <3>2. i > CallAt
      <4>1. i # CallAt
        BY <1>5, <2>1, <3>1 DEF CallActions
      <4> QED
        BY <1>5, <2>1, <2>4, <3>1, <4>1
    <3>3. i > CallAt + 1
      <4>1. currentHand # MaxHand
        BY <1>1, MaxHandAssumption DEF Hands, TypeOK
      <4> QED
        BY <2>1, <2>2, <3>2, <4>1 DEF MemoFits, DoubtComesFirst
    <3>4. currentHand # NoHand
      <4>1. turnHistory # << >>
        BY <1>5, <2>1 DEF n
      <4> QED
        BY <4>1 DEF MemoFits, HistoryNeedsHand
    <3>5. n - CallAt = Cardinality(respondedPlayers \ {lastCallerId})
      BY <2>2, <3>4 DEF MemoFits, AnswersCounted, n
    <3>6. Cardinality(respondedPlayers \ {lastCallerId}) >= 2
      BY <1>5, <2>1, <3>1, <3>3, <3>5
    <3>7. p \notin respondedPlayers \union {lastCallerId} /\ lastCallerId \in Players
      BY <2>2, <3>4 DEF TurnInv, HandHasCaller, TurnIsAskedUpTo, AskedUpTo, MayTakeTurn, AwaitsTurn
    <3> DEFINE A == respondedPlayers \ {lastCallerId}
               B == A \union {lastCallerId}
               C == B \union {p}
    <3>8. A \in SUBSET Players /\ B \in SUBSET Players /\ C \in SUBSET Players
          /\ lastCallerId \notin A /\ p \notin B
      BY <3>7 DEF TypeOK
    <3>9. Cardinality(C) >= 4
      <4> HIDE DEF A
      <4>1. Cardinality(B) = Cardinality(A) + 1 /\ Cardinality(A) \in Nat
        BY <3>8, PlayersFinite, FS_AddElement
      <4> HIDE DEF B
      <4>2. Cardinality(C) = Cardinality(B) + 1
        BY <3>8, PlayersFinite, FS_AddElement
      <4> QED
        BY <3>6, <4>1, <4>2 DEF A
    <3>10. Cardinality(C) <= NumPlayers /\ Cardinality(C) \in Nat
      BY <3>8, PlayersFinite
    <3>11. ASSUME Leavers = {} PROVE Cardinality(ActivePlayers) >= 4
      <4>1. C \subseteq ActivePlayers
        BY <2>2, <3>7, <3>11 DEF MemoFits, StaySeated, Seated, MayTakeTurn, NoPlayer, Players
      <4>2. ActivePlayers \in SUBSET Players
        BY DEF ActivePlayers, StillIn
      <4>3. Cardinality(C) <= Cardinality(ActivePlayers) /\ Cardinality(ActivePlayers) \in Nat
        BY <4>1, <4>2, PlayersFinite, FS_Subset
      <4> QED
        BY <3>9, <3>10, <4>3
    <3> QED
      BY <3>9, <3>10, <3>11, NumPlayersAssumption
  <2> QED
    BY <2>3, <2>4
<1>12. MemoOfAnswers'
  <2>1. Seated \in SUBSET Players
    BY DEF Seated, ActivePlayers, StillIn, TypeOK
  <2>2. Cardinality(Seated') <= Cardinality(Seated) /\ Cardinality(Seated') \in Nat
        /\ Cardinality(Seated) \in Nat
    BY <1>8, <2>1, PlayersFinite, FS_Subset
  <2>3. lastCallIndex \in Nat /\ lastCallIndexLength \in Int
    BY DEF TypeOK
  <2> QED
    BY <1>3, <1>4, <2>2, <2>3, NumPlayersAssumption DEF MemoFits, MemoOfAnswers
<1>13. MemoBeforeRaise'
  <2>1. roundPhase' # "LAST_CHANCE" /\ lastCallIndexLength \in Int
    BY <1>1 DEF TypeOK
  <2>2. ASSUME ~NoRaiseYet' PROVE lastCallIndexLength < n + 1
    <3>1. roundPhase = "LAST_CHANCE" \/ ~NoRaiseYet
      <4> SUFFICES ASSUME roundPhase # "LAST_CHANCE", NoRaiseYet PROVE FALSE
        OBVIOUS
      <4>1. a = "CALL"
        OBVIOUS
      <4> QED
        BY <1>2, <1>5, <2>2, <4>1 DEF NoRaiseYet
    <3>2. CASE roundPhase = "LAST_CHANCE"
      BY <1>5, <2>1, <3>2 DEF MemoFits, MemoBeforeRaise, n
    <3>3. CASE roundPhase # "LAST_CHANCE" /\ ~NoRaiseYet
      BY <1>1, <1>5, <2>1, <3>3 DEF MemoFits, MemoBeforeRaise, AwaitsTurn, n
    <3> QED
      BY <3>1, <3>2, <3>3
  <2> QED
    BY <1>3, <1>5, <2>1, <2>2 DEF MemoBeforeRaise
<1>14. StaySeated'
  <2>1. ASSUME Leavers = {} PROVE p \in ActivePlayers
    BY <1>1, <2>1, <1>8 DEF MemoFits, StaySeated, Seated, MayTakeTurn
  <2> QED
    BY <1>3, <1>4, <1>8, <2>1 DEF StaySeated, Seated
<1>15. HistoryNeedsHand'
  BY <1>3 DEF HistoryNeedsHand, Hands, NoHand
<1> QED
  BY <1>9, <1>10, <1>11, <1>12, <1>13, <1>14, <1>15 DEF MemoFits

\* An answer adds to what was counted.
LEMMA AnswerMemo ==
    ASSUME TypeOK, TypeOK', TurnInv, MemoFits, ~GameOver, NEW p \in Players,
           HandleBull(p) \/ HandleTrue(p)
    PROVE  MemoFits'
<1> DEFINE a == IF HandleBull(p) THEN "BULL" ELSE "TRUE"
           n == Len(turnHistory)
<1>1. /\ MayTakeTurn(p) /\ currentHand # NoHand /\ a \in Responses
      /\ turnHistory' = Append(turnHistory, Entry(p, a, NoHand))
      /\ respondedPlayers' = WithAnswer(p) /\ UNCHANGED <<currentHand, lastCallerId>>
      /\ roundPhase \in {"CALLING", "BULL_PHASE"}
  BY DEF HandleBull, HandleTrue, Responses, MayTakeTurn, TurnInv, AnswersNeedHand
<1>2. /\ a = "TRUE" => roundPhase = "BULL_PHASE"
      /\ \/ UNCHANGED memoVars /\ roundPhase' # "LAST_CHANCE"
         \/ /\ RememberLastCall(turnHistory') /\ roundPhase' \notin {"CALLING", "BULL_PHASE"}
            /\ AllNonCallersResponded(ActivePlayers, WithAnswer(p))
      /\ \/ UNCHANGED isEliminated
         \/ roundPhase' = "RESOLVING" /\ ResolveRound(isEliminated, turnHistory')
  <2>1. ResolveRound(isEliminated, turnHistory') => roundPhase' = "RESOLVING"
    BY DEF ResolveRound
  <2>2. CASE HandleTrue(p) /\ ~HandleBull(p)
    <3>1. /\ roundPhase = "BULL_PHASE" /\ UNCHANGED memoVars
          /\ \/ roundPhase' = roundPhase /\ UNCHANGED isEliminated
             \/ ResolveRound(isEliminated, turnHistory')
      BY <2>2 DEF HandleTrue, scoreVars
    <3> QED
      BY <2>1, <3>1
  <2>3. CASE HandleBull(p)
    <3>1. \/ roundPhase' = "BULL_PHASE" /\ UNCHANGED <<isEliminated, memoVars>>
          \/ /\ AllNonCallersResponded(ActivePlayers, WithAnswer(p))
             /\ RememberLastCall(turnHistory')
             /\ \/ roundPhase' = "LAST_CHANCE" /\ UNCHANGED isEliminated
                \/ ResolveRound(isEliminated, turnHistory')
      BY <2>3 DEF HandleBull, scoreVars, OfferLastChance, RememberLastCall
    <3>2. a = "BULL"
      BY <2>3
    <3> QED
      BY <2>1, <3>1, <3>2
  <2> QED
    BY <2>2, <2>3
<1>3. /\ ActivePlayers' \subseteq ActivePlayers
      /\ roundPhase' # "RESOLVING" => ActivePlayers' = ActivePlayers
  <2>1. CASE roundPhase' = "RESOLVING" /\ ResolveRound(isEliminated, turnHistory')
    BY <2>1 DEF ResolveRound, ActivePlayers, StillIn
  <2>2. CASE UNCHANGED isEliminated
    BY <2>2 DEF ActivePlayers, StillIn
  <2> QED
    BY <1>2, <2>1, <2>2
<1>4. Seated' \subseteq Seated /\ p \in ActivePlayers
  BY <1>1, <1>3 DEF Seated, MayTakeTurn, WithAnswer
<1> HIDE DEF a
<1>5. PICK hist : hist = turnHistory'
  OBVIOUS
<1>6. /\ hist \in Seq(TurnEntry) /\ Len(hist) = n + 1 /\ n \in Nat
      /\ LastCallIndexOf(hist) = CallAt /\ CallAt \in 1 .. n
      /\ DOMAIN turnHistory = 1 .. n /\ DOMAIN hist = 1 .. n + 1
      /\ \A i \in DOMAIN turnHistory : hist[i] = turnHistory[i]
      /\ hist[n + 1].action = a
      /\ lastCallerId \in Players
      /\ Len(hist) - CallAt = Cardinality(WithAnswer(p) \ {lastCallerId})
  <2>1. turnHistory' = Append(turnHistory, Entry(p, a, NoHand)) /\ AnswersCounted
    BY <1>1 DEF MemoFits
  <2>2. n \in Nat
    BY DEF TypeOK
  <2>3. MayTakeTurn(p) /\ currentHand # NoHand /\ a \in Responses
    BY <1>1
  <2> HIDE DEF n
  <2>4. /\ turnHistory' \in Seq(TurnEntry) /\ Len(turnHistory') = Len(turnHistory) + 1
        /\ LastCallIndexOf(turnHistory') = CallAt /\ CallAt \in 1 .. Len(turnHistory)
        /\ DOMAIN turnHistory = 1 .. Len(turnHistory) /\ DOMAIN turnHistory' = 1 .. Len(turnHistory) + 1
        /\ \A i \in DOMAIN turnHistory : turnHistory'[i] = turnHistory[i]
        /\ turnHistory'[Len(turnHistory) + 1].action = a
        /\ p \notin respondedPlayers \union {lastCallerId} /\ lastCallerId \in Players
        /\ Len(turnHistory') - CallAt = Cardinality(WithAnswer(p) \ {lastCallerId})
    BY ONLY TypeOK, TurnInv, ~GameOver, p \in Players, <2>1, <2>3, AnswerCounted
  <2> QED
    BY <1>5, <2>2, <2>4 DEF n
<1> HIDE DEF n
<1>7. CallAt' = CallAt
  BY <1>5, <1>6 DEF CallAt
<1>8. NoRaiseYet' => NoRaiseYet
  BY <1>5, <1>6 DEF NoRaiseYet
<1>9. AnswersCounted'
  BY <1>1, <1>5, <1>6, <1>7 DEF AnswersCounted
<1>10. DoubtComesFirst'
  <2> SUFFICES ASSUME NoRaiseYet', currentHand' # MaxHand
               PROVE  /\ n + 1 > CallAt
                      /\ \A i \in DOMAIN hist : hist[i].action = "TRUE" /\ i > CallAt => i > CallAt + 1
    BY <1>5, <1>6, <1>7 DEF DoubtComesFirst
  <2>1. n + 1 > CallAt
    BY <1>6
  <2>2. ASSUME NEW i \in DOMAIN hist, hist[i].action = "TRUE", i > CallAt
        PROVE  i > CallAt + 1
    <3>1. CASE i \in DOMAIN turnHistory
      BY <1>1, <1>6, <1>8, <2>2, <3>1 DEF MemoFits, DoubtComesFirst
    <3>2. CASE i = n + 1
      <4>1. roundPhase = "BULL_PHASE"
        BY <1>2, <1>6, <2>2, <3>2
      <4>2. n > CallAt
        BY <1>1, <1>8, <4>1 DEF MemoFits, DoubtComesFirst, n
      <4> QED
        BY <1>6, <3>2, <4>2
    <3> QED
      BY <1>6, <3>1, <3>2
  <2> QED
    BY <2>1, <2>2
<1>11. BeliefNeedsFour'
  <2> SUFFICES ASSUME NoRaiseYet', roundPhase' # "RESOLVING", NEW i \in DOMAIN hist,
                      hist[i].action = "TRUE", i < CallAt
               PROVE  NumPlayers >= 4 /\ (Leavers = {} => Cardinality(ActivePlayers) >= 4)
    BY <1>3, <1>5, <1>7 DEF BeliefNeedsFour
  <2>1. i \in DOMAIN turnHistory /\ turnHistory[i].action = "TRUE"
    BY <1>6
  <2> QED
    BY <1>1, <1>8, <2>1 DEF MemoFits, BeliefNeedsFour
<1>12. MemoOfAnswers'
  <2>1. CASE UNCHANGED memoVars
    <3>1. Seated \in SUBSET Players
      BY DEF Seated, ActivePlayers, StillIn, TypeOK
    <3>2. Cardinality(Seated') <= Cardinality(Seated) /\ Cardinality(Seated') \in Nat
          /\ Cardinality(Seated) \in Nat
      BY <1>4, <3>1, PlayersFinite, FS_Subset
    <3>3. lastCallIndex \in Nat /\ lastCallIndexLength \in Int
      BY DEF TypeOK
    <3> QED
      BY <2>1, <3>2, <3>3, NumPlayersAssumption DEF MemoFits, MemoOfAnswers, memoVars
  <2>2. CASE RememberLastCall(turnHistory') /\ AllNonCallersResponded(ActivePlayers, WithAnswer(p))
    <3>1. RememberLastCall(hist)
      BY <1>5, <2>2 DEF RememberLastCall
    <3>2. ActivePlayers' \subseteq respondedPlayers' \union {lastCallerId}
      BY <1>1, <1>3, <2>2 DEF AllNonCallersResponded
    <3>3. Len(hist) - LastCallIndexOf(hist) = Cardinality(respondedPlayers' \ {lastCallerId})
          /\ LastCallIndexOf(hist) # 0
      BY <1>1, <1>6
    <3> QED
      BY <1>1, <1>4, <1>6, <3>1, <3>2, <3>3, MemoRemembered DEF MemoFits
  <2> QED
    BY <1>2, <2>1, <2>2
<1>13. MemoBeforeRaise'
  <2>1. roundPhase' = "LAST_CHANCE" => lastCallIndexLength' <= Len(hist)
    BY <1>2, <1>5, <1>6 DEF RememberLastCall
  <2>2. ASSUME roundPhase' \in {"CALLING", "BULL_PHASE"}, ~NoRaiseYet'
        PROVE  lastCallIndexLength' < Len(hist)
    <3>1. lastCallIndexLength' = lastCallIndexLength /\ lastCallIndexLength \in Int
      BY <1>2, <2>2 DEF memoVars, TypeOK
    <3>2. ~NoRaiseYet
      <4>1. a # "LAST_CHANCE_RAISE"
        BY <1>1 DEF Responses
      <4> QED
        BY <1>5, <1>6, <2>2, <4>1 DEF NoRaiseYet
    <3>3. lastCallIndexLength < n
      BY <1>1, <3>2 DEF MemoFits, MemoBeforeRaise, AwaitsTurn, n
    <3> QED
      BY <1>6, <3>1, <3>3
  <2> QED
    BY <1>5, <2>1, <2>2 DEF MemoBeforeRaise, AwaitsTurn
<1>14. StaySeated'
  <2> SUFFICES ASSUME Leavers = {}, roundPhase' # "RESOLVING" PROVE Seated' = ActivePlayers'
    BY DEF StaySeated
  <2>1. Seated = ActivePlayers
    BY <1>1 DEF MemoFits, StaySeated
  <2> QED
    BY <1>3, <1>4, <2>1 DEF Seated
<1>15. HistoryNeedsHand'
  BY <1>1 DEF HistoryNeedsHand
<1> QED
  BY <1>9, <1>10, <1>11, <1>12, <1>13, <1>14, <1>15 DEF MemoFits

\* Who leaves takes a seat away, and the memo is looked at when theirs was the last
\* answer awaited.
LEMMA EliminateMemo ==
    ASSUME TypeOK, TypeOK', TurnInv, MemoFits, ~GameOver, ~GameOver',
           NEW p \in Leavers, EliminatePlayer(p)
    PROVE  MemoFits'
<1> DEFINE in == StillIn([isEliminated EXCEPT ![p] = TRUE])
           n == Len(turnHistory)
<1>1. /\ UNCHANGED <<currentHand, lastCallerId, turnHistory, respondedPlayers, lastChanceUsed>>
      /\ in \subseteq ActivePlayers
      /\ p \in Players
  BY LeaversAssumption DEF EliminatePlayer, turnVars, StillIn, ActivePlayers, Players, TypeOK
<1>2. /\ ActivePlayers' \subseteq in
      /\ \/ UNCHANGED memoVars /\ roundPhase' \in {roundPhase, "RESOLVING"}
         \/ /\ RememberLastCall(turnHistory) /\ roundPhase' \in {"LAST_CHANCE", "RESOLVING"}
            /\ roundPhase # "RESOLVING" /\ currentHand # NoHand
            /\ AllNonCallersResponded(in, respondedPlayers)
  <2>1. ASSUME isEliminated' = [isEliminated EXCEPT ![p] = TRUE] PROVE ActivePlayers' = in
    BY <2>1 DEF ActivePlayers, StillIn
  <2>2. ASSUME ResolveRound([isEliminated EXCEPT ![p] = TRUE], turnHistory)
        PROVE  ActivePlayers' \subseteq in /\ roundPhase' = "RESOLVING"
    BY <2>2 DEF ActivePlayers, StillIn, ResolveRound
  <2> HIDE DEF in
  <2> QED
    BY <2>1, <2>2 DEF EliminatePlayer, OfferLastChance, memoVars, in
<1> HIDE DEF in
<1>3. roundPhase' # "RESOLVING" => roundPhase # "RESOLVING"
  BY <1>2
<1>4. CallAt' = CallAt /\ (NoRaiseYet' <=> NoRaiseYet)
  BY <1>1 DEF CallAt, NoRaiseYet
<1>5. Seated' \subseteq Seated
  BY <1>1, <1>2 DEF Seated
<1>6. AnswersCounted' /\ HistoryNeedsHand'
  BY <1>1, <1>3, <1>4 DEF MemoFits, AnswersCounted, HistoryNeedsHand
<1>7. DoubtComesFirst'
  BY <1>1, <1>2, <1>3, <1>4 DEF MemoFits, DoubtComesFirst
<1>8. BeliefNeedsFour' /\ StaySeated'
  BY <1>1, <1>3, <1>4 DEF MemoFits, BeliefNeedsFour, StaySeated
<1>9. MemoOfAnswers'
  <2>1. CASE UNCHANGED memoVars
    <3>1. Seated \in SUBSET Players
      BY DEF Seated, ActivePlayers, StillIn, TypeOK
    <3>2. Cardinality(Seated') <= Cardinality(Seated) /\ Cardinality(Seated') \in Nat
          /\ Cardinality(Seated) \in Nat
      BY <1>5, <3>1, PlayersFinite, FS_Subset
    <3>3. lastCallIndex \in Nat /\ lastCallIndexLength \in Int
      BY DEF TypeOK
    <3> QED
      BY <2>1, <3>2, <3>3, NumPlayersAssumption DEF MemoFits, MemoOfAnswers, memoVars
  <2>2. CASE /\ RememberLastCall(turnHistory) /\ roundPhase # "RESOLVING" /\ currentHand # NoHand
             /\ AllNonCallersResponded(in, respondedPlayers)
    <3>1. CallAt # 0 /\ n - CallAt = Cardinality(respondedPlayers \ {lastCallerId})
      BY <2>2 DEF MemoFits, AnswersCounted
    <3>2. turnHistory \in Seq(TurnEntry) /\ lastCallerId \in Players
      BY <2>2 DEF TypeOK, TurnInv, HandHasCaller
    <3>3. ActivePlayers' \subseteq respondedPlayers' \union {lastCallerId}
      BY <1>1, <1>2, <2>2 DEF AllNonCallersResponded
    <3>4. LastCallIndexOf(turnHistory) # 0
          /\ Len(turnHistory) - LastCallIndexOf(turnHistory) = Cardinality(respondedPlayers' \ {lastCallerId})
      BY <1>1, <3>1 DEF CallAt
    <3> QED
      BY <1>1, <1>5, <2>2, <3>2, <3>3, <3>4, MemoRemembered DEF MemoFits
  <2> QED
    BY <1>2, <2>1, <2>2
<1>10. MemoBeforeRaise'
  <2>1. n \in Nat /\ lastCallIndexLength \in Int
    BY DEF TypeOK
  <2> QED
    BY <1>1, <1>2, <1>4, <2>1 DEF MemoFits, MemoBeforeRaise, AwaitsTurn, RememberLastCall, memoVars
<1> QED
  BY <1>6, <1>7, <1>8, <1>9, <1>10 DEF MemoFits

\* After a pass there are no answers to be counted ...
LEMMA PassMemo ==
    ASSUME TypeOK, TurnInv, MemoFits, NEW p \in Players, HandleLastChancePass(p)
    PROVE  MemoFits'
<1>1. /\ roundPhase' = "RESOLVING" /\ currentHand' = currentHand
      /\ UNCHANGED <<lastCallerId, respondedPlayers, lastCallIndex, lastCallIndexLength>>
      /\ ActivePlayers' \subseteq ActivePlayers
  BY DEF HandleLastChancePass, memoVars, ResolveRound, ActivePlayers, StillIn
<1>2. Seated' \subseteq Seated
  BY <1>1 DEF Seated
<1>3. MemoOfAnswers'
  <2>1. Seated \in SUBSET Players
    BY DEF Seated, ActivePlayers, StillIn, TypeOK
  <2>2. Cardinality(Seated') <= Cardinality(Seated) /\ Cardinality(Seated') \in Nat
        /\ Cardinality(Seated) \in Nat
    BY <1>2, <2>1, PlayersFinite, FS_Subset
  <2>3. lastCallIndex \in Nat /\ lastCallIndexLength \in Int
    BY DEF TypeOK
  <2> QED
    BY <1>1, <2>2, <2>3, NumPlayersAssumption DEF MemoFits, MemoOfAnswers
<1>4. HistoryNeedsHand'
  BY <1>1 DEF HistoryNeedsHand, HandleLastChancePass, TurnInv, AnswersNeedHand
<1> QED
  BY <1>1, <1>3, <1>4 DEF MemoFits, AnswersCounted, DoubtComesFirst, BeliefNeedsFour, MemoBeforeRaise,
                          StaySeated, AwaitsTurn

\* ... nor are there in a new round, whatever its memo.
LEMMA NextRoundMemo ==
    ASSUME TypeOK, MemoFits, StartNextRound, ~GameOver
    PROVE  MemoFits'
<1>1. /\ roundPhase' = "CALLING" /\ currentHand' = NoHand /\ lastCallerId' = NoPlayer
      /\ turnHistory' = << >> /\ respondedPlayers' = {} /\ DOMAIN turnHistory' = {}
      /\ UNCHANGED <<lastCallIndex, lastCallIndexLength>>
      /\ ActivePlayers' = ActivePlayers
  BY DEF StartNextRound, memoVars, ActivePlayers, StillIn
<1>2. Seated' = ActivePlayers' /\ Seated' \subseteq Seated
  BY <1>1 DEF Seated
<1>3. MemoOfAnswers'
  <2>1. Seated \in SUBSET Players
    BY DEF Seated, ActivePlayers, StillIn, TypeOK
  <2>2. Cardinality(Seated') <= Cardinality(Seated) /\ Cardinality(Seated') \in Nat
        /\ Cardinality(Seated) \in Nat
    BY <1>2, <2>1, PlayersFinite, FS_Subset
  <2>3. lastCallIndex \in Nat /\ lastCallIndexLength \in Int
    BY DEF TypeOK
  <2> QED
    BY <1>1, <2>2, <2>3, NumPlayersAssumption DEF MemoFits, MemoOfAnswers
<1>4. NoRaiseYet'
  BY <1>1 DEF NoRaiseYet
<1> QED
  BY <1>1, <1>2, <1>3, <1>4 DEF MemoFits, HistoryNeedsHand, AnswersCounted, DoubtComesFirst,
     BeliefNeedsFour, MemoBeforeRaise, StaySeated, AwaitsTurn

\* A game that is restored has no memo.
LEMMA RestoreMemo ==
    ASSUME TypeOK, MemoFits, Restore \/ UNCHANGED vars
    PROVE  MemoFits'
<1>1. /\ UNCHANGED <<currentHand, lastCallerId, turnHistory, respondedPlayers, isEliminated, roundPhase>>
      /\ \/ lastCallIndexLength' = -1
         \/ UNCHANGED <<lastCallIndex, lastCallIndexLength>>
  BY DEF Restore, turnVars, vars
<1>2. /\ ActivePlayers' = ActivePlayers /\ CallAt' = CallAt /\ (NoRaiseYet' <=> NoRaiseYet)
      /\ Len(turnHistory) \in Nat
  BY <1>1 DEF ActivePlayers, StillIn, CallAt, NoRaiseYet, TypeOK
<1>3. Seated' = Seated
  BY <1>1, <1>2 DEF Seated
<1>4. MemoOfAnswers' /\ MemoBeforeRaise'
  BY <1>1, <1>2, <1>3 DEF MemoFits, MemoOfAnswers, MemoBeforeRaise, AwaitsTurn
<1> QED
  BY <1>1, <1>2, <1>3, <1>4 DEF MemoFits, HistoryNeedsHand, AnswersCounted, DoubtComesFirst,
     BeliefNeedsFour, StaySeated

LEMMA MemoStep ==
    ASSUME TypeOK, TypeOK', TurnInv, MemoInv, [Next]_vars
    PROVE  MemoInv'
<1> SUFFICES ASSUME ~GameOver' PROVE MemoFits'
  BY DEF MemoInv
<1>1. ~GameOver /\ MemoFits
  BY OverStaysOver DEF MemoInv
<1>2. ASSUME NEW p \in Players, TurnAction(p)
      PROVE  MemoFits'
  BY <1>1, <1>2, CallMemo, AnswerMemo, PassMemo DEF TurnAction
<1>3. ASSUME NEW p \in Leavers, EliminatePlayer(p)
      PROVE  MemoFits'
  BY <1>1, <1>3, EliminateMemo
<1>4. CASE StartNextRound
  BY <1>1, <1>4, NextRoundMemo
<1>5. CASE Restore \/ UNCHANGED vars
  BY <1>1, <1>5, RestoreMemo
<1> QED
  BY <1>2, <1>3, <1>4, <1>5 DEF Next

\* Answers and memo stay related as described throughout a game.
THEOREM MemoKept == Spec => []MemoInv
<1>1. Init => MemoInv
  <2> SUFFICES ASSUME Init PROVE MemoFits
    BY DEF MemoInv
  <2>1. DOMAIN turnHistory = {} /\ ActivePlayers = Seated
    BY DEF Init, Seated
  <2>2. NoRaiseYet
    BY <2>1 DEF NoRaiseYet
  <2> QED
    BY <2>1, <2>2 DEF Init, MemoFits, HistoryNeedsHand, AnswersCounted, DoubtComesFirst,
       BeliefNeedsFour, MemoOfAnswers, MemoBeforeRaise, StaySeated, AwaitsTurn
<1> QED
  BY <1>1, MemoStep, TypeCorrect, TurnOrderKept, PTL DEF Spec

\* The two operations that look at the memo see by it whether anybody believed the call.
LEMMA BullSeesBelief ==
    ASSUME SmallTable, TypeOK, TurnInv, MemoFits, ~GameOver, NEW p \in Players, MayTakeTurn(p),
           currentHand # NoHand, turnHistory' = Append(turnHistory, Entry(p, "BULL", NoHand)),
           AllNonCallersResponded(ActivePlayers, WithAnswer(p)), RememberLastCall(turnHistory')
    PROVE  /\ TrueAfter(turnHistory', lastCallIndex') <=> TrueAfter(turnHistory', CallAt)
           /\ LastCallIndexOf(turnHistory') = CallAt
<1> DEFINE n == Len(turnHistory)
<1>1. AnswersCounted /\ "BULL" \in Responses
  BY DEF MemoFits, Responses
<1>2. /\ turnHistory' \in Seq(TurnEntry) /\ Len(turnHistory') = Len(turnHistory) + 1
      /\ LastCallIndexOf(turnHistory') = CallAt /\ CallAt \in 1 .. Len(turnHistory)
      /\ DOMAIN turnHistory = 1 .. Len(turnHistory) /\ DOMAIN turnHistory' = 1 .. Len(turnHistory) + 1
      /\ \A i \in DOMAIN turnHistory : turnHistory'[i] = turnHistory[i]
      /\ turnHistory'[Len(turnHistory) + 1].action = "BULL"
      /\ p \notin respondedPlayers \union {lastCallerId} /\ lastCallerId \in Players
      /\ Len(turnHistory') - CallAt = Cardinality(WithAnswer(p) \ {lastCallerId})
  BY <1>1, AnswerCounted
<1>3. PICK hist \in Seq(TurnEntry), S \in SUBSET Players, R \in SUBSET Players :
         hist = turnHistory' /\ S = ActivePlayers /\ R = WithAnswer(p)
  BY <1>2 DEF ActivePlayers, StillIn, WithAnswer, TypeOK
<1>4. n \in Nat /\ lastCallIndexLength \in Int /\ turnHistory \in Seq(TurnEntry)
  BY DEF TypeOK
<1>5. lastCallIndexLength = Len(hist) => NoRaiseYet
  BY <1>2, <1>3, <1>4 DEF MemoFits, MemoBeforeRaise, AwaitsTurn, MayTakeTurn
<1>6. S \subseteq R \union {lastCallerId} /\ S \union R \union {lastCallerId} \subseteq Seated
  <2>1. Seated = S \union respondedPlayers \union {lastCallerId}
    BY <1>2, <1>3 DEF Seated, NoPlayer, Players
  <2>2. R = respondedPlayers \union {p} /\ p \in S
    BY <1>3 DEF WithAnswer, MayTakeTurn
  <2>3. S \subseteq R \union {lastCallerId}
    BY <1>3 DEF AllNonCallersResponded
  <2> QED
    BY <2>1, <2>2, <2>3
<1>7. AllHaveAnswered(hist, S, R)
  BY <1>2, <1>3, <1>4, <1>5, <1>6 DEF AllHaveAnswered
<1>8. MemoOfAnswers /\ BeliefNeedsFour /\ roundPhase # "RESOLVING" /\ RememberLastCall(hist)
  BY <1>3 DEF MemoFits, MayTakeTurn, RememberLastCall
<1>9. TrueAfter(hist, lastCallIndex') <=> TrueAfter(hist, CallAt)
  BY <1>3, <1>7, <1>8, MemoServes
<1> QED
  BY <1>2, <1>3, <1>9

LEMMA LeaverSeesBelief ==
    ASSUME SmallTable, TypeOK, TurnInv, MemoFits, ~GameOver, NEW p \in Leavers,
           roundPhase \in {"CALLING", "BULL_PHASE"}, currentHand # NoHand,
           NEW S \in SUBSET ActivePlayers, AllNonCallersResponded(S, respondedPlayers),
           RememberLastCall(turnHistory)
    PROVE  TrueAfter(turnHistory, lastCallIndex') <=> TrueAfter(turnHistory, CallAt)
<1>1. turnHistory \in Seq(TurnEntry) /\ Len(turnHistory) \in Nat /\ lastCallIndexLength \in Int
      /\ respondedPlayers \in SUBSET Players /\ S \in SUBSET Players
  BY DEF TypeOK, ActivePlayers, StillIn
<1>2. lastCallerId \in Players
  BY DEF TurnInv, HandHasCaller
<1>3. /\ CallAt # 0 /\ Len(turnHistory) - CallAt = Cardinality(respondedPlayers \ {lastCallerId})
      /\ MemoOfAnswers /\ BeliefNeedsFour
  BY DEF MemoFits, AnswersCounted
<1>4. CallAt = LastCallIndexOf(turnHistory) /\ CallAt \in 0 .. Len(turnHistory)
  BY <1>1, LastCallIs DEF CallAt
<1>5. lastCallIndexLength = Len(turnHistory) => NoRaiseYet
  BY <1>1 DEF MemoFits, MemoBeforeRaise, AwaitsTurn
<1>6. S \subseteq respondedPlayers \union {lastCallerId}
      /\ S \union respondedPlayers \union {lastCallerId} \subseteq Seated
  BY <1>2 DEF AllNonCallersResponded, Seated, NoPlayer, Players
<1>7. AllHaveAnswered(turnHistory, S, respondedPlayers)
  BY <1>1, <1>2, <1>3, <1>4, <1>5, <1>6 DEF AllHaveAnswered
<1> QED
  BY <1>1, <1>3, <1>7, MemoServes

\* At a small table a round that nobody believed is revealed only after its caller, if
\* still in, had the last chance, even when the memo is that of an earlier round.  With
\* six players, with five of whom one leaves or four of whom two do, it may be missed.
THEOREM LastChanceIsNotMissed == SmallTable => (Spec => LastChanceIsOffered)
<1> SUFFICES ASSUME SmallTable PROVE Spec => LastChanceIsOffered
  OBVIOUS
<1> DEFINE Offered == Reveals /\ EveryoneCalledBull(turnHistory') =>
                         \/ roundPhase = "LAST_CHANCE"
                         \/ lastChanceUsed
                         \/ lastCallerId \notin InTheReveal'
<1>1. TypeOK /\ TurnInv /\ MemoInv /\ [Next]_vars => [Offered]_vars
  <2> SUFFICES ASSUME TypeOK, TurnInv, MemoInv, Next, Reveals, EveryoneCalledBull(turnHistory'),
                      roundPhase # "LAST_CHANCE", ~lastChanceUsed, lastCallerId \in InTheReveal'
               PROVE  FALSE
    OBVIOUS
  <2>1. MemoFits /\ ~GameOver /\ roundPhase \in {"CALLING", "BULL_PHASE"} /\ roundPhase' = "RESOLVING"
    BY DEF Reveals, MemoInv, TypeOK, RoundPhases
  <2>2. ~TrueAfter(turnHistory', LastCallIndexOf(turnHistory'))
    BY DEF EveryoneCalledBull, TrueAfter
  <2>3. ASSUME NEW p \in Players, HandleBull(p)
        PROVE  FALSE
    <3>1. /\ MayTakeTurn(p) /\ currentHand # NoHand /\ RememberLastCall(turnHistory')
          /\ turnHistory' = Append(turnHistory, Entry(p, "BULL", NoHand))
          /\ AllNonCallersResponded(ActivePlayers, WithAnswer(p))
          /\ TrueAfter(turnHistory', lastCallIndex')
      BY <2>1, <2>3 DEF HandleBull, OfferLastChance, RememberLastCall
    <3> QED
      BY <2>1, <2>2, <3>1, BullSeesBelief
  <2>4. ASSUME NEW p \in Players, HandleTrue(p)
        PROVE  FALSE
    <3>1. /\ MayTakeTurn(p) /\ currentHand # NoHand /\ "TRUE" \in Responses /\ AnswersCounted
          /\ turnHistory' = Append(turnHistory, Entry(p, "TRUE", NoHand))
      BY <2>1, <2>4 DEF HandleTrue, Responses, TurnInv, AnswersNeedHand, MemoFits
    <3>2. /\ LastCallIndexOf(turnHistory') = CallAt /\ CallAt \in 1 .. Len(turnHistory)
          /\ DOMAIN turnHistory' = 1 .. Len(turnHistory) + 1
          /\ turnHistory'[Len(turnHistory) + 1].action = "TRUE"
      BY <2>1, <3>1, AnswerCounted
    <3> QED
      BY <2>2, <3>2 DEF TrueAfter
  <2>5. ASSUME NEW p \in Leavers, EliminatePlayer(p)
        PROVE  FALSE
    <3> DEFINE elim == [isEliminated EXCEPT ![p] = TRUE]
               in == StillIn(elim)
    <3>1. in \subseteq ActivePlayers /\ turnHistory' = turnHistory
      BY <2>5, LeaversAssumption DEF StillIn, ActivePlayers, EliminatePlayer, turnVars, Players, TypeOK
    <3>2. /\ RememberLastCall(turnHistory) /\ currentHand # NoHand
          /\ AllNonCallersResponded(in, respondedPlayers)
          /\ TrueAfter(turnHistory, lastCallIndex') \/ lastCallerId \notin in
          /\ ResolveRound(elim, turnHistory)
      BY <2>1, <2>5 DEF EliminatePlayer, OfferLastChance
    <3>3. InTheReveal' \subseteq in
      <4>1. ActivePlayers' \subseteq in
        BY <3>2 DEF ResolveRound, StillIn, ActivePlayers
      <4>2. lastRoundResult'.eliminated \subseteq AtLimit(in)
        BY <3>2 DEF ResolveRound
      <4>3. AtLimit(in) \subseteq in
        BY DEF AtLimit
      <4> HIDE DEF in
      <4> QED
        BY <4>1, <4>2, <4>3 DEF InTheReveal
    <3>4. TrueAfter(turnHistory, lastCallIndex')
      BY <3>2, <3>3
    <3> HIDE DEF in, elim
    <3>5. TrueAfter(turnHistory, CallAt)
      BY <2>1, <3>1, <3>2, <3>4, LeaverSeesBelief
    <3> QED
      BY <2>2, <3>1, <3>5 DEF CallAt
  <2>6. ASSUME NEW p \in Players, NEW h \in Hands, HandleCall(p, h) \/ HandleLastChanceRaise(p, h)
        PROVE  FALSE
    BY <2>1, <2>6 DEF HandleCall, HandleLastChanceRaise
  <2>7. ASSUME NEW p \in Players, HandleLastChancePass(p)
        PROVE  FALSE
    BY <2>7 DEF HandleLastChancePass
  <2>8. CASE StartNextRound \/ Restore
    BY <2>1, <2>8 DEF StartNextRound, Restore
  <2> QED
    BY <2>3, <2>4, <2>5, <2>6, <2>7, <2>8 DEF Next, TurnAction
<1> QED
  BY <1>1, TypeCorrect, TurnOrderKept, MemoKept, PTL DEF Spec, LastChanceIsOffered

-----------------------------------------------------------------------------
(* The engine implements the rules of BluffRound.                          *)

\* A table that nobody leaves and at which the memo does no harm.
RulesTable == Leavers = {} /\ NumPlayers \in 2 .. 5

OverIsRevealed == GameOver => roundPhase = "RESOLVING"

\* Only a reveal ends a game that nobody leaves.
LEMMA OverStep ==
    ASSUME TypeOK, OverIsRevealed, RulesTable, [Next]_vars
    PROVE  OverIsRevealed'
<1> SUFFICES ASSUME roundPhase' # "RESOLVING", GameOver' PROVE FALSE
  BY DEF OverIsRevealed
<1>1. ASSUME isEliminated' = isEliminated PROVE GameOver /\ roundPhase = "RESOLVING"
  BY <1>1 DEF GameOver, ActivePlayers, StillIn, OverIsRevealed
<1>2. ASSUME NEW p \in Players, NEW h \in Hands, HandleCall(p, h) \/ HandleLastChanceRaise(p, h)
      PROVE  FALSE
  BY <1>1, <1>2 DEF HandleCall, HandleLastChanceRaise, AcceptCall, scoreVars, MayTakeTurn
<1>3. ASSUME NEW p \in Players, HandleBull(p)
      PROVE  FALSE
  <2>1. isEliminated' = isEliminated
    BY <1>3 DEF HandleBull, OfferLastChance, ResolveRound, scoreVars
  <2> QED
    BY <1>1, <1>3, <2>1 DEF HandleBull, MayTakeTurn
<1>4. ASSUME NEW p \in Players, HandleTrue(p)
      PROVE  FALSE
  <2>1. isEliminated' = isEliminated
    BY <1>4 DEF HandleTrue, ResolveRound, scoreVars
  <2> QED
    BY <1>1, <1>4, <2>1 DEF HandleTrue, MayTakeTurn
<1>5. ASSUME NEW p \in Players, HandleLastChancePass(p)
      PROVE  FALSE
  BY <1>5 DEF HandleLastChancePass, ResolveRound
<1>6. CASE StartNextRound
  BY <1>1, <1>6 DEF StartNextRound
<1>7. CASE Restore \/ UNCHANGED vars
  BY <1>1, <1>7 DEF Restore, vars
<1> QED
  BY <1>2, <1>3, <1>4, <1>5, <1>6, <1>7 DEF Next, TurnAction, RulesTable

LEMMA OverIsKept == RulesTable => (Spec => []OverIsRevealed)
<1> SUFFICES ASSUME RulesTable PROVE Spec => []OverIsRevealed
  OBVIOUS
<1>1. Init => OverIsRevealed
  <2> SUFFICES ASSUME Init PROVE ~GameOver
    BY DEF OverIsRevealed
  <2>1. ActivePlayers = Players
    BY DEF Init, ActivePlayers, StillIn
  <2>2. Cardinality(Players) = NumPlayers
    BY NumPlayersAssumption, FS_Interval DEF Players
  <2> QED
    BY <2>1, <2>2, NumPlayersAssumption DEF GameOver, RulesTable
<1> QED
  BY <1>1, OverStep, TypeCorrect, PTL DEF Spec

LEMMA RemainingIs == Rules!Remaining = ActivePlayers
BY DEF Rules!Remaining, ActivePlayers, StillIn

\* Who is on turn owes an answer, or may open.
LEMMA OnTurnOwes ==
    ASSUME TypeOK, TurnInv, ~GameOver, NEW p \in Players, MayTakeTurn(p)
    PROVE  /\ p \in Owing /\ Stage = "bidding"
           /\ currentHand # NoHand =>
                 /\ Owing = ActivePlayers \ (respondedPlayers \union {lastCallerId})
                 /\ p \notin respondedPlayers \union {lastCallerId}
<1>1. roundPhase \in {"CALLING", "BULL_PHASE"} /\ p \in ActivePlayers /\ CurrentPlayerId = p
  BY DEF MayTakeTurn
<1>2. Stage = "bidding"
  BY <1>1 DEF Stage
<1>3. currentHand # NoHand => p \notin respondedPlayers \union {lastCallerId}
  BY <1>1 DEF TurnInv, TurnIsAskedUpTo, AskedUpTo, AwaitsTurn
<1> QED
  BY <1>1, <1>2, <1>3 DEF Owing

\* A call opens the answers anew, and so does a raise.
LEMMA CallOpens ==
    ASSUME TypeOK, NEW p \in Players, NEW h \in Hands, NEW a \in CallActions, AcceptCall(p, h, a),
           h > currentHand, roundPhase' \in {"CALLING", "BULL_PHASE"},
           NEW last \in BOOLEAN, lastChanceUsed' = last
    PROVE  Rules!Open(p, h, last)
<1> DEFINE e == Entry(p, a, h)
<1>1. /\ e \in TurnEntry /\ e.action = a
      /\ turnHistory \in Seq(TurnEntry) /\ turnHistory' = Append(turnHistory, e)
  BY DEF Entry, TurnEntry, TurnActions, CallActions, TypeOK, AcceptCall
<1> HIDE DEF e
<1>2. Believers' = {}
  <2>1. \A q : AnswersIn(turnHistory', q) = {}
    BY <1>1, AnswersOfAppend
  <2>2. ASSUME NEW q PROVE AnswersOf(q)' = {}
    BY <2>1 DEF AnswersOf, AnswersIn, CallAt
  <2> QED
    BY <2>2 DEF Believers, Believed
<1>3. /\ currentHand' = h /\ lastCallerId' = p /\ respondedPlayers' = {p}
      /\ UNCHANGED <<isEliminated, cardCount, settings>>
  BY DEF AcceptCall, scoreVars, fixedVars
<1>4. ActivePlayers' = ActivePlayers
  BY <1>3 DEF ActivePlayers, StillIn
<1>5. Owing' = ActivePlayers \ {p}
  BY <1>3, <1>4 DEF Owing, Hands, NoHand
<1>6. Stage' = "bidding"
  BY DEF Stage
<1>7. h \in currentHand + 1 .. MaxHand
  BY MaxHandAssumption DEF TypeOK, Hands, NoHand
<1> QED
  BY <1>2, <1>3, <1>4, <1>5, <1>6, <1>7, RemainingIs DEF Rules!Open

LEMMA CallIsBid ==
    ASSUME TypeOK, TurnInv, ~GameOver, NEW p \in Players, NEW h \in Hands, HandleCall(p, h)
    PROVE  Rules!Bid(p, h)
<1>1. Rules!Open(p, h, FALSE)
  BY CallOpens DEF HandleCall, CallActions
<1>2. p \in Owing /\ Stage = "bidding"
  BY OnTurnOwes DEF HandleCall
<1> QED
  BY <1>1, <1>2 DEF Rules!Bid

LEMMA RaiseIsRaise ==
    ASSUME TypeOK, NEW p \in Players, NEW h \in Hands, HandleLastChanceRaise(p, h)
    PROVE  Rules!RaiseOnLastChance(h)
<1>1. Rules!Open(p, h, TRUE)
  BY CallOpens DEF HandleLastChanceRaise, CallActions
<1>2. p = lastCallerId /\ Stage = "lastChance"
  BY DEF HandleLastChanceRaise, Stage
<1> QED
  BY <1>1, <1>2 DEF Rules!RaiseOnLastChance

\* A reveal when each of the others has answered, F of them believing.
LEMMA RevealIsReveal ==
    ASSUME TypeOK, turnHistory' \in Seq(TurnEntry), ResolveRound(isEliminated, turnHistory'),
           OthersOnlyAnswer(turnHistory'),
           \A q \in ActivePlayers \ {lastCallerId} : \E i : AnswersIn(turnHistory', q) = {i},
           NEW F, F = Believers'
    PROVE  Rules!Reveal(F)
<1> DEFINE in == ActivePlayers
<1>1. PICK there \in BOOLEAN :
        LET atLimit == AtLimit(in)
            penalized == Penalized(in, {p \in in : Incorrect(turnHistory', there, p)})
        IN  /\ roundPhase' = "RESOLVING"
            /\ cardCount' = [p \in Players |->
                                IF p \in penalized THEN cardCount[p] + 1 ELSE cardCount[p]]
            /\ isEliminated' = [p \in Players |-> isEliminated[p] \/ p \in penalized \intersect atLimit]
  BY DEF ResolveRound, ActivePlayers
<1> DEFINE wrong == {p \in in : IF p = lastCallerId \/ p \in F THEN ~there ELSE there}
           full == {p \in in : cardCount[p] >= settings.maxCards}
           draws == IF wrong = in /\ full = in THEN {} ELSE wrong
<1>2. ASSUME NEW p \in in
      PROVE  Incorrect(turnHistory', there, p)
               <=> (IF p = lastCallerId \/ p \in F THEN ~there ELSE there)
  <2>1. CASE p = lastCallerId
    BY <2>1 DEF Incorrect
  <2>2. CASE p # lastCallerId
    <3>1. PICK i : AnswersIn(turnHistory', p) = {i}
      BY <1>2, <2>2
    <3>2. p \in Players
      BY <1>2 DEF ActivePlayers, StillIn
    <3>3. LastAction(turnHistory', p) = turnHistory'[i].action /\ turnHistory'[i].action \in Responses
      BY <2>2, <3>1, <3>2, LastActionIsAnswer
    <3>4. AnswersOf(p)' = {i}
      BY <3>1 DEF AnswersOf, AnswersIn, CallAt
    <3>5. p \in F <=> turnHistory'[i].action = "TRUE"
      BY <3>2, <3>4 DEF Believers, Believed
    <3>6. CASE turnHistory'[i].action = "TRUE"
      BY <2>2, <3>3, <3>5, <3>6 DEF Incorrect
    <3>7. CASE turnHistory'[i].action = "BULL"
      BY <2>2, <3>3, <3>5, <3>7 DEF Incorrect
    <3> QED
      BY <3>3, <3>6, <3>7 DEF Responses
  <2> QED
    BY <2>1, <2>2
<1>3. {p \in in : Incorrect(turnHistory', there, p)} = wrong
  BY <1>2
<1>4. AtLimit(in) = full
  <2>1. ASSUME NEW p \in in
        PROVE  cardCount[p] + 1 > settings.maxCards <=> cardCount[p] >= settings.maxCards
    <3>1. settings.maxCards \in Nat
      BY MaxCardsAssumption DEF TypeOK
    <3>2. cardCount[p] \in Nat
      BY <2>1 DEF TypeOK, ActivePlayers, StillIn
    <3> QED
      BY <3>1, <3>2
  <2> QED
    BY <2>1 DEF AtLimit
<1> HIDE DEF wrong, full
<1>5. Penalized(in, wrong) = draws
  BY <1>4 DEF Penalized
<1> HIDE DEF draws
<1>6. /\ roundPhase' = "RESOLVING"
      /\ cardCount' = [p \in Players |-> IF p \in draws THEN cardCount[p] + 1 ELSE cardCount[p]]
      /\ isEliminated' = [p \in Players |-> isEliminated[p] \/ p \in draws \intersect full]
  BY <1>1, <1>3, <1>4, <1>5
<1>7. cardCount' = [p \in Players |-> cardCount[p] + IF p \in draws THEN 1 ELSE 0]
  <2>1. ASSUME NEW p \in Players
        PROVE  (IF p \in draws THEN cardCount[p] + 1 ELSE cardCount[p])
                 = cardCount[p] + IF p \in draws THEN 1 ELSE 0
    BY DEF TypeOK
  <2> QED
    BY <1>6, <2>1
<1>8. (Players \ ActivePlayers)' = (Players \ ActivePlayers) \union (draws \intersect full)
  <2>1. full \subseteq Players
    BY DEF full, ActivePlayers, StillIn
  <2> QED
    BY <1>6, <2>1 DEF ActivePlayers, StillIn
<1>9. Stage' = "revealed" /\ Owing' = {}
  BY <1>6 DEF Stage, Owing
<1> QED
  BY <1>7, <1>8, <1>9, RemainingIs DEF Rules!Reveal, wrong, full, draws

\* An answer is noted, and is the last one awaited when nobody else owes one.
LEMMA AnswerIsNoted ==
    ASSUME TypeOK, TurnInv, HistInv, ~GameOver, NEW p \in Players, MayTakeTurn(p),
           currentHand # NoHand, NEW a \in Responses,
           turnHistory' = Append(turnHistory, Entry(p, a, NoHand))
    PROVE  /\ turnHistory' \in Seq(TurnEntry) /\ OthersOnlyAnswer(turnHistory')
           /\ Believers' = IF a = "TRUE" THEN Believers \union {p} ELSE Believers
           /\ AllNonCallersResponded(ActivePlayers, WithAnswer(p)) =>
                 \A q \in ActivePlayers \ {lastCallerId} : \E i : AnswersIn(turnHistory', q) = {i}
<1> DEFINE e == Entry(p, a, NoHand)
           n == Len(turnHistory)
<1>1. /\ e \in TurnEntry /\ e.action = a /\ e.player = p
      /\ a \notin CallActions /\ a # "LAST_CHANCE_PASS"
      /\ turnHistory \in Seq(TurnEntry)
  BY DEF Entry, TurnEntry, TurnActions, Responses, CallActions, TypeOK
<1>2. turnHistory' = Append(turnHistory, e)
  OBVIOUS
<1> HIDE DEF e
<1>3. /\ turnHistory' \in Seq(TurnEntry) /\ n \in Nat
      /\ DOMAIN turnHistory = 1 .. n /\ DOMAIN turnHistory' = 1 .. n + 1
      /\ \A i \in 1 .. n : turnHistory'[i] = turnHistory[i]
      /\ turnHistory'[n + 1] = e
  BY <1>1, <1>2, AppendEntry
<1>4. OthersOnlyAnswer(turnHistory')
  <2>1. \A i \in DOMAIN turnHistory' : turnHistory'[i].action # "LAST_CHANCE_PASS"
    BY <1>1, <1>3 DEF HistInv, NoPassYet, MayTakeTurn
  <2> QED
    BY <1>3, <2>1, NoPassOnlyAnswers
<1>5. \A q : AnswersIn(turnHistory', q) =
                IF q = p THEN AnswersIn(turnHistory, q) \union {n + 1} ELSE AnswersIn(turnHistory, q)
  BY <1>1, <1>2, AnswersOfAppend
<1> HIDE DEF n
<1>6. ASSUME NEW q
      PROVE  Believed(q)' <=> Believed(q) \/ (q = p /\ a = "TRUE")
  <2>1. AnswersOf(q)' = AnswersIn(turnHistory', q) /\ AnswersOf(q) = AnswersIn(turnHistory, q)
    BY DEF AnswersOf, AnswersIn, CallAt
  <2>2. AnswersIn(turnHistory, q) \subseteq 1 .. n
    BY <1>3 DEF AnswersIn
  <2> QED
    BY <1>1, <1>3, <1>5, <2>1, <2>2 DEF Believed
<1>7. Believers' = IF a = "TRUE" THEN Believers \union {p} ELSE Believers
  BY <1>6 DEF Believers
<1>8. ASSUME AllNonCallersResponded(ActivePlayers, WithAnswer(p)),
             NEW q \in ActivePlayers, q # lastCallerId
      PROVE  \E i : AnswersIn(turnHistory', q) = {i}
  <2>1. q \in Players /\ q \in respondedPlayers \union {p}
    BY <1>8 DEF AllNonCallersResponded, WithAnswer, ActivePlayers, StillIn
  <2>2. p \notin respondedPlayers \union {lastCallerId}
    BY OnTurnOwes
  <2>3. CASE q = p
    <3>1. AnswersIn(turnHistory, p) = {}
      BY <2>2 DEF HistInv, AnswersMatch
    <3> QED
      BY <1>5, <2>3, <3>1
  <2>4. CASE q # p
    <3>1. \E i : AnswersIn(turnHistory, q) = {i}
      BY <1>8, <2>1, <2>4 DEF HistInv, AnswersMatch
    <3> QED
      BY <1>5, <2>4, <3>1
  <2> QED
    BY <2>3, <2>4
<1> QED
  BY <1>3, <1>4, <1>7, <1>8

\* Somebody believes the last call when there is a TRUE after it.
LEMMA BelieversAreSeen ==
    ASSUME NEW hist \in Seq(TurnEntry), hist = turnHistory', LastCallIndexOf(hist) # 0
    PROVE  Believers' # {} <=> TrueAfter(hist, LastCallIndexOf(hist))
<1>1. ASSUME NEW q
      PROVE  Believed(q)' <=> \E i \in AnswersIn(hist, q) : hist[i].action = "TRUE"
  BY DEF Believed, AnswersOf, AnswersIn, CallAt
<1>2. ASSUME NEW q \in Believers' PROVE TrueAfter(hist, LastCallIndexOf(hist))
  BY <1>1, <1>2 DEF Believers, AnswersIn, TrueAfter
<1>3. ASSUME NEW i \in DOMAIN hist, i > LastCallIndexOf(hist), hist[i].action = "TRUE"
      PROVE  Believers' # {}
  <2>1. hist[i].player \in Players
    <3>1. hist[i] \in TurnEntry
      BY <1>3
    <3> QED
      BY <3>1 DEF TurnEntry
  <2>2. i \in AnswersIn(hist, hist[i].player)
    BY <1>3 DEF AnswersIn, Responses
  <2>3. hist[i].player \in Believers'
    BY <1>1, <1>3, <2>1, <2>2 DEF Believers
  <2> QED
    BY <2>3
<1> QED
  BY <1>2, <1>3 DEF TrueAfter

\* A doubt ...
LEMMA BullIsAnswer ==
    ASSUME RulesTable, TypeOK, TypeOK', TurnInv, HistInv, MemoFits, ~GameOver,
           NEW p \in Players, HandleBull(p)
    PROVE  Rules!Answer(p, FALSE)
<1> DEFINE all == AllNonCallersResponded(ActivePlayers, WithAnswer(p))
<1>1. /\ MayTakeTurn(p) /\ currentHand # NoHand /\ "BULL" \in Responses
      /\ turnHistory' = Append(turnHistory, Entry(p, "BULL", NoHand))
      /\ respondedPlayers' = WithAnswer(p)
      /\ UNCHANGED <<settings, currentHand, lastCallerId, lastChanceUsed>>
  BY DEF HandleBull, fixedVars, Responses
<1>2. /\ p \in Owing /\ Stage = "bidding" /\ p \notin respondedPlayers \union {lastCallerId}
      /\ Owing = ActivePlayers \ (respondedPlayers \union {lastCallerId})
  BY <1>1, OnTurnOwes
<1>3. /\ OthersOnlyAnswer(turnHistory') /\ Believers' = Believers
      /\ turnHistory' \in Seq(TurnEntry)
      /\ all => \A q \in ActivePlayers \ {lastCallerId} : \E i : AnswersIn(turnHistory', q) = {i}
  BY <1>1, AnswerIsNoted
<1>4. all <=> Owing = {p}
  BY <1>2 DEF AllNonCallersResponded, WithAnswer
<1>5. CASE ~all
  <2>1. roundPhase' = "BULL_PHASE" /\ UNCHANGED <<isEliminated, cardCount>>
    BY <1>5 DEF HandleBull, scoreVars
  <2>2. ActivePlayers' = ActivePlayers
    BY <2>1 DEF ActivePlayers, StillIn
  <2>3. Owing' = Owing \ {p} /\ Stage' = Stage
    BY <1>1, <1>2, <2>1, <2>2 DEF Owing, Stage, WithAnswer
  <2> QED
    BY <1>1, <1>2, <1>3, <1>4, <1>5, <2>1, <2>2, <2>3 DEF Rules!Answer, NoHand
<1>6. CASE all
  <2>1. /\ RememberLastCall(turnHistory')
        /\ \/ /\ ~TrueAfter(turnHistory', lastCallIndex') /\ ~lastChanceUsed
              /\ OfferLastChance(isEliminated)
           \/ /\ TrueAfter(turnHistory', lastCallIndex') \/ lastChanceUsed
              /\ ResolveRound(isEliminated, turnHistory')
    BY <1>6 DEF HandleBull, RememberLastCall
  <2>2. Believers' # {} <=> TrueAfter(turnHistory', lastCallIndex')
    <3>1. SmallTable
      BY DEF RulesTable, SmallTable
    <3>2. /\ TrueAfter(turnHistory', lastCallIndex') <=> TrueAfter(turnHistory', CallAt)
          /\ LastCallIndexOf(turnHistory') = CallAt
      BY <1>1, <1>6, <2>1, <3>1, BullSeesBelief
    <3>3. CallAt # 0
      BY <1>1 DEF MemoFits, AnswersCounted, MayTakeTurn
    <3> QED
      BY <1>3, <3>2, <3>3, BelieversAreSeen
  <2>3. CASE OfferLastChance(isEliminated)
    <3>1. roundPhase' = "LAST_CHANCE" /\ UNCHANGED <<isEliminated, cardCount>>
      BY <2>3 DEF OfferLastChance
    <3>2. ActivePlayers' = ActivePlayers
      BY <3>1 DEF ActivePlayers, StillIn
    <3>3. Owing' = {} /\ Stage' = "lastChance"
      BY <3>1 DEF Owing, Stage
    <3>4. Believers' = {} /\ ~lastChanceUsed
      BY <2>1, <2>2, <2>3, <3>1 DEF ResolveRound
    <3> QED
      BY <1>1, <1>2, <1>3, <1>4, <1>6, <3>1, <3>2, <3>3, <3>4 DEF Rules!Answer, NoHand
  <2>4. CASE ResolveRound(isEliminated, turnHistory')
    <3>1. Believers' # {} \/ lastChanceUsed
      BY <2>1, <2>2, <2>4 DEF ResolveRound, OfferLastChance
    <3>2. Rules!Reveal(Believers')
      BY <1>3, <1>6, <2>4, RevealIsReveal
    <3>3. Rules!Reveal(Believers)
      BY <1>3, <3>2
    <3> QED
      BY <1>1, <1>2, <1>3, <1>4, <1>6, <3>1, <3>3 DEF Rules!Answer, NoHand
  <2> QED
    BY <2>1, <2>3, <2>4
<1> QED
  BY <1>5, <1>6

\* ... and a belief.
LEMMA TrueIsAnswer ==
    ASSUME RulesTable, TypeOK, TurnInv, HistInv, ~GameOver, NEW p \in Players, HandleTrue(p)
    PROVE  Rules!Answer(p, TRUE)
<1> DEFINE all == AllNonCallersResponded(ActivePlayers, WithAnswer(p))
           faith == Believers \union {p}
<1>1. /\ MayTakeTurn(p) /\ currentHand # NoHand /\ "TRUE" \in Responses
      /\ turnHistory' = Append(turnHistory, Entry(p, "TRUE", NoHand))
      /\ respondedPlayers' = WithAnswer(p)
      /\ UNCHANGED <<settings, currentHand, lastCallerId, lastChanceUsed>>
  BY DEF HandleTrue, fixedVars, Responses, TurnInv, AnswersNeedHand
<1>2. /\ p \in Owing /\ Stage = "bidding" /\ p \notin respondedPlayers \union {lastCallerId}
      /\ Owing = ActivePlayers \ (respondedPlayers \union {lastCallerId})
  BY <1>1, OnTurnOwes
<1>3. /\ OthersOnlyAnswer(turnHistory') /\ Believers' = faith
      /\ turnHistory' \in Seq(TurnEntry)
      /\ all => \A q \in ActivePlayers \ {lastCallerId} : \E i : AnswersIn(turnHistory', q) = {i}
  BY <1>1, AnswerIsNoted
<1>4. all <=> Owing = {p}
  BY <1>2 DEF AllNonCallersResponded, WithAnswer
<1>5. CASE ~all
  <2>1. roundPhase' = roundPhase /\ UNCHANGED <<isEliminated, cardCount>>
    BY <1>5 DEF HandleTrue, scoreVars
  <2>2. ActivePlayers' = ActivePlayers
    BY <2>1 DEF ActivePlayers, StillIn
  <2>3. Owing' = Owing \ {p} /\ Stage' = Stage
    BY <1>1, <1>2, <2>1, <2>2 DEF Owing, Stage, WithAnswer, MayTakeTurn
  <2> QED
    BY <1>1, <1>2, <1>3, <1>4, <1>5, <2>1, <2>2, <2>3 DEF Rules!Answer, NoHand
<1>6. CASE all
  <2>1. ResolveRound(isEliminated, turnHistory')
    BY <1>6 DEF HandleTrue
  <2>2. Rules!Reveal(faith) /\ faith # {}
    BY <1>3, <1>6, <2>1, RevealIsReveal
  <2> HIDE DEF faith
  <2> QED
    BY <1>1, <1>2, <1>3, <1>4, <1>6, <2>2 DEF Rules!Answer, NoHand, faith
<1> QED
  BY <1>5, <1>6

LEMMA PassIsPass ==
    ASSUME TypeOK, TypeOK', TurnInv, HistInv, ~GameOver, NEW p \in Players, HandleLastChancePass(p)
    PROVE  Rules!Pass
<1> DEFINE e == Entry(p, "LAST_CHANCE_PASS", NoHand)
<1>1. /\ roundPhase = "LAST_CHANCE" /\ ResolveRound(isEliminated, turnHistory')
      /\ UNCHANGED <<settings, currentHand, lastCallerId, lastChanceUsed>>
      /\ turnHistory' = Append(turnHistory, e) /\ turnHistory' \in Seq(TurnEntry)
  BY DEF HandleLastChancePass, fixedVars, TypeOK
<1>2. e \in TurnEntry /\ e.action \notin CallActions /\ e.action \notin Responses
      /\ turnHistory \in Seq(TurnEntry)
  BY DEF Entry, TurnEntry, TurnActions, CallActions, Responses, TypeOK
<1> HIDE DEF e
<1>3. \A q : AnswersIn(turnHistory', q) = AnswersIn(turnHistory, q)
  BY <1>1, <1>2, AnswersOfAppend
<1>4. Believers' = Believers
  <2>1. ASSUME NEW q
        PROVE  Believed(q)' <=> Believed(q)
    <3>1. AnswersOf(q)' = AnswersIn(turnHistory', q) /\ AnswersOf(q) = AnswersIn(turnHistory, q)
      BY DEF AnswersOf, AnswersIn, CallAt
    <3>2. \A i \in DOMAIN turnHistory : turnHistory'[i] = turnHistory[i]
      BY <1>1, <1>2, AppendEntry
    <3>3. AnswersIn(turnHistory, q) \subseteq DOMAIN turnHistory
      BY DEF AnswersIn
    <3> QED
      BY <1>3, <3>1, <3>2, <3>3 DEF Believed
  <2> QED
    BY <2>1 DEF Believers
<1>5. ASSUME NEW q \in ActivePlayers \ {lastCallerId}
      PROVE  \E i : AnswersIn(turnHistory', q) = {i}
  <2>1. q \in respondedPlayers \ {lastCallerId} /\ q \in Players /\ currentHand # NoHand
    BY <1>1 DEF TurnInv, LastChanceIsLast, AnswersNeedHand, ActivePlayers, StillIn
  <2> QED
    BY <1>3, <2>1 DEF HistInv, AnswersMatch
<1>6. OthersOnlyAnswer(turnHistory')
  BY PassOnlyByCaller
<1>7. Rules!Reveal(Believers')
  BY <1>1, <1>5, <1>6, RevealIsReveal
<1>8. Rules!Reveal(Believers)
  BY <1>4, <1>7
<1> QED
  BY <1>1, <1>4, <1>8 DEF Rules!Pass, Stage

LEMMA NextRoundIsDeal ==
    ASSUME TypeOK, StartNextRound, ~GameOver
    PROVE  Rules!Deal
<1>1. /\ roundPhase = "RESOLVING" /\ roundPhase' = "CALLING"
      /\ currentHand' = NoHand /\ lastCallerId' = NoPlayer /\ turnHistory' = << >>
      /\ lastChanceUsed' = FALSE /\ UNCHANGED <<settings, isEliminated, cardCount>>
  BY DEF StartNextRound
<1>2. ActivePlayers' = ActivePlayers /\ ActivePlayers \in SUBSET Players
  BY <1>1 DEF ActivePlayers, StillIn
<1>3. Cardinality(ActivePlayers) > 1
  BY <1>2, PlayersFinite DEF GameOver
<1>4. Owing' = ActivePlayers /\ Stage' = "bidding" /\ Stage = "revealed"
  BY <1>1, <1>2 DEF Owing, Stage
<1>5. Believers' = {}
  <2>1. \A q : AnswersOf(q)' = {}
    BY <1>1 DEF AnswersOf
  <2> QED
    BY <2>1 DEF Believers, Believed
<1>6. Rules!Remaining = ActivePlayers /\ Rules!Cardinality(Rules!Remaining) > 1
  <2>1. \A S : Rules!Cardinality(S) = Cardinality(S)
    BY DEF Rules!Cardinality, Cardinality
  <2> QED
    BY <1>3, <2>1, RemainingIs
<1>7. UNCHANGED <<settings.maxCards, cardCount, Players \ ActivePlayers>>
  BY <1>1, <1>2
<1> QED
  BY <1>1, <1>4, <1>5, <1>6, <1>7 DEF Rules!Deal, NoHand, NoPlayer

LEMMA NothingForTheRules ==
    ASSUME UNCHANGED <<settings, cardCount, isEliminated, roundPhase, currentHand, lastCallerId,
                       turnHistory, respondedPlayers, lastChanceUsed>>
    PROVE  UNCHANGED Rules!roundVars
<1>1. ActivePlayers' = ActivePlayers /\ Stage' = Stage
  BY DEF ActivePlayers, StillIn, Stage
<1>2. Owing' = Owing
  BY <1>1 DEF Owing
<1>3. Believers' = Believers
  <2>1. \A q : Believed(q)' <=> Believed(q)
    BY DEF Believed, AnswersOf, CallAt
  <2> QED
    BY <2>1 DEF Believers
<1> QED
  BY <1>1, <1>2, <1>3 DEF Rules!roundVars

\* Every operation of the engine is one move of the rules, or none that they know of.
LEMMA RulesStep ==
    ASSUME RulesTable, TypeOK, TypeOK', TurnInv, HistInv, MemoInv, OverIsRevealed, [Next]_vars
    PROVE  [Rules!RoundNext]_(Rules!roundVars)
<1>0. GameOver \/ MemoFits
  BY DEF MemoInv
<1>1. ASSUME NEW p \in Players, NEW h \in Hands, HandleCall(p, h)
      PROVE  Rules!RoundNext
  <2>1. Rules!Bid(p, h)
    BY <1>1, CallIsBid DEF OverIsRevealed, HandleCall, MayTakeTurn
  <2> QED
    BY <2>1 DEF Rules!RoundNext, Hands
<1>2. ASSUME NEW p \in Players, HandleBull(p)
      PROVE  Rules!RoundNext
  <2>1. Rules!Answer(p, FALSE)
    BY <1>0, <1>2, BullIsAnswer DEF OverIsRevealed, HandleBull, MayTakeTurn
  <2> QED
    BY <2>1 DEF Rules!RoundNext
<1>3. ASSUME NEW p \in Players, HandleTrue(p)
      PROVE  Rules!RoundNext
  <2>1. Rules!Answer(p, TRUE)
    BY <1>3, TrueIsAnswer DEF OverIsRevealed, HandleTrue, MayTakeTurn
  <2> QED
    BY <2>1 DEF Rules!RoundNext
<1>4. ASSUME NEW p \in Players, NEW h \in Hands, HandleLastChanceRaise(p, h)
      PROVE  Rules!RoundNext
  <2>1. Rules!RaiseOnLastChance(h)
    BY <1>4, RaiseIsRaise
  <2> QED
    BY <2>1 DEF Rules!RoundNext, Hands
<1>5. ASSUME NEW p \in Players, HandleLastChancePass(p)
      PROVE  Rules!RoundNext
  <2>1. Rules!Pass
    BY <1>5, PassIsPass DEF OverIsRevealed, HandleLastChancePass
  <2> QED
    BY <2>1 DEF Rules!RoundNext
<1>6. CASE StartNextRound /\ ~GameOver
  BY <1>6, NextRoundIsDeal DEF Rules!RoundNext
<1>7. CASE (StartNextRound /\ GameOver) \/ Restore \/ UNCHANGED vars
  BY <1>7, NothingForTheRules DEF StartNextRound, Restore, fixedVars, turnVars, vars
<1> QED
  BY <1>1, <1>2, <1>3, <1>4, <1>5, <1>6, <1>7 DEF Next, TurnAction, RulesTable

\* At a table of two to five that nobody leaves, the engine implements the rules of the
\* round: the index, the set of those who responded, the memo and the scan of the history
\* together pick the moves, penalties and eliminations the rules allow, and no others.
THEOREM EngineImplementsRules == RulesTable => (Spec => ImplementsRules)
<1> SUFFICES ASSUME RulesTable PROVE Spec => ImplementsRules
  OBVIOUS
<1>1. Init => Rules!RoundInit
  <2> SUFFICES ASSUME Init PROVE Rules!RoundInit
    OBVIOUS
  <2>1. /\ ActivePlayers = Players /\ Stage = "bidding" /\ cardCount = [p \in Players |-> 1]
        /\ currentHand = 0 /\ lastCallerId = 0 /\ lastChanceUsed = FALSE
    BY DEF Init, ActivePlayers, StillIn, Stage, STARTING_CARDS, NoHand, NoPlayer
  <2>2. Owing = Players
    BY <2>1 DEF Init, Owing
  <2>3. Believers = {}
    BY DEF Init, Believers, Believed, AnswersOf
  <2>4. settings.maxCards \in Nat \ {0}
    BY MaxCardsAssumption DEF Init
  <2> QED
    BY <2>1, <2>2, <2>3, <2>4 DEF Rules!RoundInit
<1>2. [](TypeOK /\ TurnInv /\ HistInv /\ MemoInv /\ OverIsRevealed) /\ [][Next]_vars
        => [][Rules!RoundNext]_(Rules!roundVars)
  BY RulesStep, PTL
<1> QED
  BY <1>1, <1>2, TypeCorrect, TurnOrderKept, AnswersKept, MemoKept, OverIsKept, PTL
     DEF Spec, ImplementsRules, Rules!RoundSpec
=============================================================================
