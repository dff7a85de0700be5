------------------------- MODULE GameEngineProofs -------------------------
(***************************************************************************)
(* What holds of GameEngine for every number of players and of hands, for  *)
(* every choice of settings and whoever leaves.                            *)
(***************************************************************************)
EXTENDS GameEngine, TLAPS, FiniteSetTheorems

-----------------------------------------------------------------------------
(* Facts about numbers and about the index arithmetic.                     *)

\* A nonempty set of naturals has a smallest element.
LEMMA SmallestInSet ==
    ASSUME NEW T \in SUBSET Nat, T # {}
    PROVE  \E x \in T : \A y \in T : x <= y
<1> DEFINE U == {0 .. x : x \in T}
<1>1. \A n \in Nat : 0 .. n \in FiniteSubsetsOf(Nat)
  BY FS_Interval DEF FiniteSubsetsOf
<1>2. PICK X \in U : \A Y \in U : ~(<<Y, X>> \in StrictSubsetOrdering(Nat))
  <2>1. U \subseteq FiniteSubsetsOf(Nat) /\ U # {}
    BY <1>1
  <2>2. IsWellFoundedOn(StrictSubsetOrdering(Nat), FiniteSubsetsOf(Nat))
    BY FS_StrictSubsetOrderingWellFounded
  <2>3. QED
    BY <2>1, <2>2, WFMin
<1>3. PICK x \in T : X = 0 .. x
  OBVIOUS
<1>4. ASSUME NEW y \in T, ~(x <= y)
      PROVE  FALSE
  <2>1. 0 .. y \subseteq 0 .. x /\ 0 .. y # 0 .. x
    <3>1. x \in 0 .. x /\ x \notin 0 .. y
      BY <1>4
    <3>2. QED
      BY <1>4, <3>1
  <2>2. <<0 .. y, 0 .. x>> \in StrictSubsetOrdering(Nat)
    BY <2>1 DEF StrictSubsetOrdering
  <2>3. QED
    BY <1>2, <1>3, <2>2
<1>5. QED
  BY <1>4

\* The remainder by n is an index below n.
LEMMA ModRange ==
    ASSUME NEW a \in Int, NEW n \in Nat \ {0}
    PROVE  a % n \in 0 .. n - 1
OBVIOUS

\* Any set of players is finite and no larger than the table.
LEMMA PlayersFinite ==
    ASSUME NEW S \in SUBSET Players
    PROVE  /\ IsFiniteSet(S)
           /\ Cardinality(S) \in 0 .. NumPlayers
<1>1. IsFiniteSet(Players) /\ Cardinality(Players) = NumPlayers
  BY NumPlayersAssumption, FS_Interval DEF Players
<1>2. QED
  BY <1>1, FS_Subset, FS_CardinalityType, NumPlayersAssumption

\* findIndex returns an index of the array it searched, or -1.
LEMMA IndexInRange ==
    ASSUME NEW S \in SUBSET Players, NEW p
    PROVE  /\ p \in S => IndexIn(S, p) \in 0 .. Cardinality(S) - 1
           /\ IndexIn(S, p) \in -1 .. NumPlayers - 1
<1>1. IsFiniteSet(S) /\ Cardinality(S) \in 0 .. NumPlayers
  BY PlayersFinite
<1>2. ASSUME p \in S
      PROVE  IndexIn(S, p) \in 0 .. Cardinality(S) - 1
  <2> DEFINE B == {q \in S : q < p}
  <2>1. B \subseteq S \ {p}
    BY <1>2, NumPlayersAssumption DEF Players
  <2>2. IsFiniteSet(S \ {p}) /\ Cardinality(S \ {p}) = Cardinality(S) - 1
    BY <1>1, <1>2, FS_RemoveElement
  <2>3. IsFiniteSet(B) /\ Cardinality(B) <= Cardinality(S) - 1
    BY <2>1, <2>2, FS_Subset
  <2>4. Cardinality(B) \in Nat
    BY <2>3, FS_CardinalityType
  <2>5. IndexIn(S, p) = Cardinality(B)
    BY <1>2 DEF IndexIn
  <2>6. QED
    BY <1>1, <2>3, <2>4, <2>5
<1>3. QED
  BY <1>1, <1>2, NumPlayersAssumption DEF IndexIn

\* The index grows with the seat.
LEMMA IndexInMonotone ==
    ASSUME NEW S \in SUBSET Players, NEW p \in S, NEW q \in S, p < q
    PROVE  IndexIn(S, p) < IndexIn(S, q)
<1> DEFINE Bp == {x \in S : x < p}
           Bq == {x \in S : x < q}
<1>1. p \in Nat /\ q \in Nat /\ S \subseteq Nat
  BY NumPlayersAssumption DEF Players
<1>2. Bp \subseteq Bq /\ p \in Bq /\ p \notin Bp
  <2>1. ASSUME NEW x \in S, x < p
        PROVE  x < q
    BY <1>1, <2>1
  <2>2. Bp \subseteq Bq
    BY <2>1
  <2>3. p \in Bq
    OBVIOUS
  <2>4. ~(p < p)
    BY <1>1
  <2>5. QED
    BY <2>2, <2>3, <2>4
<1>3. IsFiniteSet(Bq) /\ IsFiniteSet(Bp)
  BY PlayersFinite, FS_Subset
<1>4. Cardinality(Bp) <= Cardinality(Bq) /\ Cardinality(Bp) # Cardinality(Bq)
  BY <1>2, <1>3, FS_Subset
<1>5. Cardinality(Bp) \in Nat /\ Cardinality(Bq) \in Nat
  BY <1>3, FS_CardinalityType
<1>6. IndexIn(S, p) = Cardinality(Bp) /\ IndexIn(S, q) = Cardinality(Bq)
  BY DEF IndexIn
<1>7. QED
  BY <1>4, <1>5, <1>6

\* Different players have different indexes.
LEMMA IndexInInjective ==
    ASSUME NEW S \in SUBSET Players, NEW p \in S, NEW q \in S,
           IndexIn(S, p) = IndexIn(S, q)
    PROVE  p = q
<1>1. p \in Nat /\ q \in Nat
  BY NumPlayersAssumption DEF Players
<1>2. IndexIn(S, p) \in Int /\ IndexIn(S, q) \in Int
  BY IndexInRange, NumPlayersAssumption
<1>3. ~(p < q) /\ ~(q < p)
  BY <1>2, IndexInMonotone
<1>4. QED
  BY <1>1, <1>3

\* Every index below the number of players belongs to one of them.
LEMMA IndexInOnto ==
    ASSUME NEW S \in SUBSET Players, NEW i \in 0 .. Cardinality(S) - 1
    PROVE  \E p \in S : IndexIn(S, p) = i
<1> DEFINE T == 0 .. Cardinality(S) - 1
           f == [p \in S |-> IndexIn(S, p)]
<1>1. IsFiniteSet(S) /\ Cardinality(S) \in Nat
  BY PlayersFinite
<1>2. IsFiniteSet(T) /\ Cardinality(T) = Cardinality(S)
  BY <1>1, FS_Interval
<1>3. f \in Injection(S, T)
  <2>1. f \in [S -> T]
    BY IndexInRange
  <2>2. \A a, b \in S : f[a] = f[b] => a = b
    BY IndexInInjective
  <2>3. QED
    BY <2>1, <2>2 DEF Injection, IsInjective
<1>4. f \in Surjection(S, T)
  BY <1>2, <1>3, FS_Injection
<1>5. \E p \in S : f[p] = i
  BY <1>4 DEF Surjection
<1>6. QED
  BY <1>5

\* PlayerAt and IndexIn are inverse to each other.
LEMMA PlayerAtIndex ==
    ASSUME NEW S \in SUBSET Players
    PROVE  /\ \A i \in 0 .. Cardinality(S) - 1 :
                /\ PlayerAt(S, i) \in S
                /\ IndexIn(S, PlayerAt(S, i)) = i
           /\ \A p \in S : PlayerAt(S, IndexIn(S, p)) = p
           /\ \A i : PlayerAt(S, i) \in S \union {NoPlayer}
<1>1. \A i \in 0 .. Cardinality(S) - 1 :
        PlayerAt(S, i) \in S /\ IndexIn(S, PlayerAt(S, i)) = i
  BY IndexInOnto DEF PlayerAt
<1>2. ASSUME NEW p \in S
      PROVE  PlayerAt(S, IndexIn(S, p)) = p
  <2>1. PlayerAt(S, IndexIn(S, p)) \in S
    BY DEF PlayerAt
  <2>2. IndexIn(S, PlayerAt(S, IndexIn(S, p))) = IndexIn(S, p)
    BY DEF PlayerAt
  <2>3. QED
    BY <2>1, <2>2, IndexInInjective
<1>3. \A i : PlayerAt(S, i) \in S \union {NoPlayer}
  BY DEF PlayerAt
<1>4. QED
  BY <1>1, <1>2, <1>3

\* SkipCaller stays within the players still in.
LEMMA SkipCallerRange ==
    ASSUME NEW S \in SUBSET Players, NEW i \in 0 .. Cardinality(S) - 1, NEW c
    PROVE  SkipCaller(S, i, c) \in 0 .. Cardinality(S) - 1
<1>1. Cardinality(S) \in Nat \ {0}
  BY PlayersFinite
<1>2. i + 1 \in Int
  OBVIOUS
<1>3. (i + 1) % Cardinality(S) \in 0 .. Cardinality(S) - 1
  BY <1>1, <1>2, ModRange
<1>4. QED
  BY <1>3 DEF SkipCaller

\* The opener of the next round is one of the players still in.
LEMMA NextSeatIsIn ==
    ASSUME NEW S \in SUBSET Players, S # {}, NEW s \in Players
    PROVE  NextSeatAfter(s, S) \in S
<1> DEFINE steps(p) == (p + NumPlayers - s - 1) % NumPlayers
           T == {steps(p) : p \in S}
<1>1. \A p \in S : steps(p) \in Nat
  <2>1. ASSUME NEW p \in S
        PROVE  (p + NumPlayers - s - 1) % NumPlayers \in 0 .. NumPlayers - 1
    <3>1. p + NumPlayers - s - 1 \in Int
      BY NumPlayersAssumption DEF Players
    <3>2. QED
      BY <3>1, NumPlayersAssumption, ModRange
  <2>2. QED
    BY <2>1
<1>2. PICK x \in T : \A y \in T : x <= y
  <2>1. T \in SUBSET Nat /\ T # {}
    BY <1>1
  <2>2. QED
    BY <2>1, SmallestInSet
<1>3. PICK p \in S : x = steps(p)
  OBVIOUS
<1>4. \A q \in S : steps(p) <= steps(q)
  BY <1>2, <1>3
<1>5. QED
  BY <1>4 DEF NextSeatAfter

\* The place of the last call is a natural number, and within the history.
LEMMA LastCallIndexType ==
    ASSUME NEW hist \in Seq(TurnEntry)
    PROVE  LastCallIndexOf(hist) \in Nat
<1> DEFINE M == {0} \union {i \in DOMAIN hist : hist[i].action \in CallActions}
           T == {Len(hist) - i : i \in M}
<1>1. M \subseteq 0 .. Len(hist) /\ Len(hist) \in Nat
  OBVIOUS
<1>2. PICK x \in T : \A y \in T : x <= y
  <2>1. T \in SUBSET Nat /\ T # {}
    BY <1>1
  <2>2. QED
    BY <2>1, SmallestInSet
<1>3. PICK m \in M : x = Len(hist) - m
  OBVIOUS
<1>4. ASSUME NEW i \in M
      PROVE  m >= i
  <2>1. Len(hist) - m <= Len(hist) - i
    BY <1>2, <1>3
  <2>2. QED
    BY <1>1, <2>1
<1>5. Max(M) \in M
  BY <1>4 DEF Max
<1>6. QED
  BY <1>1, <1>5 DEF LastCallIndexOf

-----------------------------------------------------------------------------
(* Type correctness.                                                       *)

\* What the revealing of the cards leaves behind has the right type.
LEMMA ResolveRoundType ==
    ASSUME TypeOK, NEW elim \in [Players -> BOOLEAN], NEW hist,
           ResolveRound(elim, hist)
    PROVE  /\ roundPhase' \in RoundPhases
           /\ cardCount' \in [Players -> Nat]
           /\ isEliminated' \in [Players -> BOOLEAN]
           /\ lastRoundResult' \in RoundResult
           /\ turnResult' \in TurnResults
BY DEF ResolveRound, AtLimit, Penalized, TypeOK, RoundPhases, RoundResult, TurnResults, StillIn

\* Offering the last chance has the right type.
LEMMA OfferLastChanceType ==
    ASSUME TypeOK, NEW elim \in [Players -> BOOLEAN], OfferLastChance(elim)
    PROVE  /\ roundPhase' \in RoundPhases
           /\ currentPlayerIndex' \in -1 .. NumPlayers - 1
           /\ cardCount' \in [Players -> Nat]
           /\ isEliminated' \in [Players -> BOOLEAN]
           /\ lastRoundResult' \in RoundResult
           /\ turnResult' \in TurnResults
<1>1. StillIn(elim) \in SUBSET Players
  BY DEF StillIn
<1>2. QED
  BY <1>1, IndexInRange DEF OfferLastChance, TypeOK, RoundPhases, TurnResults

\* The index after a turn is that of a player still in.
LEMMA AdvanceTurnRange ==
    ASSUME TypeOK, NEW c, AdvanceTurn(c), ActivePlayers # {}
    PROVE  currentPlayerIndex' \in 0 .. Cardinality(ActivePlayers) - 1
<1> DEFINE n == Cardinality(ActivePlayers)
<1>1. ActivePlayers \in SUBSET Players
  BY DEF ActivePlayers, StillIn
<1>2. n \in Nat \ {0}
  BY <1>1, PlayersFinite, FS_EmptySet
<1>3. (currentPlayerIndex + 1) % n \in 0 .. n - 1
  <2>1. currentPlayerIndex + 1 \in Int
    BY NumPlayersAssumption DEF TypeOK
  <2>2. QED
    BY <1>2, <2>1, ModRange
<1>4. SkipCaller(ActivePlayers, (currentPlayerIndex + 1) % n, c) \in 0 .. n - 1
  BY <1>1, <1>3, SkipCallerRange
<1>5. QED
  BY <1>2, <1>4 DEF AdvanceTurn
\* Passing the turn on, also with nobody left to take it, keeps the index's type.
LEMMA AdvanceTurnType ==
    ASSUME TypeOK, NEW c, AdvanceTurn(c)
    PROVE  currentPlayerIndex' \in -1 .. NumPlayers - 1
<1>1. ActivePlayers \in SUBSET Players
  BY DEF ActivePlayers, StillIn
<1>2. Cardinality(ActivePlayers) \in 0 .. NumPlayers
  BY <1>1, PlayersFinite
<1>3. CASE ActivePlayers = {}
  BY <1>3, FS_EmptySet DEF AdvanceTurn, TypeOK
<1>4. CASE ActivePlayers # {}
  BY <1>2, <1>4, AdvanceTurnRange, NumPlayersAssumption
<1>5. QED
  BY <1>3, <1>4

\* The index after a player dropped out is that of a player still in, or -1
\* when there was no current player.
LEMMA ReindexType ==
    ASSUME TypeOK, NEW S \in SUBSET Players, Cardinality(S) > 1,
           NEW prev, NEW gone, ReindexCurrentPlayer(S, prev, gone)
    PROVE  currentPlayerIndex' \in -1 .. NumPlayers - 1
<1>1. Cardinality(S) \in 1 .. NumPlayers
  BY PlayersFinite
<1>2. currentPlayerIndex % Cardinality(S) \in 0 .. Cardinality(S) - 1
  <2>1. currentPlayerIndex \in Int
    BY NumPlayersAssumption DEF TypeOK
  <2>2. Cardinality(S) \in Nat \ {0}
    BY <1>1
  <2>3. QED
    BY <2>1, <2>2, ModRange
<1>3. SkipCaller(S, currentPlayerIndex % Cardinality(S), lastCallerId)
        \in -1 .. NumPlayers - 1
  BY <1>1, <1>2, SkipCallerRange, NumPlayersAssumption
<1>4. IndexIn(S, prev) \in -1 .. NumPlayers - 1
  BY IndexInRange
<1>5. QED
  BY <1>3, <1>4 DEF ReindexCurrentPlayer, TypeOK

\* Appending an entry to the history keeps it a history.
LEMMA AppendType ==
    ASSUME TypeOK, NEW p \in Players, NEW a \in TurnActions,
           NEW h \in Hands \union {NoHand}
    PROVE  Append(turnHistory, Entry(p, a, h)) \in Seq(TurnEntry)
<1>1. Entry(p, a, h) \in TurnEntry
  BY DEF Entry, TurnEntry
<1>2. QED
  BY <1>1 DEF TypeOK

\* The memo of the last call holds natural numbers.
LEMMA RememberType ==
    ASSUME TypeOK, NEW hist \in Seq(TurnEntry), RememberLastCall(hist)
    PROVE  lastCallIndex' \in Nat /\ lastCallIndexLength' \in Nat
BY LastCallIndexType DEF RememberLastCall, TypeOK

\* A call or a last-chance raise keeps the types of what it writes.
LEMMA AcceptCallType ==
    ASSUME TypeOK, NEW p \in Players, NEW h \in Hands, NEW a \in CallActions,
           AcceptCall(p, h, a), roundPhase' \in RoundPhases, lastChanceUsed' \in BOOLEAN
    PROVE  TypeOK'
<1>1. turnHistory' \in Seq(TurnEntry)
  BY AppendType DEF AcceptCall, TurnActions
<1>2. currentPlayerIndex' \in -1 .. NumPlayers - 1
  BY AdvanceTurnType DEF AcceptCall
<1>3. QED
  BY <1>1, <1>2 DEF AcceptCall, TypeOK, TurnResults, fixedVars, scoreVars, memoVars

\* handleBull keeps the types on its three outcomes: the turn passes on, the
\* caller is offered the last chance, or the cards are revealed.
LEMMA BullType ==
    ASSUME TypeOK, NEW p \in Players, HandleBull(p)
    PROVE  TypeOK'
<1> DEFINE hist == Append(turnHistory, Entry(p, "BULL", NoHand))
           responded == WithAnswer(p)
<1>1. hist \in Seq(TurnEntry)
  BY AppendType DEF TurnActions, Responses
<1>2. responded \in SUBSET Players
  BY DEF TypeOK, WithAnswer
<1>3. CASE ~AllNonCallersResponded(ActivePlayers, responded)
  <2>1. currentPlayerIndex' \in -1 .. NumPlayers - 1
    BY <1>3, AdvanceTurnType DEF HandleBull
  <2>2. QED
    BY <1>1, <1>2, <1>3, <2>1
    DEF HandleBull, TypeOK, fixedVars, scoreVars, memoVars, RoundPhases, TurnResults
<1>4. CASE AllNonCallersResponded(ActivePlayers, responded)
  <2>1. lastCallIndex' \in Nat /\ lastCallIndexLength' \in Nat
    BY <1>1, <1>4, RememberType DEF HandleBull
  <2>2. CASE OfferLastChance(isEliminated)
    <3>1. /\ roundPhase' \in RoundPhases
          /\ currentPlayerIndex' \in -1 .. NumPlayers - 1
          /\ cardCount' \in [Players -> Nat]
          /\ isEliminated' \in [Players -> BOOLEAN]
          /\ lastRoundResult' \in RoundResult
          /\ turnResult' \in TurnResults
      BY <2>2, OfferLastChanceType DEF TypeOK
    <3>2. QED
      BY <1>1, <1>2, <1>4, <2>1, <3>1 DEF HandleBull, TypeOK, fixedVars
  <2>3. CASE ResolveRound(isEliminated, hist) /\ UNCHANGED currentPlayerIndex
    <3>1. /\ roundPhase' \in RoundPhases
          /\ cardCount' \in [Players -> Nat]
          /\ isEliminated' \in [Players -> BOOLEAN]
          /\ lastRoundResult' \in RoundResult
          /\ turnResult' \in TurnResults
      BY <2>3, ResolveRoundType DEF TypeOK
    <3>2. QED
      BY <1>1, <1>2, <1>4, <2>1, <2>3, <3>1 DEF HandleBull, TypeOK, fixedVars
  <2>4. QED
    BY <1>4, <2>2, <2>3 DEF HandleBull
<1>5. QED
  BY <1>3, <1>4

\* handleTrue keeps the types, whether the turn passes on or the cards are revealed.
LEMMA TrueType ==
    ASSUME TypeOK, NEW p \in Players, HandleTrue(p)
    PROVE  TypeOK'
<1> DEFINE hist == Append(turnHistory, Entry(p, "TRUE", NoHand))
           responded == WithAnswer(p)
<1>1. hist \in Seq(TurnEntry)
  BY AppendType DEF TurnActions, Responses
<1>2. responded \in SUBSET Players
  BY DEF TypeOK, WithAnswer
<1>3. CASE ~AllNonCallersResponded(ActivePlayers, responded)
  <2>1. currentPlayerIndex' \in -1 .. NumPlayers - 1
    BY <1>3, AdvanceTurnType DEF HandleTrue
  <2>2. QED
    BY <1>1, <1>2, <1>3, <2>1
    DEF HandleTrue, TypeOK, fixedVars, scoreVars, memoVars, RoundPhases, TurnResults
<1>4. CASE AllNonCallersResponded(ActivePlayers, responded)
  <2>1. ResolveRound(isEliminated, hist) /\ UNCHANGED currentPlayerIndex
    BY <1>4 DEF HandleTrue
  <2>2. /\ roundPhase' \in RoundPhases
        /\ cardCount' \in [Players -> Nat]
        /\ isEliminated' \in [Players -> BOOLEAN]
        /\ lastRoundResult' \in RoundResult
        /\ turnResult' \in TurnResults
    BY <2>1, ResolveRoundType DEF TypeOK
  <2>3. QED
    BY <1>1, <1>2, <1>4, <2>1, <2>2 DEF HandleTrue, TypeOK, fixedVars, memoVars
<1>5. QED
  BY <1>3, <1>4

\* handleLastChancePass keeps the types.
LEMMA LastChancePassType ==
    ASSUME TypeOK, NEW p \in Players, HandleLastChancePass(p)
    PROVE  TypeOK'
<1> DEFINE hist == Append(turnHistory, Entry(p, "LAST_CHANCE_PASS", NoHand))
<1>1. hist \in Seq(TurnEntry)
  BY AppendType DEF TurnActions
<1>2. ResolveRound(isEliminated, hist)
  BY DEF HandleLastChancePass
<1>3. /\ roundPhase' \in RoundPhases
      /\ cardCount' \in [Players -> Nat]
      /\ isEliminated' \in [Players -> BOOLEAN]
      /\ lastRoundResult' \in RoundResult
      /\ turnResult' \in TurnResults
  BY <1>2, ResolveRoundType DEF TypeOK
<1>4. QED
  BY <1>1, <1>3 DEF HandleLastChancePass, TypeOK, fixedVars, memoVars

\* The elimination of a player, branch by branch.
LEMMA EliminateType ==
    ASSUME TypeOK, NEW p \in Players, EliminatePlayer(p)
    PROVE  TypeOK'
<1> DEFINE elim == [isEliminated EXCEPT ![p] = TRUE]
           left == StillIn(elim)
<1>1. elim \in [Players -> BOOLEAN] /\ left \in SUBSET Players
  BY DEF TypeOK, StillIn
<1>2. UNCHANGED <<fixedVars, turnVars>>
  BY DEF EliminatePlayer
<1>3. CASE /\ isEliminated' = elim
           /\ turnResult' = "game_over"
           /\ UNCHANGED <<cardCount, lastRoundResult, roundPhase, currentPlayerIndex, memoVars>>
  BY <1>1, <1>2, <1>3 DEF TypeOK, fixedVars, turnVars, memoVars, TurnResults
<1>4. CASE /\ ResolveRound(elim, turnHistory)
           /\ UNCHANGED <<currentPlayerIndex, memoVars>>
  <2>1. /\ roundPhase' \in RoundPhases
        /\ cardCount' \in [Players -> Nat]
        /\ isEliminated' \in [Players -> BOOLEAN]
        /\ lastRoundResult' \in RoundResult
        /\ turnResult' \in TurnResults
    BY <1>1, <1>4, ResolveRoundType
  <2>2. QED
    BY <1>2, <1>4, <2>1 DEF TypeOK, fixedVars, turnVars, memoVars
<1>5. CASE /\ Cardinality(left) > 1
           /\ isEliminated' = elim
           /\ ReindexCurrentPlayer(left, CurrentPlayerId, p)
           /\ turnResult' = "continue"
           /\ UNCHANGED <<cardCount, lastRoundResult, roundPhase, memoVars>>
  <2>1. currentPlayerIndex' \in -1 .. NumPlayers - 1
    BY <1>1, <1>5, ReindexType
  <2>2. QED
    BY <1>1, <1>2, <1>5, <2>1 DEF TypeOK, fixedVars, turnVars, memoVars, TurnResults
<1>6. CASE RememberLastCall(turnHistory) /\ OfferLastChance(elim)
  <2>1. lastCallIndex' \in Nat /\ lastCallIndexLength' \in Nat
    BY <1>6, RememberType DEF TypeOK
  <2>2. /\ roundPhase' \in RoundPhases
        /\ currentPlayerIndex' \in -1 .. NumPlayers - 1
        /\ cardCount' \in [Players -> Nat]
        /\ isEliminated' \in [Players -> BOOLEAN]
        /\ lastRoundResult' \in RoundResult
        /\ turnResult' \in TurnResults
    BY <1>1, <1>6, OfferLastChanceType
  <2>3. QED
    BY <1>2, <2>1, <2>2 DEF TypeOK, fixedVars, turnVars
<1>7. CASE /\ Cardinality(left) > 1
           /\ RememberLastCall(turnHistory)
           /\ ReindexCurrentPlayer(left, CurrentPlayerId, p)
           /\ ResolveRound(elim, turnHistory)
  <2>1. lastCallIndex' \in Nat /\ lastCallIndexLength' \in Nat
    BY <1>7, RememberType DEF TypeOK
  <2>2. currentPlayerIndex' \in -1 .. NumPlayers - 1
    BY <1>1, <1>7, ReindexType
  <2>3. /\ roundPhase' \in RoundPhases
        /\ cardCount' \in [Players -> Nat]
        /\ isEliminated' \in [Players -> BOOLEAN]
        /\ lastRoundResult' \in RoundResult
        /\ turnResult' \in TurnResults
    BY <1>1, <1>7, ResolveRoundType
  <2>4. QED
    BY <1>2, <2>1, <2>2, <2>3 DEF TypeOK, fixedVars, turnVars
<1>8. QED
  BY <1>3, <1>4, <1>5, <1>6, <1>7 DEF EliminatePlayer

\* The values of a fresh round.
LEMMA FreshRoundType == NoResult \in RoundResult /\ << >> \in Seq(TurnEntry)
<1>1. NoResult \in RoundResult
  BY DEF NoResult, RoundResult
<1>2. << >> \in Seq(TurnEntry)
  OBVIOUS
<1>3. QED
  BY <1>1, <1>2

\* startNextRound keeps the types: the next opener is a player of the table.
LEMMA NextRoundType ==
    ASSUME TypeOK, StartNextRound
    PROVE  TypeOK'
<1>1. CASE GameOver
  BY <1>1 DEF StartNextRound, TypeOK, memoVars, turnVars, TurnResults
<1>2. CASE ~GameOver
  <2>1. ActivePlayers \in SUBSET Players /\ ActivePlayers # {}
    BY <1>2, FS_EmptySet DEF GameOver, ActivePlayers, StillIn
  <2>2. startingPlayerId' \in Players
    BY <1>2, <2>1, NextSeatIsIn DEF StartNextRound, TypeOK
  <2>3. currentPlayerIndex' \in -1 .. NumPlayers - 1
    BY <1>2, <2>1, IndexInRange DEF StartNextRound
  <2>4. QED
    BY <1>2, <2>2, <2>3, FreshRoundType
    DEF StartNextRound, TypeOK, memoVars, RoundPhases, TurnResults
<1>3. QED
  BY <1>1, <1>2

\* A new engine has the right type.
LEMMA InitType == Init => TypeOK
<1> SUFFICES ASSUME Init PROVE TypeOK
  OBVIOUS
<1>1. 1 \in Players /\ 0 \in -1 .. NumPlayers - 1
  BY NumPlayersAssumption DEF Players
<1>2. /\ isEliminated \in [Players -> BOOLEAN]
      /\ cardCount \in [Players -> Nat]
  BY DEF Init, STARTING_CARDS
<1>3. lastCallIndexLength \in Nat \union {-1} /\ respondedPlayers \in SUBSET Players
  BY DEF Init
<1>4. QED
  BY <1>1, <1>2, <1>3, FreshRoundType DEF Init, TypeOK, RoundPhases, TurnResults

\* Type correctness: whatever the players do and whoever leaves, the index
\* stays within the array or is findIndex's -1, and every field keeps its type.
THEOREM TypeCorrect == Spec => []TypeOK
<1>1. TypeOK /\ [Next]_vars => TypeOK'
  <2> SUFFICES ASSUME TypeOK, [Next]_vars
               PROVE  TypeOK'
    OBVIOUS
  <2>1. ASSUME NEW p \in Players, NEW h \in Hands, HandleCall(p, h)
        PROVE  TypeOK'
    BY <2>1, AcceptCallType DEF HandleCall, CallActions, RoundPhases
  <2>2. ASSUME NEW p \in Players, HandleBull(p)
        PROVE  TypeOK'
    BY <2>2, BullType
  <2>3. ASSUME NEW p \in Players, HandleTrue(p)
        PROVE  TypeOK'
    BY <2>3, TrueType
  <2>4. ASSUME NEW p \in Players, NEW h \in Hands, HandleLastChanceRaise(p, h)
        PROVE  TypeOK'
    BY <2>4, AcceptCallType DEF HandleLastChanceRaise, CallActions, RoundPhases
  <2>5. ASSUME NEW p \in Players, HandleLastChancePass(p)
        PROVE  TypeOK'
    BY <2>5, LastChancePassType
  <2>6. ASSUME NEW p \in Leavers, EliminatePlayer(p)
        PROVE  TypeOK'
    BY <2>6, EliminateType, LeaversAssumption DEF Players
  <2>7. CASE StartNextRound
    BY <2>7, NextRoundType
  <2>8. CASE Restore
    BY <2>8, FreshRoundType DEF Restore, TypeOK, fixedVars, turnVars, TurnResults
  <2>9. CASE UNCHANGED vars
    BY <2>9 DEF TypeOK, vars
  <2>10. QED
    BY <2>1, <2>2, <2>3, <2>4, <2>5, <2>6, <2>7, <2>8, <2>9 DEF Next, TurnAction
<1>2. QED
  BY <1>1, InitType, PTL DEF Spec

-----------------------------------------------------------------------------
(* Card counts and survivors.                                              *)

\* The reveal keeps everybody who stays in within the limit, and leaves
\* somebody in when somebody was.
LEMMA ResolveRoundScores ==
    ASSUME TypeOK, NEW elim \in [Players -> BOOLEAN], NEW hist,
           ResolveRound(elim, hist),
           \A p \in StillIn(elim) : cardCount[p] \in STARTING_CARDS .. settings.maxCards
    PROVE  /\ \A p \in ActivePlayers' :
                cardCount'[p] \in STARTING_CARDS .. settings.maxCards
           /\ StillIn(elim) # {} => ActivePlayers' # {}
<1> DEFINE left == StillIn(elim)
           atLimit == {p \in left : cardCount[p] + 1 > settings.maxCards}
<1>1. PICK handExists \in BOOLEAN :
        LET wrong == {p \in left : Incorrect(hist, handExists, p)}
            penalized == IF wrong = left /\ atLimit = left THEN {} ELSE wrong
        IN  /\ cardCount' = [p \in Players |->
                                IF p \in penalized THEN cardCount[p] + 1 ELSE cardCount[p]]
            /\ isEliminated' = [p \in Players |-> elim[p] \/ p \in penalized \intersect atLimit]
  BY DEF ResolveRound, AtLimit, Penalized
<1> DEFINE wrong == {p \in left : Incorrect(hist, handExists, p)}
           penalized == IF wrong = left /\ atLimit = left THEN {} ELSE wrong
<1>2. ActivePlayers' = left \ (penalized \intersect atLimit)
  BY <1>1 DEF ActivePlayers, StillIn
<1>3. settings.maxCards \in Nat /\ cardCount \in [Players -> Nat] /\ left \subseteq Players
  BY MaxCardsAssumption DEF TypeOK, StillIn
<1>4. ASSUME NEW p \in ActivePlayers'
      PROVE  cardCount'[p] \in STARTING_CARDS .. settings.maxCards
  <2>1. p \in left /\ p \in Players /\ cardCount[p] \in STARTING_CARDS .. settings.maxCards
    BY <1>2, <1>3
  <2>2. CASE p \in penalized
    <3>1. ~(cardCount[p] + 1 > settings.maxCards)
      BY <1>2, <2>1, <2>2
    <3>2. cardCount'[p] = cardCount[p] + 1
      BY <1>1, <2>1, <2>2
    <3>3. QED
      BY <1>3, <2>1, <3>1, <3>2 DEF STARTING_CARDS
  <2>3. CASE p \notin penalized
    BY <1>1, <2>1, <2>3
  <2>4. QED
    BY <2>2, <2>3
<1>5. ASSUME left # {}
      PROVE  ActivePlayers' # {}
  <2>1. CASE wrong = left /\ atLimit = left
    BY <1>2, <1>5, <2>1
  <2>2. CASE ~(wrong = left /\ atLimit = left)
    <3>1. \E p \in left : p \notin wrong \intersect atLimit
      BY <2>2
    <3>2. QED
      BY <1>2, <2>2, <3>1
  <2>3. QED
    BY <2>1, <2>2
<1>6. QED
  BY <1>4, <1>5

\* What a step does to the scores: nothing or a departure, or a reveal after
\* at most one departure that leaves several players.
LEMMA ScoreSteps ==
    ASSUME TypeOK, [Next]_vars
    PROVE  \/ /\ UNCHANGED <<settings, cardCount>>
              /\ \A p \in ActivePlayers' : p \in ActivePlayers
              /\ roundPhase' = "RESOLVING" => roundPhase = "RESOLVING"
           \/ /\ UNCHANGED settings
              /\ \E elim \in [Players -> BOOLEAN] : \E hist :
                    /\ ResolveRound(elim, hist)
                    /\ StillIn(elim) \subseteq ActivePlayers
                    /\ elim = isEliminated \/ Cardinality(StillIn(elim)) > 1
<1> DEFINE Quiet == /\ UNCHANGED <<settings, cardCount>>
                    /\ \A p \in ActivePlayers' : p \in ActivePlayers
                    /\ roundPhase' = "RESOLVING" => roundPhase = "RESOLVING"
           Scored == /\ UNCHANGED settings
                     /\ \E elim \in [Players -> BOOLEAN] : \E hist :
                           /\ ResolveRound(elim, hist)
                           /\ StillIn(elim) \subseteq ActivePlayers
                           /\ elim = isEliminated \/ Cardinality(StillIn(elim)) > 1
<1> SUFFICES Quiet \/ Scored
  OBVIOUS
<1>0. isEliminated \in [Players -> BOOLEAN] /\ StillIn(isEliminated) = ActivePlayers
  BY DEF TypeOK, ActivePlayers
<1>1. ASSUME NEW p \in Players, NEW h \in Hands, HandleCall(p, h)
      PROVE  Quiet
  BY <1>1 DEF HandleCall, AcceptCall, fixedVars, scoreVars, ActivePlayers, StillIn
<1>2. ASSUME NEW p \in Players, HandleBull(p)
      PROVE  Quiet \/ Scored
  <2>1. UNCHANGED settings
    BY <1>2 DEF HandleBull, fixedVars
  <2>2. CASE \E hist : ResolveRound(isEliminated, hist)
    BY <1>0, <2>1, <2>2
  <2>3. CASE UNCHANGED scoreVars /\ roundPhase' = "BULL_PHASE"
    BY <2>1, <2>3 DEF scoreVars, ActivePlayers, StillIn
  <2>4. CASE OfferLastChance(isEliminated)
    BY <2>1, <2>4 DEF OfferLastChance, ActivePlayers, StillIn
  <2>5. QED
    BY <1>2, <2>2, <2>3, <2>4 DEF HandleBull
<1>3. ASSUME NEW p \in Players, HandleTrue(p)
      PROVE  Quiet \/ Scored
  <2>1. UNCHANGED settings
    BY <1>3 DEF HandleTrue, fixedVars
  <2>2. CASE \E hist : ResolveRound(isEliminated, hist)
    BY <1>0, <2>1, <2>2
  <2>3. CASE UNCHANGED <<scoreVars, roundPhase>>
    BY <2>1, <2>3 DEF scoreVars, ActivePlayers, StillIn
  <2>4. QED
    BY <1>3, <2>2, <2>3 DEF HandleTrue
<1>4. ASSUME NEW p \in Players, NEW h \in Hands, HandleLastChanceRaise(p, h)
      PROVE  Quiet
  BY <1>4 DEF HandleLastChanceRaise, AcceptCall, fixedVars, scoreVars, ActivePlayers, StillIn
<1>5. ASSUME NEW p \in Players, HandleLastChancePass(p)
      PROVE  Scored
  BY <1>0, <1>5 DEF HandleLastChancePass, fixedVars
<1>6. ASSUME NEW p \in Players, EliminatePlayer(p)
      PROVE  Quiet \/ Scored
  <2> DEFINE elim == [isEliminated EXCEPT ![p] = TRUE]
  <2>1. UNCHANGED settings
    BY <1>6 DEF EliminatePlayer, fixedVars
  <2>2. elim \in [Players -> BOOLEAN] /\ StillIn(elim) \subseteq ActivePlayers
    BY <1>0 DEF StillIn
  <2>3. CASE UNCHANGED <<cardCount, roundPhase>> /\ isEliminated' = elim
    BY <2>1, <2>2, <2>3 DEF ActivePlayers
  <2>4. CASE Cardinality(StillIn(elim)) > 1 /\ ResolveRound(elim, turnHistory)
    BY <2>1, <2>2, <2>4
  <2>5. CASE OfferLastChance(elim)
    BY <2>1, <2>2, <2>5 DEF OfferLastChance, ActivePlayers
  <2>6. QED
    BY <1>6, <2>3, <2>4, <2>5 DEF EliminatePlayer
<1>7. CASE StartNextRound
  BY <1>7 DEF StartNextRound, ActivePlayers, StillIn
<1>8. CASE Restore
  BY <1>8 DEF Restore, fixedVars, ActivePlayers, StillIn
<1>9. CASE UNCHANGED vars
  BY <1>9 DEF vars, ActivePlayers, StillIn
<1>10. QED
  <2>1. Leavers \subseteq Players
    BY LeaversAssumption DEF Players
  <2>2. QED
    BY <1>1, <1>2, <1>3, <1>4, <1>5, <1>6, <1>7, <1>8, <1>9, <2>1 DEF Next, TurnAction

\* Nobody who is still in ever holds more cards than the setting allows, or none.
THEOREM CardsStayWithinLimit == Spec => []CardsWithinLimit
<1>1. Init => CardsWithinLimit
  <2> SUFFICES ASSUME Init, NEW p \in ActivePlayers
               PROVE  cardCount[p] \in STARTING_CARDS .. settings.maxCards
    BY DEF CardsWithinLimit
  <2>1. p \in Players
    BY DEF ActivePlayers, StillIn
  <2>2. settings.maxCards \in Nat \ {0}
    BY MaxCardsAssumption DEF Init
  <2>3. QED
    BY <2>1, <2>2 DEF Init, STARTING_CARDS
<1>2. TypeOK /\ CardsWithinLimit /\ [Next]_vars => CardsWithinLimit'
  <2> SUFFICES ASSUME TypeOK, CardsWithinLimit, [Next]_vars
               PROVE  CardsWithinLimit'
    OBVIOUS
  <2>1. CASE /\ UNCHANGED <<settings, cardCount>>
             /\ \A p \in ActivePlayers' : p \in ActivePlayers
    BY <2>1 DEF CardsWithinLimit
  <2>2. ASSUME UNCHANGED settings, NEW elim \in [Players -> BOOLEAN], NEW hist,
               ResolveRound(elim, hist), StillIn(elim) \subseteq ActivePlayers
        PROVE  CardsWithinLimit'
    BY <2>2, ResolveRoundScores DEF CardsWithinLimit
  <2>3. QED
    BY <2>1, <2>2, ScoreSteps
<1>3. QED
  BY <1>1, <1>2, TypeCorrect, PTL DEF Spec

\* A reveal never puts out everybody who was still in: a round of which all
\* answers are wrong costs nobody a card when it would put everybody out.
THEOREM RevealLeavesSurvivors == Spec => SomeoneSurvivesReveal
<1>1. TypeOK /\ CardsWithinLimit /\ [Next]_vars => [Reveals => ActivePlayers' # {}]_vars
  <2> SUFFICES ASSUME TypeOK, CardsWithinLimit, [Next]_vars, Reveals
               PROVE  ActivePlayers' # {}
    OBVIOUS
  <2>1. PICK elim \in [Players -> BOOLEAN] : \E hist :
            /\ ResolveRound(elim, hist)
            /\ StillIn(elim) \subseteq ActivePlayers
            /\ elim = isEliminated \/ Cardinality(StillIn(elim)) > 1
    BY ScoreSteps DEF Reveals
  <2>2. StillIn(elim) # {}
    BY <2>1, FS_EmptySet DEF Reveals, GameOver, ActivePlayers
  <2>3. QED
    BY <2>1, <2>2, ResolveRoundScores DEF CardsWithinLimit
<1>2. QED
  BY <1>1, TypeCorrect, CardsStayWithinLimit, PTL DEF Spec, SomeoneSurvivesReveal
============================================================================
