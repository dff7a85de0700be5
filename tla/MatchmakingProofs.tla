-------------------------- MODULE MatchmakingProofs --------------------------
(* Ranked matchmaking, for any number of users and sockets, any ratings and    *)
(* any number of commands on their way: what the maps, the queues, the answers *)
(* that are awaited and the matches have to do with each other.  The invariant *)
(* is about one user at a time; all that others do leaves it as it is.         *)
EXTENDS Matchmaking, FiniteSetTheorems, TLAPS

-----------------------------------------------------------------------------
(* One user's part of the line.                                            *)

Adds(u, L) == {i \in DOMAIN L : L[i].kind = "zadd" /\ User(L[i].entry) = u}
Leaves(u, L) == {i \in DOMAIN L : L[i].kind \in {"leaveScan", "leaveRemove"} /\ User(L[i].entry) = u}
Reads(u, L) == {i \in DOMAIN L : L[i].kind = "read" /\ u \in About(L[i])}
Takes(u, L) == {i \in DOMAIN L : L[i].kind \in {"scan", "remove"} /\ u \in About(L[i])}

Only(u, S, e) == \A f \in S : User(f) = u => f = e

\* Of a user the maps do not have: what is in a queue, or was read, is an entry whose
\* addition is in line before; a leave that is still in line found nothing.
IdleLine(u, L, Q) ==
    /\ Takes(u, L) = {}
    /\ \A i, j \in Adds(u, L) : i = j
    /\ \A j \in Adds(u, L) : L[j].ok => L[j].entry \in Q[L[j].mode]
    /\ \A m \in Modes : \A e \in Q[m] : User(e) = u =>
         \E j \in Adds(u, L) : L[j].entry = e /\ L[j].mode = m
    /\ \A i \in Leaves(u, L) : L[i].found = {} /\ \A j \in Adds(u, L) : i < j
    /\ \A i \in Reads(u, L) : \E j \in Adds(u, L) :
         j < i /\ L[i].mode = L[j].mode /\ Only(u, L[i].entries, L[j].entry)

\* Of a user who waits with ticket T in the queue of m: nothing else of his is in a
\* queue or was read.  Either he leaves or passes have read his ticket, of which one
\* at most takes it; it is in the queue unless the one or the other has removed it.
ReadsTicket(u, L, T, m) == \A i \in Reads(u, L) : L[i].mode = m /\ Only(u, L[i].entries, T)
TakesTicket(u, L, Q, T, m) ==
    /\ \A i \in Takes(u, L) : /\ L[i].mode = m /\ Only(u, L[i].chosen, T)
                              /\ L[i].ok => (T \in Range(L[i].rest) <=> T \in Q[m])
    /\ \A i, j \in Takes(u, L) : i = j
    /\ \A i \in Takes(u, L), j \in Reads(u, L) : i < j /\ L[i].ok => T \in Range(L[i].rest)
LeavesTicket(u, L, Q, T, m) ==
    /\ \A i \in Leaves(u, L) : /\ L[i].mode = m /\ L[i].found \subseteq {T} /\ L[i].entry.socket = T.socket
                               /\ L[i].ok /\ L[i].found = {} => T \notin Q[m]
    /\ \A i, j \in Leaves(u, L) : i < j /\ L[i].ok /\ L[i].found = {} => L[j].found = {}
Queued(u, Q, T, m) == \A k \in Modes : \A e \in Q[k] : User(e) = u => k = m /\ e = T
WaitLine(u, L, Q, T, m) ==
    /\ Adds(u, L) = {}
    /\ Queued(u, Q, T, m)
    /\ ReadsTicket(u, L, T, m) /\ TakesTicket(u, L, Q, T, m) /\ LeavesTicket(u, L, Q, T, m)
    /\ Leaves(u, L) = {} \/ Reads(u, L) \cup Takes(u, L) = {}
    /\ (\E i \in Leaves(u, L) : L[i].found = {}) \/ Takes(u, L) # {} \/ T \in Q[m]

\* Nothing that concerns the user is lost or new from L and Q to M and R.
Follows(u, L, Q, M, R) ==
    /\ IdleLine(u, L, Q) => IdleLine(u, M, R)
    /\ \A T \in Entry, m \in Modes : User(T) = u /\ WaitLine(u, L, Q, T, m) => WaitLine(u, M, R, T, m)
    /\ \A j \in Adds(u, M) : \E i \in Adds(u, L) : M[j] = L[i]
    /\ Leaves(u, L) # {} => Leaves(u, M) # {}

\* What the places of a line become when its first command is answered.
LEMMA AnsweredPlaces ==
    ASSUME NEW S, NEW L \in Seq(S), L # <<>>, NEW u
    PROVE  /\ Tail(L) \in Seq(S) /\ Len(Tail(L)) = Len(L) - 1
           /\ \A i \in DOMAIN Tail(L) : i \in Nat /\ i + 1 \in DOMAIN L /\ Tail(L)[i] = L[i + 1]
           /\ \A i \in DOMAIN L \ {1} : i - 1 \in DOMAIN Tail(L) /\ L[i] = Tail(L)[i - 1]
           /\ \A i \in DOMAIN L : i \in Nat \ {0}
           /\ \A i \in DOMAIN L, j \in DOMAIN L : i < j => j # 1
           /\ 1 \in DOMAIN L /\ Head(L) = L[1]
<1>1. /\ Tail(L) \in Seq(S) /\ Len(Tail(L)) = Len(L) - 1
      /\ \A i \in 1 .. Len(L) - 1 : Tail(L)[i] = L[i + 1]
      /\ Len(L) \in Nat \ {0} /\ DOMAIN L = 1 .. Len(L) /\ DOMAIN Tail(L) = 1 .. Len(L) - 1
      /\ Head(L) = L[1]
  OBVIOUS
<1> QED
  BY <1>1

LEMMA SentPlaces ==
    ASSUME NEW S, NEW L \in Seq(S), NEW op \in S
    PROVE  /\ Append(L, op) \in Seq(S)
           /\ DOMAIN Append(L, op) = DOMAIN L \cup {Len(L) + 1}
           /\ \A i \in DOMAIN L : Append(L, op)[i] = L[i] /\ i < Len(L) + 1 /\ i \in Nat
           /\ Append(L, op)[Len(L) + 1] = op
           /\ Len(L) + 1 \notin DOMAIN L /\ Len(L) \in Nat
  OBVIOUS

\* The user's part of the line, but for the first place, moves up.
Up(X, Y, L, M) ==
    /\ \A i \in Y : i + 1 \in X /\ M[i] = L[i + 1] /\ i \in Nat
    /\ \A i \in X \ {1} : i - 1 \in Y /\ L[i] = M[i - 1] /\ i \in Nat

LEMMA AnsweredParts ==
    ASSUME NEW S, NEW L \in Seq(S), L # <<>>, NEW u
    PROVE  /\ Up(Adds(u, L), Adds(u, Tail(L)), L, Tail(L))
           /\ Up(Leaves(u, L), Leaves(u, Tail(L)), L, Tail(L))
           /\ Up(Reads(u, L), Reads(u, Tail(L)), L, Tail(L))
           /\ Up(Takes(u, L), Takes(u, Tail(L)), L, Tail(L))
<1> DEFINE M == Tail(L)
<1>0. /\ \A i \in DOMAIN M : i \in Nat /\ i + 1 \in DOMAIN L /\ M[i] = L[i + 1]
      /\ \A i \in DOMAIN L \ {1} : i - 1 \in DOMAIN M /\ L[i] = M[i - 1]
      /\ \A i \in DOMAIN L : i \in Nat \ {0}
      /\ 1 \in DOMAIN L
  BY AnsweredPlaces
<1> HIDE DEF M
<1>1. Up(Adds(u, L), Adds(u, M), L, M)
  BY <1>0 DEF Adds, Up
<1>2. Up(Leaves(u, L), Leaves(u, M), L, M)
  BY <1>0 DEF Leaves, Up
<1>3. Up(Reads(u, L), Reads(u, M), L, M)
  BY <1>0 DEF Reads, Up
<1>4. Up(Takes(u, L), Takes(u, M), L, M)
  BY <1>0 DEF Takes, Up
<1> QED
  BY <1>1, <1>2, <1>3, <1>4 DEF M

\* The user's part of the line M is that of L and, it may be, the command in place n.
Sends(u, L, op, M, n) ==
    /\ Adds(u, M) \ {n} = Adds(u, L) /\ Leaves(u, M) \ {n} = Leaves(u, L)
    /\ Reads(u, M) \ {n} = Reads(u, L) /\ Takes(u, M) \ {n} = Takes(u, L)
    /\ \A i \in Adds(u, L) \cup Leaves(u, L) \cup Reads(u, L) \cup Takes(u, L) :
         M[i] = L[i] /\ i \in Nat /\ i < n
    /\ M[n] = op /\ n \in DOMAIN M /\ n \in Nat

LEMMA SentParts ==
    ASSUME NEW S, NEW L \in Seq(S), NEW op \in S, NEW u
    PROVE  Sends(u, L, op, Append(L, op), Len(L) + 1)
<1> DEFINE M == Append(L, op)
           n == Len(L) + 1
<1>0. /\ DOMAIN M = DOMAIN L \cup {n} /\ M[n] = op
      /\ \A i \in DOMAIN L : M[i] = L[i] /\ i \in Nat /\ i < n
      /\ n \notin DOMAIN L /\ n \in Nat
  BY SentPlaces
<1> HIDE DEF M, n
<1>1. /\ Adds(u, M) \ {n} = Adds(u, L) /\ Leaves(u, M) \ {n} = Leaves(u, L)
      /\ Reads(u, M) \ {n} = Reads(u, L) /\ Takes(u, M) \ {n} = Takes(u, L)
  BY <1>0 DEF Adds, Leaves, Reads, Takes
<1>2. \A i \in Adds(u, L) \cup Leaves(u, L) \cup Reads(u, L) \cup Takes(u, L) : i \in DOMAIN L
  BY DEF Adds, Leaves, Reads, Takes
<1> QED
  BY <1>0, <1>1, <1>2 DEF Sends, M, n

\* The first answer is not the one a join of the user waits for.
LEMMA IdleAnswered ==
    ASSUME NEW S, NEW L \in Seq(S), L # <<>>, NEW u, NEW Q, IdleLine(u, L, Q), 1 \notin Adds(u, L)
    PROVE  IdleLine(u, Tail(L), Q)
<1> DEFINE M == Tail(L)
<1>1. /\ Up(Adds(u, L), Adds(u, M), L, M) /\ Up(Leaves(u, L), Leaves(u, M), L, M)
      /\ Up(Reads(u, L), Reads(u, M), L, M) /\ Up(Takes(u, L), Takes(u, M), L, M)
  BY AnsweredParts
<1> HIDE DEF M
<1>2. /\ \A i \in Adds(u, M) : i + 1 \in Adds(u, L) /\ M[i] = L[i + 1] /\ i \in Nat
      /\ \A i \in Adds(u, L) : i - 1 \in Adds(u, M) /\ L[i] = M[i - 1] /\ i \in Nat
  BY <1>1 DEF Up
<1>3. \A i \in Leaves(u, M) : i + 1 \in Leaves(u, L) /\ M[i] = L[i + 1] /\ i \in Nat
  BY <1>1 DEF Up
<1>4. \A i \in Reads(u, M) : i + 1 \in Reads(u, L) /\ M[i] = L[i + 1] /\ i \in Nat
  BY <1>1 DEF Up
<1>5. \A i \in Takes(u, M) : i + 1 \in Takes(u, L) /\ M[i] = L[i + 1] /\ i \in Nat
  BY <1>1 DEF Up
<1>11. Takes(u, M) = {}
  BY <1>5 DEF IdleLine
<1>12. \A i, j \in Adds(u, M) : i = j
  BY <1>2 DEF IdleLine
<1>13. \A j \in Adds(u, M) : M[j].ok => M[j].entry \in Q[M[j].mode]
  BY <1>2 DEF IdleLine
<1>14. ASSUME NEW m \in Modes, NEW e \in Q[m], User(e) = u
      PROVE  \E j \in Adds(u, M) : M[j].entry = e /\ M[j].mode = m
  <2>1. PICK j \in Adds(u, L) : L[j].entry = e /\ L[j].mode = m
    BY <1>14 DEF IdleLine
  <2> QED
    BY <1>2, <2>1
<1>15. ASSUME NEW i \in Leaves(u, M)
      PROVE  M[i].found = {} /\ \A j \in Adds(u, M) : i < j
  <2>1. L[i + 1].found = {} /\ \A j \in Adds(u, L) : i + 1 < j
    BY <1>3 DEF IdleLine
  <2> QED
    BY <1>2, <1>3, <2>1
<1>16. ASSUME NEW i \in Reads(u, M)
      PROVE  \E j \in Adds(u, M) :
               j < i /\ M[i].mode = M[j].mode /\ Only(u, M[i].entries, M[j].entry)
  <2>1. PICK j \in Adds(u, L) :
          j < i + 1 /\ L[i + 1].mode = L[j].mode /\ Only(u, L[i + 1].entries, L[j].entry)
    BY <1>4 DEF IdleLine
  <2>2. j - 1 \in Adds(u, M) /\ M[j - 1] = L[j] /\ j - 1 < i
    BY <1>2, <1>4, <2>1
  <2> QED
    BY <1>4, <2>1, <2>2
<1> QED
  BY <1>11, <1>12, <1>13, <1>14, <1>15, <1>16 DEF IdleLine, M

\* The first answer is to a pass that read the user's ticket, or to another user.
LEMMA WaitAnswered ==
    ASSUME NEW S, NEW L \in Seq(S), L # <<>>, NEW u, NEW Q, NEW T, NEW m, WaitLine(u, L, Q, T, m),
           1 \notin Leaves(u, L), 1 \notin Takes(u, L)
    PROVE  WaitLine(u, Tail(L), Q, T, m)
<1> DEFINE M == Tail(L)
<1>1. /\ Up(Adds(u, L), Adds(u, M), L, M) /\ Up(Leaves(u, L), Leaves(u, M), L, M)
      /\ Up(Reads(u, L), Reads(u, M), L, M) /\ Up(Takes(u, L), Takes(u, M), L, M)
  BY AnsweredParts
<1> HIDE DEF M
<1>2. \A i \in Adds(u, M) : i + 1 \in Adds(u, L)
  BY <1>1 DEF Up
<1>3. /\ \A i \in Leaves(u, M) : i + 1 \in Leaves(u, L) /\ M[i] = L[i + 1] /\ i \in Nat
      /\ \A i \in Leaves(u, L) : i - 1 \in Leaves(u, M) /\ L[i] = M[i - 1] /\ i \in Nat
  BY <1>1 DEF Up
<1>4. \A i \in Reads(u, M) : i + 1 \in Reads(u, L) /\ M[i] = L[i + 1] /\ i \in Nat
  BY <1>1 DEF Up
<1>5. /\ \A i \in Takes(u, M) : i + 1 \in Takes(u, L) /\ M[i] = L[i + 1] /\ i \in Nat
      /\ \A i \in Takes(u, L) : i - 1 \in Takes(u, M) /\ L[i] = M[i - 1] /\ i \in Nat
  BY <1>1 DEF Up
<1>11. Adds(u, M) = {}
  BY <1>2 DEF WaitLine
<1>12. ReadsTicket(u, M, T, m)
  BY <1>4 DEF WaitLine, ReadsTicket
<1>13. TakesTicket(u, M, Q, T, m)
  <2>1. \A i \in Takes(u, M) : /\ M[i].mode = m /\ Only(u, M[i].chosen, T)
                               /\ M[i].ok => (T \in Range(M[i].rest) <=> T \in Q[m])
    BY <1>5 DEF WaitLine, TakesTicket
  <2>2. \A i, j \in Takes(u, M) : i = j
    BY <1>5 DEF WaitLine, TakesTicket
  <2>3. ASSUME NEW i \in Takes(u, M), NEW j \in Reads(u, M), i < j, M[i].ok
        PROVE  T \in Range(M[i].rest)
    <3>1. i + 1 < j + 1
      BY <1>4, <1>5, <2>3
    <3> QED
      BY <1>4, <1>5, <2>3, <3>1 DEF WaitLine, TakesTicket
  <2> QED
    BY <2>1, <2>2, <2>3 DEF TakesTicket
<1>14. LeavesTicket(u, M, Q, T, m)
  <2>1. \A i \in Leaves(u, M) :
          /\ M[i].mode = m /\ M[i].found \subseteq {T} /\ M[i].entry.socket = T.socket
          /\ M[i].ok /\ M[i].found = {} => T \notin Q[m]
    BY <1>3 DEF WaitLine, LeavesTicket
  <2>2. ASSUME NEW i \in Leaves(u, M), NEW j \in Leaves(u, M), i < j, M[i].ok, M[i].found = {}
        PROVE  M[j].found = {}
    <3>1. /\ i + 1 \in Leaves(u, L) /\ j + 1 \in Leaves(u, L) /\ i + 1 < j + 1
          /\ M[i] = L[i + 1] /\ M[j] = L[j + 1]
      BY <1>3, <2>2
    <3>2. L[i + 1].ok /\ L[i + 1].found = {}
      BY <2>2, <3>1
    <3>3. L[j + 1].found = {}
      BY <3>1, <3>2 DEF WaitLine, LeavesTicket
    <3> QED
      BY <3>1, <3>3
  <2> QED
    BY <2>1, <2>2 DEF LeavesTicket
<1>15. Leaves(u, M) = {} \/ Reads(u, M) \cup Takes(u, M) = {}
  BY <1>3, <1>4, <1>5 DEF WaitLine
<1>16. (\E i \in Leaves(u, M) : M[i].found = {}) \/ Takes(u, M) # {} \/ T \in Q[m]
  BY <1>3, <1>5 DEF WaitLine
<1> QED
  BY <1>11, <1>12, <1>13, <1>14, <1>15, <1>16 DEF WaitLine, M

\* The first command concerns another user.
LEMMA AnswerToAnother ==
    ASSUME NEW S, NEW L \in Seq(S), L # <<>>, NEW u, u \notin About(L[1]), NEW Q
    PROVE  Follows(u, L, Q, Tail(L), Q)
<1> DEFINE M == Tail(L)
<1>1. 1 \notin Adds(u, L) /\ 1 \notin Leaves(u, L) /\ 1 \notin Reads(u, L) /\ 1 \notin Takes(u, L)
  BY DEF Adds, Leaves, Reads, Takes, About
<1>2. IdleLine(u, L, Q) => IdleLine(u, M, Q)
  BY <1>1, IdleAnswered
<1>3. \A T \in Entry, m \in Modes : WaitLine(u, L, Q, T, m) => WaitLine(u, M, Q, T, m)
  BY <1>1, WaitAnswered
<1>4. Up(Adds(u, L), Adds(u, M), L, M) /\ Up(Leaves(u, L), Leaves(u, M), L, M)
  BY AnsweredParts
<1> HIDE DEF M
<1>5. /\ \A j \in Adds(u, M) : \E i \in Adds(u, L) : M[j] = L[i]
      /\ Leaves(u, L) # {} => Leaves(u, M) # {}
  BY <1>1, <1>4 DEF Up
<1> QED
  BY <1>2, <1>3, <1>5 DEF Follows, M

\* A command that concerns another user is sent.
LEMMA SentByAnother ==
    ASSUME NEW S, NEW L \in Seq(S), NEW op \in S, NEW u, u \notin About(op), NEW Q
    PROVE  Follows(u, L, Q, Append(L, op), Q)
<1> DEFINE M == Append(L, op)
           n == Len(L) + 1
<1>0. /\ DOMAIN M = DOMAIN L \cup {n} /\ M[n] = op
      /\ \A i \in DOMAIN L : M[i] = L[i] /\ i \in Nat
  BY SentPlaces
<1> HIDE DEF M, n
<1>1. n \notin Adds(u, M) /\ n \notin Leaves(u, M) /\ n \notin Reads(u, M) /\ n \notin Takes(u, M)
  BY <1>0 DEF Adds, Leaves, Reads, Takes, About
<1>2. /\ Adds(u, M) = Adds(u, L) /\ Leaves(u, M) = Leaves(u, L)
      /\ Reads(u, M) = Reads(u, L) /\ Takes(u, M) = Takes(u, L)
  BY <1>0, <1>1 DEF Adds, Leaves, Reads, Takes
<1>3. \A i \in Adds(u, L) \cup Leaves(u, L) \cup Reads(u, L) \cup Takes(u, L) : M[i] = L[i] /\ i \in Nat
  BY <1>0 DEF Adds, Leaves, Reads, Takes
<1>4. IdleLine(u, L, Q) => IdleLine(u, M, Q)
  BY <1>2, <1>3 DEF IdleLine
<1>5. ASSUME NEW T, NEW m, WaitLine(u, L, Q, T, m) PROVE WaitLine(u, M, Q, T, m)
  <2>1. ReadsTicket(u, M, T, m) /\ LeavesTicket(u, M, Q, T, m)
    BY <1>2, <1>3, <1>5 DEF WaitLine, ReadsTicket, LeavesTicket
  <2>2. TakesTicket(u, M, Q, T, m)
    BY <1>2, <1>3, <1>5 DEF WaitLine, TakesTicket
  <2> QED
    BY <1>2, <1>3, <1>5, <2>1, <2>2 DEF WaitLine
<1> QED
  BY <1>2, <1>3, <1>4, <1>5 DEF Follows, M

\* Entries of others come into the queue or leave it.
LEMMA QueueOfOthers ==
    ASSUME NEW u, NEW L, NEW Q, NEW R,
           \A i \in DOMAIN L : L[i].mode \in Modes,
           \A m \in Modes : \A e \in Entry : User(e) = u => (e \in Q[m] <=> e \in R[m]),
           \A m \in Modes : Q[m] \subseteq Entry /\ R[m] \subseteq Entry,
           \A i \in Adds(u, L) : L[i].entry \in Entry
    PROVE  Follows(u, L, Q, L, R)
<1>1. ASSUME IdleLine(u, L, Q) PROVE IdleLine(u, L, R)
  <2>1. \A j \in Adds(u, L) : L[j].ok => L[j].entry \in R[L[j].mode]
    BY <1>1 DEF IdleLine, Adds
  <2>2. \A m \in Modes : \A e \in R[m] : User(e) = u => \E j \in Adds(u, L) : L[j].entry = e /\ L[j].mode = m
    BY <1>1 DEF IdleLine
  <2> QED
    BY <1>1, <2>1, <2>2 DEF IdleLine
<1>2. ASSUME NEW T \in Entry, NEW m \in Modes, User(T) = u, WaitLine(u, L, Q, T, m)
      PROVE  WaitLine(u, L, R, T, m)
  <2>1. Queued(u, R, T, m)
    BY <1>2 DEF WaitLine, Queued
  <2>2. T \in Q[m] <=> T \in R[m]
    BY <1>2
  <2>3. TakesTicket(u, L, R, T, m) /\ LeavesTicket(u, L, R, T, m)
    BY <1>2, <2>2 DEF WaitLine, TakesTicket, LeavesTicket
  <2> QED
    BY <1>2, <2>1, <2>2, <2>3 DEF WaitLine
<1> QED
  BY <1>1, <1>2 DEF Follows

-----------------------------------------------------------------------------
(* What a user's own commands and answers do to the line.                  *)

\* The entry of a user without one is added.
LEMMA IdleAdds ==
    ASSUME NEW S, NEW L \in Seq(S), NEW op \in S, NEW u, NEW Q, NEW R,
           IdleLine(u, L, Q), Adds(u, L) = {},
           op.kind = "zadd", User(op.entry) = u,
           \A k \in Modes : \A e \in R[k] : User(e) = u => e \in Q[k] \/ (k = op.mode /\ e = op.entry),
           op.ok => op.entry \in R[op.mode]
    PROVE  /\ IdleLine(u, Append(L, op), R)
           /\ Adds(u, Append(L, op)) = {Len(L) + 1}
<1> DEFINE M == Append(L, op)
           n == Len(L) + 1
<1>1. Sends(u, L, op, M, n)
  BY SentParts
<1> HIDE DEF M, n
<1> USE DEF Sends
<1>2. /\ Adds(u, M) = {n} /\ Leaves(u, M) = Leaves(u, L)
      /\ Reads(u, M) = Reads(u, L) /\ Takes(u, M) = Takes(u, L)
  BY <1>1 DEF Adds, Leaves, Reads, Takes
<1>3. Reads(u, L) = {} /\ \A k \in Modes : \A e \in Q[k] : User(e) # u
  BY DEF IdleLine
<1>4. IdleLine(u, M, R)
  BY <1>1, <1>2, <1>3 DEF IdleLine
<1> QED
  BY <1>2, <1>4 DEF M, n

\* A pass reads a queue, in which there may be an entry of a user the maps do not have.
LEMMA IdleRead ==
    ASSUME NEW S, NEW L \in Seq(S), NEW op \in S, NEW u, NEW Q, IdleLine(u, L, Q),
           op.kind = "read", op.mode \in Modes, op.entries = Q[op.mode]
    PROVE  IdleLine(u, Append(L, op), Q)
<1> DEFINE M == Append(L, op)
           n == Len(L) + 1
<1>1. Sends(u, L, op, M, n)
  BY SentParts
<1> HIDE DEF M, n
<1> USE DEF Sends
<1>2. /\ Adds(u, M) = Adds(u, L) /\ Leaves(u, M) = Leaves(u, L) /\ Takes(u, M) = Takes(u, L)
  BY <1>1 DEF Adds, Leaves, Takes
<1>3. ASSUME n \in Reads(u, M)
      PROVE  \E j \in Adds(u, M) : j < n /\ M[n].mode = M[j].mode /\ Only(u, M[n].entries, M[j].entry)
  <2>1. PICK e \in Q[op.mode] : User(e) = u
    BY <1>1, <1>3 DEF Reads, About
  <2>2. PICK j \in Adds(u, L) : L[j].entry = e /\ L[j].mode = op.mode
    BY <2>1 DEF IdleLine
  <2>3. Only(u, Q[op.mode], e)
    BY <2>2 DEF IdleLine, Only
  <2> QED
    BY <1>1, <1>2, <2>2, <2>3
<1>4. ASSUME NEW i \in Reads(u, M)
      PROVE  \E j \in Adds(u, M) : j < i /\ M[i].mode = M[j].mode /\ Only(u, M[i].entries, M[j].entry)
  BY <1>1, <1>2, <1>3 DEF IdleLine
<1>5. IdleLine(u, M, Q)
  BY <1>1, <1>2, <1>4 DEF IdleLine
<1> QED
  BY <1>5 DEF M

\* The entry is added: its user waits.
LEMMA NowWaits ==
    ASSUME NEW S, NEW L \in Seq(S), L # <<>>, NEW u, NEW Q, IdleLine(u, L, Q),
           1 \in Adds(u, L), L[1].ok
    PROVE  WaitLine(u, Tail(L), Q, L[1].entry, L[1].mode)
<1> DEFINE M == Tail(L)
           T == L[1].entry
           m == L[1].mode
<1>1. /\ Up(Adds(u, L), Adds(u, M), L, M) /\ Up(Leaves(u, L), Leaves(u, M), L, M)
      /\ Up(Reads(u, L), Reads(u, M), L, M) /\ Up(Takes(u, L), Takes(u, M), L, M)
  BY AnsweredParts
<1>a. \A i \in DOMAIN L : i \in Nat \ {0}
  BY AnsweredPlaces
<1> HIDE DEF M
<1>2. Adds(u, L) = {1} /\ Takes(u, L) = {} /\ T \in Q[m]
  BY DEF IdleLine
<1>3. Leaves(u, L) = {}
  <2> SUFFICES ASSUME NEW i \in Leaves(u, L) PROVE FALSE
    OBVIOUS
  <2>1. i < 1 /\ i \in Nat \ {0}
    BY <1>a, <1>2 DEF IdleLine, Leaves
  <2> QED
    BY <2>1
<1>4. Adds(u, M) = {}
  <2> SUFFICES ASSUME NEW i \in Adds(u, M) PROVE FALSE
    OBVIOUS
  <2>1. i + 1 = 1 /\ i \in Nat /\ i \in DOMAIN M
    BY <1>1, <1>2 DEF Up, Adds
  <2>2. \A k \in DOMAIN M : k # 0
    <3>1. M \in Seq(S)
      BY AnsweredPlaces DEF M
    <3> QED
      BY <3>1
  <2> QED
    BY <2>1, <2>2
<1>5. Leaves(u, M) = {} /\ Takes(u, M) = {}
  BY <1>1, <1>2, <1>3 DEF Up
<1>6. Queued(u, Q, T, m)
  BY <1>2 DEF IdleLine, Queued
<1>7. ReadsTicket(u, M, T, m)
  BY <1>1, <1>2 DEF IdleLine, ReadsTicket, Up
<1>8. TakesTicket(u, M, Q, T, m) /\ LeavesTicket(u, M, Q, T, m)
  BY <1>5 DEF TakesTicket, LeavesTicket
<1>9. WaitLine(u, M, Q, T, m)
  BY <1>2, <1>4, <1>5, <1>6, <1>7, <1>8 DEF WaitLine
<1> QED
  BY <1>9 DEF M

\* A command to leave is sent, or sent on: nothing else has read or takes the ticket.
LEMMA LeaveSent ==
    ASSUME NEW S, NEW L \in Seq(S), NEW op \in S, NEW u, NEW Q, NEW T, NEW m,
           Adds(u, L) = {}, Reads(u, L) \cup Takes(u, L) = {},
           Queued(u, Q, T, m), LeavesTicket(u, L, Q, T, m),
           op.kind \in {"leaveScan", "leaveRemove"}, User(op.entry) = u,
           op.mode = m, op.found \subseteq {T}, op.entry.socket = T.socket,
           op.ok /\ op.found = {} => T \notin Q[m],
           op.found = {} \/ T \in Q[m]
    PROVE  /\ WaitLine(u, Append(L, op), Q, T, m)
           /\ Leaves(u, Append(L, op)) # {}
<1> DEFINE M == Append(L, op)
           n == Len(L) + 1
<1>1. Sends(u, L, op, M, n)
  BY SentParts
<1> HIDE DEF M, n
<1> USE DEF Sends
<1>2. Adds(u, M) = {} /\ Reads(u, M) = {} /\ Takes(u, M) = {}
  BY <1>1 DEF Adds, Reads, Takes
<1>3. Leaves(u, M) = Leaves(u, L) \cup {n}
  BY <1>1 DEF Leaves
<1>4. LeavesTicket(u, M, Q, T, m)
  <2>1. \A i \in Leaves(u, M) :
          /\ M[i].mode = m /\ M[i].found \subseteq {T} /\ M[i].entry.socket = T.socket
          /\ M[i].ok /\ M[i].found = {} => T \notin Q[m]
    BY <1>1, <1>3 DEF LeavesTicket
  <2>2. ASSUME NEW i \in Leaves(u, M), NEW j \in Leaves(u, M), i < j, M[i].ok, M[i].found = {}
        PROVE  M[j].found = {}
    <3>1. CASE j = n
      BY <1>1, <2>1, <2>2, <3>1
    <3>2. CASE j # n /\ i # n
      BY <1>1, <1>3, <2>2, <3>2 DEF LeavesTicket
    <3>3. CASE j # n /\ i = n
      BY <1>1, <1>3, <2>2, <3>3
    <3> QED
      BY <3>1, <3>2, <3>3
  <2> QED
    BY <2>1, <2>2 DEF LeavesTicket
<1>5. WaitLine(u, M, Q, T, m)
  <2>1. ReadsTicket(u, M, T, m) /\ TakesTicket(u, M, Q, T, m)
    BY <1>2 DEF ReadsTicket, TakesTicket
  <2>2. (\E i \in Leaves(u, M) : M[i].found = {}) \/ T \in Q[m]
    BY <1>1, <1>3
  <2> QED
    BY <1>2, <1>4, <2>1, <2>2 DEF WaitLine
<1> QED
  BY <1>3, <1>5 DEF M

\* A pass reads the queue of one who waits and is not leaving.
LEMMA WaitRead ==
    ASSUME NEW S, NEW L \in Seq(S), NEW op \in S, NEW u, NEW Q, NEW T, NEW m,
           WaitLine(u, L, Q, T, m), op.kind = "read", op.mode \in Modes, op.entries = Q[op.mode],
           u \in About(op) => Leaves(u, L) = {}
    PROVE  WaitLine(u, Append(L, op), Q, T, m)
<1> DEFINE M == Append(L, op)
           n == Len(L) + 1
<1>1. Sends(u, L, op, M, n)
  BY SentParts
<1> HIDE DEF M, n
<1> USE DEF Sends
<1>2. Adds(u, M) = {} /\ Leaves(u, M) = Leaves(u, L) /\ Takes(u, M) = Takes(u, L)
  BY <1>1 DEF Adds, Leaves, Takes, WaitLine
<1>3. n \in Reads(u, M) => op.mode = m /\ T \in Q[m] /\ Only(u, Q[m], T) /\ Leaves(u, L) = {}
  <2> SUFFICES ASSUME n \in Reads(u, M)
               PROVE  op.mode = m /\ T \in Q[m] /\ Only(u, Q[m], T) /\ Leaves(u, L) = {}
    OBVIOUS
  <2>1. u \in About(op)
    BY <1>1 DEF Reads
  <2>2. PICK e \in Q[op.mode] : User(e) = u
    BY <2>1 DEF About
  <2> QED
    BY <2>1, <2>2 DEF WaitLine, Queued, Only
<1>4. ReadsTicket(u, M, T, m)
  BY <1>1, <1>3 DEF WaitLine, ReadsTicket
<1>5. TakesTicket(u, M, Q, T, m)
  <2>1. ASSUME NEW i \in Takes(u, M), NEW j \in Reads(u, M), i < j, M[i].ok PROVE T \in Range(M[i].rest)
    <3>1. CASE j = n
      BY <1>1, <1>2, <1>3, <2>1, <3>1 DEF WaitLine, TakesTicket
    <3>2. CASE j # n
      BY <1>1, <1>2, <2>1, <3>2 DEF WaitLine, TakesTicket
    <3> QED
      BY <3>1, <3>2
  <2> QED
    BY <1>1, <1>2, <2>1 DEF WaitLine, TakesTicket
<1>6. LeavesTicket(u, M, Q, T, m)
  BY <1>1, <1>2 DEF WaitLine, LeavesTicket
<1>7. Leaves(u, M) = {} \/ Reads(u, M) \cup Takes(u, M) = {}
  BY <1>1, <1>2, <1>3 DEF WaitLine
<1>8. (\E i \in Leaves(u, M) : M[i].found = {}) \/ Takes(u, M) # {} \/ T \in Q[m]
  BY <1>1, <1>2 DEF WaitLine
<1>9. WaitLine(u, M, Q, T, m)
  BY <1>2, <1>4, <1>5, <1>6, <1>7, <1>8 DEF WaitLine
<1> QED
  BY <1>9 DEF M

\* One who has left, his ticket removed: the maps forget him.
LEMMA NowIdle ==
    ASSUME NEW S, NEW L \in Seq(S), L # <<>>, NEW u, NEW Q, NEW T, NEW m, WaitLine(u, L, Q, T, m),
           1 \in Leaves(u, L), L[1].ok, L[1].found = {}
    PROVE  IdleLine(u, Tail(L), Q) /\ Adds(u, Tail(L)) = {}
<1> DEFINE M == Tail(L)
<1>1. /\ Up(Adds(u, L), Adds(u, M), L, M) /\ Up(Leaves(u, L), Leaves(u, M), L, M)
      /\ Up(Reads(u, L), Reads(u, M), L, M) /\ Up(Takes(u, L), Takes(u, M), L, M)
  BY AnsweredParts
<1>2. \A i \in DOMAIN M : i \in Nat \ {0}
  <2>1. M \in Seq(S)
    BY AnsweredPlaces
  <2> QED
    BY <2>1
<1> HIDE DEF M
<1>3. Adds(u, M) = {} /\ Reads(u, M) = {} /\ Takes(u, M) = {}
  BY <1>1 DEF Up, WaitLine
<1>4. ASSUME NEW i \in Leaves(u, M) PROVE M[i].found = {}
  <2>1. i + 1 \in Leaves(u, L) /\ M[i] = L[i + 1] /\ 1 < i + 1
    BY <1>1, <1>2 DEF Up, Leaves
  <2>2. L[i + 1].found = {}
    BY <2>1 DEF WaitLine, LeavesTicket
  <2> QED
    BY <2>1, <2>2
<1>5. \A k \in Modes : \A e \in Q[k] : User(e) # u
  BY DEF WaitLine, LeavesTicket, Queued
<1>6. IdleLine(u, M, Q)
  BY <1>3, <1>4, <1>5 DEF IdleLine
<1> QED
  BY <1>3, <1>6 DEF M

\* The ticket was found: the command to remove it is sent.
LEMMA LeaveGoesOn ==
    ASSUME NEW S, NEW L \in Seq(S), L # <<>>, NEW op \in S, NEW u, NEW Q, NEW R, NEW T, NEW m \in Modes,
           WaitLine(u, L, Q, T, m), 1 \in Leaves(u, L),
           op.kind = "leaveRemove", User(op.entry) = u, op.mode = m, op.found = {},
           op.entry.socket = T.socket, op.ok => T \notin R[m],
           \A k \in Modes : R[k] \subseteq Q[k]
    PROVE  /\ WaitLine(u, Append(Tail(L), op), R, T, m)
           /\ Leaves(u, Append(Tail(L), op)) # {}
<1> DEFINE M == Tail(L)
<1>0. M \in Seq(S)
  BY AnsweredPlaces
<1>1. /\ Up(Adds(u, L), Adds(u, M), L, M) /\ Up(Leaves(u, L), Leaves(u, M), L, M)
      /\ Up(Reads(u, L), Reads(u, M), L, M) /\ Up(Takes(u, L), Takes(u, M), L, M)
  BY AnsweredParts
<1> HIDE DEF M
<1>2. Adds(u, M) = {} /\ Reads(u, M) = {} /\ Takes(u, M) = {}
  BY <1>1 DEF Up, WaitLine
<1>3. \A i \in Leaves(u, M) : i + 1 \in Leaves(u, L) /\ M[i] = L[i + 1] /\ i \in Nat
  BY <1>1 DEF Up
<1>4. Queued(u, R, T, m)
  BY DEF WaitLine, Queued
<1>5. LeavesTicket(u, M, R, T, m)
  <2>1. \A i \in Leaves(u, M) :
          /\ M[i].mode = m /\ M[i].found \subseteq {T} /\ M[i].entry.socket = T.socket
          /\ M[i].ok /\ M[i].found = {} => T \notin R[m]
    BY <1>3 DEF WaitLine, LeavesTicket
  <2>2. ASSUME NEW i \in Leaves(u, M), NEW j \in Leaves(u, M), i < j, M[i].ok, M[i].found = {}
        PROVE  M[j].found = {}
    <3>1. /\ i + 1 \in Leaves(u, L) /\ j + 1 \in Leaves(u, L) /\ i + 1 < j + 1
          /\ M[i] = L[i + 1] /\ M[j] = L[j + 1]
      BY <1>3, <2>2
    <3>2. L[i + 1].ok /\ L[i + 1].found = {}
      BY <2>2, <3>1
    <3>3. L[j + 1].found = {}
      BY <3>1, <3>2 DEF WaitLine, LeavesTicket
    <3> QED
      BY <3>1, <3>3
  <2> QED
    BY <2>1, <2>2 DEF LeavesTicket
<1>6. WaitLine(u, Append(M, op), R, T, m) /\ Leaves(u, Append(M, op)) # {}
  BY <1>0, <1>2, <1>4, <1>5, LeaveSent
<1> QED
  BY <1>6 DEF M

\* A command that takes the ticket is sent; no other does.
LEMMA TakeSent ==
    ASSUME NEW S, NEW L \in Seq(S), NEW op \in S, NEW u, NEW Q, NEW T, NEW m,
           Adds(u, L) = {}, Leaves(u, L) = {}, Takes(u, L) = {},
           Queued(u, Q, T, m), ReadsTicket(u, L, T, m),
           op.kind \in {"scan", "remove"}, u \in About(op), op.mode = m, Only(u, op.chosen, T),
           op.ok => (T \in Range(op.rest) <=> T \in Q[m])
    PROVE  WaitLine(u, Append(L, op), Q, T, m)
<1> DEFINE M == Append(L, op)
           n == Len(L) + 1
<1>1. Sends(u, L, op, M, n)
  BY SentParts
<1> HIDE DEF M, n
<1> USE DEF Sends
<1>2. Adds(u, M) = {} /\ Leaves(u, M) = {} /\ Reads(u, M) = Reads(u, L)
  BY <1>1 DEF Adds, Leaves, Reads
<1>3. Takes(u, M) = {n}
  BY <1>1 DEF Takes
<1>4. ReadsTicket(u, M, T, m) /\ LeavesTicket(u, M, Q, T, m)
  BY <1>1, <1>2 DEF ReadsTicket, LeavesTicket
<1>5. TakesTicket(u, M, Q, T, m)
  BY <1>1, <1>2, <1>3 DEF TakesTicket
<1>6. WaitLine(u, M, Q, T, m)
  BY <1>2, <1>3, <1>4, <1>5 DEF WaitLine
<1> QED
  BY <1>6 DEF M

\* A pass has chosen one whom no other pass has read.
LEMMA NowTaken ==
    ASSUME NEW S, NEW L \in Seq(S), L # <<>>, NEW op \in S, NEW u, NEW Q, NEW T, NEW m,
           WaitLine(u, L, Q, T, m), 1 \in Reads(u, L), Reads(u, L) \cup Takes(u, L) \subseteq {1},
           op.kind = "scan", u \in About(op), op.mode = m, Only(u, op.chosen, T),
           op.ok => (T \in Range(op.rest) <=> T \in Q[m])
    PROVE  WaitLine(u, Append(Tail(L), op), Q, T, m)
<1> DEFINE M == Tail(L)
<1>0. M \in Seq(S) /\ (\A i \in DOMAIN M : i \in Nat \ {0})
  <2>1. M \in Seq(S)
    BY AnsweredPlaces
  <2> QED
    BY <2>1
<1>1. /\ Up(Adds(u, L), Adds(u, M), L, M) /\ Up(Leaves(u, L), Leaves(u, M), L, M)
      /\ Up(Reads(u, L), Reads(u, M), L, M) /\ Up(Takes(u, L), Takes(u, M), L, M)
  BY AnsweredParts
<1> HIDE DEF M
<1>2. Adds(u, M) = {} /\ Leaves(u, M) = {}
  BY <1>1 DEF Up, WaitLine
<1>3. Takes(u, M) = {}
  <2> SUFFICES ASSUME NEW i \in Takes(u, M) PROVE FALSE
    OBVIOUS
  <2>1. i + 1 \in Takes(u, L) /\ i \in Nat \ {0}
    BY <1>0, <1>1 DEF Up, Takes
  <2> QED
    BY <2>1
<1>4. Reads(u, M) = {}
  <2> SUFFICES ASSUME NEW i \in Reads(u, M) PROVE FALSE
    OBVIOUS
  <2>1. i + 1 \in Reads(u, L) /\ i \in Nat \ {0}
    BY <1>0, <1>1 DEF Up, Reads
  <2> QED
    BY <2>1
<1>5. ReadsTicket(u, M, T, m) /\ Queued(u, Q, T, m)
  BY <1>4 DEF ReadsTicket, WaitLine
<1>6. WaitLine(u, Append(M, op), Q, T, m)
  BY <1>0, <1>2, <1>3, <1>5, TakeSent
<1> QED
  BY <1>6 DEF M

\* Where the rest of a line is when a command that takes the ticket was first.
LEMMA TakeAnswered ==
    ASSUME NEW S, NEW L \in Seq(S), L # <<>>, NEW u, NEW Q, NEW T, NEW m,
           WaitLine(u, L, Q, T, m), 1 \in Takes(u, L)
    PROVE  LET M == Tail(L)
           IN  /\ Adds(u, M) = {} /\ Leaves(u, M) = {} /\ Takes(u, M) = {}
               /\ ReadsTicket(u, M, T, m)
               /\ L[1].ok /\ Reads(u, M) # {} => T \in Range(L[1].rest)
<1> DEFINE M == Tail(L)
<1>0. \A i \in DOMAIN M : i \in Nat \ {0}
  <2>1. M \in Seq(S)
    BY AnsweredPlaces
  <2> QED
    BY <2>1
<1>1. /\ Up(Adds(u, L), Adds(u, M), L, M) /\ Up(Leaves(u, L), Leaves(u, M), L, M)
      /\ Up(Reads(u, L), Reads(u, M), L, M) /\ Up(Takes(u, L), Takes(u, M), L, M)
  BY AnsweredParts
<1> HIDE DEF M
<1>2. Adds(u, M) = {} /\ Leaves(u, M) = {}
  BY <1>1 DEF Up, WaitLine
<1>3. Takes(u, M) = {}
  <2> SUFFICES ASSUME NEW i \in Takes(u, M) PROVE FALSE
    OBVIOUS
  <2>1. i + 1 \in Takes(u, L) /\ i \in Nat \ {0}
    BY <1>0, <1>1 DEF Up, Takes
  <2>2. i + 1 = 1
    BY <2>1 DEF WaitLine, TakesTicket
  <2> QED
    BY <2>1, <2>2
<1>4. ReadsTicket(u, M, T, m)
  BY <1>1 DEF Up, WaitLine, ReadsTicket
<1>5. ASSUME L[1].ok, NEW i \in Reads(u, M) PROVE T \in Range(L[1].rest)
  <2>1. i + 1 \in Reads(u, L) /\ i \in Nat \ {0}
    BY <1>0, <1>1 DEF Up, Reads
  <2>2. 1 < i + 1
    BY <2>1
  <2> QED
    BY <1>5, <2>1, <2>2 DEF WaitLine, TakesTicket
<1> QED
  BY <1>2, <1>3, <1>4, <1>5 DEF M

\* The last of the chosen is removed, and the match is made: the maps forget them.
LEMMA NowMatched ==
    ASSUME NEW S, NEW L \in Seq(S), L # <<>>, NEW u, NEW Q, NEW T, NEW m,
           WaitLine(u, L, Q, T, m), 1 \in Takes(u, L), L[1].ok, T \notin Range(L[1].rest)
    PROVE  IdleLine(u, Tail(L), Q) /\ Adds(u, Tail(L)) = {}
<1> DEFINE M == Tail(L)
<1>1. /\ Adds(u, M) = {} /\ Leaves(u, M) = {} /\ Takes(u, M) = {} /\ Reads(u, M) = {}
  BY TakeAnswered
<1> HIDE DEF M
<1>2. \A k \in Modes : \A e \in Q[k] : User(e) # u
  BY DEF WaitLine, TakesTicket, Queued
<1>3. IdleLine(u, M, Q)
  BY <1>1, <1>2 DEF IdleLine
<1> QED
  BY <1>1, <1>3 DEF M

\* One of the chosen is removed, and the command for the next is sent.
LEMMA TakeGoesOn ==
    ASSUME NEW S, NEW L \in Seq(S), L # <<>>, NEW op \in S, NEW u, NEW Q, NEW R, NEW T, NEW m,
           WaitLine(u, L, Q, T, m), 1 \in Takes(u, L),
           op.kind = "remove", u \in About(op), op.mode = m, Only(u, op.chosen, T),
           op.ok => (T \in Range(op.rest) <=> T \in R[m]),
           \A k \in Modes : R[k] \subseteq Q[k]
    PROVE  WaitLine(u, Append(Tail(L), op), R, T, m)
<1> DEFINE M == Tail(L)
<1>0. M \in Seq(S)
  BY AnsweredPlaces
<1>1. /\ Adds(u, M) = {} /\ Leaves(u, M) = {} /\ Takes(u, M) = {} /\ ReadsTicket(u, M, T, m)
  BY TakeAnswered
<1>2. Queued(u, R, T, m)
  BY DEF WaitLine, Queued
<1> HIDE DEF M
<1>3. WaitLine(u, Append(M, op), R, T, m)
  BY <1>0, <1>1, <1>2, TakeSent
<1> QED
  BY <1>3 DEF M

-----------------------------------------------------------------------------
(* Sorted entries, and whom a pass chooses.                                *)

\* The image of a finite set is finite and not larger.
LEMMA ImageOf ==
    ASSUME NEW S, IsFiniteSet(S), NEW f, f = [x \in S |-> f[x]]
    PROVE  LET T == {f[x] : x \in S}
           IN  /\ IsFiniteSet(T) /\ Cardinality(T) \in Nat /\ Cardinality(T) <= Cardinality(S)
               /\ (\A x, y \in S : f[x] = f[y] => x = y) => Cardinality(T) = Cardinality(S)
<1> DEFINE T == {f[x] : x \in S}
<1>1. f \in Surjection(S, T)
  BY DEF Surjection
<1>2. (\A x, y \in S : f[x] = f[y] => x = y) => f \in Injection(S, T)
  BY DEF Injection, IsInjective
<1> HIDE DEF T
<1>3. /\ IsFiniteSet(T) /\ Cardinality(T) <= Cardinality(S)
      /\ Cardinality(T) = Cardinality(S) <=> f \in Injection(S, T)
  BY <1>1, FS_Surjection
<1>4. Cardinality(T) \in Nat
  BY <1>3, FS_CardinalityType
<1> QED
  BY <1>2, <1>3, <1>4 DEF T

\* A finite set of integers that is not empty has a smallest and a largest element.
LEMMA LeastAndGreatest ==
    ASSUME NEW S \in SUBSET Int, IsFiniteSet(S), S # {}
    PROVE  /\ \E x \in S : \A y \in S : x <= y
           /\ \E x \in S : \A y \in S : y <= x
<1>1. IsWellFoundedOn(StrictSubsetOrdering(S), FiniteSubsetsOf(S))
  BY FS_StrictSubsetOrderingWellFounded
<1> DEFINE Below(x) == {y \in S : y < x}
           Above(x) == {y \in S : y > x}
<1>2. \A x \in S : Below(x) \in FiniteSubsetsOf(S) /\ Above(x) \in FiniteSubsetsOf(S)
  BY FS_Subset DEF FiniteSubsetsOf
<1>3. \E x \in S : \A y \in S : x <= y
  <2> DEFINE U == {Below(x) : x \in S}
  <2>1. U \subseteq FiniteSubsetsOf(S) /\ U # {}
    BY <1>2
  <2>2. PICK X \in U : \A Y \in U : ~(<<Y, X>> \in StrictSubsetOrdering(S))
    BY <1>1, <2>1, WFMin
  <2>3. PICK x \in S : X = Below(x)
    OBVIOUS
  <2>4. ASSUME NEW y \in S, ~(x <= y) PROVE FALSE
    <3>1. y < x /\ ~(y < y) /\ \A z \in S : z < y => z < x
      BY <2>4
    <3>2. y \in Below(x) /\ y \notin Below(y) /\ Below(y) \subseteq Below(x) /\ Below(x) \subseteq S
      BY <3>1, Zenon
    <3>3. <<Below(y), Below(x)>> \in StrictSubsetOrdering(S)
      <4> HIDE DEF Below
      <4> QED
        BY <3>2 DEF StrictSubsetOrdering
    <3> QED
      BY <2>2, <2>3, <3>3
  <2> QED
    BY <2>4
<1>4. \E x \in S : \A y \in S : y <= x
  <2> DEFINE U == {Above(x) : x \in S}
  <2>1. U \subseteq FiniteSubsetsOf(S) /\ U # {}
    BY <1>2
  <2>2. PICK X \in U : \A Y \in U : ~(<<Y, X>> \in StrictSubsetOrdering(S))
    BY <1>1, <2>1, WFMin
  <2>3. PICK x \in S : X = Above(x)
    OBVIOUS
  <2>4. ASSUME NEW y \in S, ~(y <= x) PROVE FALSE
    <3>1. y > x /\ ~(y > y) /\ \A z \in S : z > y => z > x
      BY <2>4
    <3>2. y \in Above(x) /\ y \notin Above(y) /\ Above(y) \subseteq Above(x) /\ Above(x) \subseteq S
      BY <3>1, Zenon
    <3>3. <<Above(y), Above(x)>> \in StrictSubsetOrdering(S)
      <4> HIDE DEF Above
      <4> QED
        BY <3>2 DEF StrictSubsetOrdering
    <3> QED
      BY <2>2, <2>3, <3>3
  <2> QED
    BY <2>4
<1> QED
  BY <1>3, <1>4

LEMMA MinIsIn ==
    ASSUME NEW S \in SUBSET Int, IsFiniteSet(S), S # {}
    PROVE  Min(S) \in S
BY LeastAndGreatest DEF Min

\* There are finitely many entries.
LEMMA EntriesAreFew ==
    ASSUME NEW S \in SUBSET Entry
    PROVE  IsFiniteSet(S) /\ Cardinality(S) \in Nat
<1> DEFINE Pairs == Sockets \X (1 .. MaxJoins)
           f == [p \in Pairs |-> [socket |-> p[1], nr |-> p[2]]]
<1>1. IsFiniteSet(Pairs)
  <2>1. IsFiniteSet(Sockets) /\ MaxJoins \in Nat
    BY MatchmakingAssumption
  <2>2. IsFiniteSet(1 .. MaxJoins)
    BY <2>1, FS_Interval
  <2> QED
    BY <2>1, <2>2, FS_Product
<1>2. f = [p \in Pairs |-> f[p]]
  OBVIOUS
<1>3. Entry = {f[p] : p \in Pairs}
  <2>1. ASSUME NEW e \in Entry PROVE \E p \in Pairs : e = f[p]
    <3>1. <<e.socket, e.nr>> \in Pairs /\ e = f[<<e.socket, e.nr>>]
      BY DEF Entry
    <3> QED
      BY <3>1
  <2>2. \A p \in Pairs : f[p] \in Entry
    BY DEF Entry
  <2> QED
    BY <2>1, <2>2
<1> HIDE DEF f, Pairs
<1>4. IsFiniteSet(Entry)
  BY <1>1, <1>2, <1>3, ImageOf
<1> QED
  BY <1>4, FS_Subset, FS_CardinalityType

\* Entries are ordered one after the other.
LEMMA BeforeOrders ==
    ASSUME NEW mode \in Modes, NEW e \in Entry, NEW f \in Entry
    PROVE  /\ ~Before(mode, e, e)
           /\ e # f => Before(mode, e, f) \/ Before(mode, f, e)
           /\ \A g \in Entry : Before(mode, e, f) /\ Before(mode, f, g) => Before(mode, e, g)
           /\ Before(mode, e, f) => Rating[mode][User(e)] <= Rating[mode][User(f)]
<1> DEFINE r(x) == Rating[mode][User(x)]
           First(x, y) ==
               \/ r(x) < r(y)
               \/ r(x) = r(y) /\ User(x) < User(y)
               \/ r(x) = r(y) /\ User(x) = User(y) /\ x.socket < y.socket
               \/ r(x) = r(y) /\ User(x) = User(y) /\ x.socket = y.socket /\ x.nr < y.nr
<1>1. \A x, y : Before(mode, x, y) <=> First(x, y)
  <2> TAKE x, y
  <2> DEFINE key(z) == <<r(z), User(z), z.socket, z.nr>>
             At(i) == key(x)[i] < key(y)[i] /\ \A j \in 1 .. i - 1 : key(x)[j] = key(y)[j]
  <2>1. Before(mode, x, y) <=> \E i \in 1 .. 4 : At(i)
    BY Zenon DEF Before
  <2>2. (\E i \in 1 .. 4 : At(i)) <=> At(1) \/ At(2) \/ At(3) \/ At(4)
    <3> HIDE DEF At
    <3>1. 1 .. 4 = {1, 2, 3, 4}
      OBVIOUS
    <3> QED
      BY <3>1
  <2>3. At(1) <=> r(x) < r(y)
    BY 1 .. 1 - 1 = {}
  <2>4. At(2) <=> r(x) = r(y) /\ User(x) < User(y)
    BY 1 .. 2 - 1 = {1}
  <2>5. At(3) <=> r(x) = r(y) /\ User(x) = User(y) /\ x.socket < y.socket
    BY 1 .. 3 - 1 = {1, 2}
  <2>6. At(4) <=> r(x) = r(y) /\ User(x) = User(y) /\ x.socket = y.socket /\ x.nr < y.nr
    BY 1 .. 4 - 1 = {1, 2, 3}
  <2> HIDE DEF At
  <2> QED
    BY <2>1, <2>2, <2>3, <2>4, <2>5, <2>6
<1>2. \A x \in Entry : /\ r(x) \in Nat /\ User(x) \in Nat /\ x.socket \in Nat /\ x.nr \in Nat
                       /\ x = [socket |-> x.socket, nr |-> x.nr]
  <2> TAKE x \in Entry
  <2>1. x.socket \in Sockets /\ x.nr \in 1 .. MaxJoins /\ x = [socket |-> x.socket, nr |-> x.nr]
    BY DEF Entry
  <2>2. MaxJoins \in Nat /\ Sockets \subseteq Nat /\ UserOf \in [Sockets -> Nat]
        /\ Rating \in [Modes -> [Users -> Nat]]
    BY MatchmakingAssumption
  <2>3. x.socket \in Nat /\ x.nr \in Nat
    BY <2>1, <2>2
  <2>4. User(x) \in Nat /\ User(x) \in Users
    BY <2>1, <2>2 DEF User, Users
  <2>5. r(x) \in Nat
    BY <2>2, <2>4
  <2> QED
    BY <2>1, <2>3, <2>4, <2>5
<1> HIDE DEF r
<1>3. ~First(e, e)
  BY <1>2
<1>4. e # f => First(e, f) \/ First(f, e)
  BY <1>2
<1>5. ASSUME NEW g \in Entry, First(e, f), First(f, g) PROVE First(e, g)
  BY <1>2, <1>5
<1>6. First(e, f) => r(e) <= r(f)
  BY <1>2
<1> HIDE DEF First
<1> QED
  BY <1>1, <1>3, <1>4, <1>5, <1>6 DEF r

\* ZRANGE returns every entry once, the first of them first.
LEMMA SortedOf ==
    ASSUME NEW mode \in Modes, NEW S \in SUBSET Entry
    PROVE  LET s == Sorted(mode, S)
           IN  /\ s \in Seq(S) /\ Len(s) = Cardinality(S) /\ Range(s) = S
               /\ \A i, j \in DOMAIN s : s[i] = s[j] => i = j
               /\ \A i, j \in DOMAIN s : i < j => Before(mode, s[i], s[j])
<1> DEFINE n == Cardinality(S)
           Firsts(e) == {f \in S : Before(mode, f, e)}
           rank == [e \in S |-> Cardinality(Firsts(e))]
           s == Sorted(mode, S)
<1>1. IsFiniteSet(S) /\ n \in Nat
  BY EntriesAreFew
<1>2. \A e \in S : IsFiniteSet(Firsts(e)) /\ Cardinality(Firsts(e)) \in Nat
  <2> TAKE e \in S
  <2>1. Firsts(e) \in SUBSET Entry
    OBVIOUS
  <2> HIDE DEF Firsts
  <2> QED
    BY <2>1, EntriesAreFew
<1>3. \A e \in S : rank[e] \in 0 .. n - 1
  <2> TAKE e \in S
  <2>1. Firsts(e) \in SUBSET (S \ {e})
    BY BeforeOrders
  <2> HIDE DEF Firsts
  <2>2. Cardinality(S \ {e}) = n - 1 /\ IsFiniteSet(S \ {e})
    <3>1. IsFiniteSet(S \ {e}) /\ Cardinality(S \ {e}) = IF e \in S THEN Cardinality(S) - 1 ELSE Cardinality(S)
      BY <1>1, FS_RemoveElement
    <3> QED
      BY <3>1
  <2>3. Cardinality(Firsts(e)) <= n - 1
    BY <2>1, <2>2, FS_Subset
  <2> QED
    BY <1>1, <1>2, <2>3
<1>4. \A e, f \in S : Before(mode, e, f) => rank[e] < rank[f]
  <2> SUFFICES ASSUME NEW e \in S, NEW f \in S, Before(mode, e, f) PROVE rank[e] < rank[f]
    OBVIOUS
  <2>1. e \notin Firsts(e) /\ Firsts(e) \cup {e} \in SUBSET Firsts(f)
    BY BeforeOrders
  <2>2. IsFiniteSet(Firsts(e)) /\ Cardinality(Firsts(e)) \in Nat
        /\ IsFiniteSet(Firsts(f)) /\ Cardinality(Firsts(f)) \in Nat
    BY <1>2
  <2> HIDE DEF Firsts
  <2>3. Cardinality(Firsts(e) \cup {e}) = Cardinality(Firsts(e)) + 1
    <3>1. Cardinality(Firsts(e) \cup {e}) = IF e \in Firsts(e) THEN Cardinality(Firsts(e)) ELSE Cardinality(Firsts(e)) + 1
      BY <2>2, FS_AddElement
    <3> QED
      BY <2>1, <3>1
  <2>4. Cardinality(Firsts(e) \cup {e}) <= Cardinality(Firsts(f))
    BY <2>1, <2>2, FS_Subset
  <2> QED
    BY <2>2, <2>3, <2>4
<1>5. \A e, f \in S : rank[e] = rank[f] => e = f
  <2> SUFFICES ASSUME NEW e \in S, NEW f \in S, e # f PROVE rank[e] # rank[f]
    OBVIOUS
  <2>1. rank[e] \in 0 .. n - 1 /\ rank[f] \in 0 .. n - 1
    BY <1>3
  <2>2. rank[e] < rank[f] \/ rank[f] < rank[e]
    <3>1. Before(mode, e, f) \/ Before(mode, f, e)
      BY BeforeOrders
    <3> HIDE DEF rank
    <3> QED
      BY <1>4, <3>1
  <2> HIDE DEF rank
  <2> QED
    BY <1>1, <2>1, <2>2
<1>6. \A i \in 1 .. n : \E e \in S : rank[e] = i - 1
  <2> DEFINE T == {rank[e] : e \in S}
  <2>1. rank = [e \in S |-> rank[e]]
    OBVIOUS
  <2>2. Cardinality(T) = n /\ T \in SUBSET (0 .. n - 1)
    <3> HIDE DEF rank
    <3> QED
      BY <1>1, <1>3, <1>5, <2>1, ImageOf
  <2>3. IsFiniteSet(0 .. n - 1) /\ Cardinality(0 .. n - 1) = n
    BY <1>1, FS_Interval
  <2> HIDE DEF T, n
  <2>4. T = 0 .. n - 1
    BY <2>2, <2>3, FS_Subset
  <2>5. \A i \in 1 .. n : i - 1 \in 0 .. n - 1
    BY <1>1
  <2> HIDE DEF rank
  <2> QED
    BY <2>4, <2>5 DEF T
<1>7. s = [i \in 1 .. n |-> CHOOSE e \in S : rank[e] = i - 1]
  <2>1. s = [i \in 1 .. n |-> CHOOSE e \in S : Cardinality(Firsts(e)) = i - 1]
    BY DEF Sorted
  <2> QED
    BY <2>1
<1> HIDE DEF rank, n, s
<1>8. \A i \in 1 .. n : s[i] \in S /\ rank[s[i]] = i - 1
  BY <1>6, <1>7
<1>9. s \in Seq(S) /\ Len(s) = n /\ DOMAIN s = 1 .. n
  BY <1>1, <1>7, <1>8
<1>10. \A i, j \in DOMAIN s : s[i] = s[j] => i = j
  BY <1>1, <1>8, <1>9
<1>11. Range(s) = S
  <2>1. ASSUME NEW e \in S PROVE e = s[rank[e] + 1] /\ rank[e] + 1 \in 1 .. n
    <3>1. rank[e] + 1 \in 1 .. n /\ rank[e] \in Int
      BY <1>1, <1>3
    <3>2. rank[s[rank[e] + 1]] = rank[e] /\ s[rank[e] + 1] \in S
      BY <1>8, <3>1
    <3> QED
      BY <1>5, <3>1, <3>2
  <2> QED
    BY <1>8, <1>9, <2>1 DEF Range
<1>12. ASSUME NEW i \in DOMAIN s, NEW j \in DOMAIN s, i < j PROVE Before(mode, s[i], s[j])
  <2>1. s[i] \in S /\ s[j] \in S /\ rank[s[i]] = i - 1 /\ rank[s[j]] = j - 1 /\ i \in Nat /\ j \in Nat
    BY <1>1, <1>8, <1>9
  <2>2. s[i] # s[j] /\ ~(rank[s[j]] < rank[s[i]])
    BY <1>12, <2>1
  <2>3. ~Before(mode, s[j], s[i])
    BY <1>4, <2>1, <2>2
  <2> QED
    BY <2>1, <2>2, <2>3, BeforeOrders
<1> QED
  BY <1>9, <1>10, <1>11, <1>12 DEF s, n

\* The pair of neighbours whose ratings are closest, or whoever waited too long.
LEMMA HeadsUpChosen ==
    ASSUME NEW entries \in Seq(Entry), NEW long,
           \A i \in 1 .. Len(entries) - 1 :
             Rating["heads_up"][User(entries[i])] \in Nat /\ Rating["heads_up"][User(entries[i + 1])] \in Nat
    PROVE  HeadsUpChoice(entries, long) \subseteq Range(entries)
<1> DEFINE n == Len(entries)
           window(i) == Widened(ELO_WINDOW, entries[i] \in long \/ entries[i + 1] \in long)
           diff(i) == Rating["heads_up"][User(entries[i + 1])] - Rating["heads_up"][User(entries[i])]
           near == {i \in 1 .. n - 1 : diff(i) <= window(i)}
           late == {i \in 1 .. n : entries[i] \in overdue}
           closest == {i \in near : \A j \in near : diff(i) <= diff(j)}
<1>1. n \in Nat /\ IsFiniteSet(1 .. n) /\ IsFiniteSet(1 .. n - 1)
  BY FS_Interval
<1>2. /\ near \in SUBSET Int /\ IsFiniteSet(near) /\ near \subseteq 1 .. n - 1
      /\ late \in SUBSET Int /\ IsFiniteSet(late) /\ late \subseteq 1 .. n
      /\ closest \in SUBSET Int /\ IsFiniteSet(closest) /\ closest \subseteq near
  BY <1>1, FS_Subset
<1>3. near # {} => closest # {}
  <2> SUFFICES ASSUME near # {} PROVE closest # {}
    OBVIOUS
  <2> DEFINE d == [i \in near |-> diff(i)]
             T == {d[i] : i \in near}
  <2>1. T \in SUBSET Int /\ T # {}
    <3>1. \A i \in 1 .. n - 1 : diff(i) \in Int
      OBVIOUS
    <3> QED
      BY <1>2, <3>1
  <2>2. IsFiniteSet(T)
    <3> HIDE DEF near
    <3>1. d = [i \in near |-> d[i]]
      OBVIOUS
    <3> HIDE DEF d
    <3> QED
      BY <1>2, <3>1, ImageOf
  <2> HIDE DEF T
  <2>3. PICK x \in T : \A y \in T : x <= y
    BY <2>1, <2>2, LeastAndGreatest
  <2> HIDE DEF near
  <2>4. PICK i \in near : x = d[i]
    BY DEF T
  <2>5. \A j \in near : d[j] \in T
    BY DEF T
  <2>6. i \in closest
    BY <2>3, <2>4, <2>5
  <2> QED
    BY <2>6
<1>4. HeadsUpChoice(entries, long) =
        IF near # {} THEN {entries[Min(closest)], entries[Min(closest) + 1]}
        ELSE IF late # {} THEN {entries[Min(late)]} ELSE {}
  BY Zenon DEF HeadsUpChoice
<1> HIDE DEF near, late, closest, diff, window
<1>5. near # {} => Min(closest) \in 1 .. n - 1
  BY <1>2, <1>3, MinIsIn
<1>6. late # {} => Min(late) \in 1 .. n
  BY <1>2, MinIsIn
<1>7. \A i \in 1 .. n : entries[i] \in Range(entries)
  BY DEF Range
<1>8. near # {} => Min(closest) \in 1 .. n /\ Min(closest) + 1 \in 1 .. n
  BY <1>1, <1>5
<1> HIDE DEF n
<1> QED
  BY <1>4, <1>6, <1>7, <1>8

\* A group is of entries that follow one another.
LEMMA GroupChosen ==
    ASSUME NEW entries \in Seq(Entry), NEW long, NEW start \in DOMAIN entries
    PROVE  /\ GroupFrom(entries, long, start) \subseteq Range(entries)
           /\ GroupFrom(entries, long, start) \in SUBSET Entry
<1>1. GroupFrom(entries, long, start) \subseteq {entries[i] : i \in start .. Len(entries)}
  BY DEF GroupFrom
<1>2. start .. Len(entries) \subseteq DOMAIN entries
  OBVIOUS
<1>3. \A i \in DOMAIN entries : entries[i] \in Range(entries) /\ entries[i] \in Entry
  BY DEF Range
<1> QED
  BY <1>1, <1>2, <1>3

LEMMA LargestGroupChosen ==
    ASSUME NEW entries \in Seq(Entry), NEW long
    PROVE  FindCompatibleGroup(entries, long) \subseteq Range(entries)
<1> DEFINE size(i) == Cardinality(GroupFrom(entries, long, i))
           enough == {i \in DOMAIN entries : size(i) >= MULTIPLAYER_MIN}
           target == {i \in enough : size(i) >= MULTIPLAYER_TARGET}
           largest == {i \in enough : \A j \in enough : size(j) <= size(i)}
<1>1. IsFiniteSet(DOMAIN entries) /\ DOMAIN entries \subseteq Int
  <2>1. DOMAIN entries = 1 .. Len(entries) /\ Len(entries) \in Nat
    OBVIOUS
  <2> QED
    BY <2>1, FS_Interval
<1>2. \A i \in DOMAIN entries : size(i) \in Nat
  BY GroupChosen, EntriesAreFew
<1> HIDE DEF size
<1>3. /\ enough \in SUBSET DOMAIN entries /\ IsFiniteSet(enough)
      /\ target \in SUBSET DOMAIN entries /\ IsFiniteSet(target)
      /\ largest \in SUBSET DOMAIN entries /\ IsFiniteSet(largest)
  BY <1>1, FS_Subset
<1>4. enough # {} => largest # {}
  <2> SUFFICES ASSUME enough # {} PROVE largest # {}
    OBVIOUS
  <2> DEFINE d == [i \in enough |-> size(i)]
             T == {d[i] : i \in enough}
  <2>1. T \in SUBSET Int /\ T # {}
    BY <1>2, <1>3
  <2>2. IsFiniteSet(T)
    <3> HIDE DEF enough
    <3>1. d = [i \in enough |-> d[i]]
      OBVIOUS
    <3> HIDE DEF d
    <3> QED
      BY <1>3, <3>1, ImageOf
  <2> HIDE DEF T
  <2>3. PICK x \in T : \A y \in T : y <= x
    BY <2>1, <2>2, LeastAndGreatest
  <2> HIDE DEF enough
  <2>4. PICK i \in enough : x = d[i]
    BY DEF T
  <2>5. \A j \in enough : d[j] \in T
    BY DEF T
  <2>6. i \in largest
    BY <2>3, <2>4, <2>5
  <2> QED
    BY <2>6
<1>5. FindCompatibleGroup(entries, long) =
        IF enough = {} THEN {}
        ELSE GroupFrom(entries, long, IF target # {} THEN Min(target) ELSE Min(largest))
  BY Zenon DEF FindCompatibleGroup, size
<1> HIDE DEF enough, target, largest
<1>6. /\ target # {} => Min(target) \in DOMAIN entries
      /\ largest # {} => Min(largest) \in DOMAIN entries
  BY <1>1, <1>3, MinIsIn
<1>7. CASE enough = {}
  BY <1>5, <1>7
<1>8. CASE enough # {}
  <2> DEFINE start == IF target # {} THEN Min(target) ELSE Min(largest)
  <2>1. start \in DOMAIN entries
    BY <1>4, <1>6, <1>8
  <2>2. FindCompatibleGroup(entries, long) = GroupFrom(entries, long, start)
    BY <1>5, <1>8
  <2> HIDE DEF start
  <2> QED
    BY <2>1, <2>2, GroupChosen
<1> QED
  BY <1>7, <1>8

\* Whom a pass chooses it has read.
LEMMA ChosenWereRead ==
    ASSUME NEW mode \in Modes, NEW S \in SUBSET Entry, NEW long
    PROVE  Choice(mode, S, long) \subseteq S
<1> DEFINE s == Sorted(mode, S)
<1>1. s \in Seq(S) /\ Range(s) = S /\ s \in Seq(Entry)
  BY SortedOf
<1>2. CASE mode = "heads_up"
  <2>1. \A i \in 1 .. Len(s) - 1 : s[i] \in Entry /\ s[i + 1] \in Entry
    BY <1>1
  <2>2. \A e \in Entry : Rating["heads_up"][User(e)] \in Nat
    <3> TAKE e \in Entry
    <3>1. User(e) \in Users
      BY DEF Entry, User, Users
    <3> QED
      BY <3>1, MatchmakingAssumption DEF Modes
  <2>3. HeadsUpChoice(s, long) \subseteq Range(s)
    <3> HIDE DEF s
    <3> QED
      BY <1>1, <2>1, <2>2, HeadsUpChosen
  <2> QED
    BY <1>1, <1>2, <2>3 DEF Choice
<1>3. CASE mode # "heads_up"
  <2>1. FindCompatibleGroup(s, long) \subseteq Range(s)
    BY <1>1, LargestGroupChosen
  <2>2. MultiplayerChoice(s, long) \subseteq Range(s)
    BY <2>1 DEF MultiplayerChoice
  <2> QED
    BY <1>1, <1>3, <2>2 DEF Choice
<1> QED
  BY <1>2, <1>3

\* removeUsersFromQueue: entries of the chosen users, none twice; all there are, when
\* each of these users has one at most.
LEMMA RemovedOnes ==
    ASSUME NEW mode \in Modes, queue[mode] \in SUBSET Entry, NEW chosen \in SUBSET Entry
    PROVE  LET rest == ToRemove(mode, chosen)
               theirs == {e \in queue[mode] : User(e) \in {User(f) : f \in chosen}}
           IN  /\ rest \in Seq(Entry) /\ Range(rest) \subseteq theirs
               /\ \A i, j \in DOMAIN rest : rest[i] = rest[j] => i = j
               /\ (\A e, f \in theirs : User(e) = User(f) => e = f) => Range(rest) = theirs
<1> DEFINE users == {User(f) : f \in chosen}
           theirs == {e \in queue[mode] : User(e) \in users}
           s == Sorted(mode, theirs)
           k == Min({Len(s), Cardinality(users)})
           rest == SubSeq(s, 1, k)
<1>1. rest = ToRemove(mode, chosen)
  BY DEF ToRemove
<1>2. theirs \in SUBSET Entry
  OBVIOUS
<1>3. /\ s \in Seq(theirs) /\ Len(s) = Cardinality(theirs) /\ Range(s) = theirs
      /\ \A i, j \in DOMAIN s : s[i] = s[j] => i = j
  <2> HIDE DEF theirs
  <2> QED
    BY <1>2, SortedOf
<1>4. IsFiniteSet(users) /\ Cardinality(users) \in Nat
  <2> DEFINE f == [e \in chosen |-> User(e)]
  <2>1. f = [e \in chosen |-> f[e]] /\ users = {f[e] : e \in chosen} /\ IsFiniteSet(chosen)
    BY EntriesAreFew
  <2> HIDE DEF f, users
  <2> QED
    BY <2>1, ImageOf
<1>5. (\A e, f \in theirs : User(e) = User(f) => e = f) => Cardinality(theirs) <= Cardinality(users)
  <2> SUFFICES ASSUME \A e, f \in theirs : User(e) = User(f) => e = f
               PROVE  Cardinality(theirs) <= Cardinality(users)
    OBVIOUS
  <2> DEFINE g == [e \in theirs |-> User(e)]
  <2>1. g \in Injection(theirs, users)
    BY DEF Injection, IsInjective
  <2> HIDE DEF g, theirs, users
  <2> QED
    BY <1>4, <2>1, FS_Injection
<1> HIDE DEF theirs, users, s
<1>6. /\ k \in 0 .. Len(s)
      /\ Len(s) <= Cardinality(users) => k = Len(s)
  <2>1. Len(s) \in Nat
    BY <1>3
  <2>2. k = IF Len(s) <= Cardinality(users) THEN Len(s) ELSE Cardinality(users)
    BY <1>4, <2>1 DEF Min
  <2> HIDE DEF k
  <2> QED
    BY <1>4, <2>1, <2>2
<1> HIDE DEF k
<1>7. /\ rest \in Seq(theirs) /\ Len(rest) = k /\ DOMAIN rest = 1 .. k
      /\ \A i \in 1 .. k : rest[i] = s[i]
  BY <1>3, <1>6
<1> HIDE DEF rest
<1>8. 1 .. k \subseteq DOMAIN s /\ k \in Nat
  BY <1>3, <1>6
<1>9. Range(rest) \subseteq theirs /\ \A i, j \in DOMAIN rest : rest[i] = rest[j] => i = j
  BY <1>3, <1>7, <1>8 DEF Range
<1>10. ASSUME \A e, f \in theirs : User(e) = User(f) => e = f PROVE Range(rest) = theirs
  <2>1. k = Len(s)
    BY <1>3, <1>5, <1>6, <1>10
  <2>2. DOMAIN s = 1 .. k
    BY <1>3, <2>1
  <2> QED
    BY <1>3, <1>7, <2>2 DEF Range
<1>11. rest \in Seq(Entry)
  BY <1>2, <1>7
<1> QED
  BY <1>1, <1>9, <1>10, <1>11 DEF theirs, users

-----------------------------------------------------------------------------
(* The shape of the state.                                                 *)

AddOp == [kind : {"zadd"}, entry : Entry, mode : Modes, ok : BOOLEAN]
LeaveOp == [kind : {"leaveScan", "leaveRemove"}, mode : Modes, entry : Entry, found : SUBSET Entry,
            ok : BOOLEAN]
ReadOp == [kind : {"read"}, mode : Modes, entries : SUBSET Entry, ok : BOOLEAN]
TakeOp == [kind : {"scan", "remove"}, mode : Modes, chosen : SUBSET Entry, rest : Seq(Entry),
           ok : BOOLEAN]
Op == AddOp \cup LeaveOp \cup ReadOp \cup TakeOp

\* What a command has still to remove are entries of its user, or of those chosen.
Fitting(op) ==
  /\ op.kind \in {"leaveScan", "leaveRemove"} => \A e \in op.found : User(e) = User(op.entry)
  /\ op.kind \in {"scan", "remove"} =>
      /\ \A i, j \in DOMAIN op.rest : op.rest[i] = op.rest[j] => i = j
      /\ \A i \in DOMAIN op.rest : User(op.rest[i]) \in About(op)

LineGood(L) == L \in Seq(Op) /\ \A i \in DOMAIN L : Fitting(L[i])

\* Entries are asked for one by one, and each is in a queue later than it was asked for.
PeopleGood ==
    /\ connected \in SUBSET Sockets /\ joins \in [Sockets -> 0 .. MaxJoins]
    /\ asking \in SUBSET [entry : Entry, mode : Modes]
    /\ queue \in [Modes -> SUBSET Entry] /\ overdue \in SUBSET Entry
    /\ \A mode \in Modes : \A e \in queue[mode] : e.nr <= joins[e.socket]
    /\ \A a \in asking : a.entry.nr <= joins[a.entry.socket] /\ \A mode \in Modes : a.entry \notin queue[mode]
    /\ \A a, b \in asking : a.entry = b.entry => a = b

MapsGood ==
    /\ userSockets \in [Users -> Sockets \cup {NoSocket}]
    /\ \A u \in Users : userSockets[u] # NoSocket => UserOf[userSockets[u]] = u
    /\ socketUsers \in [Sockets -> Modes \cup {"none"}]

TallyGood == troubles \in 0 .. MaxTroubles + 1 /\ {raced, ghosts} \subseteq SUBSET Users

Match == [mode : Modes \cup {"none"}, players : SUBSET Entry, seats : SUBSET Entry, bots : Nat,
          wanted : Nat, departed : SUBSET Users, shrunk : BOOLEAN, stage : Current \cup {"over", "gone"}]

Needed(mode) == IF mode = "heads_up" THEN 2 ELSE MULTIPLAYER_MIN

\* A match has the bots it wanted once it was found, and nobody left unless it shrank.
MatchGood(r) ==
    /\ r.seats \subseteq r.players
    /\ r.stage \notin Current => r = Ended(r.stage)
    /\ r.stage \in Current =>
         /\ ~r.shrunk => r.seats = r.players
         /\ Cardinality(r.players) + r.wanted >= Needed(r.mode)
    /\ r.stage \in {"found", "started"} => r.bots = r.wanted

RoomsGood ==
    /\ matches \in Seq(Match) /\ roomOf \in [Sockets -> 0 .. Len(matches)]
    /\ \A m \in DOMAIN matches : MatchGood(matches[m])

TypeInv == PeopleGood /\ MapsGood /\ TallyGood /\ RoomsGood /\ LineGood(line)

LEMMA TypesFollow == TypeInv => MatchTypeOK
BY DEF TypeInv, PeopleGood, MapsGood, TallyGood, RoomsGood, MatchGood, MatchTypeOK

LEMMA RestOfLine ==
    ASSUME NEW L, LineGood(L), L # <<>>
    PROVE  /\ LineGood(Tail(L)) /\ Head(L) = L[1] /\ L[1] \in Op /\ Fitting(L[1]) /\ L \in Seq(Op)
           /\ 1 \in DOMAIN L
<1>1. L \in Seq(Op) /\ \A i \in DOMAIN L : Fitting(L[i])
  BY DEF LineGood
<1>2. /\ Tail(L) \in Seq(Op) /\ Head(L) = L[1] /\ 1 \in DOMAIN L
      /\ \A i \in DOMAIN Tail(L) : i + 1 \in DOMAIN L /\ Tail(L)[i] = L[i + 1]
  BY <1>1, AnsweredPlaces
<1>3. LineGood(Tail(L))
  BY <1>1, <1>2 DEF LineGood
<1>4. L[1] \in Op
  BY <1>1, <1>2
<1> QED
  BY <1>1, <1>2, <1>3, <1>4

LEMMA LineGrows ==
    ASSUME NEW L, LineGood(L), NEW op \in Op, Fitting(op)
    PROVE  LineGood(Append(L, op))
<1>1. L \in Seq(Op) /\ \A i \in DOMAIN L : Fitting(L[i])
  BY DEF LineGood
<1>2. /\ Append(L, op) \in Seq(Op) /\ DOMAIN Append(L, op) = DOMAIN L \cup {Len(L) + 1}
      /\ \A i \in DOMAIN L : Append(L, op)[i] = L[i]
      /\ Append(L, op)[Len(L) + 1] = op
  BY <1>1, SentPlaces
<1> QED
  BY <1>1, <1>2 DEF LineGood

\* A pass sends one command or two.
ReadOf(op) == op \in ReadOp /\ op.entries = queue[op.mode]

LEMMA ReadsSent ==
    ASSUME TypeInv, StartPass
    PROVE  \/ \E op : ReadOf(op) /\ line' = Append(line, op)
           \/ \E op1, op2 : ReadOf(op1) /\ ReadOf(op2) /\ line' = Append(Append(line, op1), op2)
<1>a. PICK toRead \in {<<"heads_up">>, <<"multiplayer">>, <<"heads_up", "multiplayer">>} :
        \E bad \in 0 .. Len(toRead) :
          line' = line \o [i \in DOMAIN toRead |->
                    [kind |-> "read", mode |-> toRead[i], entries |-> queue[toRead[i]], ok |-> i # bad]]
  BY DEF StartPass
<1>1. PICK bad \in 0 .. Len(toRead) :
        line' = line \o [i \in DOMAIN toRead |->
                  [kind |-> "read", mode |-> toRead[i], entries |-> queue[toRead[i]], ok |-> i # bad]]
  BY <1>a
<1> DEFINE op(i) == [kind |-> "read", mode |-> toRead[i], entries |-> queue[toRead[i]], ok |-> i # bad]
           reads == [i \in DOMAIN toRead |-> op(i)]
<1>2. line \in Seq(Op) /\ queue \in [Modes -> SUBSET Entry]
  BY DEF TypeInv, LineGood, PeopleGood
<1>3. \A i \in DOMAIN toRead : toRead[i] \in Modes
  BY DEF Modes
<1>4. \A i \in DOMAIN toRead : ReadOf(op(i)) /\ op(i) \in Op
  BY <1>2, <1>3 DEF ReadOf, ReadOp, Op
<1>5. CASE Len(toRead) = 1
  <2>1. DOMAIN toRead = {1}
    BY <1>5
  <2>2. reads = <<op(1)>>
    <3> HIDE DEF op
    <3> QED
      BY <2>1
  <2> HIDE DEF op
  <2>3. line' = Append(line, op(1))
    <3>1. line' = line \o <<op(1)>>
      BY <1>1, <2>2 DEF op
    <3> QED
      BY <1>2, <1>4, <2>1, <3>1
  <2> QED
    BY <1>4, <2>1, <2>3
<1>6. CASE Len(toRead) = 2
  <2>1. DOMAIN toRead = {1, 2}
    BY <1>6
  <2>2. reads = <<op(1), op(2)>>
    <3> HIDE DEF op
    <3> QED
      BY <2>1
  <2> HIDE DEF op
  <2>3. line' = Append(Append(line, op(1)), op(2))
    <3>1. line' = line \o <<op(1), op(2)>>
      BY <1>1, <2>2 DEF op
    <3> QED
      BY <1>2, <1>4, <2>1, <3>1
  <2> QED
    BY <1>4, <2>1, <2>3
<1>7. Len(toRead) \in {1, 2}
  OBVIOUS
<1> QED
  BY <1>5, <1>6, <1>7

-----------------------------------------------------------------------------
(* What becomes of a match.                                                *)

\* Of a match nobody is new, and once over it stays so.
Lesser(q, r) ==
    /\ q.seats \subseteq r.seats /\ q.players \subseteq r.players /\ q.departed \subseteq r.departed
    /\ q.stage \in Current => r.stage \in Current

RoomsLess ==
    /\ matches' \in Seq(Match) /\ Len(matches') = Len(matches)
    /\ \A k \in DOMAIN matches' : MatchGood(matches'[k]) /\ Lesser(matches'[k], matches[k])

LEMMA MatchParts ==
    ASSUME RoomsGood, NEW m \in DOMAIN matches
    PROVE  matches[m] \in Match /\ MatchGood(matches[m]) /\ m \in 1 .. Len(matches)
BY DEF RoomsGood

LEMMA MatchReplaced ==
    ASSUME RoomsGood, NEW m \in DOMAIN matches, NEW r \in Match, MatchGood(r), Lesser(r, matches[m]),
           matches' = [matches EXCEPT ![m] = r]
    PROVE  RoomsLess /\ matches'[m] = r
<1>1. /\ matches' \in Seq(Match) /\ Len(matches') = Len(matches) /\ DOMAIN matches' = DOMAIN matches
      /\ matches'[m] = r /\ \A k \in DOMAIN matches \ {m} : matches'[k] = matches[k]
  BY DEF RoomsGood
<1>2. \A k \in DOMAIN matches : Lesser(matches[k], matches[k]) /\ MatchGood(matches[k])
  BY DEF RoomsGood, Lesser
<1> QED
  BY <1>1, <1>2 DEF RoomsLess

LEMMA EndedGood ==
    ASSUME NEW stage \in {"over", "gone"}, NEW r
    PROVE  Ended(stage) \in Match /\ MatchGood(Ended(stage)) /\ Lesser(Ended(stage), r)
BY DEF Ended, Match, MatchGood, Lesser, Current

\* One seat of a room at most is given up, the socket's own.
LEMMA SeatGivenUp ==
    ASSUME TypeInv, NEW s \in Sockets, roomOf[s] # 0, GiveUpSeat(s)
    PROVE  /\ roomOf[s] \in DOMAIN matches /\ RoomsLess
           /\ \A k \in DOMAIN matches : k # roomOf[s] => matches'[k] = matches[k]
           /\ \A e \in matches'[roomOf[s]].seats :
                e.socket # s \/ \E f \in matches[roomOf[s]].seats : f.socket = s /\ f.nr > e.nr
           /\ matches'[roomOf[s]].stage = "gone" => matches'[roomOf[s]].seats = {}
<1> DEFINE m == roomOf[s]
           r == matches[m]
           own == {e \in r.seats : e.socket = s}
           seats == {e \in r.seats : e.socket # s \/ \E f \in own : f.nr > e.nr}
           fewer == [r EXCEPT !.seats = seats, !.shrunk = TRUE]
           ended == Ended(IF r.stage = "over" THEN "over" ELSE "gone")
<1>0. RoomsGood /\ m \in DOMAIN matches
  BY DEF TypeInv, RoomsGood
<1>1. r \in Match /\ MatchGood(r)
  BY <1>0, MatchParts
<1>2. matches' = [matches EXCEPT ![m] = IF seats = {} THEN ended ELSE fewer]
  BY Zenon DEF GiveUpSeat
<1> HIDE DEF m, r
<1>3. CASE seats = {}
  <2>1. ended \in Match /\ MatchGood(ended) /\ Lesser(ended, matches[m]) /\ ended.seats = {}
    <3>1. (IF r.stage = "over" THEN "over" ELSE "gone") \in {"over", "gone"}
      OBVIOUS
    <3> QED
      BY <3>1, EndedGood DEF Ended
  <2>2. matches' = [matches EXCEPT ![m] = ended]
    BY <1>2, <1>3
  <2> HIDE DEF ended
  <2>3. RoomsLess /\ matches'[m] = ended
    BY <1>0, <2>1, <2>2, MatchReplaced
  <2>4. \A k \in DOMAIN matches : k # m => matches'[k] = matches[k]
    BY <2>2
  <2> QED
    BY <1>0, <2>1, <2>3, <2>4 DEF m
<1>4. CASE seats # {}
  <2>1. seats \subseteq r.seats /\ r.seats # {} /\ seats \in SUBSET Entry
    BY <1>1, <1>4 DEF Match
  <2>2. r.stage \in Current
    BY <1>1, <2>1 DEF MatchGood, Ended
  <2>3. /\ fewer \in Match /\ fewer.players = r.players /\ fewer.departed = r.departed
        /\ fewer.seats = seats /\ fewer.shrunk /\ fewer.stage = r.stage /\ fewer.mode = r.mode
        /\ fewer.bots = r.bots /\ fewer.wanted = r.wanted
    <3> HIDE DEF seats
    <3> QED
      BY <1>1, <2>1 DEF Match
  <2> HIDE DEF fewer, seats
  <2>5. MatchGood(fewer)
    BY <1>1, <2>1, <2>2, <2>3 DEF MatchGood
  <2>6. Lesser(fewer, matches[m])
    BY <2>1, <2>3 DEF Lesser, r
  <2>7. matches' = [matches EXCEPT ![m] = fewer]
    BY <1>2, <1>4
  <2>8. RoomsLess /\ matches'[m] = fewer
    BY <1>0, <2>3, <2>5, <2>6, <2>7, MatchReplaced
  <2>9. \A k \in DOMAIN matches : k # m => matches'[k] = matches[k]
    BY <2>7
  <2>10. /\ \A e \in seats : e.socket # s \/ \E f \in r.seats : f.socket = s /\ f.nr > e.nr
         /\ matches'[m].seats = seats /\ matches'[m].stage # "gone"
    BY <2>2, <2>3, <2>8 DEF seats, Current
  <2> QED
    BY <1>0, <2>8, <2>9, <2>10 DEF m, r
<1> QED
  BY <1>3, <1>4

\* Bots come or not, the match starts, and ends.
LEMMA StageMoves ==
    ASSUME TypeInv, NEW m \in DOMAIN matches,
           AddBots(m) \/ BotsFail(m) \/ StartMatchedGame(m) \/ GameOver(m)
    PROVE  RoomsLess
<1> DEFINE r == matches[m]
           moved(stage) == [r EXCEPT !.stage = stage]
           filled == [r EXCEPT !.stage = "found", !.bots = r.wanted]
<1>0. RoomsGood /\ {"found", "stranded", "started"} \subseteq Current
  BY DEF TypeInv, Current
<1>1. r \in Match /\ MatchGood(r)
  BY <1>0, MatchParts
<1>2. CASE AddBots(m)
  <2>1. matches' = [matches EXCEPT ![m] = filled] /\ r.stage = "pool"
    <3>1. matches' = [matches EXCEPT ![m].stage = "found", ![m].bots = r.wanted] /\ r.stage = "pool"
      BY <1>2 DEF AddBots
    <3> QED
      BY <3>1
  <2>2. /\ filled \in Match /\ filled.players = r.players /\ filled.departed = r.departed
        /\ filled.seats = r.seats /\ filled.shrunk = r.shrunk /\ filled.stage = "found"
        /\ filled.mode = r.mode /\ filled.bots = r.wanted /\ filled.wanted = r.wanted
    <3> HIDE DEF r
    <3> QED
      BY <1>0, <1>1 DEF Match
  <2> HIDE DEF filled
  <2>3. MatchGood(filled) /\ Lesser(filled, r)
    <3> HIDE DEF r
    <3> QED
      BY <1>1, <2>1, <2>2 DEF MatchGood, Lesser, Current
  <2> QED
    BY <1>0, <2>1, <2>2, <2>3, MatchReplaced
<1>3. ASSUME NEW stage \in {"stranded", "started"}, matches' = [matches EXCEPT ![m].stage = stage],
             r.stage \in Current, stage = "started" => r.stage = "found"
      PROVE  RoomsLess
  <2>1. matches' = [matches EXCEPT ![m] = moved(stage)]
    BY <1>3
  <2>2. LET q == moved(stage)
        IN  /\ q \in Match /\ q.players = r.players /\ q.departed = r.departed
            /\ q.seats = r.seats /\ q.shrunk = r.shrunk /\ q.stage = stage
            /\ q.mode = r.mode /\ q.bots = r.bots /\ q.wanted = r.wanted
    <3> HIDE DEF r
    <3> QED
      BY <1>0, <1>1, <1>3 DEF Match
  <2> HIDE DEF moved
  <2>3. MatchGood(moved(stage)) /\ Lesser(moved(stage), r)
    <3> HIDE DEF r
    <3> QED
      BY <1>1, <1>3, <2>2 DEF MatchGood, Lesser, Current
  <2> QED
    BY <1>0, <2>1, <2>2, <2>3, MatchReplaced
<1>4. CASE BotsFail(m)
  BY <1>3, <1>4 DEF BotsFail, Advance, Current
<1>5. CASE StartMatchedGame(m)
  BY <1>3, <1>5 DEF StartMatchedGame, Advance, Current
<1>6. CASE GameOver(m)
  <2>1. matches' = [matches EXCEPT ![m] = Ended("over")]
    BY <1>6 DEF GameOver
  <2> QED
    BY <1>0, <2>1, EndedGood, MatchReplaced
<1> QED
  BY <1>2, <1>4, <1>5, <1>6

\* A match of those chosen: none of them left yet, bots make up the number.
LEMMA MatchCreated ==
    ASSUME TypeInv, NEW mode \in Modes, NEW chosen \in SUBSET Entry, CreateMatch(mode, chosen)
    PROVE  LET n == Len(matches) + 1
               r == matches'[n]
           IN  /\ matches' \in Seq(Match) /\ Len(matches') = n
               /\ \A k \in DOMAIN matches : matches'[k] = matches[k]
               /\ DOMAIN matches' = DOMAIN matches \cup {n} /\ n \notin DOMAIN matches
               /\ MatchGood(r) /\ r.players = chosen /\ r.seats = chosen
               /\ r.departed = {User(e) : e \in {f \in chosen : f.socket \notin connected
                                                               \/ socketUsers[f.socket] = "none"}}
<1> DEFINE n == Cardinality(chosen)
           size == IF mode = "heads_up" THEN {2} ELSE MULTIPLAYER_MIN .. MULTIPLAYER_MAX
           bots(total) == IF total > n THEN total - n ELSE 0
<1>1. PICK total \in size : matches' = Append(matches, Seated(mode, chosen, bots(total)))
  BY Zenon DEF CreateMatch
<1>2. n \in Nat
  BY EntriesAreFew
<1>3. total \in Nat /\ total >= Needed(mode)
  BY MatchmakingAssumption DEF Needed
<1> HIDE DEF n
<1>4. bots(total) \in Nat /\ n + bots(total) >= Needed(mode)
  <2>1. Needed(mode) \in Nat
    BY MatchmakingAssumption DEF Needed
  <2> QED
    BY <1>2, <1>3, <2>1
<1> HIDE DEF size, bots
<1> DEFINE r == Seated(mode, chosen, bots(total))
<1>5. /\ r \in Match /\ r.players = chosen /\ r.seats = chosen
      /\ r.departed = {User(e) : e \in {f \in chosen : f.socket \notin connected
                                                      \/ socketUsers[f.socket] = "none"}}
  <2>1. {User(e) : e \in {f \in chosen : f.socket \notin connected \/ socketUsers[f.socket] = "none"}}
          \in SUBSET Users
    BY DEF Entry, User, Users
  <2>2. (IF mode = "heads_up" /\ bots(total) = 0 THEN "found" ELSE "pool") \in Current
    BY DEF Current
  <2> QED
    BY <1>4, <2>1, <2>2 DEF Seated, Match
<1>6. MatchGood(r)
  <2>1. r.stage \in Current /\ ~r.shrunk /\ r.wanted = bots(total) /\ r.mode = mode
        /\ r.seats = r.players /\ r.players = chosen /\ r.bots = 0
        /\ (r.stage \in {"found", "started"} => r.wanted = 0)
    BY DEF Seated, Current
  <2> HIDE DEF r
  <2> QED
    BY <1>4, <2>1 DEF MatchGood, n
<1> HIDE DEF r
<1>7. matches \in Seq(Match) /\ matches' = Append(matches, r)
  BY <1>1 DEF TypeInv, RoomsGood, r
<1>8. /\ matches' \in Seq(Match) /\ Len(matches') = Len(matches) + 1
      /\ \A k \in DOMAIN matches : matches'[k] = matches[k]
      /\ matches'[Len(matches) + 1] = r
      /\ DOMAIN matches' = DOMAIN matches \cup {Len(matches) + 1} /\ Len(matches) + 1 \notin DOMAIN matches
  BY <1>5, <1>7
<1> QED
  BY <1>5, <1>6, <1>8

\* The bound on joins bounds those of each socket.
LEMMA OneMoreJoin ==
    ASSUME TypeInv, Made < MaxJoins, NEW s \in Sockets
    PROVE  joins[s] < MaxJoins
<1> DEFINE D == {e \in Entry : e.nr <= joins[e.socket]}
           g == [i \in 1 .. MaxJoins |-> [socket |-> s, nr |-> i]]
<1>0. MaxJoins \in Nat /\ joins[s] \in 0 .. MaxJoins
  BY MatchmakingAssumption DEF TypeInv, PeopleGood
<1> SUFFICES ASSUME joins[s] = MaxJoins PROVE FALSE
  BY <1>0
<1>1. g \in Injection(1 .. MaxJoins, D)
  BY DEF Injection, IsInjective, Entry
<1>2. D \in SUBSET Entry
  OBVIOUS
<1>3. Cardinality(1 .. MaxJoins) = MaxJoins
  BY <1>0, FS_Interval
<1> HIDE DEF D, g
<1>4. IsFiniteSet(D) /\ Cardinality(D) \in Nat
  BY <1>2, EntriesAreFew
<1>5. MaxJoins <= Cardinality(D)
  BY <1>1, <1>3, <1>4, FS_Injection
<1> QED
  BY <1>0, <1>4, <1>5 DEF Made, D

\* Failures are counted up to their bound.
LEMMA FailureCounted ==
    ASSUME TypeInv, NEW ok \in BOOLEAN, Sent(ok), Failures(ok)
    PROVE  troubles' \in 0 .. MaxTroubles + 1
BY MatchmakingAssumption DEF TypeInv, TallyGood, Sent, Bearable, Failures

\* A command is about users.
LEMMA AboutUsers ==
    ASSUME NEW op \in Op
    PROVE  About(op) \subseteq Users
<1>1. \A e \in Entry : User(e) \in Users
  BY DEF Entry, User, Users
<1>2. CASE op \in AddOp
  BY <1>1, <1>2 DEF About, AddOp
<1>3. CASE op \in LeaveOp
  BY <1>1, <1>3 DEF About, LeaveOp
<1>4. CASE op \in ReadOp
  BY <1>1, <1>4 DEF About, ReadOp
<1>5. CASE op \in TakeOp
  BY <1>1, <1>5 DEF About, TakeOp
<1> QED
  BY <1>2, <1>3, <1>4, <1>5 DEF Op

\* What leaving begins with: whether the user is in the queue of his mode.
LeaveBegun(s, op) ==
    LET own == {e \in queue[socketUsers[s]] : User(e) = UserOf[s]}
    IN  /\ op \in LeaveOp /\ op.kind = "leaveScan" /\ op.mode = socketUsers[s]
        /\ op.entry.socket = s
        /\ \/ op.found = {} /\ own = {}
           \/ \E e \in own : op.found = {e}
        /\ line' = Append(line, op)

LEMMA LeaveBegins ==
    ASSUME TypeInv, Bearable, NEW s \in Sockets, socketUsers[s] # "none", SendLeave(s)
    PROVE  (\E op : LeaveBegun(s, op)) /\ troubles' \in 0 .. MaxTroubles + 1
<1> DEFINE m == socketUsers[s]
           own == {e \in queue[m] : User(e) = UserOf[s]}
           first == IF own = {} THEN own ELSE {Head(Sorted(m, own))}
           op(ok) == [kind |-> "leaveScan", mode |-> m, entry |-> [socket |-> s, nr |-> 1],
                      found |-> first, ok |-> ok]
<1>1. m \in Modes /\ queue[m] \in SUBSET Entry /\ [socket |-> s, nr |-> 1] \in Entry
  BY MatchmakingAssumption DEF TypeInv, MapsGood, PeopleGood, Entry
<1>2. PICK ok \in BOOLEAN : troubles' = troubles + (IF ok THEN 1 ELSE 2) /\ line' = Append(line, op(ok))
  BY Zenon DEF SendLeave
<1>3. troubles' \in 0 .. MaxTroubles + 1
  BY <1>2, MatchmakingAssumption DEF Bearable, TypeInv, TallyGood
<1>4. \/ first = {} /\ own = {}
      \/ \E e \in own : first = {e}
  <2>1. CASE own = {}
    BY <2>1
  <2>2. CASE own # {}
    <3>1. own \in SUBSET Entry
      BY <1>1
    <3> DEFINE t == Sorted(m, own)
    <3> HIDE DEF own, m
    <3>2. t \in Seq(own) /\ Range(t) = own
      BY <1>1, <3>1, SortedOf
    <3> HIDE DEF t
    <3>3. t # <<>>
      BY <2>2, <3>2 DEF Range
    <3>4. Head(t) \in own
      BY <3>2, <3>3
    <3> QED
      BY <2>2, <3>4 DEF t
  <2> QED
    BY <2>1, <2>2
<1>5. own \in SUBSET Entry
  BY <1>1
<1> HIDE DEF own, first, m
<1>6. first \in SUBSET Entry
  BY <1>4, <1>5
<1>7. op(ok) \in LeaveOp /\ op(ok).kind = "leaveScan" /\ op(ok).mode = m /\ op(ok).entry.socket = s
      /\ op(ok).found = first
  BY <1>1, <1>6 DEF LeaveOp
<1>8. LeaveBegun(s, op(ok))
  <2> DEFINE sent == op(ok)
  <2>1. sent \in LeaveOp /\ sent.kind = "leaveScan" /\ sent.mode = m /\ sent.entry.socket = s
        /\ ((sent.found = {} /\ own = {}) \/ \E e \in own : sent.found = {e}) /\ line' = Append(line, sent)
    BY <1>2, <1>4, <1>7
  <2> HIDE DEF op, sent
  <2>2. LeaveBegun(s, sent)
    BY <2>1 DEF LeaveBegun, own, m
  <2> QED
    BY <2>2 DEF sent
<1> QED
  BY <1>3, <1>8

-----------------------------------------------------------------------------
(* The steps that answers lead to.                                         *)

\* The first in line.
LEMMA FirstInLine ==
    ASSUME TypeInv, line # <<>>
    PROVE  /\ Head(line) = line[1] /\ line[1] \in Op /\ Fitting(line[1]) /\ 1 \in DOMAIN line
           /\ LineGood(Tail(line)) /\ line \in Seq(Op)
           /\ line[1].mode \in Modes /\ line[1].ok \in BOOLEAN
           /\ line[1].kind = "zadd" => line[1] \in AddOp
           /\ line[1].kind \in {"leaveScan", "leaveRemove"} => line[1] \in LeaveOp
           /\ line[1].kind = "read" => line[1] \in ReadOp
           /\ line[1].kind \in {"scan", "remove"} => line[1] \in TakeOp
<1>1. /\ Head(line) = line[1] /\ line[1] \in Op /\ Fitting(line[1]) /\ 1 \in DOMAIN line
      /\ LineGood(Tail(line)) /\ line \in Seq(Op)
  BY RestOfLine DEF TypeInv
<1>2. ASSUME NEW op \in Op
      PROVE  /\ op.mode \in Modes /\ op.ok \in BOOLEAN
             /\ op.kind = "zadd" => op \in AddOp
             /\ op.kind \in {"leaveScan", "leaveRemove"} => op \in LeaveOp
             /\ op.kind = "read" => op \in ReadOp
             /\ op.kind \in {"scan", "remove"} => op \in TakeOp
  <2>1. CASE op \in AddOp
    BY <2>1 DEF AddOp
  <2>2. CASE op \in LeaveOp
    BY <2>2 DEF LeaveOp
  <2>3. CASE op \in ReadOp
    BY <2>3 DEF ReadOp
  <2>4. CASE op \in TakeOp
    BY <2>4 DEF TakeOp
  <2> QED
    BY <2>1, <2>2, <2>3, <2>4 DEF Op
<1> QED
  BY <1>1, <1>2

\* A leave that found an entry goes on to remove it.
LeaveOn(op, next) ==
    /\ next \in LeaveOp /\ next.kind = "leaveRemove" /\ next.mode = op.mode /\ next.entry = op.entry
    /\ next.found = {} /\ line' = Append(Tail(line), next)
    /\ \/ queue' = queue /\ ~next.ok
       \/ queue' = [queue EXCEPT ![op.mode] = @ \ op.found]

LEMMA LeaveStep ==
    ASSUME TypeInv, AnswerLeave, Head(line).found # {}
    PROVE  (\E next : LeaveOn(line[1], next)) /\ UNCHANGED maps /\ troubles' \in 0 .. MaxTroubles + 1
<1> DEFINE op == line[1]
           next(ok) == [op EXCEPT !.kind = "leaveRemove", !.found = {}, !.ok = ok]
<1>1. line # <<>> /\ Head(line).kind \in {"leaveScan", "leaveRemove"}
  BY DEF AnswerLeave
<1>2. Head(line) = op /\ op \in LeaveOp
  BY <1>1, FirstInLine
<1>a. UNCHANGED maps
  BY <1>2 DEF AnswerLeave
<1>b. troubles' \in 0 .. MaxTroubles + 1
  <2>1. \E ok \in BOOLEAN : Sent(ok) /\ Failures(ok)
    BY <1>2, Zenon DEF AnswerLeave
  <2> QED
    BY <2>1, FailureCounted
<1> DEFINE less == [queue EXCEPT ![op.mode] = @ \ op.found]
<1>3. PICK ok \in BOOLEAN : \E done \in {ok, TRUE} :
        /\ queue' = IF done THEN less ELSE queue
        /\ line' = Append(Tail(line), next(ok))
  BY <1>2, Zenon DEF AnswerLeave
<1>4. /\ next(ok) \in LeaveOp /\ next(ok).kind = "leaveRemove" /\ next(ok).mode = op.mode
      /\ next(ok).entry = op.entry /\ next(ok).found = {} /\ next(ok).ok = ok
  <2> HIDE DEF op
  <2> QED
    BY <1>2 DEF LeaveOp
<1>5. /\ (queue' = queue /\ ~ok) \/ queue' = less
      /\ line' = Append(Tail(line), next(ok))
  <2> HIDE DEF less, next, op
  <2>1. PICK done \in {ok, TRUE} : queue' = IF done THEN less ELSE queue
    BY <1>3
  <2>2. CASE ok = TRUE
    BY <1>3, <2>1, <2>2
  <2>3. CASE ok = FALSE
    <3>1. done = FALSE \/ done = TRUE
      BY <2>1, <2>3
    <3> QED
      BY <1>3, <2>1, <2>3, <3>1
  <2> QED
    BY <2>2, <2>3
<1> DEFINE sent == next(ok)
<1>6. /\ sent \in LeaveOp /\ sent.kind = "leaveRemove" /\ sent.mode = op.mode
      /\ sent.entry = op.entry /\ sent.found = {} /\ sent.ok = ok /\ line' = Append(Tail(line), sent)
  BY <1>4, <1>5
<1> HIDE DEF sent, next
<1>7. LeaveOn(op, sent)
  <2>1. (queue' = queue /\ ~sent.ok) \/ queue' = [queue EXCEPT ![op.mode] = @ \ op.found]
    BY <1>5, <1>6
  <2> HIDE DEF op
  <2> QED
    BY <1>6, <2>1 DEF LeaveOn
<1> QED
  BY <1>a, <1>b, <1>7 DEF op

\* The next of the entries to remove.
TakeOn(op, next) ==
    /\ next \in TakeOp /\ next.kind = "remove" /\ next.mode = op.mode /\ next.chosen = op.chosen
    /\ next.rest = Tail(op.rest) /\ line' = Append(Tail(line), next)
    /\ \/ queue' = queue /\ ~next.ok
       \/ queue' = [queue EXCEPT ![op.mode] = @ \ {Head(op.rest)}]

LEMMA TakeStep ==
    ASSUME TypeInv, AnswerRemove, Head(line).rest # <<>>
    PROVE  /\ \E next : TakeOn(line[1], next)
           /\ UNCHANGED <<maps, rooms>> /\ troubles' \in 0 .. MaxTroubles + 1
<1> DEFINE op == line[1]
           next(ok) == [kind |-> "remove", mode |-> op.mode, chosen |-> op.chosen,
                        rest |-> Tail(op.rest), ok |-> ok]
<1>1. line # <<>> /\ Head(line).kind \in {"scan", "remove"}
  BY DEF AnswerRemove
<1>2. Head(line) = op /\ op \in TakeOp
  BY <1>1, FirstInLine
<1>3. RemoveNext(op.mode, op.chosen, op.rest) /\ op.rest # <<>>
  BY <1>2 DEF AnswerRemove
<1>4. UNCHANGED <<maps, rooms>>
  BY <1>3 DEF RemoveNext
<1>a. troubles' \in 0 .. MaxTroubles + 1
  <2>1. \E ok \in BOOLEAN : Sent(ok) /\ Failures(ok)
    BY <1>3, Zenon DEF RemoveNext
  <2> QED
    BY <2>1, FailureCounted
<1> DEFINE less == [queue EXCEPT ![op.mode] = @ \ {Head(op.rest)}]
<1>5. PICK ok \in BOOLEAN : \E done \in {ok, TRUE} :
        /\ queue' = IF done THEN less ELSE queue
        /\ line' = Append(Tail(line), next(ok))
  BY <1>3, Zenon DEF RemoveNext
<1>6. next(ok) \in TakeOp
  <2>1. op.rest \in Seq(Entry) /\ op.mode \in Modes /\ op.chosen \in SUBSET Entry
    BY <1>2 DEF TakeOp
  <2>2. Tail(op.rest) \in Seq(Entry)
    BY <1>3, <2>1
  <2> QED
    BY <2>1, <2>2 DEF TakeOp
<1>7. /\ (queue' = queue /\ ~ok) \/ queue' = less
      /\ line' = Append(Tail(line), next(ok))
  <2> HIDE DEF less, next, op
  <2>1. PICK done \in {ok, TRUE} : queue' = IF done THEN less ELSE queue
    BY <1>5
  <2>2. CASE ok = TRUE
    BY <1>5, <2>1, <2>2
  <2>3. CASE ok = FALSE
    <3>1. done = FALSE \/ done = TRUE
      BY <2>1, <2>3
    <3> QED
      BY <1>5, <2>1, <2>3, <3>1
  <2> QED
    BY <2>2, <2>3
<1> DEFINE sent == next(ok)
<1>8. /\ sent \in TakeOp /\ sent.kind = "remove" /\ sent.mode = op.mode /\ sent.chosen = op.chosen
      /\ sent.rest = Tail(op.rest) /\ sent.ok = ok /\ line' = Append(Tail(line), sent)
  BY <1>6, <1>7
<1> HIDE DEF sent, next
<1>9. TakeOn(op, sent)
  <2>1. (queue' = queue /\ ~sent.ok) \/ queue' = [queue EXCEPT ![op.mode] = @ \ {Head(op.rest)}]
    BY <1>7, <1>8
  <2> HIDE DEF op
  <2> QED
    BY <1>8, <2>1 DEF TakeOn
<1> QED
  BY <1>4, <1>9, <1>a

-----------------------------------------------------------------------------
(* The shape is kept.                                                      *)

LEMMA RoomsStay ==
    ASSUME RoomsGood, UNCHANGED matches, roomOf' \in [Sockets -> 0 .. Len(matches)]
    PROVE  RoomsGood'
BY DEF RoomsGood

LEMMA RoomsShrink ==
    ASSUME RoomsLess, roomOf' \in [Sockets -> 0 .. Len(matches)]
    PROVE  RoomsGood'
BY DEF RoomsLess, RoomsGood

\* Entries leave the queue, if anything.
LEMMA PeopleStay ==
    ASSUME PeopleGood, UNCHANGED <<joins, asking, overdue>>, connected' \in SUBSET connected,
           queue' \in [Modes -> SUBSET Entry], \A m \in Modes : queue'[m] \subseteq queue[m]
    PROVE  PeopleGood'
BY DEF PeopleGood

LEMMA LineSent ==
    ASSUME LineGood(line), NEW op \in Op, Fitting(op), line' = Append(line, op)
    PROVE  LineGood(line')
BY LineGrows

LEMMA LineSentOn ==
    ASSUME TypeInv, line # <<>>, NEW op \in Op, Fitting(op), line' = Append(Tail(line), op)
    PROVE  LineGood(line')
BY FirstInLine, LineGrows

LEMMA JoinKeepsTypes ==
    ASSUME TypeInv, NEW s \in Sockets, NEW mode \in Modes, JoinQueue(s, mode)
    PROVE  TypeInv'
<1> DEFINE e == [socket |-> s, nr |-> joins[s] + 1]
           a == [entry |-> e, mode |-> mode]
<1>1. joins[s] < MaxJoins /\ joins[s] \in Nat /\ MaxJoins \in Nat
  BY OneMoreJoin, MatchmakingAssumption DEF JoinQueue, TypeInv, PeopleGood
<1>2. e \in Entry /\ a \in [entry : Entry, mode : Modes]
  BY <1>1 DEF Entry
<1>3. /\ joins' \in [Sockets -> 0 .. MaxJoins] /\ joins'[s] = joins[s] + 1
      /\ \A t \in Sockets : joins[t] <= joins'[t] /\ joins'[t] \in Nat /\ joins[t] \in Nat
  BY <1>1 DEF JoinQueue, TypeInv, PeopleGood
<1>4. asking' = asking \cup {a} /\ UNCHANGED <<connected, queue, overdue, line, maps, matches, troubles, ghosts>>
  BY DEF JoinQueue
<1>5. \A f \in Entry : f.socket \in Sockets /\ f.nr \in Nat
  BY MatchmakingAssumption DEF Entry
<1>6. a.entry = e /\ e.socket = s /\ e.nr = joins[s] + 1
  OBVIOUS
<1> HIDE DEF e, a
<1>7. PeopleGood'
  <2>1. /\ connected' \in SUBSET Sockets /\ asking' \in SUBSET [entry : Entry, mode : Modes]
        /\ queue' \in [Modes -> SUBSET Entry] /\ overdue' \in SUBSET Entry
    BY <1>2, <1>4 DEF TypeInv, PeopleGood
  <2>2. ASSUME NEW m \in Modes, NEW f \in queue[m] PROVE f.nr <= joins'[f.socket] /\ f # e
    <3>1. f \in Entry /\ f.nr <= joins[f.socket]
      BY DEF TypeInv, PeopleGood
    <3>2. f.nr <= joins'[f.socket]
      BY <1>3, <1>5, <3>1
    <3>3. f # e
      BY <1>1, <1>6, <3>1
    <3> QED
      BY <3>2, <3>3
  <2>3. ASSUME NEW b \in asking PROVE b.entry.nr <= joins'[b.entry.socket] /\ b.entry # e
    <3>1. b.entry \in Entry /\ b.entry.nr <= joins[b.entry.socket]
      BY DEF TypeInv, PeopleGood
    <3>2. b.entry.nr <= joins'[b.entry.socket]
      BY <1>3, <1>5, <3>1
    <3>3. b.entry # e
      BY <1>1, <1>6, <3>1
    <3> QED
      BY <3>2, <3>3
  <2>4. \A b \in asking : \A m \in Modes : b.entry \notin queue[m]
    BY DEF TypeInv, PeopleGood
  <2>5. \A b, c \in asking : b.entry = c.entry => b = c
    BY DEF TypeInv, PeopleGood
  <2>6. e.nr <= joins'[e.socket]
    BY <1>1, <1>3, <1>6
  <2> QED
    BY <1>3, <1>4, <1>6, <2>1, <2>2, <2>3, <2>4, <2>5, <2>6 DEF PeopleGood
<1>8. RoomsGood'
  <2>1. roomOf' \in [Sockets -> 0 .. Len(matches)]
    BY DEF TypeInv, RoomsGood, JoinQueue
  <2> QED
    BY <1>4, <2>1, RoomsStay DEF TypeInv
<1>9. UserOf[s] \in Users /\ (raced' = raced \/ raced' = raced \cup {UserOf[s]})
  BY DEF JoinQueue, Users
<1>10. TallyGood' /\ MapsGood' /\ LineGood(line')
  BY <1>4, <1>9 DEF TypeInv, TallyGood, MapsGood, maps
<1> QED
  BY <1>7, <1>8, <1>10 DEF TypeInv

LEMMA GoingKeepsTypes ==
    ASSUME TypeInv, NEW s \in Sockets, LeaveQueue(s) \/ LeaveRoom(s) \/ Disconnect(s)
    PROVE  TypeInv'
<1>1. UserOf[s] \in Users
  BY DEF Users
<1>2. /\ UNCHANGED <<joins, asking, queue, overdue, maps>> /\ connected' \in SUBSET connected
      /\ raced' \in SUBSET Users /\ ghosts' \in SUBSET Users
  BY <1>1 DEF LeaveQueue, LeaveRoom, Disconnect, people, maps, history, TypeInv, TallyGood
<1>3. PeopleGood' /\ MapsGood'
  BY <1>2, PeopleStay DEF TypeInv, MapsGood, maps, PeopleGood
<1>4. LineGood(line') /\ troubles' \in 0 .. MaxTroubles + 1
  <2>1. CASE UNCHANGED line /\ troubles' = troubles + 1 /\ Bearable
    BY <2>1, MatchmakingAssumption DEF TypeInv, TallyGood, Bearable
  <2>2. CASE SendLeave(s) /\ Bearable /\ socketUsers[s] # "none"
    <3>1. PICK op : LeaveBegun(s, op)
      BY <2>2, LeaveBegins
    <3>2. op \in Op /\ Fitting(op) /\ line' = Append(line, op)
      <4>1. op \in LeaveOp /\ op.kind = "leaveScan" /\ line' = Append(line, op)
        BY <3>1 DEF LeaveBegun
      <4>2. \A e \in op.found : User(e) = User(op.entry)
        BY <3>1 DEF LeaveBegun, User
      <4> QED
        BY <4>1, <4>2 DEF Op, Fitting
    <3> QED
      BY <2>2, <3>2, LeaveBegins, LineSent DEF TypeInv
  <2> QED
    BY <2>1, <2>2 DEF LeaveQueue, LeaveRoom, Disconnect
<1>5. RoomsGood'
  <2>0. roomOf \in [Sockets -> 0 .. Len(matches)] /\ 0 \in 0 .. Len(matches) /\ RoomsGood
    BY DEF TypeInv, RoomsGood
  <2>1. roomOf' \in [Sockets -> 0 .. Len(matches)]
    BY <2>0 DEF LeaveQueue, LeaveRoom, Disconnect, rooms
  <2>2. CASE UNCHANGED matches
    BY <2>0, <2>1, <2>2, RoomsStay
  <2>3. CASE GiveUpSeat(s) /\ roomOf[s] # 0
    BY <2>1, <2>3, SeatGivenUp, RoomsShrink
  <2>4. RoomStage(s) \in {"pool", "found", "stranded"} => roomOf[s] # 0
    BY DEF RoomStage
  <2> QED
    BY <2>2, <2>3, <2>4 DEF LeaveQueue, LeaveRoom, Disconnect, rooms
<1> QED
  BY <1>2, <1>3, <1>4, <1>5 DEF TypeInv, TallyGood

LEMMA AddKeepsTypes ==
    ASSUME TypeInv, NEW a \in asking, NEW ok \in BOOLEAN, AddEntry(a, ok)
    PROVE  TypeInv'
<1> DEFINE more == [queue EXCEPT ![a.mode] = @ \cup {a.entry}]
           op == [kind |-> "zadd", entry |-> a.entry, mode |-> a.mode, ok |-> ok]
<1>1. a.entry \in Entry /\ a.mode \in Modes /\ a.entry.nr <= joins[a.entry.socket]
  BY DEF TypeInv, PeopleGood
<1>2. /\ asking' = asking \ {a} /\ line' = Append(line, op)
      /\ UNCHANGED <<connected, joins, overdue, maps, rooms, history>>
      /\ Sent(ok) /\ Failures(ok)
  BY DEF AddEntry
<1>3. queue' = queue \/ queue' = more
  BY DEF AddEntry
<1>4. /\ queue' \in [Modes -> SUBSET Entry]
      /\ \A m \in Modes : \A e \in queue'[m] : e \in queue[m] \/ e = a.entry
  BY <1>1, <1>3 DEF TypeInv, PeopleGood
<1>5. op \in Op /\ Fitting(op)
  BY <1>1 DEF Op, AddOp, Fitting
<1> HIDE DEF more, op
<1>6. PeopleGood'
  <2>1. ASSUME NEW b \in asking', NEW m \in Modes PROVE b.entry \notin queue'[m]
    <3>1. b \in asking /\ b # a
      BY <1>2
    <3>2. b.entry # a.entry /\ b.entry \notin queue[m]
      BY <3>1 DEF TypeInv, PeopleGood
    <3> QED
      BY <1>4, <3>2
  <2>2. \A m \in Modes : \A e \in queue'[m] : e.nr <= joins[e.socket]
    BY <1>1, <1>4 DEF TypeInv, PeopleGood
  <2> QED
    BY <1>2, <1>4, <2>1, <2>2 DEF TypeInv, PeopleGood
<1>7. LineGood(line')
  BY <1>2, <1>5, LineSent DEF TypeInv
<1>8. troubles' \in 0 .. MaxTroubles + 1
  BY <1>2, FailureCounted
<1>9. MapsGood' /\ RoomsGood' /\ TallyGood'
  BY <1>2, <1>8 DEF TypeInv, MapsGood, RoomsGood, TallyGood, maps, rooms, history
<1> QED
  BY <1>6, <1>7, <1>9 DEF TypeInv

LEMMA PassKeepsTypes ==
    ASSUME TypeInv, StartPass
    PROVE  TypeInv'
<1>1. /\ UNCHANGED <<people, queue, overdue, maps, rooms, ghosts>>
      /\ raced' = raced \cup ({User(e) : e \in UNION {queue[m] : m \in Modes}} \cap LeavingUsers)
      /\ troubles' \in 0 .. MaxTroubles + 1
  <2>1. /\ UNCHANGED <<people, queue, overdue, maps, rooms, ghosts>>
        /\ raced' = raced \cup ({User(e) : e \in UNION {queue[m] : m \in Modes}} \cap LeavingUsers)
    BY Zenon DEF StartPass
  <2>2. \E ok \in BOOLEAN : Sent(ok) /\ Failures(ok)
    BY DEF StartPass
  <2> QED
    BY <2>1, <2>2, FailureCounted
<1>2. \A op : ReadOf(op) => op \in Op /\ Fitting(op)
  BY DEF ReadOf, ReadOp, Op, Fitting
<1>3. LineGood(line')
  <2>1. CASE \E op : ReadOf(op) /\ line' = Append(line, op)
    BY <1>2, <2>1, LineSent DEF TypeInv
  <2>2. CASE \E op1, op2 : ReadOf(op1) /\ ReadOf(op2) /\ line' = Append(Append(line, op1), op2)
    BY <1>2, <2>2, LineGrows DEF TypeInv
  <2> QED
    BY <2>1, <2>2, ReadsSent
<1>4. raced' \in SUBSET Users
  <2>1. \A e \in Entry : User(e) \in Users
    BY DEF Entry, User, Users
  <2>2. UNION {queue[m] : m \in Modes} \subseteq Entry /\ raced \in SUBSET Users
    BY DEF TypeInv, PeopleGood, TallyGood
  <2> QED
    BY <1>1, <2>1, <2>2
<1>5. PeopleGood' /\ MapsGood' /\ RoomsGood' /\ TallyGood'
  BY <1>1, <1>4 DEF TypeInv, PeopleGood, MapsGood, RoomsGood, TallyGood, people, maps, rooms
<1> QED
  BY <1>3, <1>5 DEF TypeInv

\* A pass that chose goes on to look where the chosen are.
ScanOn(op, next) ==
    LET users == {User(e) : e \in next.chosen}
    IN  /\ next \in TakeOp /\ next.kind = "scan" /\ next.mode = op.mode
        /\ next.chosen \subseteq op.entries /\ next.rest = ToRemove(op.mode, next.chosen)
        /\ line' = Append(Tail(line), next)
        /\ raced' = raced \cup {u \in users : Cardinality(Read(u)) > 1}
                          \cup (IF users \cap raced # {} THEN users ELSE {})

LEMMA ReadStep ==
    ASSUME TypeInv, AnswerRead
    PROVE  /\ troubles' \in 0 .. MaxTroubles + 1
           /\ \/ line' = Tail(line) /\ raced' = raced
              \/ \E next : ScanOn(line[1], next) /\ Fitting(next)
<1> DEFINE op == line[1]
           none == /\ line' = Tail(line) /\ UNCHANGED <<troubles, raced>>
           scan(chosen, ok) == [kind |-> "scan", mode |-> op.mode, chosen |-> chosen,
                                rest |-> ToRemove(op.mode, chosen), ok |-> ok]
           met(users) == raced \cup {u \in users : Cardinality(Read(u)) > 1}
                               \cup (IF users \cap raced # {} THEN users ELSE {})
           some(chosen) ==
             \E ok \in BOOLEAN :
                /\ Sent(ok) /\ Failures(ok) /\ line' = Append(Tail(line), scan(chosen, ok))
                /\ raced' = met({User(e) : e \in chosen})
<1>1. line # <<>> /\ Head(line).kind = "read"
  BY DEF AnswerRead
<1>2. Head(line) = op /\ op \in ReadOp /\ op.mode \in Modes /\ op.entries \in SUBSET Entry
      /\ queue[op.mode] \in SUBSET Entry
  BY <1>1, FirstInLine DEF ReadOp, TypeInv, PeopleGood
<1>3. PICK chosen \in {Choice(op.mode, op.entries, long) : long \in Long(op.entries)} :
        IF chosen = {} THEN none ELSE some(chosen)
  BY <1>2, Zenon DEF AnswerRead
<1>4. chosen \in SUBSET op.entries /\ chosen \in SUBSET Entry
  <2>1. PICK long : chosen = Choice(op.mode, op.entries, long)
    BY <1>3
  <2> QED
    BY <1>2, <2>1, ChosenWereRead
<1> HIDE DEF op, scan, met
<1>5. CASE chosen = {}
  BY <1>3, <1>5 DEF TypeInv, TallyGood
<1>6. CASE chosen # {}
  <2>1. PICK ok \in BOOLEAN : /\ Sent(ok) /\ Failures(ok) /\ line' = Append(Tail(line), scan(chosen, ok))
                              /\ raced' = met({User(e) : e \in chosen})
    BY <1>3, <1>6
  <2> DEFINE next == scan(chosen, ok)
  <2>2. /\ next.kind = "scan" /\ next.mode = op.mode /\ next.chosen = chosen
        /\ next.rest = ToRemove(op.mode, chosen) /\ next.ok = ok
        /\ next = [kind |-> "scan", mode |-> op.mode, chosen |-> chosen,
                   rest |-> ToRemove(op.mode, chosen), ok |-> ok]
    BY DEF scan
  <2> DEFINE rest == ToRemove(op.mode, chosen)
  <2>3. /\ rest \in Seq(Entry)
        /\ \A i, j \in DOMAIN rest : rest[i] = rest[j] => i = j
        /\ \A i \in DOMAIN rest : User(rest[i]) \in {User(f) : f \in chosen}
    BY <1>2, <1>4, RemovedOnes DEF Range
  <2> HIDE DEF rest
  <2>4. next \in TakeOp
    BY <1>2, <1>4, <2>2, <2>3 DEF TakeOp, rest
  <2>5. Fitting(next)
    BY <2>2, <2>3 DEF Fitting, About, rest
  <2>6. line' = Append(Tail(line), next)
    BY <2>1
  <2> HIDE DEF next
  <2>7. ScanOn(op, next)
    BY <1>4, <2>1, <2>2, <2>4, <2>6 DEF ScanOn, met
  <2> QED
    BY <2>1, <2>5, <2>7, FailureCounted DEF op
<1> QED
  BY <1>5, <1>6

LEMMA AnswerKeepsTypes ==
    ASSUME TypeInv, Answer
    PROVE  TypeInv'
<1> DEFINE op == line[1]
<1>1. line # <<>> /\ UNCHANGED <<people, overdue, ghosts>>
  BY DEF Answer, AnswerError, AnswerJoin, AnswerLeave, AnswerRead, AnswerRemove, history
<1>2. /\ Head(line) = op /\ op \in Op /\ Fitting(op) /\ LineGood(Tail(line)) /\ op.mode \in Modes
      /\ op.kind = "zadd" => op \in AddOp
      /\ op.kind \in {"leaveScan", "leaveRemove"} => op \in LeaveOp
      /\ op.kind = "read" => op \in ReadOp
      /\ op.kind \in {"scan", "remove"} => op \in TakeOp
  BY <1>1, FirstInLine
<1> HIDE DEF op
<1>3. queue \in [Modes -> SUBSET Entry] /\ PeopleGood /\ connected' \in SUBSET connected
  BY <1>1 DEF TypeInv, PeopleGood, people
<1>4. ASSUME queue' \in [Modes -> SUBSET Entry], \A m \in Modes : queue'[m] \subseteq queue[m] PROVE PeopleGood'
  BY <1>1, <1>3, <1>4, PeopleStay DEF people
<1>5. UNCHANGED queue => PeopleGood'
  BY <1>3, <1>4
<1>6. ASSUME NEW gone \in SUBSET Entry,
             queue' = queue \/ queue' = [queue EXCEPT ![op.mode] = @ \ gone]
      PROVE  PeopleGood'
  BY <1>2, <1>3, <1>4, <1>6
<1>7. /\ UNCHANGED maps => MapsGood'
      /\ UNCHANGED rooms => RoomsGood'
      /\ UNCHANGED <<troubles, raced>> => TallyGood'
  BY <1>1 DEF TypeInv, MapsGood, RoomsGood, TallyGood, maps, rooms
<1>8. CASE AnswerError
  <2>1. line' = Tail(line) /\ raced' = raced \cup About(op) /\ UNCHANGED <<queue, maps, rooms, troubles>>
    BY <1>2, <1>8 DEF AnswerError
  <2>2. TallyGood'
    BY <1>1, <1>2, <2>1, AboutUsers DEF TypeInv, TallyGood
  <2> QED
    BY <1>2, <1>5, <1>7, <2>1, <2>2 DEF TypeInv
<1>9. CASE AnswerJoin
  <2>1. line' = Tail(line) /\ op \in AddOp /\ Joined(op) /\ UNCHANGED <<queue, rooms, troubles, raced>>
    BY <1>2, <1>9 DEF AnswerJoin, history
  <2>2. op.entry.socket \in Sockets /\ User(op.entry) \in Users /\ op.mode \in Modes
        /\ UserOf[op.entry.socket] = User(op.entry)
    BY <2>1 DEF AddOp, Entry, User, Users
  <2>3. MapsGood'
    BY <2>1, <2>2 DEF Joined, TypeInv, MapsGood
  <2> QED
    BY <1>2, <1>5, <1>7, <2>1, <2>3 DEF TypeInv
<1>10. CASE AnswerLeave
  <2>0. op \in LeaveOp /\ op.entry.socket \in Sockets /\ User(op.entry) \in Users /\ op.found \in SUBSET Entry
        /\ UNCHANGED <<rooms, raced>>
    BY <1>2, <1>10 DEF AnswerLeave, LeaveOp, Entry, User, Users, history
  <2>1. CASE op.found # {}
    <3>1. PICK next : LeaveOn(op, next)
      BY <1>2, <1>10, <2>1, LeaveStep DEF op
    <3>2. UNCHANGED maps /\ troubles' \in 0 .. MaxTroubles + 1
      BY <1>2, <1>10, <2>1, LeaveStep DEF op
    <3>3. next \in Op /\ Fitting(next) /\ line' = Append(Tail(line), next)
      BY <3>1 DEF LeaveOn, Op, Fitting
    <3>4. LineGood(line')
      BY <1>1, <3>3, LineSentOn
    <3>5. PeopleGood'
      BY <1>6, <2>0, <3>1 DEF LeaveOn
    <3> QED
      BY <1>1, <1>7, <2>0, <3>2, <3>4, <3>5 DEF TypeInv, TallyGood
  <2>2. CASE op.found = {}
    <3>1. line' = Tail(line) /\ HasLeft(op) /\ UNCHANGED <<queue, troubles>>
      BY <1>2, <1>10, <2>2 DEF AnswerLeave
    <3>2. MapsGood'
      BY <2>0, <3>1 DEF HasLeft, TypeInv, MapsGood
    <3> QED
      BY <1>2, <1>5, <1>7, <2>0, <3>1, <3>2 DEF TypeInv
  <2> QED
    BY <2>1, <2>2
<1>11. CASE AnswerRead
  <2>1. UNCHANGED <<queue, maps, rooms>> /\ troubles' \in 0 .. MaxTroubles + 1
    BY <1>11, ReadStep DEF AnswerRead
  <2>2. CASE line' = Tail(line) /\ raced' = raced
    BY <1>1, <1>2, <1>5, <1>7, <2>1, <2>2 DEF TypeInv, TallyGood
  <2>3. CASE \E next : ScanOn(op, next) /\ Fitting(next)
    <3>1. PICK next : ScanOn(op, next) /\ Fitting(next)
      BY <2>3
    <3>2. next \in Op /\ line' = Append(Tail(line), next)
      BY <3>1 DEF ScanOn, Op
    <3>3. LineGood(line')
      BY <1>1, <3>1, <3>2, LineSentOn
    <3>4. {User(e) : e \in next.chosen} \subseteq Users
      BY <3>1 DEF ScanOn, TakeOp, Entry, User, Users
    <3>5. raced' \in SUBSET Users
      BY <3>1, <3>4 DEF ScanOn, TypeInv, TallyGood
    <3> QED
      BY <1>1, <1>5, <1>7, <2>1, <3>3, <3>5 DEF TypeInv, TallyGood
  <2> QED
    BY <1>11, <2>2, <2>3, ReadStep DEF op
<1>12. CASE AnswerRemove
  <2>0. op \in TakeOp /\ UNCHANGED raced
    BY <1>2, <1>12 DEF AnswerRemove, history
  <2>1. CASE op.rest # <<>>
    <3>1. PICK next : TakeOn(op, next)
      BY <1>2, <1>12, <2>1, TakeStep DEF op
    <3>2. UNCHANGED <<maps, rooms>> /\ troubles' \in 0 .. MaxTroubles + 1
      BY <1>2, <1>12, <2>1, TakeStep DEF op
    <3>3. next \in TakeOp /\ next.rest = Tail(op.rest) /\ next.chosen = op.chosen /\ next.kind = "remove"
          /\ op.rest \in Seq(Entry) /\ line' = Append(Tail(line), next)
      BY <2>0, <3>1 DEF TakeOn, TakeOp
    <3>4. \A i \in DOMAIN Tail(op.rest) : i + 1 \in DOMAIN op.rest /\ Tail(op.rest)[i] = op.rest[i + 1] /\ i \in Nat
      BY <2>1, <3>3
    <3>5. Fitting(next)
      <4>1. /\ \A i, j \in DOMAIN op.rest : op.rest[i] = op.rest[j] => i = j
            /\ \A i \in DOMAIN op.rest : User(op.rest[i]) \in About(op)
        BY <1>2, <2>0 DEF Fitting, TakeOp
      <4>2. About(next) = About(op)
        BY <2>0, <3>3 DEF About, TakeOp
      <4>3. ASSUME NEW i \in DOMAIN next.rest, NEW j \in DOMAIN next.rest, next.rest[i] = next.rest[j]
            PROVE  i = j
        <5>1. i + 1 = j + 1 /\ i \in Nat /\ j \in Nat
          BY <3>3, <3>4, <4>1, <4>3
        <5> QED
          BY <5>1
      <4> QED
        BY <3>3, <3>4, <4>1, <4>2, <4>3 DEF Fitting
    <3>6. LineGood(line')
      BY <1>1, <3>3, <3>5, LineSentOn DEF Op
    <3>7. PeopleGood'
      <4>1. {Head(op.rest)} \in SUBSET Entry
        BY <2>1, <3>3
      <4> QED
        BY <1>6, <3>1, <4>1 DEF TakeOn
    <3> QED
      BY <1>1, <1>7, <2>0, <3>2, <3>6, <3>7 DEF TypeInv, TallyGood
  <2>2. CASE op.rest = <<>>
    <3>1. CreateMatch(op.mode, op.chosen) /\ line' = Tail(line) /\ UNCHANGED <<queue, troubles>>
      BY <1>2, <1>12, <2>2 DEF AnswerRemove, RemoveNext
    <3>2. op.chosen \in SUBSET Entry
      BY <2>0 DEF TakeOp
    <3>3. /\ matches' \in Seq(Match) /\ Len(matches') = Len(matches) + 1
          /\ \A k \in DOMAIN matches : matches'[k] = matches[k]
          /\ DOMAIN matches' = DOMAIN matches \cup {Len(matches) + 1}
          /\ MatchGood(matches'[Len(matches) + 1])
      BY <1>2, <3>1, <3>2, MatchCreated
    <3>4. roomOf' \in [Sockets -> 0 .. Len(matches')]
      <4>1. Len(matches) \in Nat /\ roomOf \in [Sockets -> 0 .. Len(matches)]
        BY DEF TypeInv, RoomsGood
      <4>2. Len(matches) + 1 \in 0 .. Len(matches') /\ 0 .. Len(matches) \subseteq 0 .. Len(matches')
        BY <3>3, <4>1
      <4> QED
        BY <3>1, <4>1, <4>2 DEF CreateMatch
    <3>5. RoomsGood'
      <4>1. \A k \in DOMAIN matches : MatchGood(matches[k])
        BY DEF TypeInv, RoomsGood
      <4> QED
        BY <3>3, <3>4, <4>1 DEF RoomsGood
    <3>6. MapsGood'
      BY <3>1 DEF CreateMatch, TypeInv, MapsGood
    <3> QED
      BY <1>2, <1>5, <1>7, <2>0, <3>1, <3>5, <3>6 DEF TypeInv
  <2> QED
    BY <2>1, <2>2
<1> QED
  BY <1>8, <1>9, <1>10, <1>11, <1>12 DEF Answer

LEMMA StageKeepsTypes ==
    ASSUME TypeInv, NEW m \in DOMAIN matches,
           AddBots(m) \/ BotsFail(m) \/ StartMatchedGame(m) \/ GameOver(m)
    PROVE  TypeInv'
<1>1. NothingElse /\ (UNCHANGED troubles \/ (Bearable /\ troubles' = troubles + 1))
  BY DEF AddBots, BotsFail, StartMatchedGame, GameOver
<1>2. UNCHANGED <<people, line, queue, overdue, maps, roomOf, history>>
  BY <1>1 DEF NothingElse
<1>3. RoomsGood'
  <2>1. roomOf' \in [Sockets -> 0 .. Len(matches)]
    BY <1>2 DEF TypeInv, RoomsGood
  <2> QED
    BY <2>1, StageMoves, RoomsShrink
<1>4. troubles' \in 0 .. MaxTroubles + 1
  BY <1>1, MatchmakingAssumption DEF TypeInv, TallyGood, Bearable
<1>5. PeopleGood' /\ MapsGood' /\ TallyGood' /\ LineGood(line')
  BY <1>2, <1>4 DEF TypeInv, PeopleGood, MapsGood, TallyGood, people, maps, history
<1> QED
  BY <1>3, <1>5 DEF TypeInv

LEMMA InitTypes == Init => TypeInv
<1> SUFFICES ASSUME Init PROVE TypeInv
  OBVIOUS
<1>1. PeopleGood /\ MapsGood /\ TallyGood /\ RoomsGood
  BY MatchmakingAssumption DEF Init, PeopleGood, MapsGood, TallyGood, RoomsGood, NoSocket
<1>2. LineGood(line)
  BY DEF Init, LineGood
<1> QED
  BY <1>1, <1>2 DEF TypeInv

LEMMA TypesKept == TypeInv /\ [Next]_vars => TypeInv'
<1> SUFFICES ASSUME TypeInv, [Next]_vars PROVE TypeInv'
  OBVIOUS
<1>1. ASSUME NEW s \in Sockets, NEW mode \in Plays[s], JoinQueue(s, mode) PROVE TypeInv'
  <2>1. mode \in Modes
    BY MatchmakingAssumption
  <2> QED
    BY <1>1, <2>1, JoinKeepsTypes
<1>2. ASSUME NEW e \in Entry, WaitTooLong(e) PROVE TypeInv'
  <2>1. UNCHANGED <<people, line, queue, maps, rooms, troubles, history>> /\ overdue' \in SUBSET Entry
    BY <1>2 DEF WaitTooLong, TypeInv, PeopleGood
  <2> QED
    BY <2>1 DEF TypeInv, PeopleGood, MapsGood, TallyGood, RoomsGood, people, maps, rooms, history
<1>3. CASE UNCHANGED vars
  BY <1>3 DEF vars, TypeInv, PeopleGood, MapsGood, TallyGood, RoomsGood, people, maps, rooms, history
<1> QED
  BY <1>1, <1>2, <1>3, GoingKeepsTypes, AddKeepsTypes, PassKeepsTypes, AnswerKeepsTypes, StageKeepsTypes
     DEF Next, RatingAnswers

\* Entries are asked for and added once, the maps give a user a socket of his, rooms
\* seat those they were made for: the shape of the state, whatever happens.
THEOREM TypesHold == Spec => []MatchTypeOK
<1>1. Init => TypeInv
  BY InitTypes
<1>2. TypeInv /\ [Next]_vars => TypeInv'
  BY TypesKept
<1>3. TypeInv => MatchTypeOK
  BY TypesFollow
<1> QED
  BY <1>1, <1>2, <1>3, PTL DEF Spec

-----------------------------------------------------------------------------
(* One user, as long as none of his operations has met another.            *)

Own(u) == {s \in Sockets : UserOf[s] = u}

Unseated(u) == \A m \in DOMAIN matches : matches[m].stage \in Current => \A e \in matches[m].seats : User(e) # u
There(u, s) == s \in connected \/ u \in ghosts
Asks(u) == {a \in asking : User(a.entry) = u}

\* Who asks for an entry, or whose entry is on the way, sits in no match, and the
\* entry is his last.
Admissible(u, e) == e.nr = joins[e.socket] /\ roomOf[e.socket] = 0 /\ There(u, e.socket) /\ Unseated(u)

AskingOK(u) ==
    /\ \A a, b \in Asks(u) : a = b
    /\ \A a \in Asks(u) : /\ userSockets[u] = NoSocket /\ Adds(u, line) = {}
                          /\ Admissible(u, a.entry)
AddsOK(u) == \A j \in Adds(u, line) : Admissible(u, line[j].entry)

Idle(u) ==
    userSockets[u] = NoSocket =>
      /\ \A s \in Own(u) : socketUsers[s] = "none"
      /\ IdleLine(u, line, queue)

Ticket(s) == [socket |-> s, nr |-> joins[s]]
Waiting(u) ==
    userSockets[u] # NoSocket =>
      LET s == userSockets[u]
      IN  /\ s \in Own(u) /\ Ticket(s) \in Entry /\ socketUsers[s] \in Modes
          /\ \A t \in Own(u) : t # s => socketUsers[t] = "none"
          /\ WaitLine(u, line, queue, Ticket(s), socketUsers[s])
          /\ roomOf[s] = 0 /\ Unseated(u)
          /\ There(u, s) \/ Leaves(u, line) # {}

\* He has one seat, in the room of his socket; who was not there any more when his
\* match was made went while his entry was on the way.
SeatsOK(u) ==
    /\ \A m \in DOMAIN matches : \A e, f \in matches[m].players : User(e) = u /\ User(f) = u => e = f
    /\ \A m \in DOMAIN matches : matches[m].stage \in Current =>
         \A e \in matches[m].seats : User(e) = u /\ e.socket \in connected => roomOf[e.socket] = m
    /\ \A m, n \in DOMAIN matches : {matches[m].stage, matches[n].stage} \subseteq Current =>
         \A e \in matches[m].seats, f \in matches[n].seats : User(e) = u /\ User(f) = u => m = n
    /\ \A m \in DOMAIN matches : u \in matches[m].departed => u \in ghosts

UserOK(u) == AskingOK(u) /\ AddsOK(u) /\ Idle(u) /\ Waiting(u) /\ SeatsOK(u)
UsersOK == \A u \in Users \ raced : UserOK(u)

\* The user does not join, and is where he was unless he leaves the queue.
SamePerson(u) ==
    /\ \A s \in Own(u) : joins'[s] = joins[s]
    /\ connected' \subseteq connected /\ ghosts \subseteq ghosts'
    /\ \A s \in Own(u) :
         There(u, s) /\ (Joining(s) \/ (userSockets[u] = s /\ Leaves(u, line') = {})) => There(u, s)'
    /\ Asks(u)' \subseteq Asks(u)
    /\ userSockets'[u] = userSockets[u] /\ \A s \in Own(u) : socketUsers'[s] = socketUsers[s]

RoomsKept(u) ==
    /\ Unseated(u) => Unseated(u)'
    /\ \A s \in Own(u) : roomOf[s] = 0 => roomOf'[s] = 0
    /\ SeatsOK(u)'

\* Matches lose players and end, and a socket keeps the room in which its seat is.
LEMMA RoomsFollow ==
    ASSUME RoomsGood, NEW u, SeatsOK(u), RoomsLess, connected' \subseteq connected, ghosts \subseteq ghosts',
           \A s \in Own(u) : roomOf[s] = 0 => roomOf'[s] = 0,
           \A m \in DOMAIN matches : matches'[m].stage \in Current =>
             \A e \in matches'[m].seats :
               User(e) = u /\ e.socket \in connected' /\ roomOf[e.socket] = m => roomOf'[e.socket] = m
    PROVE  RoomsKept(u)
<1>1. /\ DOMAIN matches' = DOMAIN matches
      /\ \A m \in DOMAIN matches : Lesser(matches'[m], matches[m])
  BY DEF RoomsLess, RoomsGood
<1>2. \A m \in DOMAIN matches :
        /\ matches'[m].seats \subseteq matches[m].seats /\ matches'[m].players \subseteq matches[m].players
        /\ matches'[m].departed \subseteq matches[m].departed
        /\ matches'[m].stage \in Current => matches[m].stage \in Current
  BY <1>1 DEF Lesser
<1>3. Unseated(u) => Unseated(u)'
  BY <1>1, <1>2 DEF Unseated
<1>4. \A m \in DOMAIN matches : \A e, f \in matches'[m].players : User(e) = u /\ User(f) = u => e = f
  BY <1>2 DEF SeatsOK
<1>5. ASSUME NEW m \in DOMAIN matches, matches'[m].stage \in Current,
             NEW e \in matches'[m].seats, User(e) = u, e.socket \in connected'
      PROVE  roomOf'[e.socket] = m
  <2>1. roomOf[e.socket] = m
    BY <1>2, <1>5 DEF SeatsOK
  <2> QED
    BY <1>5, <2>1
<1>6. ASSUME NEW m \in DOMAIN matches, NEW n \in DOMAIN matches,
             {matches'[m].stage, matches'[n].stage} \subseteq Current,
             NEW e \in matches'[m].seats, NEW f \in matches'[n].seats, User(e) = u, User(f) = u
      PROVE  m = n
  <2>1. {matches[m].stage, matches[n].stage} \subseteq Current /\ e \in matches[m].seats /\ f \in matches[n].seats
    BY <1>2, <1>6
  <2> QED
    BY <1>6, <2>1 DEF SeatsOK
<1>7. \A m \in DOMAIN matches : u \in matches'[m].departed => u \in ghosts'
  BY <1>2 DEF SeatsOK
<1>8. SeatsOK(u)'
  BY <1>1, <1>4, <1>5, <1>6, <1>7 DEF SeatsOK, User
<1> QED
  BY <1>3, <1>8 DEF RoomsKept

\* An entry that is asked for or on the way stays admissible.
LEMMA PersonKept ==
    ASSUME TypeInv, NEW u, UserOK(u), SamePerson(u), RoomsKept(u),
           \A j \in Adds(u, line') : \E i \in Adds(u, line) : line'[j] = line[i]
    PROVE  AskingOK(u)' /\ AddsOK(u)' /\ SeatsOK(u)'
<1>1. ASSUME NEW e \in Entry, User(e) = u, Admissible(u, e), Joining(e.socket)
      PROVE  Admissible(u, e)'
  <2>1. e.socket \in Own(u)
    BY <1>1 DEF Own, Entry, User
  <2>2. There(u, e.socket)'
    BY <1>1, <2>1 DEF Admissible, SamePerson
  <2> QED
    BY <1>1, <2>1, <2>2 DEF Admissible, SamePerson, RoomsKept
<1>2. AskingOK(u)'
  <2>1. \A a, b \in Asks(u)' : a = b
    BY DEF UserOK, AskingOK, SamePerson
  <2>2. ASSUME NEW a \in Asks(u)'
        PROVE  userSockets'[u] = NoSocket /\ Adds(u, line') = {} /\ Admissible(u, a.entry)'
    <3>1. a \in Asks(u) /\ a \in asking /\ User(a.entry) = u
      BY DEF SamePerson, Asks
    <3>2. a.entry \in Entry /\ Joining(a.entry.socket)
      BY <3>1 DEF TypeInv, PeopleGood, Joining
    <3>3. userSockets[u] = NoSocket /\ Adds(u, line) = {} /\ Admissible(u, a.entry)
      BY <3>1 DEF UserOK, AskingOK
    <3>4. Admissible(u, a.entry)'
      BY <1>1, <3>1, <3>2, <3>3
    <3> QED
      BY <3>3, <3>4 DEF SamePerson
  <2> QED
    BY <2>1, <2>2 DEF AskingOK
<1>3. AddsOK(u)'
  <2> SUFFICES ASSUME NEW j \in Adds(u, line'), NEW e, e = line'[j].entry PROVE Admissible(u, e)'
    BY DEF AddsOK, Admissible
  <2>1. PICK i \in Adds(u, line) : line'[j] = line[i]
    OBVIOUS
  <2>2. line[i] \in AddOp /\ User(line[i].entry) = u /\ i \in DOMAIN line
    <3>1. line \in Seq(Op) /\ i \in DOMAIN line /\ line[i].kind = "zadd" /\ User(line[i].entry) = u
      BY DEF Adds, TypeInv, LineGood
    <3>2. line[i] \in Op
      BY <3>1
    <3> QED
      BY <3>1, <3>2 DEF Op, AddOp, LeaveOp, ReadOp, TakeOp
  <2>3. e \in Entry /\ User(e) = u /\ Joining(e.socket)
    BY <2>1, <2>2 DEF AddOp, Joining
  <2>4. Admissible(u, e)
    BY <2>1 DEF UserOK, AddsOK
  <2> QED
    BY <1>1, <2>3, <2>4
<1> QED
  BY <1>2, <1>3 DEF RoomsKept

LEMMA StillIdle ==
    ASSUME TypeInv, NEW u, UserOK(u), SamePerson(u), RoomsKept(u), userSockets[u] = NoSocket,
           IdleLine(u, line', queue'),
           \A j \in Adds(u, line') : \E i \in Adds(u, line) : line'[j] = line[i]
    PROVE  UserOK(u)'
<1>1. AskingOK(u)' /\ AddsOK(u)' /\ SeatsOK(u)'
  BY PersonKept
<1>2. userSockets'[u] = NoSocket
  BY DEF SamePerson
<1>3. Idle(u)'
  BY DEF UserOK, Idle, SamePerson, Own
<1>4. Waiting(u)'
  BY <1>2 DEF Waiting
<1> QED
  BY <1>1, <1>3, <1>4 DEF UserOK

LEMMA StillWaits ==
    ASSUME TypeInv, NEW u, UserOK(u), SamePerson(u), RoomsKept(u), userSockets[u] # NoSocket,
           WaitLine(u, line', queue', Ticket(userSockets[u]), socketUsers[userSockets[u]]),
           Leaves(u, line) # {} => Leaves(u, line') # {}
    PROVE  UserOK(u)'
<1> DEFINE s == userSockets[u]
<1>1. Adds(u, line') = {}
  BY DEF WaitLine
<1>2. AskingOK(u)' /\ AddsOK(u)' /\ SeatsOK(u)'
  BY <1>1, PersonKept
<1>3. /\ s \in Own(u) /\ Ticket(s) \in Entry /\ socketUsers[s] \in Modes
      /\ \A t \in Own(u) : t # s => socketUsers[t] = "none"
      /\ roomOf[s] = 0 /\ Unseated(u)
      /\ There(u, s) \/ Leaves(u, line) # {}
  BY DEF UserOK, Waiting
<1>4. userSockets'[u] = s /\ socketUsers'[s] = socketUsers[s] /\ joins'[s] = joins[s]
      /\ \A t \in Own(u) : socketUsers'[t] = socketUsers[t]
  BY <1>3 DEF SamePerson
<1>5. There(u, s)' \/ Leaves(u, line') # {}
  BY <1>3, <1>4 DEF SamePerson, There
<1>6. Ticket(s)' = Ticket(s)
  BY <1>4 DEF Ticket
<1>7. roomOf'[s] = 0 /\ Unseated(u)'
  BY <1>3 DEF RoomsKept
<1> DEFINE T == Ticket(s)
           m == socketUsers[s]
<1>8. WaitLine(u, line', queue', T, m) /\ T \in Entry /\ m \in Modes
  BY <1>3
<1>9. userSockets'[u] # NoSocket /\ Ticket(userSockets[u])' = T /\ socketUsers'[userSockets'[u]] = m
      /\ There(u, userSockets[u])' = There(u, s)' 
  BY <1>4, <1>6 DEF Ticket
<1>10. Waiting(u)'
  BY <1>3, <1>4, <1>5, <1>7, <1>8, <1>9 DEF Waiting, There, Own
<1>11. Idle(u)'
  BY <1>4 DEF Idle
<1> QED
  BY <1>2, <1>10, <1>11 DEF UserOK

\* A step of others, or one that leaves the user's line as it is.
LEMMA Bystander ==
    ASSUME TypeInv, NEW u, UserOK(u), SamePerson(u), RoomsKept(u), Follows(u, line, queue, line', queue')
    PROVE  UserOK(u)'
<1>1. CASE userSockets[u] = NoSocket
  BY <1>1, StillIdle DEF UserOK, Idle, Follows
<1>2. CASE userSockets[u] # NoSocket
  <2> DEFINE s == userSockets[u]
  <2>1. s \in Own(u) /\ Ticket(s) \in Entry /\ socketUsers[s] \in Modes
        /\ WaitLine(u, line, queue, Ticket(s), socketUsers[s])
    BY <1>2 DEF UserOK, Waiting
  <2>2. User(Ticket(s)) = u
    BY <2>1 DEF Own, User, Ticket
  <2>3. WaitLine(u, line', queue', Ticket(s), socketUsers[s]) /\ (Leaves(u, line) # {} => Leaves(u, line') # {})
    BY <2>1, <2>2 DEF Follows
  <2> QED
    BY <1>2, <2>3, StillWaits
<1> QED
  BY <1>1, <1>2

LEMMA FollowsItself ==
    ASSUME NEW u
    PROVE  Follows(u, line, queue, line, queue)
BY DEF Follows

LEMMA FollowsOn ==
    ASSUME NEW u, NEW L, NEW Q, NEW M, NEW R, NEW N, NEW S,
           Follows(u, L, Q, M, R), Follows(u, M, R, N, S)
    PROVE  Follows(u, L, Q, N, S)
<1>1. IdleLine(u, L, Q) => IdleLine(u, N, S)
  BY DEF Follows
<1>2. \A T \in Entry, m \in Modes : User(T) = u /\ WaitLine(u, L, Q, T, m) => WaitLine(u, N, S, T, m)
  BY DEF Follows
<1>3. ASSUME NEW j \in Adds(u, N) PROVE \E i \in Adds(u, L) : N[j] = L[i]
  <2>1. PICK k \in Adds(u, M) : N[j] = M[k]
    BY DEF Follows
  <2>2. PICK i \in Adds(u, L) : M[k] = L[i]
    BY DEF Follows
  <2> QED
    BY <2>1, <2>2
<1>4. Leaves(u, L) # {} => Leaves(u, N) # {}
  BY DEF Follows
<1> QED
  BY <1>1, <1>2, <1>3, <1>4 DEF Follows

\* The first answer is to a pass that read the queue.
LEMMA AnswerToReader ==
    ASSUME NEW S, NEW L \in Seq(S), L # <<>>, NEW u, L[1].kind = "read", NEW Q
    PROVE  Follows(u, L, Q, Tail(L), Q)
<1> DEFINE M == Tail(L)
<1>1. 1 \notin Adds(u, L) /\ 1 \notin Leaves(u, L) /\ 1 \notin Takes(u, L)
  BY DEF Adds, Leaves, Takes
<1>2. IdleLine(u, L, Q) => IdleLine(u, M, Q)
  BY <1>1, IdleAnswered
<1>3. \A T \in Entry, m \in Modes : WaitLine(u, L, Q, T, m) => WaitLine(u, M, Q, T, m)
  BY <1>1, WaitAnswered
<1>4. Up(Adds(u, L), Adds(u, M), L, M) /\ Up(Leaves(u, L), Leaves(u, M), L, M)
  BY AnsweredParts
<1> HIDE DEF M
<1>5. /\ \A j \in Adds(u, M) : \E i \in Adds(u, L) : M[j] = L[i]
      /\ Leaves(u, L) # {} => Leaves(u, M) # {}
  BY <1>1, <1>4 DEF Up
<1> QED
  BY <1>2, <1>3, <1>5 DEF Follows, M

\* A pass reads a queue in which the user is not, or is and does not leave.
LEMMA FollowsRead ==
    ASSUME NEW S, NEW L \in Seq(S), NEW op \in S, NEW u, NEW Q,
           op.kind = "read", op.mode \in Modes, op.entries = Q[op.mode],
           u \in About(op) => Leaves(u, L) = {}
    PROVE  Follows(u, L, Q, Append(L, op), Q) /\ Leaves(u, Append(L, op)) = Leaves(u, L)
<1> DEFINE M == Append(L, op)
           n == Len(L) + 1
<1>1. IdleLine(u, L, Q) => IdleLine(u, M, Q)
  BY IdleRead
<1>2. \A T, m : WaitLine(u, L, Q, T, m) => WaitLine(u, M, Q, T, m)
  BY WaitRead
<1>3. Sends(u, L, op, M, n)
  BY SentParts
<1> HIDE DEF M, n
<1>4. Adds(u, M) = Adds(u, L) /\ Leaves(u, M) = Leaves(u, L) /\ \A i \in Adds(u, L) : M[i] = L[i]
  BY <1>3 DEF Adds, Leaves, Sends
<1> QED
  BY <1>1, <1>2, <1>4 DEF Follows, M

-----------------------------------------------------------------------------
(* The steps, as one user sees them.                                       *)

LEMMA MatchesSame ==
    ASSUME RoomsGood, UNCHANGED matches
    PROVE  RoomsLess
BY DEF RoomsGood, RoomsLess, Lesser

LEMMA RoomsSame ==
    ASSUME TypeInv, NEW u, UserOK(u), UNCHANGED rooms, connected' \subseteq connected, ghosts \subseteq ghosts'
    PROVE  RoomsKept(u)
<1>1. UNCHANGED matches /\ UNCHANGED roomOf
  BY DEF rooms
<1>2. RoomsLess
  BY <1>1, MatchesSame DEF TypeInv
<1> QED
  BY <1>1, <1>2, RoomsFollow DEF UserOK, TypeInv

\* Where his seat is, unless his room is over or he gave it up.
LEMMA SeatIsThere ==
    ASSUME TypeInv, NEW u, UserOK(u), NEW m \in DOMAIN matches, matches[m].stage \in Current,
           NEW e \in matches[m].seats, User(e) = u, e.socket \in connected
    PROVE  roomOf[e.socket] = m /\ RoomStage(e.socket) \in Current /\ e.socket \in Own(u)
<1>1. roomOf[e.socket] = m
  BY DEF UserOK, SeatsOK
<1>2. m # 0 /\ e \in Entry
  <2>1. matches[m] \in Match /\ m \in 1 .. Len(matches)
    BY MatchParts DEF TypeInv
  <2> QED
    BY <2>1 DEF Match
<1>3. e.socket \in Own(u)
  BY <1>2 DEF Own, User, Entry
<1> QED
  BY <1>1, <1>2, <1>3 DEF RoomStage

LEMMA JoinKeepsUser ==
    ASSUME TypeInv, NEW u \in Users, u \notin raced', UserOK(u),
           NEW s \in Sockets, NEW mode \in Modes, JoinQueue(s, mode)
    PROVE  UserOK(u)'
<1> DEFINE e == [socket |-> s, nr |-> joins[s] + 1]
           a == [entry |-> e, mode |-> mode]
<1>1. /\ UNCHANGED <<connected, line, queue, overdue, maps, matches, troubles, ghosts>>
      /\ asking' = asking \cup {a} /\ FreeToJoin(s) /\ s \in connected
      /\ roomOf' = [roomOf EXCEPT ![s] = 0] /\ joins' = [joins EXCEPT ![s] = @ + 1]
      /\ userSockets[UserOf[s]] = NoSocket
  BY DEF JoinQueue
<1>2. e.socket = s /\ e.nr = joins[s] + 1 /\ a.entry = e /\ User(e) = UserOf[s]
  BY DEF User
<1> HIDE DEF e, a
<1>3. RoomStage(s) \notin Current
  BY <1>1 DEF FreeToJoin, Current
<1>4. roomOf \in [Sockets -> 0 .. Len(matches)] /\ joins \in [Sockets -> 0 .. MaxJoins] /\ RoomsGood
  BY DEF TypeInv, RoomsGood, PeopleGood
<1>5. RoomsKept(u)
  <2>1. RoomsLess
    BY <1>1, <1>4, MatchesSame
  <2>2. \A t \in Own(u) : roomOf[t] = 0 => roomOf'[t] = 0
    BY <1>1, <1>4 DEF Own
  <2>3. ASSUME NEW m \in DOMAIN matches, matches'[m].stage \in Current,
               NEW f \in matches'[m].seats, User(f) = u, f.socket \in connected', roomOf[f.socket] = m
        PROVE  roomOf'[f.socket] = m
    <3>1. f.socket # s /\ f.socket \in Own(u)
      BY <1>1, <1>3, <2>3, SeatIsThere
    <3> QED
      BY <1>1, <1>4, <2>3, <3>1 DEF Own
  <2> QED
    BY <1>1, <1>4, <2>1, <2>2, <2>3, RoomsFollow DEF UserOK
<1>6. CASE UserOf[s] # u
  <2>1. SamePerson(u)
    <3>1. \A t \in Own(u) : t # s
      BY <1>6 DEF Own
    <3>2. \A t \in Own(u) : joins'[t] = joins[t]
      BY <1>1, <1>4, <3>1 DEF Own
    <3>3. Asks(u)' \subseteq Asks(u)
      BY <1>1, <1>2, <1>6 DEF Asks
    <3> QED
      BY <1>1, <3>2, <3>3 DEF SamePerson, There, maps
  <2>2. Follows(u, line, queue, line', queue')
    BY <1>1, FollowsItself
  <2> QED
    BY <1>5, <2>1, <2>2, Bystander
<1>7. CASE UserOf[s] = u
  <2>1. ~SeatElsewhere(s) /\ \A t \in Own(u) : ~Joining(t)
    BY <1>7 DEF JoinQueue, Own
  <2>2. Asks(u) = {}
    <3> SUFFICES ASSUME NEW b \in Asks(u) PROVE FALSE
      OBVIOUS
    <3>1. b.entry.socket \in Own(u) /\ b \in asking
      BY DEF Asks, Own, TypeInv, PeopleGood, Entry, User
    <3> QED
      BY <2>1, <3>1 DEF Joining
  <2>3. Adds(u, line) = {}
    <3> SUFFICES ASSUME NEW i \in Adds(u, line) PROVE FALSE
      OBVIOUS
    <3>1. line \in Seq(Op) /\ i \in DOMAIN line /\ line[i].kind = "zadd" /\ User(line[i].entry) = u
      BY DEF Adds, TypeInv, LineGood
    <3>2. line[i] \in AddOp
      <4>1. line[i] \in Op
        BY <3>1
      <4> QED
        BY <3>1, <4>1 DEF Op, AddOp, LeaveOp, ReadOp, TakeOp
    <3>3. line[i].entry.socket \in Own(u)
      BY <3>1, <3>2 DEF AddOp, Entry, Own, User
    <3> QED
      BY <2>1, <3>1, <3>3 DEF Joining
  <2>4. Unseated(u)
    <3> SUFFICES ASSUME NEW m \in DOMAIN matches, matches[m].stage \in Current,
                        NEW f \in matches[m].seats, User(f) = u
                 PROVE  FALSE
      BY DEF Unseated
    <3>1. f.socket = s
      BY <1>7, <2>1 DEF SeatElsewhere
    <3> QED
      BY <1>1, <1>3, <3>1, SeatIsThere
  <2>5. AskingOK(u)'
    <3>1. Asks(u)' = {a}
      BY <1>1, <1>2, <1>7, <2>2 DEF Asks
    <3>2. Unseated(u)'
      BY <1>5, <2>4 DEF RoomsKept
    <3>3. e.nr = joins'[e.socket] /\ roomOf'[e.socket] = 0 /\ e.socket \in connected'
      BY <1>1, <1>2, <1>4
    <3>4. userSockets'[u] = NoSocket /\ Adds(u, line') = {}
      BY <1>1, <1>7, <2>3 DEF maps
    <3> QED
      BY <1>2, <3>1, <3>2, <3>3, <3>4 DEF AskingOK, Admissible, There
  <2>6. AddsOK(u)'
    BY <1>1, <2>3 DEF AddsOK
  <2>7. Idle(u)' /\ Waiting(u)'
    BY <1>1, <1>7 DEF UserOK, Idle, Waiting, maps, Own
  <2> QED
    BY <1>5, <2>5, <2>6, <2>7 DEF UserOK, RoomsKept
<1> QED
  BY <1>6, <1>7

\* The passes that have read a user are those that may take his ticket.
LEMMA ReadIs ==
    ASSUME TypeInv, NEW u
    PROVE  /\ Read(u) = Reads(u, line) \cup Takes(u, line)
           /\ IsFiniteSet(Read(u))
<1>1. Read(u) = Reads(u, line) \cup Takes(u, line)
  BY DEF Read, Passes, Reads, Takes
<1>2. IsFiniteSet(DOMAIN line)
  <2>1. DOMAIN line = 1 .. Len(line) /\ Len(line) \in Nat
    BY DEF TypeInv, LineGood
  <2> QED
    BY <2>1, FS_Interval
<1>3. Read(u) \subseteq DOMAIN line
  BY DEF Read, Passes
<1> QED
  BY <1>1, <1>2, <1>3, FS_Subset

LEMMA OwnLeave ==
    ASSUME TypeInv, NEW u, UserOK(u), NEW s \in Own(u), socketUsers[s] # "none", Read(u) = {},
           NEW op, LeaveBegun(s, op), UNCHANGED queue
    PROVE  /\ userSockets[u] = s /\ userSockets[u] # NoSocket
           /\ WaitLine(u, line', queue', Ticket(s), socketUsers[s])
           /\ Leaves(u, line') # {}
<1>1. userSockets[u] # NoSocket
  BY DEF UserOK, Idle
<1>2. userSockets[u] = s
  BY <1>1 DEF UserOK, Waiting
<1> DEFINE T == Ticket(s)
           m == socketUsers[s]
           own == {e \in queue[m] : User(e) = UserOf[s]}
<1>3. WaitLine(u, line, queue, T, m) /\ m \in Modes
  BY <1>1, <1>2 DEF UserOK, Waiting
<1>4. User(T) = u /\ T.socket = s /\ UserOf[s] = u
  BY DEF User, Ticket, Own
<1>5. /\ op \in Op /\ op.kind = "leaveScan" /\ op.mode = m /\ op.entry.socket = s
      /\ (op.found = {} /\ own = {}) \/ (\E e \in own : op.found = {e})
      /\ line' = Append(line, op)
  BY DEF LeaveBegun, Op
<1> HIDE DEF T, m, own
<1>6. Reads(u, line) \cup Takes(u, line) = {}
  BY ReadIs
<1>7. Adds(u, line) = {} /\ Queued(u, queue, T, m) /\ LeavesTicket(u, line, queue, T, m)
  BY <1>3 DEF WaitLine
<1>8. \A e \in own : e = T /\ T \in queue[m]
  BY <1>3, <1>4, <1>7 DEF own, Queued
<1>9. T \in queue[m] => T \in own
  BY <1>4 DEF own
<1>10. User(op.entry) = u
  BY <1>4, <1>5 DEF User
<1>11. line \in Seq(Op)
  BY DEF TypeInv, LineGood
<1>12. op.found \subseteq {T} /\ (op.found = {} => T \notin queue[m]) /\ (op.found = {} \/ T \in queue[m])
  BY <1>5, <1>8, <1>9
<1>13. WaitLine(u, Append(line, op), queue, T, m) /\ Leaves(u, Append(line, op)) # {}
  BY <1>4, <1>5, <1>6, <1>7, <1>10, <1>11, <1>12, LeaveSent
<1> QED
  BY <1>1, <1>2, <1>5, <1>13 DEF T, m

\* Leaving the queue and going are two sides of a socket.
LEMMA LeaveOfAnother ==
    ASSUME TypeInv, NEW u, NEW s \in Sockets, UserOf[s] # u, NEW op, LeaveBegun(s, op), UNCHANGED queue
    PROVE  Follows(u, line, queue, line', queue')
<1>1. op \in Op /\ u \notin About(op) /\ line' = Append(line, op) /\ line \in Seq(Op)
  BY DEF LeaveBegun, LeaveOp, Op, About, User, TypeInv, LineGood
<1> QED
  BY <1>1, SentByAnother

LEMMA LeaveKeepsUser ==
    ASSUME TypeInv, NEW u \in Users, u \notin raced', UserOK(u), NEW s \in Sockets, LeaveQueue(s)
    PROVE  UserOK(u)'
<1>1. /\ UNCHANGED <<people, queue, overdue, maps, rooms, ghosts>>
      /\ socketUsers[s] # "none" /\ SendLeave(s) /\ Bearable
  BY DEF LeaveQueue
<1>2. PICK op : LeaveBegun(s, op)
  BY <1>1, LeaveBegins
<1>3. RoomsKept(u)
  BY <1>1, RoomsSame DEF people
<1>4. SamePerson(u)
  BY <1>1 DEF SamePerson, people, maps, There, Asks
<1>5. CASE UserOf[s] # u
  <2>1. Follows(u, line, queue, line', queue')
    BY <1>1, <1>2, <1>5, LeaveOfAnother
  <2> QED
    BY <1>3, <1>4, <2>1, Bystander
<1>6. CASE UserOf[s] = u
  <2>1. Read(u) = {} /\ s \in Own(u)
    BY <1>6 DEF LeaveQueue, Own
  <2>2. /\ userSockets[u] = s /\ userSockets[u] # NoSocket
        /\ WaitLine(u, line', queue', Ticket(s), socketUsers[s])
        /\ Leaves(u, line') # {}
    BY <1>1, <1>2, <2>1, OwnLeave
  <2> QED
    BY <1>3, <1>4, <2>2, StillWaits
<1> QED
  BY <1>5, <1>6

\* A seat given up by one socket is no other's.
LEMMA SeatOthersKept ==
    ASSUME TypeInv, NEW u, UserOK(u), NEW s \in Sockets, roomOf[s] # 0, GiveUpSeat(s),
           NEW m \in DOMAIN matches, matches'[m].stage \in Current,
           NEW e \in matches'[m].seats, User(e) = u, roomOf[e.socket] = m
    PROVE  e.socket # s /\ (matches'[roomOf[s]].stage = "gone" => m # roomOf[s])
<1>1. /\ RoomsLess
      /\ \A k \in DOMAIN matches : k # roomOf[s] => matches'[k] = matches[k]
      /\ \A f \in matches'[roomOf[s]].seats :
           f.socket # s \/ \E g \in matches[roomOf[s]].seats : g.socket = s /\ g.nr > f.nr
      /\ DOMAIN matches' = DOMAIN matches
  BY SeatGivenUp DEF RoomsLess, TypeInv, RoomsGood
<1>2. matches'[roomOf[s]].stage = "gone" => m # roomOf[s]
  BY DEF Current
<1>3. ASSUME e.socket = s PROVE FALSE
  <2>1. m = roomOf[s]
    BY <1>3
  <2>2. PICK g \in matches[m].seats : g.socket = s /\ g.nr > e.nr
    BY <1>1, <1>3, <2>1
  <2>3. e \in matches[m].seats /\ matches[m].seats \subseteq matches[m].players /\ matches[m] \in Match
    BY <1>1, MatchParts DEF RoomsLess, Lesser, MatchGood, TypeInv
  <2>4. User(g) = u
    BY <1>3, <2>2 DEF User
  <2>5. e = g
    BY <2>2, <2>3, <2>4 DEF UserOK, SeatsOK
  <2>6. g.nr \in Nat
    BY <2>2, <2>3, MatchmakingAssumption DEF Match, Entry
  <2> QED
    BY <2>2, <2>5, <2>6
<1> QED
  BY <1>2, <1>3

LEMMA LeaveRoomKeepsUser ==
    ASSUME TypeInv, NEW u \in Users, UserOK(u), NEW s \in Sockets, LeaveRoom(s)
    PROVE  UserOK(u)'
<1>1. /\ UNCHANGED <<people, line, queue, overdue, maps, history>> /\ GiveUpSeat(s) /\ roomOf[s] # 0
      /\ roomOf' = [t \in Sockets |-> IF t = s \/ (matches'[roomOf[s]].stage = "gone" /\ roomOf[t] = roomOf[s])
                                      THEN 0 ELSE roomOf[t]]
  BY DEF LeaveRoom
<1>2. RoomsLess
  BY <1>1, SeatGivenUp
<1>3. ASSUME NEW m \in DOMAIN matches, matches'[m].stage \in Current,
             NEW e \in matches'[m].seats, User(e) = u, roomOf[e.socket] = m
      PROVE  roomOf'[e.socket] = m
  <2>1. e.socket # s /\ (matches'[roomOf[s]].stage = "gone" => m # roomOf[s])
    BY <1>1, <1>3, SeatOthersKept
  <2>2. e.socket \in Sockets
    BY <1>2, <1>3, MatchParts DEF RoomsLess, Lesser, TypeInv, Match, Entry
  <2> QED
    BY <1>1, <1>3, <2>1, <2>2
<1>4. RoomsKept(u)
  <2>1. \A t \in Own(u) : roomOf[t] = 0 => roomOf'[t] = 0
    BY <1>1 DEF Own
  <2> QED
    BY <1>1, <1>2, <1>3, <2>1, RoomsFollow DEF people, history, UserOK, TypeInv
<1>5. SamePerson(u)
  BY <1>1 DEF SamePerson, people, maps, history, There, Asks
<1>6. Follows(u, line, queue, line', queue')
  BY <1>1, FollowsItself
<1> QED
  BY <1>4, <1>5, <1>6, Bystander

LEMMA DisconnectKeepsUser ==
    ASSUME TypeInv, NEW u \in Users, u \notin raced', UserOK(u), NEW s \in Sockets, Disconnect(s)
    PROVE  UserOK(u)'
<1>1. /\ UNCHANGED <<joins, asking, queue, overdue, maps>> /\ Bearable
      /\ connected' = connected \ {s} /\ roomOf' = [roomOf EXCEPT ![s] = 0]
      /\ ghosts' = ghosts \cup (IF Joining(s) THEN {UserOf[s]} ELSE {})
      /\ IF socketUsers[s] # "none" THEN SendLeave(s) ELSE UNCHANGED line
      /\ IF RoomStage(s) \in {"pool", "found", "stranded"} THEN GiveUpSeat(s) ELSE UNCHANGED matches
  BY DEF Disconnect
<1>2. roomOf \in [Sockets -> 0 .. Len(matches)] /\ RoomsGood
  BY DEF TypeInv, RoomsGood
<1>3. RoomsKept(u)
  <2>1. RoomsLess
    <3>1. RoomStage(s) \in {"pool", "found", "stranded"} => roomOf[s] # 0
      BY DEF RoomStage
    <3> QED
      BY <1>1, <1>2, <3>1, SeatGivenUp, MatchesSame
  <2>2. \A t \in Own(u) : roomOf[t] = 0 => roomOf'[t] = 0
    BY <1>1, <1>2 DEF Own
  <2>3. ASSUME NEW m \in DOMAIN matches, matches'[m].stage \in Current,
               NEW e \in matches'[m].seats, e.socket \in connected', roomOf[e.socket] = m
        PROVE  roomOf'[e.socket] = m
    <3>1. e.socket # s /\ e.socket \in Sockets
      BY <1>1, <2>3 DEF TypeInv, PeopleGood
    <3> QED
      BY <1>1, <1>2, <2>3, <3>1
  <2> QED
    BY <1>1, <1>2, <2>1, <2>2, <2>3, RoomsFollow DEF UserOK
<1>4. CASE UserOf[s] # u
  <2>1. SamePerson(u)
    BY <1>1, <1>4 DEF SamePerson, There, Asks, maps, Own
  <2>2. Follows(u, line, queue, line', queue')
    <3>1. CASE socketUsers[s] # "none"
      BY <1>1, <1>4, <3>1, LeaveBegins, LeaveOfAnother
    <3>2. CASE socketUsers[s] = "none"
      BY <1>1, <3>2, FollowsItself
    <3> QED
      BY <3>1, <3>2
  <2> QED
    BY <1>3, <2>1, <2>2, Bystander
<1>5. CASE UserOf[s] = u /\ socketUsers[s] # "none"
  <2>1. Read(u) = {} /\ s \in Own(u)
    BY <1>5 DEF Disconnect, Own
  <2>2. PICK op : LeaveBegun(s, op)
    BY <1>1, <1>5, LeaveBegins
  <2>3. /\ userSockets[u] = s /\ userSockets[u] # NoSocket
        /\ WaitLine(u, line', queue', Ticket(s), socketUsers[s])
        /\ Leaves(u, line') # {}
    BY <1>1, <1>5, <2>1, <2>2, OwnLeave
  <2>4. SamePerson(u)
    BY <1>1, <1>5, <2>3 DEF SamePerson, There, Asks, maps, Own
  <2> QED
    BY <1>3, <2>3, <2>4, StillWaits
<1>6. CASE UserOf[s] = u /\ socketUsers[s] = "none"
  <2>1. userSockets[u] # s
    <3>1. s # NoSocket
      BY MatchmakingAssumption DEF NoSocket
    <3> QED
      BY <1>6, <3>1 DEF UserOK, Waiting, Modes
  <2>2. SamePerson(u)
    BY <1>1, <1>6, <2>1 DEF SamePerson, There, Asks, maps, Own
  <2>3. Follows(u, line, queue, line', queue')
    BY <1>1, <1>6, FollowsItself
  <2> QED
    BY <1>3, <2>2, <2>3, Bystander
<1> QED
  BY <1>4, <1>5, <1>6

\* What the lemmas about others' entries in the queue ask of the line.
LEMMA LineModes ==
    ASSUME NEW L, LineGood(L), NEW u
    PROVE  /\ \A i \in DOMAIN L : L[i].mode \in Modes
           /\ \A i \in Adds(u, L) : L[i] \in AddOp /\ L[i].entry \in Entry
<1>1. \A i \in DOMAIN L : L[i] \in Op
  BY DEF LineGood
<1>2. \A op \in Op : op.mode \in Modes /\ (op.kind = "zadd" => op \in AddOp)
  BY DEF Op, AddOp, LeaveOp, ReadOp, TakeOp
<1> QED
  BY <1>1, <1>2 DEF Adds, AddOp

\* Entries of others come or go.
LEMMA FollowsOthers ==
    ASSUME NEW u, NEW L, LineGood(L),
           queue \in [Modes -> SUBSET Entry], queue' \in [Modes -> SUBSET Entry],
           \A m \in Modes : \A e \in Entry : User(e) = u => (e \in queue[m] <=> e \in queue'[m])
    PROVE  Follows(u, L, queue, L, queue')
BY LineModes, QueueOfOthers

LEMMA AddKeepsUser ==
    ASSUME TypeInv, NEW u \in Users, UserOK(u), NEW a \in asking, NEW ok \in BOOLEAN, AddEntry(a, ok)
    PROVE  UserOK(u)'
<1> DEFINE more == [queue EXCEPT ![a.mode] = @ \cup {a.entry}]
           op == [kind |-> "zadd", entry |-> a.entry, mode |-> a.mode, ok |-> ok]
<1>1. /\ asking' = asking \ {a} /\ line' = Append(line, op)
      /\ UNCHANGED <<connected, joins, overdue, maps, rooms, history>>
  BY DEF AddEntry
<1>2. a.entry \in Entry /\ a.mode \in Modes /\ queue \in [Modes -> SUBSET Entry] /\ line \in Seq(Op)
      /\ LineGood(line)
  BY DEF TypeInv, PeopleGood, LineGood
<1>3. (queue' = queue /\ ~ok) \/ queue' = more
  <2> HIDE DEF more, op
  <2>1. PICK done \in {ok, TRUE} : queue' = IF done THEN more ELSE queue
    BY DEF AddEntry, more
  <2>2. CASE ok = TRUE
    BY <2>1, <2>2
  <2>3. CASE ok = FALSE
    <3>1. done = FALSE \/ done = TRUE
      BY <2>1, <2>3
    <3> QED
      BY <2>1, <2>3, <3>1
  <2> QED
    BY <2>2, <2>3
<1>4. /\ queue' \in [Modes -> SUBSET Entry]
      /\ \A m \in Modes : \A e \in queue[m] : e \in queue'[m]
      /\ \A m \in Modes : \A e \in queue'[m] : e \in queue[m] \/ (m = a.mode /\ e = a.entry)
      /\ ok => a.entry \in queue'[a.mode]
  BY <1>2, <1>3
<1>5. op \in Op /\ op.kind = "zadd" /\ op.entry = a.entry /\ op.mode = a.mode /\ op.ok = ok
  BY <1>2 DEF Op, AddOp
<1> HIDE DEF more, op
<1>6. RoomsKept(u) /\ SamePerson(u)
  <2>1. RoomsKept(u)
    BY <1>1, RoomsSame DEF history
  <2>2. Asks(u)' \subseteq Asks(u)
    BY <1>1 DEF Asks
  <2> QED
    BY <1>1, <2>1, <2>2 DEF SamePerson, maps, history, There
<1>7. CASE User(a.entry) # u
  <2>1. Follows(u, line, queue, line, queue')
    BY <1>2, <1>4, <1>7, FollowsOthers
  <2>2. u \notin About(op)
    BY <1>5, <1>7 DEF About
  <2>3. Follows(u, line, queue', line', queue')
    BY <1>1, <1>2, <1>5, <2>2, SentByAnother
  <2> QED
    BY <1>6, <2>1, <2>3, FollowsOn, Bystander
<1>8. CASE User(a.entry) = u
  <2>1. a \in Asks(u)
    BY <1>8 DEF Asks
  <2>2. /\ userSockets[u] = NoSocket /\ Adds(u, line) = {} /\ Admissible(u, a.entry)
        /\ \A b \in Asks(u) : b = a
    BY <2>1 DEF UserOK, AskingOK
  <2>3. IdleLine(u, line, queue) /\ \A s \in Own(u) : socketUsers[s] = "none"
    BY <2>2 DEF UserOK, Idle
  <2>4. IdleLine(u, line', queue') /\ Adds(u, line') = {Len(line) + 1}
    <3>1. \A k \in Modes : \A e \in queue'[k] : User(e) = u =>
             e \in queue[k] \/ (k = op.mode /\ e = op.entry)
      BY <1>4, <1>5
    <3>2. (op.ok => op.entry \in queue'[op.mode]) /\ op.kind = "zadd" /\ User(op.entry) = u
      BY <1>4, <1>5, <1>8
    <3>3. IdleLine(u, line, queue) /\ Adds(u, line) = {} /\ line \in Seq(Op) /\ op \in Op
      BY <1>2, <1>5, <2>2, <2>3
    <3>4. IdleLine(u, Append(line, op), queue') /\ Adds(u, Append(line, op)) = {Len(line) + 1}
      BY ONLY <3>1, <3>2, <3>3, IdleAdds
    <3> QED
      BY <1>1, <3>4
  <2>5. line'[Len(line) + 1] = op
    BY <1>1, <1>2, <1>5, SentPlaces
  <2>6. Asks(u)' = {}
    BY <1>1, <2>2 DEF Asks
  <2>7. AskingOK(u)'
    BY <2>6 DEF AskingOK
  <2>8. AddsOK(u)'
    <3>1. Unseated(u)'
      BY <1>6, <2>2 DEF RoomsKept, Admissible
    <3>2. /\ op.entry.nr = joins'[op.entry.socket] /\ roomOf'[op.entry.socket] = 0
          /\ op.entry.socket \in connected' \/ u \in ghosts'
      BY <1>1, <1>5, <2>2 DEF Admissible, There, rooms, history
    <3> QED
      BY <2>4, <2>5, <3>1, <3>2 DEF AddsOK, Admissible, There
  <2>9. Idle(u)' /\ Waiting(u)'
    BY <1>1, <2>2, <2>3, <2>4 DEF Idle, Waiting, maps, Own
  <2> QED
    BY <1>6, <2>7, <2>8, <2>9 DEF UserOK, RoomsKept
<1> QED
  BY <1>7, <1>8

LEMMA PassKeepsUser ==
    ASSUME TypeInv, NEW u \in Users, u \notin raced', UserOK(u), StartPass
    PROVE  UserOK(u)'
<1>1. /\ UNCHANGED <<people, queue, overdue, maps, rooms, ghosts>>
      /\ raced' = raced \cup ({User(e) : e \in UNION {queue[m] : m \in Modes}} \cap LeavingUsers)
  BY Zenon DEF StartPass
<1>2. RoomsKept(u)
  BY <1>1, RoomsSame DEF people
<1>3. SamePerson(u)
  BY <1>1 DEF SamePerson, people, maps, There, Asks
<1>4. Leaves(u, line) # {} => u \in LeavingUsers
  BY DEF Leaves, LeavingUsers
<1>5. ASSUME NEW op, ReadOf(op), u \in About(op) PROVE Leaves(u, line) = {}
  <2>1. op.kind = "read" /\ op.mode \in Modes /\ op.entries = queue[op.mode]
    BY <1>5 DEF ReadOf, ReadOp
  <2>2. u \in {User(e) : e \in UNION {queue[m] : m \in Modes}}
    BY <1>5, <2>1 DEF About
  <2> QED
    BY <1>1, <1>4, <2>2
<1>6. \A op : ReadOf(op) => op \in Op /\ op.kind = "read" /\ op.mode \in Modes /\ op.entries = queue[op.mode]
  BY DEF ReadOf, ReadOp, Op
<1>7. line \in Seq(Op)
  BY DEF TypeInv, LineGood
<1>8. Follows(u, line, queue, line', queue')
  <2>1. CASE \E op : ReadOf(op) /\ line' = Append(line, op)
    BY <1>1, <1>5, <1>6, <1>7, <2>1, FollowsRead
  <2>2. CASE \E op1, op2 : ReadOf(op1) /\ ReadOf(op2) /\ line' = Append(Append(line, op1), op2)
    <3>1. PICK op1, op2 : ReadOf(op1) /\ ReadOf(op2) /\ line' = Append(Append(line, op1), op2)
      BY <2>2
    <3> DEFINE M == Append(line, op1)
    <3>2. Follows(u, line, queue, M, queue) /\ Leaves(u, M) = Leaves(u, line)
      BY <1>5, <1>6, <1>7, <3>1, FollowsRead
    <3>3. M \in Seq(Op) /\ line' = Append(M, op2)
      BY <1>6, <1>7, <3>1
    <3> HIDE DEF M
    <3>4. Follows(u, M, queue, line', queue)
      BY <1>5, <1>6, <3>1, <3>2, <3>3, FollowsRead
    <3> QED
      BY <1>1, <3>2, <3>4, FollowsOn
  <2> QED
    BY <2>1, <2>2, ReadsSent
<1> QED
  BY <1>2, <1>3, <1>8, Bystander

\* To answer others, or a pass, changes nothing for the user.
LEMMA AnsweredOther ==
    ASSUME TypeInv, line # <<>>, NEW u, u \notin About(line[1]) \/ line[1].kind = "read"
    PROVE  Follows(u, line, queue, Tail(line), queue)
<1>1. line \in Seq(Op)
  BY DEF TypeInv, LineGood
<1> QED
  BY <1>1, AnswerToAnother, AnswerToReader

\* The place of the first command in the user's part of the line.
LEMMA FirstIsHis ==
    ASSUME TypeInv, line # <<>>, NEW u
    PROVE  /\ line[1].kind = "zadd" => (u \in About(line[1]) <=> u = User(line[1].entry))
                                       /\ (u \in About(line[1]) <=> 1 \in Adds(u, line))
           /\ line[1].kind \in {"leaveScan", "leaveRemove"} =>
                (u \in About(line[1]) <=> u = User(line[1].entry))
                /\ (u \in About(line[1]) <=> 1 \in Leaves(u, line))
           /\ line[1].kind = "read" => (u \in About(line[1]) <=> 1 \in Reads(u, line))
                                       /\ About(line[1]) = {User(e) : e \in line[1].entries}
           /\ line[1].kind \in {"scan", "remove"} => (u \in About(line[1]) <=> 1 \in Takes(u, line))
                                                     /\ About(line[1]) = {User(e) : e \in line[1].chosen}
<1>1. 1 \in DOMAIN line
  BY FirstInLine
<1> QED
  BY <1>1 DEF About, Adds, Leaves, Reads, Takes

LEMMA ErrorKeepsUser ==
    ASSUME TypeInv, NEW u \in Users, u \notin raced', UserOK(u), AnswerError
    PROVE  UserOK(u)'
<1>1. /\ line # <<>> /\ line' = Tail(line) /\ raced' = raced \cup About(line[1])
      /\ UNCHANGED <<people, queue, overdue, maps, rooms, troubles, ghosts>>
  BY FirstInLine DEF AnswerError
<1>2. RoomsKept(u)
  BY <1>1, RoomsSame DEF people
<1>3. SamePerson(u)
  BY <1>1 DEF SamePerson, people, maps, There, Asks
<1>4. Follows(u, line, queue, line', queue')
  BY <1>1, AnsweredOther
<1> QED
  BY <1>2, <1>3, <1>4, Bystander

LEMMA JoinedKeepsUser ==
    ASSUME TypeInv, NEW u \in Users, UserOK(u), AnswerJoin
    PROVE  UserOK(u)'
<1>0. PICK op : op = line[1]
  OBVIOUS
<1> DEFINE T == op.entry
           s == T.socket
<1>1. /\ line # <<>> /\ line' = Tail(line) /\ op \in AddOp /\ op.ok /\ Joined(op) /\ op.kind = "zadd"
      /\ UNCHANGED <<people, queue, overdue, rooms, troubles, history>> /\ line \in Seq(Op)
  BY <1>0, FirstInLine DEF AnswerJoin
<1>2. T \in Entry /\ s \in Own(User(T)) /\ op.mode \in Modes /\ User(T) \in Users
      /\ T = [socket |-> s, nr |-> T.nr]
  BY <1>1 DEF AddOp, Entry, Own, User, Users
<1>3. /\ userSockets' = [userSockets EXCEPT ![User(T)] = s] /\ socketUsers' = [socketUsers EXCEPT ![s] = op.mode]
      /\ userSockets \in [Users -> Sockets \cup {NoSocket}] /\ socketUsers \in [Sockets -> Modes \cup {"none"}]
  BY <1>1 DEF Joined, TypeInv, MapsGood
<1>4. RoomsKept(u)
  BY <1>1, RoomsSame DEF people, history
<1>5. (u \in About(op) <=> u = User(T)) /\ (u \in About(op) <=> 1 \in Adds(u, line))
  BY <1>0, <1>1, FirstIsHis
<1> HIDE DEF s, T
<1>6. CASE User(T) # u
  <2>1. \A t \in Own(u) : t # s
    BY <1>2, <1>6 DEF Own
  <2>2. userSockets'[u] = userSockets[u] /\ \A t \in Own(u) : socketUsers'[t] = socketUsers[t]
    BY <1>3, <1>6, <2>1 DEF Own
  <2>3. SamePerson(u)
    BY <1>1, <2>2 DEF SamePerson, people, history, There, Asks
  <2>4. Follows(u, line, queue, line', queue')
    BY <1>0, <1>1, <1>5, <1>6, AnsweredOther
  <2> QED
    BY <1>4, <2>3, <2>4, Bystander
<1>7. CASE User(T) = u
  <2>1. 1 \in Adds(u, line)
    BY <1>5, <1>7
  <2>2. userSockets[u] = NoSocket
    BY <2>1 DEF UserOK, Waiting, WaitLine
  <2>3. IdleLine(u, line, queue) /\ \A t \in Own(u) : socketUsers[t] = "none"
    BY <2>2 DEF UserOK, Idle
  <2>4. WaitLine(u, line', queue', T, op.mode)
    BY <1>0, <1>1, <2>1, <2>3, NowWaits DEF T
  <2>5. Admissible(u, T)
    BY <1>0, <2>1 DEF UserOK, AddsOK, T
  <2>6. AskingOK(u)' /\ AddsOK(u)'
    <3>1. Asks(u)' = {}
      BY <1>1, <2>1 DEF UserOK, AskingOK, Asks, people
    <3>2. Adds(u, line') = {}
      BY <2>4 DEF WaitLine
    <3> QED
      BY <3>1, <3>2 DEF AskingOK, AddsOK
  <2>7. userSockets'[u] = s /\ socketUsers'[s] = op.mode /\ s \in Sockets
        /\ \A t \in Own(u) : t # s => socketUsers'[t] = "none"
    BY <1>2, <1>3, <1>7, <2>3 DEF Own
  <2>8. s # NoSocket
    BY <2>7, MatchmakingAssumption DEF NoSocket
  <2>9. roomOf'[s] = 0 /\ Unseated(u)' /\ (s \in connected' \/ u \in ghosts') /\ T.nr = joins'[s]
    BY <1>1, <1>4, <2>5 DEF Admissible, s, rooms, RoomsKept, There, people, history
  <2>10. Ticket(s)' = T
    BY <1>2, <2>9 DEF Ticket
  <2>11. Idle(u)'
    BY <2>7, <2>8 DEF Idle
  <2>12. Waiting(u)'
    BY <1>2, <1>7, <2>4, <2>7, <2>9, <2>10 DEF Waiting, There, Ticket, Own
  <2> QED
    BY <1>4, <2>6, <2>11, <2>12 DEF UserOK, RoomsKept
<1> QED
  BY <1>6, <1>7

LEMMA LeftKeepsUser ==
    ASSUME TypeInv, NEW u \in Users, UserOK(u), AnswerLeave
    PROVE  UserOK(u)'
<1>0. PICK op : op = line[1]
  OBVIOUS
<1>1. /\ line # <<>> /\ Head(line) = op /\ op \in LeaveOp /\ op.ok /\ op.kind \in {"leaveScan", "leaveRemove"}
      /\ UNCHANGED <<people, overdue, rooms, history>> /\ line \in Seq(Op) /\ Fitting(op)
      /\ LineGood(Tail(line))
  BY <1>0, FirstInLine DEF AnswerLeave
<1>2. op.entry \in Entry /\ op.entry.socket \in Own(User(op.entry)) /\ op.mode \in Modes /\ op.found \in SUBSET Entry
      /\ User(op.entry) \in Users
  BY <1>1 DEF LeaveOp, Entry, Own, User, Users
<1>3. RoomsKept(u)
  BY <1>1, RoomsSame DEF people, history
<1>4. (u \in About(op) <=> u = User(op.entry)) /\ (u \in About(op) <=> 1 \in Leaves(u, line))
  BY <1>0, <1>1, FirstIsHis
<1>5. queue \in [Modes -> SUBSET Entry]
  BY DEF TypeInv, PeopleGood
<1>6. CASE op.found # {}
  <2>1. PICK next : LeaveOn(op, next)
    BY <1>0, <1>1, <1>6, LeaveStep
  <2>2. UNCHANGED maps
    BY <1>1, <1>6, LeaveStep
  <2>3. /\ next \in Op /\ next.kind = "leaveRemove" /\ next.mode = op.mode /\ next.entry = op.entry
        /\ next.found = {} /\ line' = Append(Tail(line), next)
        /\ (queue' = queue /\ ~next.ok) \/ queue' = [queue EXCEPT ![op.mode] = @ \ op.found]
    BY <2>1 DEF LeaveOn, Op
  <2>4. /\ queue' \in [Modes -> SUBSET Entry] /\ \A m \in Modes : queue'[m] \subseteq queue[m]
        /\ \A m \in Modes : \A e \in queue[m] : e \in queue'[m] \/ e \in op.found
        /\ next.ok => queue'[op.mode] \cap op.found = {}
    BY <1>2, <1>5, <2>3
  <2>5. SamePerson(u)
    BY <1>1, <2>2 DEF SamePerson, people, maps, history, There, Asks
  <2>6. CASE u # User(op.entry)
    <3>1. \A e \in op.found : User(e) # u
      BY <1>1, <2>6 DEF Fitting
    <3>2. Follows(u, line, queue, Tail(line), queue)
      BY <1>0, <1>1, <1>4, <2>6, AnsweredOther
    <3>3. Follows(u, Tail(line), queue, Tail(line), queue')
      BY <1>1, <1>5, <2>4, <3>1, FollowsOthers
    <3>4. Follows(u, Tail(line), queue', line', queue')
      <4>1. u \notin About(next)
        BY <2>3, <2>6 DEF About
      <4>2. Tail(line) \in Seq(Op)
        BY <1>1 DEF LineGood
      <4> QED
        BY <2>3, <4>1, <4>2, SentByAnother
    <3>5. Follows(u, line, queue, line', queue')
      BY <3>2, <3>3, <3>4, FollowsOn
    <3> QED
      BY <1>3, <2>5, <3>5, Bystander
  <2>7. CASE u = User(op.entry)
    <3>1. 1 \in Leaves(u, line)
      BY <1>4, <2>7
    <3>2. userSockets[u] # NoSocket
      BY <1>0, <1>6, <3>1 DEF UserOK, Idle, IdleLine
    <3> DEFINE s == userSockets[u]
               T == Ticket(s)
               m == socketUsers[s]
    <3>3. WaitLine(u, line, queue, T, m) /\ m \in Modes
      BY <3>2 DEF UserOK, Waiting
    <3> HIDE DEF T, m
    <3>4. op.mode = m /\ op.found = {T} /\ op.entry.socket = T.socket
      BY <1>0, <1>6, <3>1, <3>3 DEF WaitLine, LeavesTicket
    <3>5. next.ok => T \notin queue'[m]
      BY <2>4, <3>4
    <3>6. WaitLine(u, line', queue', T, m) /\ Leaves(u, line') # {}
      BY <1>1, <2>3, <2>4, <2>7, <3>1, <3>3, <3>4, <3>5, LeaveGoesOn
    <3> QED
      BY <1>3, <2>5, <3>2, <3>6, StillWaits DEF T, m
  <2> QED
    BY <2>6, <2>7
<1>7. CASE op.found = {}
  <2>1. line' = Tail(line) /\ HasLeft(op) /\ UNCHANGED queue
    BY <1>1, <1>7 DEF AnswerLeave
  <2>2. /\ userSockets' = [userSockets EXCEPT ![User(op.entry)] = NoSocket]
        /\ socketUsers' = [socketUsers EXCEPT ![op.entry.socket] = "none"]
        /\ userSockets \in [Users -> Sockets \cup {NoSocket}] /\ socketUsers \in [Sockets -> Modes \cup {"none"}]
    BY <2>1 DEF HasLeft, TypeInv, MapsGood
  <2>3. CASE u # User(op.entry)
    <3>1. userSockets'[u] = userSockets[u] /\ \A t \in Own(u) : socketUsers'[t] = socketUsers[t]
      BY <1>2, <2>2, <2>3 DEF Own
    <3>2. SamePerson(u)
      BY <1>1, <3>1 DEF SamePerson, people, history, There, Asks
    <3>3. Follows(u, line, queue, line', queue')
      BY <1>0, <1>1, <1>4, <2>1, <2>3, AnsweredOther
    <3> QED
      BY <1>3, <3>2, <3>3, Bystander
  <2>4. CASE u = User(op.entry) /\ userSockets[u] = NoSocket
    <3>1. IdleLine(u, line, queue) /\ \A t \in Own(u) : socketUsers[t] = "none"
      BY <2>4 DEF UserOK, Idle
    <3>2. userSockets'[u] = userSockets[u] /\ \A t \in Own(u) : socketUsers'[t] = socketUsers[t]
      BY <1>2, <2>2, <2>4, <3>1 DEF Own
    <3>3. SamePerson(u)
      BY <1>1, <3>2 DEF SamePerson, people, history, There, Asks
    <3>4. 1 \notin Adds(u, line)
      BY <1>0, <1>1 DEF Adds
    <3>5. IdleLine(u, line', queue')
      BY <1>1, <2>1, <3>1, <3>4, IdleAnswered
    <3>6. \A j \in Adds(u, line') : \E i \in Adds(u, line) : line'[j] = line[i]
      <4>1. Up(Adds(u, line), Adds(u, Tail(line)), line, Tail(line))
        BY <1>1, AnsweredParts
      <4> QED
        BY <2>1, <4>1 DEF Up
    <3> QED
      BY <1>3, <2>4, <3>3, <3>5, <3>6, StillIdle
  <2>5. CASE u = User(op.entry) /\ userSockets[u] # NoSocket
    <3>1. 1 \in Leaves(u, line)
      BY <1>4, <2>5
    <3> DEFINE s == userSockets[u]
               T == Ticket(s)
               m == socketUsers[s]
    <3>2. /\ WaitLine(u, line, queue, T, m) /\ s \in Own(u) /\ T.socket = s
          /\ \A t \in Own(u) : t # s => socketUsers[t] = "none"
      BY <2>5 DEF UserOK, Waiting, Ticket
    <3> HIDE DEF T, m
    <3>3. op.entry.socket = s
      BY <1>0, <3>1, <3>2 DEF WaitLine, LeavesTicket
    <3>4. IdleLine(u, line', queue') /\ Adds(u, line') = {}
      BY <1>0, <1>1, <1>7, <2>1, <3>1, <3>2, NowIdle
    <3>5. userSockets'[u] = NoSocket /\ \A t \in Own(u) : socketUsers'[t] = "none"
      BY <2>2, <2>5, <3>2, <3>3 DEF Own
    <3>6. Asks(u)' = {}
      BY <1>1, <2>5 DEF UserOK, AskingOK, Asks, people
    <3>7. AskingOK(u)' /\ AddsOK(u)'
      BY <3>4, <3>6 DEF AskingOK, AddsOK
    <3>8. Idle(u)' /\ Waiting(u)'
      BY <3>4, <3>5 DEF Idle, Waiting, Own
    <3> QED
      BY <1>3, <3>7, <3>8 DEF UserOK, RoomsKept
  <2> QED
    BY <2>3, <2>4, <2>5
<1> QED
  BY <1>6, <1>7

\* A user whom a pass that was answered has read, and whose operations have met no
\* other, waits: his ticket is what the pass read of him.
LEMMA ReadWaits ==
    ASSUME TypeInv, line # <<>>, NEW u, UserOK(u), line[1].kind \in {"read", "scan", "remove"}, u \in About(line[1])
    PROVE  /\ userSockets[u] # NoSocket
           /\ WaitLine(u, line, queue, Ticket(userSockets[u]), socketUsers[userSockets[u]])
           /\ User(Ticket(userSockets[u])) = u /\ Ticket(userSockets[u]) \in Entry
           /\ socketUsers[userSockets[u]] = line[1].mode
           /\ userSockets[u] \in Own(u)
<1>1. line[1].kind = "read" => 1 \in Reads(u, line)
  BY FirstIsHis
<1>2. line[1].kind # "read" => 1 \in Takes(u, line)
  BY FirstIsHis
<1>3. userSockets[u] # NoSocket
  <2> SUFFICES ASSUME IdleLine(u, line, queue) PROVE FALSE
    BY DEF UserOK, Idle
  <2>1. \A i \in DOMAIN line : i \in Nat \ {0}
    <3>1. line \in Seq(Op)
      BY DEF TypeInv, LineGood
    <3> QED
      BY <3>1
  <2>2. CASE 1 \in Takes(u, line)
    BY <2>2 DEF IdleLine
  <2>3. CASE 1 \in Reads(u, line)
    <3>1. PICK j \in Adds(u, line) : j < 1
      BY <2>3 DEF IdleLine
    <3> QED
      BY <2>1, <3>1 DEF Adds
  <2> QED
    BY <1>1, <1>2, <2>2, <2>3
<1>4. /\ WaitLine(u, line, queue, Ticket(userSockets[u]), socketUsers[userSockets[u]])
      /\ userSockets[u] \in Own(u) /\ Ticket(userSockets[u]) \in Entry
  BY <1>3 DEF UserOK, Waiting
<1>5. User(Ticket(userSockets[u])) = u
  BY <1>4 DEF User, Ticket, Own
<1>6. socketUsers[userSockets[u]] = line[1].mode
  BY <1>1, <1>2, <1>4 DEF WaitLine, ReadsTicket, TakesTicket
<1> QED
  BY <1>3, <1>4, <1>5, <1>6

LEMMA ReadKeepsUser ==
    ASSUME TypeInv, UsersOK, NEW u \in Users, u \notin raced', AnswerRead
    PROVE  UserOK(u)'
<1>0. PICK op : op = line[1]
  OBVIOUS
<1>1. /\ line # <<>> /\ Head(line) = op /\ op \in ReadOp /\ op.kind = "read"
      /\ UNCHANGED <<people, queue, overdue, maps, rooms, ghosts>> /\ line \in Seq(Op)
      /\ LineGood(Tail(line)) /\ op.mode \in Modes /\ op.entries \in SUBSET Entry
      /\ Tail(line) \in Seq(Op)
  BY <1>0, FirstInLine DEF AnswerRead, ReadOp, LineGood
<1>2. raced \subseteq raced'
  BY <1>0, ReadStep DEF ScanOn
<1>3. UserOK(u)
  BY <1>2 DEF UsersOK
<1>4. RoomsKept(u)
  BY <1>1, <1>3, RoomsSame DEF people
<1>5. SamePerson(u)
  BY <1>1 DEF SamePerson, people, maps, There, Asks
<1>6. Follows(u, line, queue, Tail(line), queue)
  BY <1>0, <1>1, AnsweredOther
<1>7. CASE line' = Tail(line)
  BY <1>1, <1>3, <1>4, <1>5, <1>6, <1>7, Bystander
<1>8. ASSUME NEW next, ScanOn(op, next) PROVE UserOK(u)'
  <2> DEFINE users == {User(e) : e \in next.chosen}
             rest == ToRemove(op.mode, next.chosen)
  <2>1. /\ next \in Op /\ next.kind = "scan" /\ next.mode = op.mode /\ next.chosen \subseteq op.entries
        /\ next.rest = rest /\ line' = Append(Tail(line), next)
        /\ raced' = raced \cup {v \in users : Cardinality(Read(v)) > 1}
                          \cup (IF users \cap raced # {} THEN users ELSE {})
    BY <1>8 DEF ScanOn, Op
  <2>2. About(next) = users
    BY <2>1 DEF About
  <2> HIDE DEF users, rest
  <2>3. CASE u \notin users
    <3>1. Follows(u, Tail(line), queue, line', queue)
      BY <1>1, <2>1, <2>2, <2>3, SentByAnother
    <3> QED
      BY <1>1, <1>3, <1>4, <1>5, <1>6, <3>1, FollowsOn, Bystander
  <2>4. CASE u \in users
    <3>1. users \cap raced = {} /\ ~(Cardinality(Read(u)) > 1)
      BY <2>1, <2>4
    <3>2. users \subseteq About(op) /\ users \subseteq Users
      <4>1. About(op) = {User(e) : e \in op.entries}
        BY <1>0, <1>1, FirstIsHis
      <4> QED
        BY <1>1, <2>1, <4>1 DEF users, Entry, User, Users
    <3>3. \A v \in users :
            LET s == userSockets[v]
            IN  /\ s # NoSocket /\ WaitLine(v, line, queue, Ticket(s), op.mode)
                /\ User(Ticket(s)) = v /\ socketUsers[s] = op.mode
      <4> TAKE v \in users
      <4>1. UserOK(v)
        BY <3>1, <3>2 DEF UsersOK
      <4> QED
        BY <1>0, <1>1, <3>2, <4>1, ReadWaits
    <3> DEFINE s == userSockets[u]
               T == Ticket(s)
               m == op.mode
               theirs == {e \in queue[m] : User(e) \in users}
    <3>4. WaitLine(u, line, queue, T, m) /\ User(T) = u /\ s # NoSocket /\ socketUsers[s] = m
      BY <2>4, <3>3
    <3>5. \A e, f \in theirs : User(e) = User(f) => e = f
      BY <1>1, <3>3 DEF WaitLine, Queued
    <3>6. Range(rest) = theirs
      <4>1. queue[m] \in SUBSET Entry /\ next.chosen \in SUBSET Entry
        BY <1>1, <2>1 DEF TypeInv, PeopleGood
      <4>2. theirs = {e \in queue[op.mode] : User(e) \in {User(f) : f \in next.chosen}}
        BY DEF users
      <4> HIDE DEF theirs
      <4> QED
        BY <1>1, <3>5, <4>1, <4>2, RemovedOnes DEF rest
    <3>7. T \in Range(rest) <=> T \in queue[m]
      BY <2>4, <3>4, <3>6
    <3>8. Only(u, next.chosen, T)
      <4>1. Only(u, op.entries, T)
        <5>1. 1 \in Reads(u, line)
          BY <1>0, <1>1, <2>4, <3>2, FirstIsHis
        <5> QED
          BY <1>0, <3>4, <5>1 DEF WaitLine, ReadsTicket
      <4> QED
        BY <2>1, <4>1 DEF Only
    <3>9. 1 \in Reads(u, line) /\ Reads(u, line) \cup Takes(u, line) \subseteq {1}
      <4>1. 1 \in Reads(u, line)
        BY <1>0, <1>1, <2>4, <3>2, FirstIsHis
      <4>2. Read(u) = Reads(u, line) \cup Takes(u, line) /\ IsFiniteSet(Read(u))
        BY ReadIs
      <4>3. Cardinality(Read(u)) <= 1
        BY <3>1, <4>2, FS_CardinalityType
      <4>4. ASSUME NEW i \in Read(u), i # 1 PROVE FALSE
        <5>1. Cardinality({1, i}) = 2 /\ {1, i} \subseteq Read(u)
          <6>1. Cardinality({1}) = 1 /\ IsFiniteSet({1})
            BY FS_Singleton
          <6>2. Cardinality({1} \cup {i}) = IF i \in {1} THEN Cardinality({1}) ELSE Cardinality({1}) + 1
            BY <6>1, FS_AddElement
          <6>3. {1, i} = {1} \cup {i}
            OBVIOUS
          <6> QED
            BY <4>1, <4>2, <4>4, <6>1, <6>2, <6>3
        <5>2. Cardinality({1, i}) <= Cardinality(Read(u))
          BY <4>2, <5>1, FS_Subset
        <5> QED
          BY <4>2, <4>3, <5>1, <5>2, FS_CardinalityType
      <4> QED
        BY <4>1, <4>2, <4>4
    <3> HIDE DEF T, m, theirs
    <3>10. WaitLine(u, Append(Tail(line), next), queue, T, m)
      BY <1>1, <2>1, <2>2, <2>4, <3>4, <3>7, <3>8, <3>9, NowTaken DEF m
    <3>11. Leaves(u, line) = {}
      BY <3>4, <3>9 DEF WaitLine
    <3>12. WaitLine(u, line', queue', T, m)
      BY <1>1, <2>1, <3>10
    <3> QED
      BY <1>3, <1>4, <1>5, <3>4, <3>11, <3>12, StillWaits DEF T
  <2> QED
    BY <2>3, <2>4
<1> QED
  BY <1>0, <1>7, <1>8, ReadStep

LEMMA RemoveKeepsUser ==
    ASSUME TypeInv, NEW u \in Users, UserOK(u), AnswerRemove, Head(line).rest # <<>>
    PROVE  UserOK(u)'
<1>0. PICK op : op = line[1]
  OBVIOUS
<1>1. /\ line # <<>> /\ Head(line) = op /\ op \in TakeOp /\ op.kind \in {"scan", "remove"} /\ op.ok
      /\ UNCHANGED <<people, overdue, history>> /\ line \in Seq(Op) /\ Fitting(op)
      /\ LineGood(Tail(line)) /\ op.mode \in Modes /\ op.rest \in Seq(Entry) /\ op.rest # <<>>
      /\ Tail(line) \in Seq(Op)
  BY <1>0, FirstInLine DEF AnswerRemove, TakeOp, LineGood
<1>2. PICK next : TakeOn(op, next)
  BY <1>0, TakeStep
<1>3. UNCHANGED <<maps, rooms>>
  BY TakeStep
<1> DEFINE first == Head(op.rest)
<1>4. /\ next \in Op /\ next.kind = "remove" /\ next.mode = op.mode /\ next.chosen = op.chosen
      /\ next.rest = Tail(op.rest) /\ line' = Append(Tail(line), next)
      /\ (queue' = queue /\ ~next.ok) \/ queue' = [queue EXCEPT ![op.mode] = @ \ {first}]
  BY <1>2 DEF TakeOn, Op
<1>5. queue \in [Modes -> SUBSET Entry]
  BY DEF TypeInv, PeopleGood
<1>6. /\ queue' \in [Modes -> SUBSET Entry] /\ \A m \in Modes : queue'[m] \subseteq queue[m]
      /\ \A m \in Modes : \A e \in queue[m] : e \in queue'[m] \/ e = first
      /\ next.ok => first \notin queue'[op.mode]
  <2> HIDE DEF first
  <2>1. CASE queue' = queue /\ ~next.ok
    BY <1>5, <2>1
  <2>2. CASE queue' = [queue EXCEPT ![op.mode] = @ \ {first}]
    <3>1. /\ queue' \in [Modes -> SUBSET Entry]
          /\ \A m \in Modes : queue'[m] = IF m = op.mode THEN queue[m] \ {first} ELSE queue[m]
      BY <1>1, <1>5, <2>2
    <3> QED
      BY <1>1, <3>1
  <2> QED
    BY <1>4, <2>1, <2>2
<1>7. /\ User(first) \in About(op) /\ first = op.rest[1]
      /\ \A e : e \in Range(Tail(op.rest)) <=> e \in Range(op.rest) /\ e # first
  <2>1. /\ \A i, j \in DOMAIN op.rest : op.rest[i] = op.rest[j] => i = j
        /\ \A i \in DOMAIN op.rest : User(op.rest[i]) \in About(op)
    BY <1>1 DEF Fitting
  <2>2. /\ first = op.rest[1] /\ 1 \in DOMAIN op.rest
        /\ \A i \in DOMAIN Tail(op.rest) : i \in Nat \ {0} /\ i + 1 \in DOMAIN op.rest /\ Tail(op.rest)[i] = op.rest[i + 1]
        /\ \A i \in DOMAIN op.rest \ {1} : i - 1 \in DOMAIN Tail(op.rest) /\ op.rest[i] = Tail(op.rest)[i - 1]
    <3>1. Tail(op.rest) \in Seq(Entry)
      BY <1>1, AnsweredPlaces
    <3>2. \A i \in DOMAIN Tail(op.rest) : i \in Nat \ {0}
      BY <3>1
    <3> QED
      BY <1>1, <3>2, AnsweredPlaces
  <2> HIDE DEF first
  <2>3. ASSUME NEW e, e \in Range(Tail(op.rest)) PROVE e \in Range(op.rest) /\ e # first
    <3>1. PICK i \in DOMAIN Tail(op.rest) : e = Tail(op.rest)[i]
      BY <2>3 DEF Range
    <3>2. i + 1 # 1 /\ i + 1 \in DOMAIN op.rest /\ e = op.rest[i + 1]
      BY <2>2, <3>1
    <3> QED
      BY <2>1, <2>2, <3>2 DEF Range
  <2>4. ASSUME NEW e, e \in Range(op.rest), e # first PROVE e \in Range(Tail(op.rest))
    <3>1. PICK i \in DOMAIN op.rest : e = op.rest[i]
      BY <2>4 DEF Range
    <3> QED
      BY <2>2, <2>4, <3>1 DEF Range
  <2> QED
    BY <2>1, <2>2, <2>3, <2>4
<1> HIDE DEF first
<1>8. RoomsKept(u)
  BY <1>1, <1>3, RoomsSame DEF people, history
<1>9. SamePerson(u)
  BY <1>1, <1>3 DEF SamePerson, people, maps, history, There, Asks
<1>10. About(next) = About(op)
  BY <1>1, <1>4 DEF About
<1>11. CASE u \notin About(op)
  <2>1. Follows(u, line, queue, Tail(line), queue)
    BY <1>0, <1>1, <1>11, AnsweredOther
  <2>2. Follows(u, Tail(line), queue, Tail(line), queue')
    BY <1>1, <1>5, <1>6, <1>7, <1>11, FollowsOthers
  <2>3. Follows(u, Tail(line), queue', line', queue')
    BY <1>1, <1>4, <1>10, <1>11, SentByAnother
  <2> QED
    BY <1>8, <1>9, <2>1, <2>2, <2>3, FollowsOn, Bystander
<1>12. CASE u \in About(op)
  <2> DEFINE s == userSockets[u]
             T == Ticket(s)
  <2>1. s # NoSocket /\ WaitLine(u, line, queue, T, op.mode) /\ socketUsers[s] = op.mode
    BY <1>0, <1>1, <1>12, ReadWaits
  <2>2. 1 \in Takes(u, line)
    BY <1>0, <1>1, <1>12, FirstIsHis
  <2> HIDE DEF T
  <2>3. Only(u, op.chosen, T) /\ (T \in Range(op.rest) <=> T \in queue[op.mode])
    BY <1>0, <1>1, <2>1, <2>2 DEF WaitLine, TakesTicket
  <2>4. next.ok => (T \in Range(next.rest) <=> T \in queue'[op.mode])
    BY <1>1, <1>4, <1>6, <1>7, <2>3
  <2>5. WaitLine(u, line', queue', T, op.mode)
    BY <1>1, <1>4, <1>6, <1>10, <1>12, <2>1, <2>2, <2>3, <2>4, TakeGoesOn
  <2>6. Leaves(u, line) = {}
    BY <2>1, <2>2 DEF WaitLine
  <2> QED
    BY <1>8, <1>9, <2>1, <2>5, <2>6, StillWaits DEF T
<1> QED
  BY <1>11, <1>12

LEMMA MatchedKeepsUser ==
    ASSUME TypeInv, NEW u \in Users, UserOK(u), AnswerRemove, Head(line).rest = <<>>
    PROVE  UserOK(u)'
<1>0. PICK op : op = line[1]
  OBVIOUS
<1>1. /\ line # <<>> /\ Head(line) = op /\ op \in TakeOp /\ op.kind \in {"scan", "remove"} /\ op.ok
      /\ UNCHANGED <<people, queue, overdue, history>> /\ line \in Seq(Op) /\ line' = Tail(line)
      /\ op.mode \in Modes /\ op.chosen \in SUBSET Entry /\ op.rest = <<>> /\ CreateMatch(op.mode, op.chosen)
  BY <1>0, FirstInLine DEF AnswerRemove, TakeOp, RemoveNext
<1> DEFINE n == Len(matches) + 1
           users == {User(e) : e \in op.chosen}
           sockets == {e.socket : e \in op.chosen}
<1>2. /\ matches' \in Seq(Match)
      /\ \A k \in DOMAIN matches : matches'[k] = matches[k]
      /\ DOMAIN matches' = DOMAIN matches \cup {n} /\ n \notin DOMAIN matches
      /\ matches'[n].players = op.chosen /\ matches'[n].seats = op.chosen
      /\ matches'[n].departed = {User(e) : e \in {f \in op.chosen : f.socket \notin connected
                                                                  \/ socketUsers[f.socket] = "none"}}
  BY <1>1, MatchCreated
<1>3. /\ userSockets' = [v \in Users |-> IF v \in users THEN NoSocket ELSE userSockets[v]]
      /\ socketUsers' = [s \in Sockets |-> IF s \in sockets THEN "none" ELSE socketUsers[s]]
      /\ roomOf' = [s \in Sockets |-> IF s \in sockets THEN n ELSE roomOf[s]]
  BY <1>1, Zenon DEF CreateMatch
<1>4. (u \in About(op) <=> u \in users) /\ (u \in About(op) <=> 1 \in Takes(u, line))
  BY <1>0, <1>1, FirstIsHis
<1>5. \A e \in op.chosen : e.socket \in Own(User(e))
  BY <1>1 DEF Entry, Own, User
<1>6. \A e \in op.chosen : User(e) \in users
  OBVIOUS
<1> HIDE DEF n
<1>7. CASE u \notin users
  <2>1. \A t \in Own(u) : t \notin sockets
    BY <1>5, <1>6, <1>7 DEF Own
  <2>2. \A e \in op.chosen : User(e) # u
    BY <1>6, <1>7
  <2> HIDE DEF users, sockets
  <2>3. userSockets'[u] = userSockets[u] /\ \A t \in Own(u) : socketUsers'[t] = socketUsers[t] /\ roomOf'[t] = roomOf[t]
    BY <1>3, <1>7, <2>1 DEF Own
  <2>4. SamePerson(u)
    BY <1>1, <2>3 DEF SamePerson, people, history, There, Asks
  <2>5. Follows(u, line, queue, line', queue')
    BY <1>0, <1>1, <1>4, <1>7, AnsweredOther
  <2>6. Unseated(u) => Unseated(u)'
    BY <1>2, <2>2 DEF Unseated
  <2>7. SeatsOK(u)'
    <3>0. connected' = connected /\ ghosts' = ghosts
      BY <1>1 DEF people, history
    <3>1. \A m \in DOMAIN matches' : \A e, f \in matches'[m].players : User(e) = u /\ User(f) = u => e = f
      BY <1>2, <2>2 DEF UserOK, SeatsOK
    <3>2. ASSUME NEW m \in DOMAIN matches', matches'[m].stage \in Current,
                 NEW e \in matches'[m].seats, User(e) = u, e.socket \in connected'
          PROVE  roomOf'[e.socket] = m
      <4>1. m \in DOMAIN matches /\ matches'[m] = matches[m]
        BY <1>2, <2>2, <3>2
      <4>2. roomOf[e.socket] = m /\ e.socket \in Own(u)
        BY <3>0, <3>2, <4>1, SeatIsThere
      <4> QED
        BY <2>3, <4>2
    <3>3. ASSUME NEW m \in DOMAIN matches', NEW k \in DOMAIN matches',
                 {matches'[m].stage, matches'[k].stage} \subseteq Current,
                 NEW e \in matches'[m].seats, NEW f \in matches'[k].seats, User(e) = u, User(f) = u
          PROVE  m = k
      <4>1. m \in DOMAIN matches /\ matches'[m] = matches[m] /\ k \in DOMAIN matches /\ matches'[k] = matches[k]
        BY <1>2, <2>2, <3>3
      <4> QED
        BY <3>3, <4>1 DEF UserOK, SeatsOK
    <3>4. \A m \in DOMAIN matches' : u \in matches'[m].departed => u \in ghosts'
      <4>1. u \notin matches'[n].departed
        BY <1>2, <2>2
      <4> QED
        BY <1>2, <3>0, <4>1 DEF UserOK, SeatsOK
    <3> QED
      BY <3>1, <3>2, <3>3, <3>4 DEF SeatsOK, User
  <2>8. RoomsKept(u)
    BY <2>3, <2>6, <2>7 DEF RoomsKept
  <2> QED
    BY <2>4, <2>5, <2>8, Bystander
<1>8. CASE u \in users
  <2>1. PICK s : s = userSockets[u]
    OBVIOUS
  <2> DEFINE T == Ticket(s)
  <2>2. /\ s # NoSocket /\ WaitLine(u, line, queue, T, op.mode) /\ User(T) = u /\ T.socket = s
        /\ socketUsers[s] = op.mode /\ s \in Own(u)
    BY <1>0, <1>1, <1>4, <1>8, <2>1, ReadWaits DEF Ticket
  <2>3. (There(u, s) \/ Leaves(u, line) # {}) /\ Unseated(u) /\ \A t \in Own(u) : t # s => socketUsers[t] = "none"
    BY <2>1, <2>2 DEF UserOK, Waiting
  <2>4. 1 \in Takes(u, line)
    BY <1>4, <1>8
  <2> HIDE DEF T
  <2>5. Only(u, op.chosen, T) /\ Leaves(u, line) = {}
    BY <1>0, <2>2, <2>4 DEF WaitLine, TakesTicket
  <2>6. T \in op.chosen
    BY <1>8, <2>5 DEF Only
  <2>7. T \notin Range(op.rest)
    BY <1>1 DEF Range
  <2>8. IdleLine(u, line', queue') /\ Adds(u, line') = {}
    BY <1>0, <1>1, <2>2, <2>4, <2>7, NowMatched
  <2>9. s \in sockets
    BY <2>2, <2>6
  <2> HIDE DEF users, sockets
  <2>10. userSockets'[u] = NoSocket /\ (\A t \in Own(u) : socketUsers'[t] = "none") /\ roomOf'[s] = n
    BY <1>3, <1>8, <2>2, <2>3, <2>9 DEF Own
  <2>11. Asks(u)' = {}
    BY <1>1, <2>1, <2>2 DEF UserOK, AskingOK, Asks, people
  <2>12. AskingOK(u)' /\ AddsOK(u)'
    BY <2>8, <2>11 DEF AskingOK, AddsOK
  <2>13. Idle(u)' /\ Waiting(u)'
    BY <2>8, <2>10 DEF Idle, Waiting, Own
  <2>14. SeatsOK(u)'
    <3>0. connected' = connected /\ ghosts' = ghosts
      BY <1>1 DEF people, history
    <3>a. \A e \in op.chosen : User(e) = u => e = T
      BY <2>5 DEF Only
    <3>b. \A m \in DOMAIN matches : matches[m].stage \in Current => \A e \in matches[m].seats : User(e) # u
      BY <2>3 DEF Unseated
    <3>1. \A m \in DOMAIN matches' : \A e, f \in matches'[m].players : User(e) = u /\ User(f) = u => e = f
      BY <1>2, <3>a DEF UserOK, SeatsOK
    <3>2. ASSUME NEW m \in DOMAIN matches', matches'[m].stage \in Current,
                 NEW e \in matches'[m].seats, User(e) = u, e.socket \in connected'
          PROVE  roomOf'[e.socket] = m
      <4>1. m = n
        BY <1>2, <3>2, <3>b
      <4>2. e = T
        BY <1>2, <3>2, <3>a, <4>1
      <4> QED
        BY <2>2, <2>10, <4>1, <4>2
    <3>3. ASSUME NEW m \in DOMAIN matches', NEW k \in DOMAIN matches',
                 {matches'[m].stage, matches'[k].stage} \subseteq Current,
                 NEW e \in matches'[m].seats, NEW f \in matches'[k].seats, User(e) = u, User(f) = u
          PROVE  m = k
      <4>1. m = n /\ k = n
        BY <1>2, <3>3, <3>b
      <4> QED
        BY <4>1
    <3>4. u \in matches'[n].departed => u \in ghosts'
      <4> SUFFICES ASSUME u \in matches'[n].departed PROVE u \in ghosts'
        OBVIOUS
      <4>1. PICK e \in op.chosen : User(e) = u /\ (e.socket \notin connected \/ socketUsers[e.socket] = "none")
        BY <1>2
      <4>2. e = T
        BY <3>a, <4>1
      <4>3. s \notin connected
        BY <1>1, <2>2, <4>1, <4>2 DEF Modes
      <4> QED
        BY <2>3, <2>5, <3>0, <4>3 DEF There
    <3>5. \A m \in DOMAIN matches' : u \in matches'[m].departed => u \in ghosts'
      BY <1>2, <3>0, <3>4 DEF UserOK, SeatsOK
    <3> QED
      BY <3>1, <3>2, <3>3, <3>5 DEF SeatsOK, User
  <2> QED
    BY <2>12, <2>13, <2>14 DEF UserOK
<1> QED
  BY <1>7, <1>8

LEMMA StageKeepsUser ==
    ASSUME TypeInv, NEW u \in Users, UserOK(u), NEW m \in DOMAIN matches,
           AddBots(m) \/ BotsFail(m) \/ StartMatchedGame(m) \/ GameOver(m)
    PROVE  UserOK(u)'
<1>1. UNCHANGED <<people, line, queue, overdue, maps, roomOf, history>>
  BY DEF AddBots, BotsFail, StartMatchedGame, GameOver, NothingElse
<1>2. RoomsLess
  BY StageMoves
<1>3. RoomsKept(u)
  BY <1>1, <1>2, RoomsFollow DEF people, history, UserOK, TypeInv
<1>4. SamePerson(u)
  BY <1>1 DEF SamePerson, people, maps, history, There, Asks
<1>5. Follows(u, line, queue, line', queue')
  BY <1>1, FollowsItself
<1> QED
  BY <1>3, <1>4, <1>5, Bystander

LEMMA NothingKeepsUser ==
    ASSUME TypeInv, NEW u \in Users, UserOK(u), UNCHANGED <<people, line, queue, maps, rooms, history>>
    PROVE  UserOK(u)'
<1>1. RoomsKept(u)
  BY RoomsSame DEF people, history
<1>2. SamePerson(u)
  BY DEF SamePerson, people, maps, history, There, Asks
<1>3. Follows(u, line, queue, line', queue')
  BY FollowsItself
<1> QED
  BY <1>1, <1>2, <1>3, Bystander

-----------------------------------------------------------------------------
(* The theorems.                                                           *)

IndInv == TypeInv /\ UsersOK

LEMMA InitUsers == Init => UsersOK
<1> SUFFICES ASSUME Init, NEW u \in Users PROVE UserOK(u)
  BY DEF UsersOK
<1>1. /\ asking = {} /\ line = <<>> /\ \A m \in Modes : queue[m] = {}
      /\ userSockets[u] = NoSocket /\ (\A s \in Own(u) : socketUsers[s] = "none") /\ matches = <<>>
  BY DEF Init, Own
<1>2. Adds(u, line) = {} /\ Leaves(u, line) = {} /\ Reads(u, line) = {} /\ Takes(u, line) = {}
  BY <1>1 DEF Adds, Leaves, Reads, Takes
<1>3. IdleLine(u, line, queue)
  BY <1>1, <1>2 DEF IdleLine
<1>4. AskingOK(u) /\ AddsOK(u)
  BY <1>1, <1>2 DEF AskingOK, AddsOK, Asks
<1>5. Idle(u) /\ Waiting(u)
  BY <1>1, <1>3 DEF Idle, Waiting
<1>6. SeatsOK(u)
  BY <1>1 DEF SeatsOK
<1> QED
  BY <1>4, <1>5, <1>6 DEF UserOK

LEMMA UsersKept == IndInv /\ [Next]_vars => UsersOK'
<1> SUFFICES ASSUME TypeInv, UsersOK, [Next]_vars, NEW u \in Users, u \notin raced' PROVE UserOK(u)'
  BY DEF IndInv, UsersOK, Users
<1>1. ASSUME raced \subseteq raced' PROVE UserOK(u)
  BY <1>1 DEF UsersOK
<1>2. ASSUME NEW s \in Sockets, NEW mode \in Plays[s], JoinQueue(s, mode) PROVE UserOK(u)'
  <2>1. mode \in Modes
    BY MatchmakingAssumption
  <2>2. raced \subseteq raced'
    BY <1>2 DEF JoinQueue
  <2> QED
    BY <1>1, <1>2, <2>1, <2>2, JoinKeepsUser
<1>3. ASSUME NEW s \in Sockets, LeaveQueue(s) PROVE UserOK(u)'
  BY <1>1, <1>3, LeaveKeepsUser DEF LeaveQueue
<1>4. ASSUME NEW s \in Sockets, LeaveRoom(s) PROVE UserOK(u)'
  BY <1>1, <1>4, LeaveRoomKeepsUser DEF LeaveRoom, history
<1>5. ASSUME NEW s \in Sockets, Disconnect(s) PROVE UserOK(u)'
  BY <1>1, <1>5, DisconnectKeepsUser DEF Disconnect
<1>6. ASSUME NEW a \in asking, NEW ok \in BOOLEAN, AddEntry(a, ok) PROVE UserOK(u)'
  BY <1>1, <1>6, AddKeepsUser DEF AddEntry, history
<1>7. CASE StartPass
  <2>1. raced \subseteq raced'
    BY <1>7 DEF StartPass
  <2> QED
    BY <1>1, <1>7, <2>1, PassKeepsUser
<1>8. CASE AnswerError
  BY <1>1, <1>8, ErrorKeepsUser DEF AnswerError
<1>9. CASE AnswerJoin
  BY <1>1, <1>9, JoinedKeepsUser DEF AnswerJoin, history
<1>10. CASE AnswerLeave
  BY <1>1, <1>10, LeftKeepsUser DEF AnswerLeave, history
<1>11. CASE AnswerRead
  BY <1>11, ReadKeepsUser
<1>12. CASE AnswerRemove
  BY <1>1, <1>12, RemoveKeepsUser, MatchedKeepsUser DEF AnswerRemove, history
<1>13. ASSUME NEW m \in DOMAIN matches, AddBots(m) \/ BotsFail(m) \/ StartMatchedGame(m) \/ GameOver(m)
       PROVE  UserOK(u)'
  <2>1. UNCHANGED raced
    BY <1>13 DEF AddBots, BotsFail, StartMatchedGame, GameOver, NothingElse, history
  <2> QED
    BY <1>1, <1>13, <2>1, StageKeepsUser
<1>14. ASSUME NEW e \in Entry, WaitTooLong(e) PROVE UserOK(u)'
  BY <1>1, <1>14, NothingKeepsUser DEF WaitTooLong, history
<1>15. CASE UNCHANGED vars
  BY <1>1, <1>15, NothingKeepsUser DEF vars, history
<1> QED
  BY <1>2, <1>3, <1>4, <1>5, <1>6, <1>7, <1>8, <1>9, <1>10, <1>11, <1>12, <1>13, <1>14, <1>15
     DEF Next, RatingAnswers, Answer

LEMMA Inductive == Spec => []IndInv
<1>1. Init => IndInv
  BY InitTypes, InitUsers DEF IndInv
<1>2. IndInv /\ [Next]_vars => IndInv'
  BY TypesKept, UsersKept DEF IndInv
<1> QED
  BY <1>1, <1>2, PTL DEF Spec

\* The maps of who waits, and where, agree with the queues in Redis whenever nothing is
\* under way for a user: for each of whom no operation met another or an error.
THEOREM IndexHolds == Spec => []IndexFollowsQueue
<1>1. IndInv => IndexFollowsQueue
  <2> SUFFICES ASSUME IndInv, NEW u \in Users, Quiet(u), u \notin raced
               PROVE  /\ \A m \in Modes : {e.socket : e \in {f \in queue[m] : User(f) = u}}
                           = {s \in Sockets : UserOf[s] = u /\ userSockets[u] = s /\ socketUsers[s] = m}
                      /\ \A s \in Sockets : UserOf[s] = u /\ socketUsers[s] # "none" => userSockets[u] = s
    BY DEF IndexFollowsQueue
  <2>1. UserOK(u)
    BY DEF IndInv, UsersOK
  <2>2. Adds(u, line) = {} /\ Leaves(u, line) = {} /\ Takes(u, line) = {}
    BY DEF Quiet, Adds, Leaves, Takes, About
  <2>3. NoSocket \notin Sockets
    BY MatchmakingAssumption DEF NoSocket
  <2>4. CASE userSockets[u] = NoSocket
    <3>1. \A m \in Modes : \A e \in queue[m] : User(e) # u
      BY <2>1, <2>2, <2>4 DEF UserOK, Idle, IdleLine
    <3>2. \A s \in Sockets : UserOf[s] = u => socketUsers[s] = "none"
      BY <2>1, <2>4 DEF UserOK, Idle, Own
    <3> QED
      BY <2>3, <2>4, <3>1, <3>2
  <2>5. CASE userSockets[u] # NoSocket
    <3>1. PICK s : s = userSockets[u]
      OBVIOUS
    <3> DEFINE T == Ticket(s)
    <3>2. /\ s \in Own(u) /\ (\A t \in Own(u) : t # s => socketUsers[t] = "none")
          /\ WaitLine(u, line, queue, T, socketUsers[s]) /\ socketUsers[s] \in Modes
          /\ User(T) = u /\ T.socket = s
      BY <2>1, <2>5, <3>1 DEF UserOK, Waiting, Own, User, Ticket
    <3> HIDE DEF T
    <3>3. T \in queue[socketUsers[s]] /\ Queued(u, queue, T, socketUsers[s])
      BY <2>2, <3>2 DEF WaitLine
    <3>4. \A t \in Sockets : UserOf[t] = u /\ socketUsers[t] # "none" => t = s
      BY <3>2 DEF Own
    <3>5. ASSUME NEW m \in Modes
          PROVE  {e.socket : e \in {f \in queue[m] : User(f) = u}}
                   = {t \in Sockets : UserOf[t] = u /\ userSockets[u] = t /\ socketUsers[t] = m}
      <4>1. \A f \in queue[m] : User(f) = u <=> (m = socketUsers[s] /\ f = T)
        BY <3>2, <3>3 DEF Queued
      <4>2. CASE m = socketUsers[s]
        <5>1. {f \in queue[m] : User(f) = u} = {T}
          BY <3>3, <4>1, <4>2
        <5>2. {t \in Sockets : UserOf[t] = u /\ userSockets[u] = t /\ socketUsers[t] = m} = {s}
          BY <3>1, <3>2, <4>2 DEF Own
        <5> QED
          BY <3>2, <5>1, <5>2
      <4>3. CASE m # socketUsers[s]
        BY <3>1, <4>1, <4>3
      <4> QED
        BY <4>2, <4>3
    <3> QED
      BY <3>1, <3>4, <3>5
  <2> QED
    BY <2>4, <2>5
<1> QED
  BY <1>1, Inductive, PTL

\* A user whose operations met no other has one seat, and none while he waits.
THEOREM OneSeatHolds == Spec => []SeatedOnce
<1>1. IndInv => SeatedOnce
  <2> SUFFICES ASSUME IndInv, NEW u \in Users, u \notin raced
               PROVE  /\ \A m \in DOMAIN matches : \A e, f \in matches[m].players : User(e) = u /\ User(f) = u => e = f
                      /\ \A m, n \in DOMAIN matches :
                           /\ {matches[m].stage, matches[n].stage} \subseteq Current
                           /\ u \in {User(e) : e \in matches[m].seats} \cap {User(e) : e \in matches[n].seats}
                           => m = n
                      /\ userSockets[u] # NoSocket /\ userSockets[u] \in connected
                         => roomOf[userSockets[u]] = 0
    BY DEF SeatedOnce
  <2>1. SeatsOK(u) /\ Waiting(u)
    BY DEF IndInv, UsersOK, UserOK
  <2>2. userSockets[u] # NoSocket => roomOf[userSockets[u]] = 0
    BY <2>1 DEF Waiting
  <2>3. ASSUME NEW m \in DOMAIN matches, NEW n \in DOMAIN matches,
               {matches[m].stage, matches[n].stage} \subseteq Current,
               u \in {User(e) : e \in matches[m].seats} \cap {User(e) : e \in matches[n].seats}
        PROVE  m = n
    <3>1. PICK e \in matches[m].seats, f \in matches[n].seats : User(e) = u /\ User(f) = u
      BY <2>3
    <3> QED
      BY <2>1, <2>3, <3>1 DEF SeatsOK
  <2> QED
    BY <2>1, <2>2, <2>3 DEF SeatsOK
<1> QED
  BY <1>1, Inductive, PTL

\* Whoever had left or gone when his match was made had met another operation, or went
\* while his entry was on the way.
THEOREM WaitingHolds == Spec => []MatchedWereWaiting
<1>1. IndInv => MatchedWereWaiting
  <2> SUFFICES ASSUME IndInv, NEW m \in DOMAIN matches, NEW u \in matches[m].departed, u \notin raced
               PROVE  u \in ghosts
    BY DEF MatchedWereWaiting
  <2>1. matches[m] \in Match
    BY MatchParts DEF IndInv, TypeInv
  <2>2. u \in Users
    BY <2>1 DEF Match
  <2> QED
    BY <2>2 DEF IndInv, UsersOK, UserOK, SeatsOK
<1> QED
  BY <1>1, Inductive, PTL

\* A match that starts whole has the players and bots that its mode asks for.
THEOREM OpponentsHold == Spec => []MatchHasOpponents
<1>1. IndInv => MatchHasOpponents
  <2> SUFFICES ASSUME IndInv, NEW m \in DOMAIN matches, matches[m].stage = "started", ~matches[m].shrunk,
                      {User(e) : e \in matches[m].players} \cap raced = {}
               PROVE  Cardinality({User(e) : e \in matches[m].seats}) + matches[m].bots >= Needed(matches[m].mode)
    BY DEF MatchHasOpponents, Needed
  <2> DEFINE r == matches[m]
             T == {User(e) : e \in r.seats}
  <2>1. r \in Match /\ MatchGood(r)
    BY MatchParts DEF IndInv, TypeInv
  <2>2. r.seats = r.players /\ r.bots = r.wanted /\ Cardinality(r.players) + r.wanted >= Needed(r.mode)
        /\ r.seats \in SUBSET Entry
    BY <2>1 DEF MatchGood, Match, Current
  <2>3. \A e, f \in r.seats : User(e) = User(f) => e = f
    <3> SUFFICES ASSUME NEW e \in r.seats, NEW f \in r.seats, User(e) = User(f) PROVE e = f
      OBVIOUS
    <3>1. User(e) \in Users /\ User(e) \notin raced /\ e \in r.players /\ f \in r.players
      BY <2>2 DEF Entry, User, Users
    <3>2. SeatsOK(User(e))
      BY <3>1 DEF IndInv, UsersOK, UserOK
    <3> QED
      BY <3>1, <3>2 DEF SeatsOK
  <2> HIDE DEF r
  <2>4. Cardinality(T) = Cardinality(r.seats)
    <3> DEFINE seats == r.seats
               g == [e \in seats |-> User(e)]
               U == {g[e] : e \in seats}
    <3>1. IsFiniteSet(seats) /\ g = [e \in seats |-> g[e]] /\ \A e, f \in seats : g[e] = g[f] => e = f
      BY <2>2, <2>3, EntriesAreFew
    <3>2. T = U
      OBVIOUS
    <3> HIDE DEF g, T, seats
    <3>3. Cardinality(U) = Cardinality(seats)
      BY <3>1, ImageOf
    <3> QED
      BY <3>2, <3>3 DEF seats
  <2> QED
    BY <2>2, <2>4 DEF r
<1> QED
  BY <1>1, Inductive, PTL
=============================================================================
