----------------------------- MODULE Matchmaking -----------------------------
(***************************************************************************)
(* Ranked matchmaking (server/src/matchmaking/MatchmakingQueue.ts).        *)
(*                                                                         *)
(* Every operation awaits Redis between its steps.  The client sends its   *)
(* commands in order and Redis answers them in order, so `line` is the     *)
(* queue of commands whose answers are on their way, each with what the    *)
(* operation that sent it goes on with: a command takes effect when it is  *)
(* sent, and its operation goes on when it is the first in line.           *)
(*                                                                         *)
(* Sockets and users are numbers, as entries of one rating are ordered by  *)
(* their text.  Of the time since an entry was added there is whether a    *)
(* bot may take the other seat by now; before, its window may be wider or  *)
(* not yet.                                                                *)
(***************************************************************************)
EXTENDS Integers, FiniteSets, Sequences, SequencesExt, FiniteSetsExt

CONSTANTS
    Sockets,
    UserOf,                \* of a socket
    Rating,                \* of a user in a mode
    Plays,                 \* the modes that a socket may ask for
    MaxJoins,              \* requests to join
    MaxOverlap,            \* commands of a pass still on their way when the next begins
    MaxLine,               \* commands on their way at once
    MaxTroubles,           \* departures (requests to leave the queue or a room, and
                           \* disconnects) and failures (commands and bot pools)
    ELO_WINDOW, MULTIPLAYER_ELO_SPREAD,
    MULTIPLAYER_MIN, MULTIPLAYER_TARGET, MULTIPLAYER_MAX

Modes == {"heads_up", "multiplayer"}
Users == {UserOf[s] : s \in Sockets}

ASSUME MatchmakingAssumption ==
    /\ Sockets \subseteq Nat /\ IsFiniteSet(Sockets) /\ UserOf \in [Sockets -> Nat]
    /\ Rating \in [Modes -> [Users -> Nat]] /\ Plays \in [Sockets -> SUBSET Modes]
    /\ {MaxJoins, MaxLine} \subseteq Nat \ {0} /\ {MaxTroubles, MaxOverlap} \subseteq Nat
    /\ {ELO_WINDOW, MULTIPLAYER_ELO_SPREAD} \subseteq Nat
    /\ MULTIPLAYER_MIN \in 2 .. MULTIPLAYER_MAX /\ MULTIPLAYER_TARGET \in Nat

Entry == [socket : Sockets, nr : 1 .. MaxJoins]
User(e) == UserOf[e.socket]

VARIABLES
    connected,     \* sockets
    joins,         \* requests to join that a socket made
    asking,        \* entries whose rating the database is asked for, with the mode
    line,          \* commands sent to Redis, and what awaits them
    queue,         \* the sorted sets
    overdue,       \* entries that have waited for so long
    userSockets,   \* the socket of a user who waits, or NoSocket
    socketUsers,   \* the mode in which a socket's user waits, or "none"
    matches,       \* the rooms made, in order
    roomOf,        \* socketToRoom: an index of matches, or 0
    troubles,      \* departures and failures; only their bound
    raced,         \* history: users an operation of whom met another, an error, or a
                   \* seat kept on another socket,
    ghosts         \* and users one of whose sockets went while its entry was added

people == <<connected, joins, asking>>
maps == <<userSockets, socketUsers>>
rooms == <<matches, roomOf>>
history == <<raced, ghosts>>
vars == <<people, line, queue, overdue, maps, rooms, troubles, history>>

NoSocket == -1
Current == {"pool", "found", "stranded", "started"}

Init ==
    /\ connected = Sockets /\ joins = [s \in Sockets |-> 0]
    /\ asking = {} /\ line = <<>>
    /\ queue = [m \in Modes |-> {}] /\ overdue = {}
    /\ userSockets = [u \in Users |-> NoSocket]
    /\ socketUsers = [s \in Sockets |-> "none"]
    /\ matches = <<>> /\ roomOf = [s \in Sockets |-> 0]
    /\ troubles = 0 /\ raced = {} /\ ghosts = {}

-----------------------------------------------------------------------------
(* Commands.  One that fails is answered with an error, whether it had its  *)
(* effect or not.                                                           *)

Bearable == troubles < MaxTroubles
Sent(ok) == ok \/ Bearable
Failures(ok) == troubles' = IF ok THEN troubles ELSE troubles + 1
MoreToSend == Len(line) < MaxLine

\* The users an operation is about.
About(op) ==
    CASE op.kind \in {"zadd", "leaveScan", "leaveRemove"} -> {User(op.entry)}
      [] op.kind = "read" -> {User(e) : e \in op.entries}
      [] OTHER -> {User(e) : e \in op.chosen}
LeavingUsers == {User(line[i].entry) : i \in {j \in DOMAIN line : line[j].kind \in {"leaveScan", "leaveRemove"}}}
Passes == {i \in DOMAIN line : line[i].kind \in {"read", "scan", "remove"}}
Read(u) == {i \in Passes : u \in About(line[i])}

\* ZRANGE: by rating, then by text, which begins with the user.
Before(mode, e, f) ==
    LET key(x) == <<Rating[mode][User(x)], User(x), x.socket, x.nr>>
    IN  \E i \in 1 .. 4 : key(e)[i] < key(f)[i] /\ \A j \in 1 .. i - 1 : key(e)[j] = key(f)[j]
Sorted(mode, S) ==
    [i \in 1 .. Cardinality(S) |->
        CHOOSE e \in S : Cardinality({f \in S : Before(mode, f, e)}) = i - 1]

-----------------------------------------------------------------------------
(* Joining and leaving.                                                     *)

RoomStage(s) == IF roomOf[s] = 0 THEN "none" ELSE matches[roomOf[s]].stage

\* Mutant of FreeToJoin: a player who sits in a game may queue for another.
AlwaysFree(s) == TRUE

\* The room of the socket, if any, is over; then the mapping is dropped.
FreeToJoin(s) == RoomStage(s) \in {"none", "over", "gone"}

Joining(s) ==
    \/ \E a \in asking : a.entry.socket = s
    \/ \E i \in DOMAIN line : line[i].kind = "zadd" /\ line[i].entry.socket = s

Made == Cardinality({e \in Entry : e.nr <= joins[e.socket]})

\* A seat that the user kept when another socket of his went: joinQueue asks for
\* the room of the socket that joins, and misses it.
SeatElsewhere(s) ==
    \E m \in DOMAIN matches : /\ matches[m].stage \in Current
                             /\ \E e \in matches[m].seats : User(e) = UserOf[s] /\ e.socket # s

\* joinQueue up to the database.
JoinQueue(s, mode) ==
    /\ s \in connected /\ Made < MaxJoins
    /\ userSockets[UserOf[s]] = NoSocket
    /\ FreeToJoin(s)
    /\ joins' = [joins EXCEPT ![s] = @ + 1]
    /\ asking' = asking \cup {[entry |-> [socket |-> s, nr |-> joins[s] + 1], mode |-> mode]}
    /\ roomOf' = [roomOf EXCEPT ![s] = 0]
    /\ IF SeatElsewhere(s) \/ \E t \in Sockets : UserOf[t] = UserOf[s] /\ Joining(t)
         THEN raced' = raced \cup {UserOf[s]} ELSE UNCHANGED raced
    /\ UNCHANGED <<connected, line, queue, overdue, maps, matches, troubles, ghosts>>

\* Mutant of AddEntry: an entry is added again until that succeeds.
AddRetried(a, ok) ==
    /\ a \in asking /\ MoreToSend /\ Sent(ok)
    /\ asking' = IF ok THEN asking \ {a} ELSE asking
    /\ \E done \in {ok, TRUE} :
         queue' = IF done THEN [queue EXCEPT ![a.mode] = @ \cup {a.entry}] ELSE queue
    /\ line' = Append(line, [kind |-> "zadd", entry |-> a.entry, mode |-> a.mode, ok |-> ok])
    /\ Failures(ok)
    /\ UNCHANGED <<connected, joins, overdue, maps, rooms, history>>

\* The rating is there (or its default): zadd.
AddEntry(a, ok) ==
    /\ a \in asking /\ MoreToSend /\ Sent(ok)
    /\ asking' = asking \ {a}
    /\ \E done \in {ok, TRUE} :
         queue' = IF done THEN [queue EXCEPT ![a.mode] = @ \cup {a.entry}] ELSE queue
    /\ line' = Append(line, [kind |-> "zadd", entry |-> a.entry, mode |-> a.mode, ok |-> ok])
    /\ Failures(ok)
    /\ UNCHANGED <<connected, joins, overdue, maps, rooms, history>>

SendLeave(s) ==
    LET u == UserOf[s]
        own == {e \in queue[socketUsers[s]] : User(e) = u}
        first == IF own = {} THEN own ELSE {Head(Sorted(socketUsers[s], own))}
    IN  \E ok \in BOOLEAN :
          /\ MoreToSend /\ troubles' = troubles + IF ok THEN 1 ELSE 2
          /\ line' = Append(line, [kind |-> "leaveScan", mode |-> socketUsers[s],
                                   entry |-> [socket |-> s, nr |-> 1], found |-> first, ok |-> ok])

\* matchmaking:leave.  A request of one's own at a time is a bound: a second would
\* find nothing more to remove.
LeaveQueue(s) ==
    /\ s \in connected /\ socketUsers[s] # "none" /\ Bearable
    /\ ~\E i \in DOMAIN line : line[i].kind \in {"leaveScan", "leaveRemove"} /\ line[i].entry.socket = s
    /\ SendLeave(s)
    /\ raced' = raced \cup (IF Read(UserOf[s]) # {} THEN {UserOf[s]} ELSE {})
    /\ UNCHANGED <<people, queue, overdue, maps, rooms, ghosts>>

-----------------------------------------------------------------------------
(* Rooms.  Seats are those in the room who keep it alive.                   *)

Ended(stage) ==
    [mode |-> "none", players |-> {}, seats |-> {}, bots |-> 0, wanted |-> 0, departed |-> {},
     shrunk |-> FALSE, stage |-> stage]

\* A seat given up: of two that one socket was given, the second.
GiveUpSeat(s) ==
    LET m == roomOf[s]
        own == {e \in matches[m].seats : e.socket = s}
        seats == {e \in matches[m].seats : e.socket # s \/ \E f \in own : f.nr > e.nr}
    IN  matches' = [matches EXCEPT ![m] =
            IF seats = {} THEN Ended(IF matches[m].stage = "over" THEN "over" ELSE "gone")
            ELSE [@ EXCEPT !.seats = seats, !.shrunk = TRUE]]

\* room:leave.
LeaveRoom(s) ==
    /\ s \in connected /\ roomOf[s] # 0 /\ Bearable
    /\ GiveUpSeat(s)
    /\ LET m == roomOf[s]
       IN  roomOf' = [t \in Sockets |-> IF t = s \/ (matches'[m].stage = "gone" /\ roomOf[t] = m)
                                        THEN 0 ELSE roomOf[t]]
    /\ troubles' = troubles + 1
    /\ UNCHANGED <<people, line, queue, overdue, maps, history>>

\* Mutant: only the room hears of a disconnect.
StayQueued(s) ==
    /\ s \in connected /\ Bearable
    /\ connected' = connected \ {s}
    /\ troubles' = troubles + 1
    /\ UNCHANGED <<line, history, matches>>
    /\ roomOf' = [roomOf EXCEPT ![s] = 0]
    /\ UNCHANGED <<joins, asking, queue, overdue, maps>>

\* disconnect: out of the queue, if the maps have the socket by now, and out of a
\* room that is in its lobby with no countdown running.
Disconnect(s) ==
    /\ s \in connected /\ Bearable
    /\ connected' = connected \ {s}
    /\ IF socketUsers[s] # "none" THEN SendLeave(s) ELSE troubles' = troubles + 1 /\ UNCHANGED line
    /\ raced' = raced \cup (IF Read(UserOf[s]) # {} THEN {UserOf[s]} ELSE {})
    /\ ghosts' = ghosts \cup (IF Joining(s) THEN {UserOf[s]} ELSE {})
    /\ IF RoomStage(s) \in {"pool", "found", "stranded"} THEN GiveUpSeat(s)
       ELSE UNCHANGED matches
    /\ roomOf' = [roomOf EXCEPT ![s] = 0]
    /\ UNCHANGED <<joins, asking, queue, overdue, maps>>

-----------------------------------------------------------------------------
(* Choosing.                                                               *)

Widened(base, long) == IF long THEN (base * 3) \div 2 ELSE base

\* matchHeadsUp: the closest neighbours within a window; else who is first of
\* those that waited too long, alone.  The windows of `long` are wider by now.
HeadsUpChoice(entries, long) ==
    LET n == Len(entries)
        window(i) == Widened(ELO_WINDOW, entries[i] \in long \/ entries[i + 1] \in long)
        diff(i) == Rating["heads_up"][User(entries[i + 1])] - Rating["heads_up"][User(entries[i])]
        near == {i \in 1 .. n - 1 : diff(i) <= window(i)}
        late == {i \in 1 .. n : entries[i] \in overdue}
    IN  IF near # {}
          THEN LET best == Min({i \in near : \A j \in near : diff(i) <= diff(j)})
               IN  {entries[best], entries[best + 1]}
        ELSE IF late # {} THEN {entries[Min(late)]}
        ELSE {}

\* The group that begins with `start`: as far as the spread of those before allows.
GroupFrom(entries, long, start) ==
    LET rating(i) == Rating["multiplayer"][User(entries[i])]
        fits(end) == /\ end - start < MULTIPLAYER_MAX
                     /\ \A k \in start + 1 .. end :
                          rating(k) - rating(start) <=
                            Widened(MULTIPLAYER_ELO_SPREAD, \E i \in start .. k - 1 : entries[i] \in long)
    IN  {entries[i] : i \in {k \in start .. Len(entries) : fits(k)}}

\* findCompatibleGroup: the largest, the first of them, but the first that
\* reaches the target.
FindCompatibleGroup(entries, long) ==
    LET size(i) == Cardinality(GroupFrom(entries, long, i))
        enough == {i \in DOMAIN entries : size(i) >= MULTIPLAYER_MIN}
        target == {i \in enough : size(i) >= MULTIPLAYER_TARGET}
        largest == {i \in enough : \A j \in enough : size(j) <= size(i)}
    IN  IF enough = {} THEN {}
        ELSE GroupFrom(entries, long, IF target # {} THEN Min(target) ELSE Min(largest))

\* matchMultiplayer: all of too few, when one of them waited too long.
MultiplayerChoice(entries, long) ==
    IF Len(entries) >= MULTIPLAYER_MIN THEN FindCompatibleGroup(entries, long)
    ELSE IF Range(entries) \cap overdue # {} THEN Range(entries)
    ELSE {}

Choice(mode, S, long) ==
    IF S = {} THEN {}
    ELSE IF mode = "heads_up" THEN HeadsUpChoice(Sorted(mode, S), long)
    ELSE MultiplayerChoice(Sorted(mode, S), long)

\* Whoever is overdue has waited long; of the others any may have.
Long(S) == {late \in SUBSET S : S \cap overdue \subseteq late}

-----------------------------------------------------------------------------
(* A matching pass.                                                        *)

\* Mutant: a pass looks for two who wait.
PassForTwo ==
    /\ Cardinality({u \in Users : userSockets[u] # NoSocket}) > 1
    /\ \E mode \in Modes :
         /\ queue[mode] # {} /\ MoreToSend
         /\ line' = Append(line, [kind |-> "read", mode |-> mode, entries |-> queue[mode], ok |-> TRUE])
    /\ UNCHANGED <<people, queue, overdue, maps, rooms, troubles, history>>

\* runMatchingPass: nothing is asked when nobody waits.  It reads both queues at
\* once; that one of them which is empty needs nothing more.
StartPass ==
    LET waiting == {User(e) : e \in UNION {queue[m] : m \in Modes}}
    IN  \E toRead \in {<<"heads_up">>, <<"multiplayer">>, <<"heads_up", "multiplayer">>} :
        /\ Range(toRead) = {m \in Modes : queue[m] # {}} /\ \E u \in Users : userSockets[u] # NoSocket
        /\ Cardinality(Passes) <= MaxOverlap /\ Len(line) + Len(toRead) <= MaxLine
        /\ \E bad \in 0 .. Len(toRead) :
             /\ Sent(bad = 0) /\ Failures(bad = 0)
             /\ line' = line \o [i \in DOMAIN toRead |->
                    [kind |-> "read", mode |-> toRead[i], entries |-> queue[toRead[i]], ok |-> i # bad]]
        /\ raced' = raced \cup (waiting \cap LeavingUsers)
        /\ UNCHANGED <<people, queue, overdue, maps, rooms, ghosts>>

\* removeUsersFromQueue looks for as many entries as there are users.
ToRemove(mode, chosen) ==
    LET users == {User(e) : e \in chosen}
        theirs == Sorted(mode, {e \in queue[mode] : User(e) \in users})
    IN  SubSeq(theirs, 1, Min({Len(theirs), Cardinality(users)}))

\* The room is made when all are removed, whoever is in the queue by now.
Seated(mode, chosen, bots) ==
    [mode |-> mode, players |-> chosen, seats |-> chosen, bots |-> 0, wanted |-> bots,
     departed |-> {User(e) : e \in {f \in chosen : f.socket \notin connected
                                                   \/ socketUsers[f.socket] = "none"}},
     shrunk |-> FALSE,
     stage |-> IF mode = "heads_up" /\ bots = 0 THEN "found" ELSE "pool"]

\* createMatch, createHeadsUpBotMatch and createMultiplayerMatch.
CreateMatch(mode, chosen) ==
    LET users == {User(e) : e \in chosen}
        n == Cardinality(chosen)
        sockets == {e.socket : e \in chosen}
    IN  /\ userSockets' = [u \in Users |-> IF u \in users THEN NoSocket ELSE userSockets[u]]
        /\ socketUsers' = [s \in Sockets |-> IF s \in sockets THEN "none" ELSE socketUsers[s]]
        /\ \E total \in IF mode = "heads_up" THEN {2} ELSE MULTIPLAYER_MIN .. MULTIPLAYER_MAX :
             matches' = Append(matches, Seated(mode, chosen, IF total > n THEN total - n ELSE 0))
        /\ roomOf' = [s \in Sockets |-> IF s \in sockets THEN Len(matches) + 1 ELSE roomOf[s]]

\* The next entry is removed, or all are.
RemoveNext(mode, chosen, rest) ==
    IF rest = <<>>
      THEN /\ CreateMatch(mode, chosen)
           /\ line' = Tail(line)
           /\ UNCHANGED <<queue, troubles>>
      ELSE /\ \E ok \in BOOLEAN : \E done \in {ok, TRUE} :
                /\ Sent(ok) /\ Failures(ok)
                /\ queue' = IF done THEN [queue EXCEPT ![mode] = @ \ {Head(rest)}] ELSE queue
                /\ line' = Append(Tail(line), [kind |-> "remove", mode |-> mode, chosen |-> chosen,
                                               rest |-> Tail(rest), ok |-> ok])
           /\ UNCHANGED <<maps, rooms>>

-----------------------------------------------------------------------------
(* Answers.                                                                *)

Joined(op) ==
    /\ userSockets' = [userSockets EXCEPT ![User(op.entry)] = op.entry.socket]
    /\ socketUsers' = [socketUsers EXCEPT ![op.entry.socket] = op.mode]

HasLeft(op) ==
    /\ userSockets' = [userSockets EXCEPT ![User(op.entry)] = NoSocket]
    /\ socketUsers' = [socketUsers EXCEPT ![op.entry.socket] = "none"]

\* An error ends the operation: a join is refused, a leave and a pass give up
\* where they are.
AnswerError ==
    /\ line # <<>> /\ ~Head(line).ok
    /\ line' = Tail(line)
    /\ raced' = raced \cup About(Head(line))
    /\ UNCHANGED <<people, queue, overdue, maps, rooms, troubles, ghosts>>

AnswerJoin ==
    /\ line # <<>> /\ Head(line).ok /\ Head(line).kind = "zadd"
    /\ line' = Tail(line)
    /\ Joined(Head(line))
    /\ UNCHANGED <<people, queue, overdue, rooms, troubles, history>>

\* Mutant: leaving clears the maps and leaves the entry.
ForgetOnly ==
    /\ line # <<>> /\ Head(line).ok /\ Head(line).kind \in {"leaveScan", "leaveRemove"}
    /\ line' = Tail(line)
    /\ HasLeft(Head(line))
    /\ UNCHANGED <<people, queue, overdue, rooms, troubles, history>>

AnswerLeave ==
    /\ line # <<>> /\ Head(line).ok /\ Head(line).kind \in {"leaveScan", "leaveRemove"}
    /\ LET op == Head(line)
       IN  IF op.found # {}
             THEN \E ok \in BOOLEAN : \E done \in {ok, TRUE} :
                    /\ Sent(ok) /\ Failures(ok)
                    /\ queue' = IF done THEN [queue EXCEPT ![op.mode] = @ \ op.found] ELSE queue
                    /\ line' = Append(Tail(line), [op EXCEPT !.kind = "leaveRemove",
                                                             !.found = {}, !.ok = ok])
                    /\ UNCHANGED maps
             ELSE /\ line' = Tail(line) /\ HasLeft(op)
                  /\ UNCHANGED <<queue, troubles>>
    /\ UNCHANGED <<people, overdue, rooms, history>>

\* The pass has read the queue: it chooses, and looks where the chosen are now.
AnswerRead ==
    /\ line # <<>> /\ Head(line).ok /\ Head(line).kind = "read"
    /\ LET op == Head(line)
       IN  \E chosen \in {Choice(op.mode, op.entries, long) : long \in Long(op.entries)} :
             LET users == {User(e) : e \in chosen}
             IN  IF chosen = {}
                   THEN line' = Tail(line) /\ UNCHANGED <<troubles, raced>>
                   ELSE \E ok \in BOOLEAN :
                          /\ Sent(ok) /\ Failures(ok)
                          /\ line' = Append(Tail(line),
                               [kind |-> "scan", mode |-> op.mode, chosen |-> chosen,
                                rest |-> ToRemove(op.mode, chosen), ok |-> ok])
                          /\ raced' = raced
                               \cup {u \in users : Cardinality(Read(u)) > 1}
                               \cup (IF users \cap raced # {} THEN users ELSE {})
    /\ UNCHANGED <<people, queue, overdue, maps, rooms, ghosts>>

AnswerRemove ==
    /\ line # <<>> /\ Head(line).ok /\ Head(line).kind \in {"scan", "remove"}
    /\ LET op == Head(line) IN RemoveNext(op.mode, op.chosen, op.rest)
    /\ UNCHANGED <<people, overdue, history>>

Answer == AnswerError \/ AnswerJoin \/ AnswerLeave \/ AnswerRead \/ AnswerRemove

-----------------------------------------------------------------------------
(* A match until its game is over.                                         *)

Advance(m, from, to) == m \in DOMAIN matches /\ matches[m].stage = from
                        /\ matches' = [matches EXCEPT ![m].stage = to]
NothingElse == UNCHANGED <<people, line, queue, overdue, maps, roomOf, history>>

\* Mutant: the game does not wait for the bots.
SeatBotsLater(m) ==
    /\ m \in DOMAIN matches /\ matches[m].stage = "pool"
    /\ matches' = [matches EXCEPT ![m].stage = "found"]
    /\ UNCHANGED troubles /\ NothingElse

\* The bots are known: they are added, and the players told.
AddBots(m) ==
    /\ m \in DOMAIN matches /\ matches[m].stage = "pool"
    /\ matches' = [matches EXCEPT ![m].stage = "found", ![m].bots = matches[m].wanted]
    /\ UNCHANGED troubles /\ NothingElse

\* The database fails: the pass ends, and the room with its players stays as it is.
BotsFail(m) ==
    /\ Bearable /\ troubles' = troubles + 1
    /\ Advance(m, "pool", "stranded") /\ NothingElse

\* startMatchedGame: its countdown begins, in which a disconnect keeps the seat, and
\* then the game with whoever is there.  "started" is both.
StartMatchedGame(m) == Advance(m, "found", "started") /\ UNCHANGED troubles /\ NothingElse

\* Its game is over.
GameOver(m) ==
    /\ m \in DOMAIN matches /\ matches[m].stage = "started"
    /\ matches' = [matches EXCEPT ![m] = Ended("over")]
    /\ UNCHANGED troubles /\ NothingElse

\* An entry has waited for MATCHMAKING_BOT_BACKFILL_SECONDS.
WaitTooLong(e) ==
    /\ e \notin overdue /\ \E m \in Modes : e \in queue[m]
    /\ overdue' = overdue \cup {e}
    /\ UNCHANGED <<people, line, queue, maps, rooms, troubles, history>>

RatingAnswers == \E a \in asking, ok \in BOOLEAN : AddEntry(a, ok)

Next ==
    \/ \E s \in Sockets : \E mode \in Plays[s] : JoinQueue(s, mode)
    \/ \E s \in Sockets : LeaveQueue(s) \/ LeaveRoom(s) \/ Disconnect(s)
    \/ RatingAnswers
    \/ StartPass
    \/ Answer
    \/ \E m \in DOMAIN matches :
         AddBots(m) \/ BotsFail(m) \/ StartMatchedGame(m) \/ GameOver(m)
    \/ \E e \in Entry : WaitTooLong(e)

Spec == Init /\ [][Next]_vars

\* Redis answers: weak fairness of Answer, which is enabled when something is in
\* line and is the only step that takes the first away.
RedisAnswers == <>[](line # <<>>) => []<><<~IsPrefix(line, line')>>_line

\* Answers of Redis and of the database, the interval of the passes, the clock.
FairSpec ==
    /\ Spec
    /\ RedisAnswers /\ WF_vars(RatingAnswers)
    /\ WF_vars(StartPass) /\ WF_vars(\E e \in Entry : WaitTooLong(e))

-----------------------------------------------------------------------------
(* Properties.                                                             *)

\* Besides the shape: entries were asked for and are added once, a user's socket is
\* the user's own, and a room's seats are players it was made for.
MatchTypeOK ==
    /\ connected \subseteq Sockets /\ joins \in [Sockets -> 0 .. MaxJoins]
    /\ asking \subseteq [entry : Entry, mode : Modes]
    /\ \A a \in asking : \A mode \in Modes : a.entry \notin queue[mode]
    /\ \A mode \in Modes : \A e \in queue[mode] : e \in Entry /\ e.nr <= joins[e.socket]
    /\ overdue \subseteq Entry
    /\ userSockets \in [Users -> Sockets \cup {NoSocket}]
    /\ \A u \in Users : userSockets[u] # NoSocket => UserOf[userSockets[u]] = u
    /\ socketUsers \in [Sockets -> Modes \cup {"none"}]
    /\ roomOf \in [Sockets -> 0 .. Len(matches)]
    /\ \A m \in DOMAIN matches : matches[m].seats \subseteq matches[m].players
    /\ troubles \in 0 .. MaxTroubles + 1 /\ {raced, ghosts} \subseteq SUBSET Users

\* No operation is under way for the user.
Quiet(u) ==
    /\ \A a \in asking : User(a.entry) # u
    /\ \A i \in DOMAIN line : u \notin About(line[i])

\* The maps and Redis agree on who waits, and where: "Kept in sync with Redis on
\* add/remove".  Requests that overlap break it: two joins of a user, a pass that
\* had read who is leaving, two passes, or a command that failed.
IndexFollowsQueue ==
    \A u \in Users : Quiet(u) /\ u \notin raced =>
        /\ \A m \in Modes : {e.socket : e \in {f \in queue[m] : User(f) = u}}
                            = {s \in Sockets : UserOf[s] = u /\ userSockets[u] = s /\ socketUsers[s] = m}
        /\ \A s \in Sockets : UserOf[s] = u /\ socketUsers[s] # "none" => userSockets[u] = s

\* Nobody sits twice: not in two matches that go on, nor twice in one, nor in a
\* match while waiting for another, unless joins or passes overlapped, or he joined
\* on another socket than the one whose seat was kept ("Already in a game" is
\* answered for the socket's own room only, MatchmakingQueue.ts:184).
SeatedOnce ==
    \A u \in Users : u \notin raced =>
        /\ \A m \in DOMAIN matches : \A e, f \in matches[m].players : User(e) = u /\ User(f) = u => e = f
        /\ \A m, n \in DOMAIN matches :
             /\ {matches[m].stage, matches[n].stage} \subseteq Current
             /\ u \in {User(e) : e \in matches[m].seats} \cap {User(e) : e \in matches[n].seats}
             => m = n
        /\ userSockets[u] # NoSocket /\ userSockets[u] \in connected
           => roomOf[userSockets[u]] = 0

\* Who is seated was still waiting, on a socket that is there: who has left or
\* gone is matched only if a pass had read the queue before, or if the socket
\* went while its entry was on the way.
MatchedWereWaiting ==
    \A m \in DOMAIN matches : matches[m].departed \subseteq raced \cup ghosts

\* A game that starts has as many players as its mode asks for, bots included,
\* unless somebody left the room before.
MatchHasOpponents ==
    \A m \in DOMAIN matches : matches[m].stage = "started" /\ ~matches[m].shrunk
                              /\ {User(e) : e \in matches[m].players} \cap raced = {} =>
        Cardinality({User(e) : e \in matches[m].seats}) + matches[m].bots
            >= IF matches[m].mode = "heads_up" THEN 2 ELSE MULTIPLAYER_MIN

\* Three or more wait whose ratings are too far apart: then no bot fills in.
Incompatible ==
    /\ Cardinality(queue["multiplayer"]) >= MULTIPLAYER_MIN
    /\ Choice("multiplayer", queue["multiplayer"], queue["multiplayer"]) = {}

Waits(u) == userSockets[u] # NoSocket /\ u \notin raced

\* From some time on nobody asks to join.
ArrivalsEnd == <>[](asking = {})

\* Once arrivals end, who waits is matched, with a bot if need be, or leaves.  That they do
\* not overtake him for ever has to be assumed: a heads-up pass that finds a pair gives
\* nobody a bot.
WaitersAreServed ==
    ArrivalsEnd =>
        \A u \in Users :
            Waits(u) ~> ~Waits(u) \/ (socketUsers[userSockets[u]] = "multiplayer" /\ Incompatible)
=============================================================================
