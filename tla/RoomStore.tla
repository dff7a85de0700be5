------------------------------ MODULE RoomStore ------------------------------
(***************************************************************************)
(* One room's snapshots in Redis (server/src/rooms/RedisStore,             *)
(* RoomManager's persistence, the startup and shutdown of server/src/      *)
(* index.ts).                                                              *)
(*                                                                         *)
(* A handler changes the room and sends a snapshot without waiting; a lost *)
(* connection changes the room and sends nothing.  The Redis               *)
(* client sends commands in order; one that fails is sent again after a    *)
(* delay, up to MaxRetries times, and by then later ones may have been     *)
(* answered.  A version stands for everything Room.serialize writes; that  *)
(* the room is removed counts as its last version.  The instances of the   *)
(* server start in order; with a rolling deploy the next one is up before  *)
(* the last one is told to stop.                                           *)
(***************************************************************************)
EXTENDS Redis, Integers, FiniteSets, Sequences, SequencesExt

CONSTANTS
    NumInstances,
    MaxVersion,      \* changes of the room
    GameFrom,        \* the version with which its game starts
    RollingDeploy,   \* whether the next instance starts before the last one stops
    MaxRetries,
    MaxWrites        \* writes of an instance that are not settled

ASSUME StoreAssumption ==
    /\ RollingDeploy \in BOOLEAN
    /\ NumInstances \in Nat \ {0} /\ MaxVersion \in Nat /\ GameFrom \in Nat
    /\ MaxRetries \in Nat /\ MaxWrites \in Nat \ {0}

Instances == 1 .. NumInstances
NoVersion == 0
Removed == MaxVersion + 1
Versions == NoVersion .. Removed
Rooms == 1 .. MaxVersion          \* the versions of a room that is there

VARIABLES
    status,      \* of each instance
    memory,      \* the version each instance has
    restored,    \* instances whose room nobody has come back to since it was restored
    version,     \* the newest there was
    stored,      \* what Redis has
    line,        \* writes sent, in order, for each instance: [version, tries, last]
    waiting,     \* writes that will be sent again
    unsaved,     \* history: how many changes of memory came after its last snapshot,
    missed,      \* a write failed since the store last had what memory has,
    revived,     \* a join ended in a room that had been deleted,
    handedOver,  \* the version that the last shutdown persisted,
    together     \* and two instances were up at once

storeVars == <<status, memory, restored, version, stored, line, waiting,
               unsaved, missed, revived, handedOver, together>>
history == <<missed, revived, handedOver, together>>
LastSaved(i) == memory[i] - unsaved[i]

Write == [version : Versions, tries : 0 .. MaxRetries, last : BOOLEAN]
Statuses == {"off", "up", "stopping", "gone"}
Running(i) == status[i] \in {"up", "stopping"}
Open(i) == waiting[i] \cup Range(line[i])

StoreInit ==
    /\ status = [i \in Instances |-> "off"]
    /\ memory = [i \in Instances |-> NoVersion]
    /\ restored = {} /\ version = NoVersion /\ stored = NoVersion
    /\ line = [i \in Instances |-> <<>>]
    /\ waiting = [i \in Instances |-> {}]
    /\ unsaved = [i \in Instances |-> 0]
    /\ handedOver = NoVersion /\ missed = FALSE /\ revived = FALSE /\ together = FALSE

\* persist and remove: the snapshot is taken now.
SendWrite(i, v, last) ==
    /\ Cardinality(waiting[i]) + Len(line[i]) < MaxWrites
    /\ line' = [line EXCEPT ![i] = Append(@, [version |-> v, tries |-> 0, last |-> last])]
    /\ unsaved' = [unsaved EXCEPT ![i] = 0]
    /\ UNCHANGED waiting

-----------------------------------------------------------------------------
(* The room's life.                                                        *)

\* restoreFromRedis, once.  Without Redis it finds no rooms.
Boot(i) ==
    /\ status[i] = "off"
    /\ \A j \in 1 .. i - 1 : status[j] # "off" /\ (RollingDeploy \/ ~Running(j))
    /\ status' = [status EXCEPT ![i] = "up"]
    /\ LET found == redis = "ready" /\ stored \in Rooms
       IN  /\ memory' = [memory EXCEPT ![i] = IF found THEN stored ELSE NoVersion]
           /\ restored' = IF found THEN restored \cup {i} ELSE restored
    /\ together' = (together \/ \E j \in Instances : Running(j))
    /\ UNCHANGED <<redis, version, stored, line, waiting, unsaved, missed, revived, handedOver>>

\* A handler creates the room, or changes it.  In a restored room that takes a
\* player who came back.
ChangeRoom(i) ==
    /\ Running(i) /\ version < MaxVersion
    /\ version = NoVersion \/ (memory[i] \in Rooms /\ i \notin restored)
    /\ version' = version + 1
    /\ memory' = [memory EXCEPT ![i] = version + 1]
    /\ SendWrite(i, version + 1, FALSE)
    /\ UNCHANGED <<redis, status, restored, stored, history>>

\* The connection of a player is lost while others are there: he is removed from the
\* lobby or marked in the game, and nothing is persisted.  (game:start and a match
\* that is found persist what they set when their countdown ends.)
Disconnect(i) ==
    /\ Running(i) /\ memory[i] \in Rooms /\ i \notin restored
    /\ version < MaxVersion /\ version + 1 # GameFrom
    /\ version' = version + 1
    /\ memory' = [memory EXCEPT ![i] = version + 1]
    /\ unsaved' = [unsaved EXCEPT ![i] = @ + version + 1 - memory[i]]
    /\ UNCHANGED <<redis, status, restored, stored, line, waiting, history>>

\* A player reconnects to a restored room, whose snapshot is written again with
\* the new token.
ComeBack(i) ==
    /\ Running(i) /\ i \in restored /\ version < MaxVersion
    /\ restored' = restored \ {i}
    /\ version' = version + 1
    /\ memory' = [memory EXCEPT ![i] = version + 1]
    /\ SendWrite(i, version + 1, FALSE)
    /\ UNCHANGED <<redis, status, stored, history>>

\* Mutant: a room that is deleted stays in Redis until it expires.
DeleteLocally(i) ==
    /\ status[i] = "up" /\ memory[i] \in Rooms
    /\ memory' = [memory EXCEPT ![i] = Removed]
    /\ restored' = restored \ {i}
    /\ unsaved' = [unsaved EXCEPT ![i] = 0]
    /\ UNCHANGED <<redis, status, version, stored, line, waiting, history>>

\* deleteRoom: the host closed it, the last player left, or the sweep found it
\* empty, as a restored room is until somebody comes back.
DeleteRoom(i) ==
    /\ status[i] = "up" /\ memory[i] \in Rooms
    /\ memory' = [memory EXCEPT ![i] = Removed]
    /\ restored' = restored \ {i}
    /\ SendWrite(i, Removed, FALSE)
    /\ UNCHANGED <<redis, status, version, stored, history>>

\* A join that was let in before the room was deleted ends now: it adds the
\* player to what was the room, and persists it.
LateJoin(i) ==
    /\ Running(i) /\ memory[i] = Removed /\ version < MaxVersion
    /\ version' = version + 1
    /\ revived' = TRUE
    /\ SendWrite(i, version + 1, FALSE)
    /\ UNCHANGED <<redis, status, memory, restored, stored, missed, handedOver, together>>

-----------------------------------------------------------------------------
(* Writes.                                                                 *)

\* The oldest command is done and its answer arrives.
Settle(i) ==
    /\ Running(i) /\ redis = "ready" /\ line[i] # <<>>
    /\ stored' = Head(line[i]).version
    /\ line' = [line EXCEPT ![i] = Tail(@)]
    /\ handedOver' = IF Head(line[i]).last THEN stored' ELSE handedOver
    /\ missed' = (missed /\ (stored' # LastSaved(i) \/ waiting[i] # {} \/ line'[i] # <<>>))
    /\ UNCHANGED <<redis, status, memory, restored, version, waiting, unsaved, revived, together>>

\* Mutant: the retries are not counted against the limit.
MissAndRetry(i) ==
    /\ Running(i) /\ line[i] # <<>>
    /\ LET w == Head(line[i])
       IN  /\ stored' \in {stored} \cup IF redis # "down" THEN {w.version} ELSE {}
           /\ waiting' = [waiting EXCEPT ![i] = @ \cup {[w EXCEPT !.tries = @ + 1]}]
    /\ line' = [line EXCEPT ![i] = Tail(@)]
    /\ missed' = TRUE
    /\ UNCHANGED <<redis, status, memory, restored, version, unsaved, revived, handedOver, together>>

\* It fails, or is done and the answer is lost.  An error that is thrown leads to
\* another try, but for the last; one that exec returns in its result is not seen.
Miss(i) ==
    /\ Running(i) /\ line[i] # <<>>
    /\ LET w == Head(line[i])
       IN  /\ stored' \in {stored} \cup IF redis # "down" THEN {w.version} ELSE {}
           /\ \/ UNCHANGED waiting
              \/ /\ w.tries < MaxRetries
                 /\ waiting' = [waiting EXCEPT ![i] = @ \cup {[w EXCEPT !.tries = @ + 1]}]
    /\ line' = [line EXCEPT ![i] = Tail(@)]
    /\ missed' = TRUE
    /\ UNCHANGED <<redis, status, memory, restored, version, unsaved, revived, handedOver, together>>

\* The delay of a write is over.
Retry(i) ==
    /\ Running(i)
    /\ \E w \in waiting[i] :
         /\ waiting' = [waiting EXCEPT ![i] = @ \ {w}]
         /\ line' = [line EXCEPT ![i] = Append(@, w)]
    /\ UNCHANGED <<redis, status, memory, restored, version, stored, unsaved, history>>

-----------------------------------------------------------------------------
(* Stopping.                                                               *)

Gone(i) ==
    /\ status' = [status EXCEPT ![i] = "gone"]
    /\ memory' = [memory EXCEPT ![i] = NoVersion]
    /\ restored' = restored \ {i}
    /\ line' = [line EXCEPT ![i] = <<>>]
    /\ waiting' = [waiting EXCEPT ![i] = {}]
    /\ unsaved' = [unsaved EXCEPT ![i] = 0]
    /\ missed' = FALSE
    /\ UNCHANGED <<redis, version, revived, together>>

Crash(i) ==
    /\ Running(i)
    /\ Gone(i)
    /\ UNCHANGED <<stored, handedOver>>

\* SIGTERM: shutdown stops the timers and persists all rooms.
Shutdown(i) ==
    /\ status[i] = "up"
    /\ RollingDeploy => i < NumInstances /\ Running(i + 1)
    /\ status' = [status EXCEPT ![i] = "stopping"]
    /\ \/ memory[i] \in Rooms /\ SendWrite(i, memory[i], TRUE)
       \/ memory[i] \notin Rooms /\ UNCHANGED <<line, waiting, unsaved>>
    /\ UNCHANGED <<redis, memory, restored, version, stored, history>>

\* When that is settled it closes the sockets, which ends the lobbies of all who
\* are in them (the removal may still be sent), and exits.
Exit(i) ==
    /\ status[i] = "stopping"
    /\ \A w \in Open(i) : ~w.last
    /\ LET lobby == memory[i] \in Rooms /\ memory[i] < GameFrom /\ i \notin restored
       IN  stored' \in {stored} \cup IF lobby /\ redis = "ready" THEN {Removed} ELSE {}
    /\ Gone(i)
    /\ UNCHANGED handedOver

StoreNext ==
    \E i \in Instances :
       \/ Boot(i) \/ ChangeRoom(i) \/ Disconnect(i) \/ ComeBack(i) \/ DeleteRoom(i) \/ LateJoin(i)
       \/ Settle(i) \/ Miss(i) \/ Retry(i)
       \/ Crash(i) \/ Shutdown(i) \/ Exit(i)

StoreSpec == RedisInit /\ StoreInit /\ [][StoreNext]_<<redis, storeVars>>

-----------------------------------------------------------------------------
(* Properties.                                                             *)

\* Versions only grow, and every write is one that was taken from a room.
StoreTypeOK ==
    /\ status \in [Instances -> Statuses]
    /\ memory \in [Instances -> Versions] /\ restored \subseteq Instances
    /\ version \in 0 .. MaxVersion /\ stored \in Versions
    /\ handedOver \in 0 .. version
    /\ \A i \in Instances :
         /\ waiting[i] \subseteq Write /\ line[i] \in Seq(Write)
         /\ Cardinality(waiting[i]) + Len(line[i]) <= MaxWrites
         /\ memory[i] <= version \/ memory[i] = Removed
         /\ unsaved[i] \in 0 .. memory[i]
         /\ ~Running(i) => memory[i] = NoVersion /\ Open(i) = {}
    /\ {missed, revived, together} \subseteq BOOLEAN

\* A crash at this moment loses what was unsaved and no more: the writes that are
\* open end with the last snapshot that was taken, and when none is open Redis has
\* it, so that a restart restores it, and restores nothing that was deleted.  What
\* memory has besides is what lost connections changed since.  The exceptions: a
\* write failed and a retry may have overwritten a newer one, a late join wrote a
\* deleted room, or two instances wrote the same room.
Saves(i, v) == IF line[i] = <<>> THEN stored = v ELSE Last(line[i]).version = v

StoreFollowsMemory ==
    \A i \in Instances :
      Running(i) /\ memory[i] # NoVersion /\ ~missed /\ ~revived /\ ~together =>
        Saves(i, LastSaved(i))

\* A room that a shutdown has persisted is, when that instance is gone, in the one
\* that serves its players now, as it was or as it became ("so the new instance can
\* restore it", index.ts:1186).  Refuted: the next one has restored before.
ShutdownKeepsRooms ==
    handedOver # NoVersion /\ (\A i \in Instances : status[i] # "stopping") =>
      \A i \in Instances : status[i] = "up" => memory[i] >= handedOver
=============================================================================
