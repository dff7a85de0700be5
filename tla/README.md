# Bull 'Em in TLA+

Bull 'Em is a bluffing card game. Players hold a few cards each, take turns to
call ever higher poker hands said to exist in all the cards together, and
answer a call with *bull* (it is not there) or *true* (it is). Those who were
wrong draw a card more for the next round; one card over the limit and they are
out. The repository is a TypeScript monorepo: `shared/` holds the rules and the
game engine, `server/` a Socket.IO server with rooms, bots, matchmaking and
persistence, `client/` the user interface and `training/` an offline tool.

These modules model the engine, a room of the server while a match is played,
the lobby and the registry around rooms, ranked matchmaking, the store of rooms
and the rate limiter on one Redis that may fail, the offline game of the browser, and
the hands. The rest of the system is in the inventory and the plan below.

## Inventory

| Component | State | Operations | What is hard | What makes it correct |
|---|---|---|---|---|
| **Game engine** `shared/src/engine/GameEngine.ts` | phase, current player (an *index* into the players still in), open hand, caller, answers, turn history, a memo of the last call, cards, eliminations | call, bull, true, last-chance raise and pass, eliminate a player, next round | players leave at any moment: indexes shift, the answers may become complete, the caller may be gone | the turn always names somebody who owes an answer; penalties match the answers to the last call; somebody survives each reveal; the last chance comes once and to somebody; rounds end |
| **Room during a match** `server/src/socket/*`, `rooms/Room.ts`, `game/BotManager.ts` | phase, who is in, connected, may reconnect; turn timer, disconnect timers, result window; elimination order, series | messages, timers, disconnect, reconnect, leave, next set, delete | every timer races a message; results may be continued by three parties; a departure can end the round, the game or the result window | one timer, for the player on turn; results are shown and always give way; absence is timed; a set is counted once; whoever is out has a place |
| **Lobby** `socket/lobbyHandlers.ts`, `rooms/Room.ts` | host, players, settings, countdown, disconnect timers | create, join, return, kick, add bot, settings, start, rematch, spectate | awaits between check and use; the countdown; the host leaving; a live session that moves | the indexes and the rooms agree, a host who is on the list, whoever is away is timed, games with two players or more |
| **Registry, persistence** `rooms/RoomManager.ts`, `RedisStore.ts`, startup and shutdown in `index.ts` | maps of rooms, players and sockets; snapshots in Redis | persist, remove, restore, sweep, shut down | writes are not awaited, retried and unordered; restart; two instances at once | what is on its way ends with what is in memory; a deleted room stays deleted; a shutdown loses nothing |
| **Matchmaking** `matchmaking/MatchmakingQueue.ts` | Redis queues and two maps | join, leave, disconnect, matching pass, bot backfill | each operation awaits Redis between its steps; any command may fail | the maps follow the queue; nobody is matched twice, or after leaving; a match has opponents; a wait ends |
| **Hands, checker, deck** `shared/src/hands.ts`, `engine/HandChecker.ts`, `engine/Deck.ts` | none (the deck: its cards) | compare, minimum raise, exists, deal | case analysis over hand types and jokers | a linear order; the minimum raise is the next hand; the checker agrees with a search |
| **Finish positions, ratings, history** `socket/persistGame.ts`, `rating.ts` | rows in the database | persist a completed game | runs after the game, once per ending | positions are a ranking of all players |
| **Rate limiter** `rateLimit.ts` | circuit breaker, windows | check, probe | concurrent requests and one probe | the breaker closes when Redis is back |
| **Offline game** `client/src/context/LocalGameContext.tsx` and its pages | the engine, refs for what is pending, timers of the bot and of the human, series, a save in `localStorage` | start, move, bot's move, continue, next set, rematch, pause, resume, leave, close, restore | callbacks share refs; a pause over a reveal; a page that goes at any moment | the turn that is awaited has its timeout; every reveal has a way on; a reload finds the game; a set is dealt when the last was won |
| **Bots** `BotPlayer.ts`, `BackgroundGameManager.ts`, `CalibrationManager.ts` | memories of opponents | decide | heuristics | moves are legal (the engine refuses others) |
| **Broadcasting, accounts, friends, push, e-mail, analytics, client, solo games, training** | databases, views | request/response | not protocols | outside the plan |

A room's handlers run on Node's event loop: each runs to completion, and the
next event (a message, a timer) is taken when it is done. Handlers call the
engine synchronously and look at the kind of its result (`continue`,
`last_chance`, `resolve`, `game_over`, `error`) to decide what to schedule.

## Modules

| Module | What it is |
|---|---|
| `GameEngine` | the engine: one action per operation of `GameEngine.ts` |
| `BluffRound` | the rules of a round with no seats, indexes or history: the abstract specification |
| `MCGameEngine` | the refinement mapping from the engine to `BluffRound`; the module TLC runs |
| `GameEngineProofs` | theorems about `GameEngine`, proved for any number of players and hands: types and scores |
| `TurnOrderProofs` | who is asked, in which order, whoever leaves; bids, the last chance, answers and penalties over a round's history; the refinement |
| `GameRoom` | EXTENDS `GameEngine`: the room around it, with its timers, handlers, series and connections |
| `GameRoomProofs` | the room's invariants, proved for any table, bots and series, whoever comes and goes |
| `RoomLobby` | several rooms and the registry around a match: who sits where, who hosts, who may start |
| `MCRoomLobby` | the symmetry of its sockets and a bound; the module TLC runs |
| `LobbyProofs` | the registry's and the rooms' invariants, proved for any sockets, accounts, rooms and requests |
| `Redis` | the connection to Redis, ready, down or in between |
| `RoomStore` | EXTENDS `Redis`: one room's snapshots, over instances of the server that start, crash and stop |
| `RateBreaker` | EXTENDS `Redis`: the circuit breaker of the rate limiter |
| `RedisOutage` | composes `RoomStore` and `RateBreaker` on one Redis that goes and comes back |
| `RedisOutageProofs` | the safety properties of both, proved in the composition |
| `Matchmaking` | the ranked queues, with a step per await |
| `MCMatchmaking` | three users, one of them on two sockets, with their ratings; arrivals that go on for ever; the module TLC runs |
| `MatchmakingProofs` | its safety properties, proved for any users, sockets, ratings and commands on their way |
| `LocalGame` | EXTENDS `GameEngine`: the offline game, one action per callback of the page |
| `LocalGameProofs` | its invariants, proved for any table and settings |
| `HandOrder` | valid hands, their order and the minimum raise |
| `HandChecker` | EXTENDS `HandOrder`: whether a hand is in a pool of cards, and which cards show it |
| `HandProofs` | theorems about both, for all valid hands and all pools |

### GameEngine

The variables have the names of the fields. Three of them need a word:

* `currentPlayerIndex` is an *index* into the players still in, as in the code,
  and may be the -1 of `findIndex`. `CurrentPlayerId` is what the getter makes
  of it.
* `lastCallIndex` and `lastCallIndexLength` are the memo of `getLastCallIndex`.
  They count from one, with 0 for "no call".
* `turnResult` is what the last operation returned. The room branches on it.

A hand is its rank `1..MaxHand`: the operations only compare hands and ask if a
higher one exists. Cards are the number each player holds. Whether the called
hand is among the cards is asked once per round, in `resolveRound`, and is a
choice there: both answers are possible for any hand but trivial ones, and no
property depends on which. Statistics, snapshots for replays and client views
are left out. An operation that returns an error changes nothing and is not a
step (in `GameRoom` it is, because the *handler* changes something).

`Restore` is `serialize` and `restore` at any moment: the engine of a server that was
started again, which has no memo and no last result. What `restore` checks is
`SnapshotIsValid`; when it throws, `Room.restore` puts the room back in the lobby and
the game is over for this model. `startingPlayerIndex` is a variable for this check only.

`EliminatePlayer` has one disjunct per return of `eliminatePlayer`, in the order
of the code. `ResolveRound` is given the flags and the history as the calling
operation has left them.

### BluffRound and the refinement

`BluffRound` says what a round is for its players: a bid is open, every other
player owes one answer, a higher bid starts over, a bid that nobody believed
gives its bidder one last chance, and the reveal. `MCGameEngine` maps the
engine to it: who owes an answer is computed from the responders and the
caller, who believed from the history. While nobody leaves a small table, every engine
step is a step of the rules (`ImplementsRules`), so that index, responders, phase,
history and memo stay views of the same round. The run has three players; it is proved
for two to five (`EngineImplementsRules`). With six the
refinement fails, because of the memo: see the second finding.

### GameRoom

One action is one handler. Where a handler ends by starting the next round or by
closing an empty room, that call is left in `tail` and made by the next step
(`StartRound`, `CloseIfEmpty`); no other event is taken in between (`Idle`).
This only splits an atomic handler in two: the engine's next-round operation
cannot be composed with its elimination in one action otherwise.

* `roomTurnTimer` is the player the pending timer was set for. `clearTimeout`
  removes a timer before its callback can run, so there is one or none, and the
  generation numbers `BotManager` also compares never decide anything; they are
  not modelled. `NoPlayer` means none, and `Stopped` means none *because a
  rejected message cleared it*.
* `players` are those who remain listed, `isConnected` those with a socket (and
  bots), `reconnectTokens` those who can come back, `disconnectTimers` those
  who will be put out. Leaving during a game detaches a player: still listed,
  no token, no socket, no timer.
* `nextSetTimers` counts the pending starts of the next set. More than one can
  be pending (see the findings).
* `gamesStarted` and `gamesRecorded` are history variables.
* Bots make any move the engine accepts. `AutoAction` is exactly what
  `executeAutoAction` does for a person whose time is up.
* A live session that moves to another socket changes nothing in these
  variables and is no action. `room:delete` may come from any connected person:
  the host is a matter of the lobby. The stale-room sweep is modelled for empty
  rooms; its other reason, hours without activity, has the effect of
  `RoomDelete`.

`RoomInit` is a match that has just started: any two players or more, bots
among them or not, connected, the first to open. A series has two players
(`game:start` makes one for two players only).

### RoomLobby

A room is a record of `Room`'s fields; the three maps of `RoomManager` are
variables. A handler is one action, but for `room:create` and `room:join` of a
socket with an account: they check, await the database in `refreshSocketUserData`
and then add the player, so that the request waits in `requests` and anything may
happen before it is `Answered`. The play is a set of those dealt in
(`GameRoom` has it in full): departures, timeouts and `RevealRound` take players
from it until one is left.

What a live session does on another socket (`handleReconnect`,
`handleStaleSocketReconnect`, `handleSessionTransfer`) is `Return`: the three
branches of the handler end in the same state. `DisconnectTimeout` is the callback with
its guards: it finds the room by `playerToRoom`. Several effects of the code are
history variables because a property has to name them: `doubled` (a socket seated
while it was in a room), `ghosts` (a player seated for a socket that is gone),
`unmapped` (a player whose mapping a kick or `room:removeBot` took, and who stays)
and `leftInCountdown`.

The handlers take what a client may send, which is more than the user interface
offers. `RemoveBot` takes any id, as `room:removeBot` does: `Room.removeBot`
returns for anybody but a bot, and `removePlayerMapping` is called all the same.
`MayJoin` lets a socket join that is in a room already. `MaxDoubled` bounds how many sockets join so; it is 0 in `lobby_play`, as the await of a join
also leads to two seats of one socket. The proofs assume nothing of it.

### Redis, RoomStore, RateBreaker and RedisOutage

`RoomStore` follows one room. A *version* stands for what `Room.serialize` writes.
A handler that changes the room sends a write and does not await it (`ChangeRoom`,
`ComeBack`, `DeleteRoom`), but for that of a lost connection: it removes or marks the player
and persists nothing (`Disconnect`). `unsaved` counts the changes since the last snapshot
was taken, so that `LastSaved` is what the writes can be held to. `game:start` and a
match that is found change the room too, and persist it when their countdown ends; so a
game does not start by a lost connection (`GameFrom`). `line` is
what one instance has sent, answered in order; a write that fails goes to
`waiting` and is sent again later (`withRetry`), or is lost: `pipeline.exec`
resolves with the errors in its result, which nobody looks at. An instance boots
(`restoreFromRedis`, once), crashes, or is told to stop (`Shutdown`, `Exit`).

`RateBreaker` is `CircuitBreaker` with the checks that are on their way. The
breaker's clock is `resetOver`. `relapsed` remembers that an older check failed
while a probe was out.

`RedisOutage` joins them: an outage puts in doubt what both have sent.

### Matchmaking

The client sends commands in order and Redis answers in order, so the interleavings
are those of one queue, `line`: a command takes effect when it is sent, and its
operation goes on when its answer is the first. An entry is known by its socket and
a number. Ratings are per mode and fixed; time is `overdue` (a bot may fill in) and,
before that, a choice of which windows are wider by now. A match has the seats that
keep it alive, its bots and a stage: `pool` (bots are looked up), `found`,
`stranded` (the lookup failed), `started`, `over`, `gone`.

A command may fail with or without its effect. `troubles` counts failures and
departures together and is the only bound on them. `raced` holds the users one of
whose operations met another, or an error: the properties say what holds for all
others. A user may have several sockets. His seat in a match keeps only its own socket
from joining (`MatchmakingQueue.ts:184` asks for that socket's room), so a join on
another, `SeatElsewhere`, counts as such a meeting.

### LocalGame

The variables are the refs and states of `LocalGameContext`; `page` is the page that is
open. A callback runs to completion and is one action, with everything it calls:
`handleTurnResult` schedules the next turn, saves and shows the state, or ends the set
or the match.

* `botTimer` and `turnTimer` are the timeouts that are pending. A bot's timeout that is set
  over another's counts as one, because both do the same; a timeout that finds somebody
  else on turn is `TimeoutInVain`.
* The human's moves are those the page offers, and the page offers what the engine
  accepts; so a rejected move, which would stop the turn timer as on the server, is no
  action here.
* `StartGame` stands for the lobby: any number of seats, any settings. Seats nobody was
  dealt into are eliminated from the start. The shuffle gives the human any seat.
* One provider is mounted while one walks between `/local`, `/local/game` and
  `/local/results` (`App.tsx:205-210`), and its refs survive. `LeaveToLobby` is `leaveRoom` on the
  way to its lobby: it stops the timers and the countdown and drops the save, and leaves
  `pendingNextSet` and `pendingWinner` as they are. So do `StartGame` and `Rematch`, and
  `Rematch` leaves the countdown too. Only when the provider is unmounted are the refs gone
  (`ForgetRefs`, in `LeaveRoom` and `Close`). `stale` is history: the game began with
  something of an earlier one pending.
* `"peek"` is the results page without a winner, which the browser's Back (to the results of an
  earlier game) or its address leads to; it offers *Play Again* and *New Game* over a game that goes
  on. That such a page lies behind is not modelled: Back may find it whenever there is a game.
  Back during the first countdown, which has no game to show yet, is not modelled.
* `localSave` outlives the page, which may be closed at any moment (`Close`);
  `OpenGame` is `tryRestoreGame` with the effect that sets the restored game going,
  and `SaveIsRefused` is `restore` throwing.
* A set that leaves the match open is not saved: the save remains that of the move before
  (`SetEnds`), as in the code.
* `revealLost` is history: a pause was ended over a reveal, or over the countdown to a set,
  which takes it off the screen and out of the save.

### HandOrder and HandChecker

Operators with no state: every hand of all ten types, over thirteen ranks and four
suits, and every pool of cards with any number of jokers. They hold nothing for TLC
to explore and no run uses them: what they are for is proved.
`GameEngine`'s assumption that hands are ranks `1..MaxHand` rests on them: bids go
up along a line (`HigherIsAsymmetric`, `HandsAreInALine`), and only the last cannot
be raised (`OnlyRoyalFlushesEnd`). The one difference, that flushes tie and so do royal
flushes (`OnlyFlushesTie`), does not matter to the engine, which only asks whether a
bid is higher.

## Properties and what they are aimed at

Engine: `TurnIsPending` and `AnsweredInTurn` (the index, whoever leaves),
`OneAnswerPerCall` and `PenaltiesFollowAnswers` (answers, history, penalties),
`SomeoneSurvivesReveal` (scores), `OneLastChancePerCall`, `LastChanceIsOffered` (the last
chance), `OpenerRotates`, `RestorableUntilSomeoneGoes` (what a restart costs),
`RoundIsRevealed` and `ImplementsRules`; the safety properties with a restart at any
moment; and, refuted by the code, `LastChanceHasCaller` and, at larger tables,
`LastChanceIsOffered`.

Room: `ResultIsRevealed` (no next round over a live one), `ResultsGiveWay` (no result
screen for ever), `TurnTimerRuns` (the timer is that of the player on turn),
`AbsenceIsTimed`, `PutOutForCause`, `OnlyTheOutAreRanked`, `RoundsComeToResults`; and,
refuted by the code, `TurnTimerKeepsTicking`, `SetWonOnce`.

`CardsWithinLimit`, `BidRises` and `ResultScreenEnds` are proved for every instance and no
run repeats them.

Offline: `TurnIsScheduled` (the timeout of the turn that is awaited, after a pause, a reveal
dismissed during a pause, a reload, a new set), `GameCanGoOn` (no reveal without a way on,
on the screen or in the save), `ReloadKeepsTheGame` (what the save has is what the page
shows, and will be accepted), `SetsAreWon` (what a next set must follow, unless the game
began with something of an earlier one pending).

Lobby: `IndexesAgree` (the registry, the rooms and the live sockets, with the awaits
of create and join), `HostIsListed`, `AbsenceIsTimed` (whoever was dealt in and is
away has a timer that will find the room), `StartsWithTwo` (the countdown counts
nobody).

Redis: `StoreFollowsMemory` (what a crash would leave is the last snapshot taken),
`OneProbeAtATime`, `LimiterRecovers`; and, refuted, `ShutdownKeepsRooms`.

Matchmaking: `IndexFollowsQueue` (the maps and the queues), `SeatedOnce`,
`MatchedWereWaiting`, `MatchHasOpponents`, `WaitersAreServed` (who waits is served in the
end, provided that arrivals end, or that no group too far apart keeps him).

## Runs

| Run | Instance | Shows |
|---|---|---|
| `engine_play` | 3 players who may all leave, 3 hands, limits 1 and 2, both modes, restarts at any moment; about 1 450 000 states | the safety and action properties of the engine |
| `engine_rules` | the same with nobody leaving, under `FairSpec`; about 65 000 states | the refinement, and that rounds are revealed |
| `engine_caller_leaves` | 3 players, one leaver | **finding**: last chance offered to a player who left |
| `engine_stale_memo` | 6 players, nobody leaves, 2 hands, limit 1 | **finding**: the memo of the last call outlives its round |
| `room_play` | 3 seats, 2 hands, limit 1, with and without bots, single games and best of three, under `FairRoomSpec`; about 680 000 states | the room's properties, and that timers alone drive it |
| `room_double_click` | as above, single games | **finding**: a rejected message stops the turn timer |
| `room_set_won_twice` | as above, with series | **finding**: a set can be won twice |
| `local_play` | 3 seats of which 2 or 3 are dealt in, 2 hands, limits of 2 cards, a turn timer, single games and, for two, best of three, pages that are walked between and may go at any moment; about 880 000 states | the offline game's timers, reveals, sets and save |
| `lobby_play` | 3 sockets, one of them with an account, 2 rooms, or one in which a mapping is lost, of two or three seats, 3 players or bots ever seated; about 840 000 states | the indexes, the host, absences and the start of a game |
| `redis_outage` | 2 instances one after the other, 2 versions, one retry, 2 outages, a threshold of 2, 3 checks at once; about 840 000 states | the store follows the room, one probe, the limiter comes back |
| `redis_handover` | 2 instances with a rolling deploy, 2 versions | **finding**: what the shutdown persists is read by nobody |
| `matchmaking` | 3 users, one of them on two sockets, 2 joins each and then again without end, one departure or failure, under `EndlessSpec`; about 560 000 states | the queue, the matches and the waits |

Bounds. Three players are the least for which somebody sits between the caller
and the player on turn, for which a departure can leave a game of two, and for
which skipping the caller and wrapping around differ. Three hands let a call, a
raise and a last-chance raise follow each other, and make the highest one
special, as the royal flush is. A limit of two gives rounds after a penalty, a
limit of one gives eliminations at once; with both, all branches of the scoring
happen, the mass elimination included. Nothing else is bounded: a round's
history is finite because bids rise and each bid has finitely many answers, and
the number of rounds because cards only grow. `engine_stale_memo` needs six
players (or five of whom one leaves, or four of whom two do), because the lengths of two rounds' histories
must agree while the last calls are two places apart with a *true* in between: two
players go out at once, and enough are left for an answer before another call. In the room two hands and a limit of one keep the
product with connections and timers small; the engine's own interleavings are
covered by `engine_play`. `CHECK_DEADLOCK FALSE` everywhere: a game that is over
and a room that is deleted stop, and bounds end the others.

In `local_play` a table of two has a series and a table of three has bots that follow each
other, go out and are skipped; best of three is a set that leaves the match open, a set that
decides it, and a rematch; two hands let a call and a last chance be raised. There is a turn timer: without one the human has
no timeout, and nothing else is different. Nothing else is bounded, and the
proofs need none of it: they cover the larger tables, more hands and longer series of the code.

In the lobby, three sockets give a host, a guest and one more who joins, is kicked,
returns on it or watches; three seats are the least with which somebody leaves a
countdown of three and two are dealt in; two rooms are needed for a socket to be in
both, and one in which a kick or any id sent to `room:removeBot` may take a mapping
(`SmallSpec`: two rooms, or one and a lost mapping). One request waits at a time, since each
races what the others do at once. In
`redis_outage` a retry may land after a newer write, both may be lost, and
a second outage may come while the breaker probes; three checks at once are a
probe, an older check and one that is served from memory. Its two versions are those of a
lobby. The proofs need none of these bounds. In `matchmaking` the first user has a second socket, the first two users are near each other's rating in
one mode and only in a wider window in the other, the third is far from both; a
match is of two in either mode (`MULTIPLAYER_MIN` is 3 in the code), which makes
both passes meet in every way with the fewest users. Two joins allow a double join, a
second wait after a match, or two who meet; `MaxOverlap = 1` lets a second pass begin
while the first has one command on its way.

Two joins alone would also mean that nobody comes after them. The run has `EndlessSpec` therefore,
whose `Renumber` gives entries and matches their numbers anew, from the beginning, once all
matches are over and nothing is under way; whoever waits goes on waiting. Everything that
follows is the same but for the numbers, so users are matched, play, and come back without end.
(After a failure, or once two operations have met, the numbers stay as they are and arrivals end.)

Fairness. `FairSpec` assumes that some turn is taken when one can be and that
the next round starts: online rooms always have a turn timer (`constants.ts:40`,
`validation.ts:40`), whose callback plays for the player. `FairRoomSpec` assumes
no move of any person. It is weak fairness of the timers (`setTimeout`) and of
the two steps that finish a handler; the sweep is an interval. Under it
`RoundsComeToResults` holds except in the two states the findings are about,
which the property names: nobody is on turn, or the timer was stopped.
The offline game is checked for safety only: a visitor may leave the page open for ever.
`FairOutageSpec` assumes that a command sent is answered or fails (the client's
timeouts), that the reset period passes, and that messages keep coming, as checks
are made for messages only. Nothing is assumed of the outages, but that the
property is about the time after the last. Matchmaking's `FairSpec` assumes answers
of Redis and of the database, the interval of the passes, and the clock; `EndlessSpec`
the same. That arrivals end is no assumption of theirs but the hypothesis of
`WaitersAreServed` (`ArrivalsEnd`): from some time on nobody asks to join. Without it the
property is false of the code once three play heads-up (see *Overtaken* below); the run has
two, who can only be matched with each other.
`RedisAnswers` is the weak fairness of `Answer` in other words: `Answer` is enabled
exactly while something is in line, and takes the first away.

## Findings

1. *A last chance for nobody* (`GameEngine.ts:282-289`). `handleBull` does not ask
   if the caller is still in, as `eliminatePlayer` does (569-576).
2. *A memo that outlives its round* (`GameEngine.ts:790-809`). Nothing resets it
   in `startRound`; a history of the same length gets the old answer. At tables of six
   it takes no departure: two players go out in one round.
3. *A rejected message stops the clock* (`gameHandlers.ts:34, 45, 56, 71, 82` and
   292-295).
4. *A set won twice* (`roundTransition.ts:91-139`). Between two sets the old game
   still takes moves and `game:continue`.
5. *A handover that hands over nothing* (`index.ts:1184-1213`). With a rolling deploy
   the next instance has restored its rooms before the last one persists them.

Each is the one property of a run; PROJECT.json quotes the text it contradicts.

Other effects have no run of their own: the properties name them as exceptions, which TLC
needs, and they are listed here for whoever works on the code. Some contradict a text as well:

* *A match that cannot be restored* (`GameEngine.ts:917`). `restore` refuses a snapshot
  whose `startingPlayerIndex` is out of bounds, and nothing adjusts that index when
  somebody drops out: the last seat opens a round, a player leaves, the server restarts, and a
  match in play is taken for corrupted (`Room.ts:461-469`) and falls back to the lobby, though
  "room + game state survives server restarts" (`docs/architecture.md:208`).
* *A set over a live game* (`LocalGameContext.tsx:712-731, 733-793, 913-968`). Neither
  leaving, nor a new game, nor a rematch resets what an earlier game had pending, and the first
  reveal of the new one sets it going: the countdown "If a series set ended and the next set is
  pending" (832) of a set that did not end. Exception: `stale`.
* *A timer that finds nobody* (`lobbyHandlers.ts:684-695, 724-725`). A kick of somebody who is
  away in the countdown, or `room:removeBot` with a player's id, takes the mapping and leaves the
  player: he is dealt in, and his timer, which "Properly eliminates the player through
  the game engine" (`registerHandlers.ts:182-184`), finds no room. Exception: `unmapped`.
* *A game for one* (`lobbyHandlers.ts:785-792`). The countdown's callback does not count the
  players again, though `game:start` does ("Need at least", 740). Exception: `leftInCountdown`.
* *A lost connection that is not persisted* (`registerHandlers.ts:236-256`). No write follows
  what `handleDisconnect` changes, though "room state is persisted on every mutation"
  (`RoomManager.ts:28-29`). `StoreFollowsMemory` is about what was to be saved, `LastSaved`.
* *Overtaken* (`MatchmakingQueue.ts:357-371`). A heads-up pass that finds a pair gives nobody a
  bot: whom later arrivals keep overtaking waits for ever, though after BOT_BACKFILL_SECONDS it
  should "match with a rated bot instead of waiting" (`constants.ts:110`). Exception: the hypothesis
  `ArrivalsEnd`.
* *Too far apart* (`MatchmakingQueue.ts:390-410`). In multiplayer, three or more who are too
  far apart wait for each other however long it takes, against the same line: bots fill in only while
  fewer wait. Exception: `Incompatible`.
* *Queued twice* (`MatchmakingQueue.ts:178-214`). A user who joins again before his first join
  is answered has two entries, and may be matched with himself, though the queue "rejects
  duplicate queue join" (`MatchmakingQueue.test.ts:227`). Exception: `raced`.

The others contradict no text:

* When a departure ends the game by a reveal, `finalRoundResult` is ignored
  (`registerHandlers.ts:195-199`, `lobbyHandlers.ts:376-379`): those whom that reveal put out
  are not in the order of finish.
* Resuming an offline game that was paused over a reveal or over the countdown to a set
  takes it off the screen and saves a game between rounds that has no reveal to dismiss
  (`LocalGameContext.tsx:626-664`): it can only be left. The pause button lies
  above the landscape reveal, and keeps the focus under the countdown.
* Reloading an offline game during a reveal that put somebody out loses it when the index of
  the player on turn or of the opener is out of bounds by now: `restore` refuses the save.
* Reloading after a set was won takes back the set's last move: the save is left as it was.
* After a reload `playersRef` and the engine hold different player objects, and the offline
  bots decide with the cards and counts of the save (`executeBotTurn`, from 575).
* `startGame` checks before it awaits, and does not check again.
* `room:join` and `room:create` do not check again after the await: a room may be
  overfilled or join after its start, a socket may be seated twice, a player may be
  seated for a socket that is gone.
* A late join persists a room that was deleted; it is restored after a restart.
* `room:join` does not ask if the socket is in a room (`room:create` does, before its await).
* With two entries of a user, `removeUsersFromQueue`
  stops early and leaves the opponent's entry, who is then matched again.
* Leaving the queue after a pass has read it does not prevent the match; two passes
  that overlap match the same users twice.
* When the lookup of bots fails, the room it was for stays with its player in it.
* A bot that knows all cards and cannot raise a true hand answers *true*
  (`BotPlayer.ts:526-528`) to an open call nobody has doubted, which the engine refuses
  (`GameEngine.ts:306`); `handleBotResult` then plays the *bull* the comment there calls a
  guaranteed loss. To the model both are answers of a bot.

## Proofs

`GameEngineProofs` assumes only the named assumptions of `GameEngine`: a positive
number of players and of hands, positive card limits, known modes, leavers among
the players.

* `TypeCorrect`: `Spec => []TypeOK`. Type correctness is inductive. What needs an
  argument is the index: `IndexIn` and `PlayerAt` are inverse bijections between
  the players still in and `0 .. n-1` (an injection between finite sets of one
  size is onto), so that remainders, the skip of the caller and the look-up all
  stay in the table. `NextSeatAfter` and the scan for the last call choose a
  smallest and a largest element, whose existence is proved once
  (`SmallestInSet`).
* `CardsStayWithinLimit`: `Spec => []CardsWithinLimit`. With `TypeOK` it is
  inductive. Every operation either leaves the scores, puts somebody out, or
  reveals with flags that only put people out (`ScoreSteps`); a penalty that would
  exceed the limit eliminates (`ResolveRoundScores`).
* `RevealLeavesSurvivors`: `Spec => SomeoneSurvivesReveal`. From `TypeOK` and the
  same two lemmas: a reveal after a departure happens only with two players or
  more left, and not all of those left can be both wrong and at the limit,
  because then nobody draws.

`TurnOrderProofs` is about the order of turns, for any number of players and hands
and any leavers.

* `TurnOrderKept`: `Spec => []TurnInv`. `AnsweredInTurn` is not inductive: it says
  nothing of a last chance, after which turns go on from the caller, nor of a caller
  who has left and has no seat to go on from. `TurnInv` adds to it that a hand has a
  caller, that answers belong to an open hand, and what the last chance keeps. Its main
  part, `TurnIsAskedUpTo`, speaks of distances: `Behind(c, q)` is how far `q` sits behind
  `c` round the table, and whoever sits nearer to the *origin* than the player on turn
  has answered. The origin is the caller's seat, or the head of the table for a
  caller who left and raised on the last chance.
* `TurnStaysPending`, `AnswersComeInTurn`, `OpenerPassesOn`: `TurnIsPending`,
  `AnsweredInTurn` and `OpenerRotates` from it. The lemma everything needs is that the
  index the code computes, after a call, an answer or a departure, is the first of those
  still in behind a seat (`FirstBehind`, `NextFromOrigin`, `LeaversIndexIsFirstBehind`).

* `SnapshotStaysValid`: `RestorableUntilSomeoneGoes`. The indexes of a snapshot go out of bounds
  only when the table becomes smaller, or when the last chance goes to a caller who has left.

The rest of the module is about the history of a round. Restoring is a step like any other in
all of these proofs: but for the last two, the invariants never speak of the memo or of how
the round came to be, which is why a round survives it.

* `BidOnlyRises` and `ChanceComesOnce`. `OneLastChancePerCall` compares any two entries
  of the history; `RaiseInv` says what makes it inductive: a last-chance raise with no
  call after it means that the chance is used up.
* `AnswersAreSingle`. `HistInv` says that the responders other than the caller are
  exactly those with an answer after the last call (`AnswersMatch`), and that nobody
  passes before the reveal (`NoPassYet`); that an answer is the only one follows from
  `TurnIsPending`.
* `PenaltiesAreDeserved`. `resolveRound` looks at the last action of the whole round;
  by `HistInv` that is the answer to the last call (`LastActionIsAnswer`), so that its
  branch for players who never answered is not reached.
* `LastChanceIsNotMissed`: `SmallTable => (Spec => LastChanceIsOffered)`, for three players
  or fewer whoever leaves, and for four or five when nobody does; with six the second
  finding refutes it. That the memo may be wrong and does no harm there is an argument
  about numbers, `MemoInv`: when the memo is asked everybody has answered, so from
  whichever round it is, it is as many places from the end as there were others then, who
  are no fewer than now (`MemoOfAnswers`, `AnswersCounted`); it can only be too early. It
  would have to be by two places, the *true* and the call after it: a call is
  believed only after a doubt (`DoubtComesFirst`), so a call that was made, doubted, believed
  and raised took four players (`BeliefNeedsFour`), and one more who went out in a round
  before makes only one place of difference. Nor does it matter after a last-chance raise,
  before which the memo was asked in the same round (`MemoBeforeRaise`).
* `EngineImplementsRules`: `RulesTable => (Spec => ImplementsRules)`, the refinement of
  `BluffRound` by a table of two to five that nobody leaves. A call is a bid, an answer of
  the engine is the answer of the rules, with the set of believers for the memo and the
  history (`AnswerIsNoted`, `BelieversAreSeen`) and one reveal for both that `resolveRound`
  serves (`RevealIsReveal`); restoring, and asking for a round of a game that is over, are
  no moves. Only a reveal ends such a game (`OverIsKept`). It needs all the invariants above.

`GameRoomProofs` assumes the named assumptions of `GameEngine` and `GameRoom` only: any
number of players and hands, any bots, series, leavers and senders of rejected messages.

* `RoomInvKept`: `RoomSpec => []RoomInv`. A handler is an operation of the engine and what
  the room makes of its result, and the proof has the same two halves. `Moved(gone)` is
  all that the room has to know of an operation: nobody comes back in, those in `gone`
  are out, a `resolve` is a reveal and a `game_over` leaves one player; `TurnMoves` and
  `LeaverMoves` prove it of every operation, from `TurnInv` of `TurnOrderProofs`.
  `ResultHandled`, `DroppedOut`, `RoundStarted` and `NextSetStarted` are what handlers
  share, and there is one lemma per handler.
* `RoomInv` has three parts. `EngineSide` ties the room's phase to the engine's: a match
  that is shown as over is over, one that is played is not waiting for its next round
  unless it is over, a result that is shown was revealed. `TimerSide` says what
  will end a result screen and for whom the turn timer is set. `PeopleSide` says who is
  connected, who may return, who is timed.
* The properties are not inductive. `TurnTimerRuns` and `ResultScreenEnds` speak of moments
  between two events, while handlers are split at `startNextRound`: `TurnIsTimed` and
  `ResultScreen` hold in between as well, and the latter adds that a next round is on its way
  only from a result screen. That a timeout with all its moves rejected leaves nobody without a timer
  needs the turn order: on a last chance the turn is the caller's or nobody's
  (`LastChanceTurn`).
* From it `ResultScreenIsOfReveal`, `ResultScreenHasEnd`, `TimerFollowsTurn`,
  `AbsencesAreTimed`, `RankedAreOut`, `OutForCause` and `TurnPendingInRoom`. The last says
  that the engine keeps its promise under the room, whose handlers are
  no operations of the engine's own specification: a departure there starts the next round, and a
  series starts new games.

`RedisOutageProofs` assumes the named assumptions of `RoomStore`, `RateBreaker` and
`RedisOutage` only: any number of instances, versions, retries, writes, checks and
outages, deploys that overlap or not.

* `LimiterProbesOnce`: `OutageSpec => []OneProbeAtATime`. `ProbeInv` adds that an open
  breaker that did not relapse has no probe on its way: otherwise the next probe would
  be a second. Two lemmas say how sending and answering move the probes in line.
* `StoreFollows`: `OutageSpec => []StoreFollowsMemory`. It is about the last snapshot that was
  taken, which a lost connection may have left behind memory. `StoreInv` adds that one instance
  runs at a time unless two were `together` (`Alone`), and that nothing waits to be sent
  again unless a write was `missed` (`WaitingMissed`): otherwise a retry, or somebody
  else's write, would follow the newest. One lemma per operation.
* `OutageTypes`: `OutageSpec => []OutageTypeOK`. That a shutdown hands over no more than
  there was needs what every write in line, and every one that will be sent again, carries:
  `Taken` says that its version is of a room that was there, or that the room is removed, and that the last
  write of an instance is of a room. `WritesBounded` counts both together, as a failure moves
  a write from one to the other.

`HandProofs` has no assumptions: it is about all valid
hands and all pools. The order is arithmetic over four fields (`Fields`), by type.
`RaiseIsHigher` and `RaiseIsLeast` together say that `getMinimumRaise` returns a next
hand of the order, type by type. For the checker, `exists` is read as *enough jokers for
what is missing* (`Missing`); the one lemma everything rests on is that a card more
makes the missing cards one fewer or as many (`OneCardIsOneJoker`), from the
cardinalities of ranks, suits and straights.

`LocalGameProofs` assumes the named assumptions of `GameEngine` and `LocalGame` only: any
number of players, dealt in or not, hands and settings, and a page that goes whenever it likes.

* `LocalInvKept`: `LocalSpec => []LocalInv`. None of the properties is inductive.
  `Playable` says what handling a turn needs of a round, in the engine or in a save: a player
  on turn, and a caller who is still in, as nobody leaves an offline game in the middle of a
  round. `Screen` ties the page to the engine: a reveal or a set to come is shown between
  rounds only, nothing runs on a page that is gone. `Counted` is the series, where it is and
  where it is saved: as many wins as sets, and an open match undecided. `GoodSave`
  says all of it of the save, so that what is loaded is what was left.
* `TurnGoesOn` is all that the page has to know of a turn: the round remains playable
  or is revealed, and the result that is returned says which. `GameSetGoing` is the one
  lemma for everything that ends by scheduling and saving; then there is a lemma per callback.
* Walking about changes no game: `WalkKeeps`, `StopKeeps` and `LeavingKeeps` say so of
  `BackToResults`, `leaveRoom` and the end of a provider. `Screen` allows a game that is `stale` a
  set that is pending, or its countdown, at any time, as the code does; in all others these follow
  a set that is over and won. `stale` is therefore the exception of `NextSetIsWon`, and, while such a countdown runs, of `ReloadIsSafe`.
* `TurnStaysScheduled`, `GameGoesOn`, `ReloadIsSafe` and `NextSetIsWon` follow.

`LobbyProofs` assumes the named assumption of `RoomLobby` only: any number of sockets and
accounts, of rooms, players and requests, and any finite choice of seats.

* `LobbyInvariant`: `LobbySpec => []LobbyInv`. It has three parts. `Shapes` says that a code
  that was not drawn yet is in no index and no request. `Lists` says of every room that it is good, that
  nobody is in two of them, and that whoever may come back is found by his room's code,
  but for those in `unmapped`.
  `Indexes` are the maps of sockets.
* `RoomGood` is about one room, so there is one lemma for each thing that is done to a
  room (`AddPlayerGood`, `RemovePlayerGood`, `HandleDisconnectGood`, ...), and a handler is
  that and what it does to the registry. The properties need more than they say:
  a socket of the room leads to a player who leads back to it; the timers are those of
  players who hold a token and are away; in a lobby nobody is away without a timer,
  because the match that is dealt takes him along; and a countdown runs for two players
  unless one left since.
* `Indexes` has four conjuncts. `IndexesAgree` says that a player who counts as connected can be reached
  by his socket's room; `Seated` adds why one cannot: his socket was seated twice, or it went while a join was
  awaited, and then it is dead. `KnownThere`, `MappedBack` and `Watching` say the same of
  the socket's room, of the room's sockets and of spectators: who watches
  has no seat, which is what lets a spectator join. One lemma each says what a socket's going,
  coming, coming back or watching and a room's closing does to all four.
* A player whose mapping a kick or `room:removeBot` has taken stays in the room; that is the
  exception `AbsenceHolds` has. `StartsHold` is the one action property: a step
  that starts a game finds two players or more, from `EnoughPlayers`.
* That a new room has the most seats there are, and that a host's heir is the oldest of those left, need a largest and
  a smallest element; `Extremes` proves both for finite sets of numbers.

`MatchmakingProofs` assumes the named assumptions of `Matchmaking` only: any users and sockets
(several of one user), ratings, wishes, limits, commands in line and overlapping passes.

* `TypesHold`: `Spec => []MatchTypeOK`. `TypeInv` says of every command in line what it
  carries: that an entry on its way is in no queue yet, that a leave found entries of its
  user only, that a pass chose from what it read. For the choice the passes had to
  be proved about: `Sorted` is a listing of the entries it is given (`SortedOf`), a heads-up
  choice is two of them or one who has waited, a group is as large as the mode asks for
  (`ChosenWereRead`). `Fitting` and `MatchGood` carry this to the match that is made.
* `Inductive`: `Spec => []IndInv`, with `IndInv == TypeInv /\ UsersOK`. The properties are far
  from inductive: that a user is in one match follows from what is still in line about
  him. `UserOK(u)` says so of one user, as long as he is not in `raced`: while he has
  no socket in the map (`Idle`), no pass takes him, and what a queue or a read has of him is
  the entry whose addition is still in line (`IdleLine`); while he has one (`Waiting`), his
  only entry is his socket's `Ticket`, every read and every take knows him by that ticket
  and mode, one take at most is in line, and the ticket is in the queue unless that or a
  leave has removed it (`WaitLine`). Who is being added sits in no match (`Admissible`), and
  `SeatsOK` is what else there is to say of seats.
* Most of what happens has nothing to do with `u`. `Follows` compares a line before and after
  by what `u` sees of it, `Bystander` proves once that `UserOK` survives whatever follows so,
  and `AnswerToAnother`, `SentByAnother` and `QueueOfOthers` that others' steps do. What is
  left are the steps of `u`'s own operations and the passes that know him, a lemma each
  (`JoinKeepsUser`, `LeftKeepsUser`, `ReadKeepsUser`, `MatchedKeepsUser`, ...).
* `IndexHolds`, `OneSeatHolds`, `WaitingHolds` and `OpponentsHold` follow. The exceptions are
  needed: the proof of `SeatedOnce` failed at a join on a second socket while the first was in a
  match, which the run did not have until a user was given two sockets.

Only model-checked: all liveness, of the engine (`RoundIsRevealed`), the room, matchmaking
(`WaitersAreServed`) and the others, which is out of the prover's reach. Of the properties
of the findings, `LastChanceIsOffered` is proved for the small tables at which it holds.

## Not modelled

A room that is restored in the middle of a match, with its missing timers; of the offline
game its lobby, replays and what its bots decide; the sliding windows
and cooldowns of the rate limiter; chat, visibility and invitations; names of
hands and which cards are shown beside those found; finish positions and rating
formulas, which are arithmetic on a list; the shuffle, which is randomness and hashing;
and the components the inventory puts outside the plan.

## Plan

Done: `GameEngine`, `BluffRound`, `GameEngineProofs`, `TurnOrderProofs`,
`GameRoom`, `GameRoomProofs`, `RoomLobby` and its proofs, `RoomStore`, `RateBreaker`,
`RedisOutage` and its proofs, `Matchmaking` and its proofs, `LocalGame` and its proofs, `HandOrder`,
`HandChecker` and their proofs.

Left: restarts in `GameRoom`,
whose engine can already be restored, with the timers a restored room lacks; the order of
finish and the ratings; the size of the deck.
