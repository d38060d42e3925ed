# A specification of the Rounda game server

Rounda is a multiplayer quiz: a host opens a room, players join with a code or
a link, and a match of timed rounds is played on everybody's own screen. The
server (`server/`, Node with Fastify and Socket.IO) decides everything; the
clients (`frontend/js`, `client/flow`) show what they are told. This directory
specifies the parts of that system in which things can go wrong: handlers that
interleave at every `await`, documents that are read, changed and written back
whole, a timer per room that lives in memory only, a process that may stop
between any two store calls, and clients that send the same message again, lose
their connection and get answers late.

## 1. The system

### Components

| Component | State | Operations | Hard behaviour | What makes it correct |
|---|---|---|---|---|
| State machine `server/architecture/state-machine.js` | none (pure) | `transition(state, event, pacing, now)` | which destination is legal under which pacing; pause and resume | only legal phases follow; `pausedState` is set exactly in PAUSED |
| Match lifecycle `server/composition/match/` | Match, Round, `Room.phase`, `Room.currentMatchId` | `startMatch`, `startRound`, `endRound`, `advancePhase`, `finishMatch`, `rematch` | several store calls each, copies that go stale, a crash in between | Room.phase projects Match.phase; rounds follow phases; rounds are counted right; no dangling ids |
| Phase pump and host events `server/transport/socket/{fasepomp,clientevents,snapshot}.mjs` | one timer per room (memory) | ten host events, three timer callbacks, `onPhaseEntered` | a timer cancelled or set at the wrong moment | the timer is always the one the phase waits for; a match never just stops, but before a round the content refuses |
| Recovery `server/composition/match/herstel.mjs`, `server/index.mjs` | none of its own | `recoverActiveRooms` before sockets open | crash during recovery; a listed room that has expired, or has lost its locators | every match under way waits for its host after a restart |
| Answer pipeline `rondes.mjs`, `server/data/answer-flow.js`, `server/data/adapters/redis/{answer-methods,scripts}.mjs` | Answer, Player, action cache; ack cache (memory) | `submitAnswer`, `saveAcceptedAnswerAtomically` | corrections, overlapping taps, resends, stale compare-and-set | a tap is atomic, counted once, and the score is the sum of the answers |
| Participants `server/composition/room/deelnemers.mjs` | Player, Session, sockets | `joinRoom`, `kickPlayer`, `leaveRoom`, `renamePlayer`, `recolorPlayer` | whole-document writes against answers, resets and each other; players listed before one is saved; a join that stops halfway | a departure sticks; capacity holds; names tell players apart; a kicked player is out |
| Rooms, locators, sessions `aanmaken.mjs`, `sessie.mjs`, `room-methods.mjs`, `room-codes.js`, `auth-session.mjs` | Room, two locators (code, hashed invite), Session | `createRoom`, `claimLocators`, `releaseLocators`, `refreshRoomLocators`, lookups, token checks | collisions, half-made claims, lost replies, keys that expire apart, a rotated pepper | a code names one live room and comes free again; a room in use is found; a revoked session does nothing |
| Room configuration `configuratie.mjs`, `levensduur.mjs` | `Room.config`, `Room.locked` | `updateConfig`, `setRoomLocked`, `touchRoom` | a stale Room written over a newer one | the configuration changes in the lobby only |
| Stores `in-memory-store.js`, `adapters/redis/*` | all documents | reads, whole-document writes, two atomic operations | optimistic retries, lost connections, expiry | the atomic operations are atomic; a retry never repeats an effect |
| Snapshot, standings `snapshot.mjs`, `stand.mjs`, `shared/rules/ranking.mjs` | none | `buildSnapshot`, `getScoreboard`, `rankPlayers` | ties; what may be told before the reveal | the ranking is a total preorder; no answer leaks early |
| Client transport `frontend/js/transport`, `shared/protocol/snapshot-precedence.mjs` | last event, pending requests | apply event, apply snapshot, reconnect | a late snapshot over newer events | the client never goes back in time |
| Ack cache, throttle `server/protocol/{idempotency,throttle-round-progress}.mjs` | per room, memory | duplicate test, rate limit | repeated and refused actions | same actionId, same ack |
| Question choice `server/rules/question-selection.js`, `content-source.mjs` | `Match.usedQuestionKeys`, those of the match before | `buildMatchQuestionPlan` for one round | a pool with gaps or too small, the fallback, rematches, a round played again | one right answer; no question comes back while there are others |
| Other rules `server/rules/*.js` | none | score, deadline, eligibility, distribution | boundaries and clamps | agree with the rule book |
| Names `name-processing.js`, `identity-processing.mjs` | none | clean, choose, deduplicate | collisions with players who join meanwhile | unique names |
| Analytics `server/data/adapters/postgres/*` | open matches, buffer, daily counters, backoff (memory); three tables | `record`, `flush`, `drain`, `close` | a full buffer, a database that fails, hangs or commits after the deadline, a close during a flush | nothing is lost or counted twice without a trace; what can be written is written |
| Client flow `client/flow/*.mjs` | one small machine per screen | pure reducers | server and client phase disagree | offers only actions the server takes |
| Server time `server-time.js` | offset estimate | update, convert | bad samples | a bounded error |
| Content, views, deployment, the older solo page | data | - | - | outside the match |

### How they interact

A client event reaches `clientevents.mjs`, which checks the role, the payload
and the ack cache, calls one function of `server/composition/`, acknowledges,
and then runs an `after` step that publishes and sets the timer. A timer
callback calls the composition layer the same way. The composition layer knows
only the store: `applyTransition` (`gedeeld.mjs`) asks the reducer for a verdict,
writes the bookkeeping, swaps `Room.phase` and `Match.phase` in one atomic
operation, and touches the room. With the in-memory store (no `REDIS_URL`) every
await is a microtask, so a handler finishes before the next event is taken up;
with Redis every store call is a point where another handler may run.

A room is found by its code or by its invite; both are keys of their own beside
the Room document, claimed together, refreshed by `touchRoom` and gone after
twelve hours without it. The analytics writer is fed by events and reads nothing
of the game; the server of this commit does not create it yet.

## 2. The modules

| Module | Models | Lines of code it stands for |
|---|---|---|
| `MatchStateMachine` | the reducer, every row and both resume events | `state-machine.js` 122-550 |
| `MatchPhases` | abstract: what a client may see of phase, pause and pacing | the same, and `verloop.mjs` 200-241 |
| `MatchLifecycle` | the documents, the timer, all handlers that move a match, failing calls, crash and recovery | `verloop`, `fases`, `gedeeld`, `rondes`, `herstel`, `fasepomp`, `clientevents` |
| `MCMatchLifecycle` | instances for TLC | |
| `MatchLifecycle_proofs` | the inductive invariant and four theorems | |
| `MatchSerial_proofs` | handlers that do not overlap: the refinement of `MatchPhases` and three invariants | |
| `AnswerLedger` | abstract: a tap is one step | `answer-flow.js` 136-183 |
| `AnswerFlow` | a tap as seven store calls, against kick, leave, the end of the round, rematch, crash and resend | `rondes`, `answer-flow`, `answer-methods`, `scripts`, `deelnemers`, `clientevents` |
| `MCAnswerFlow` | instances for TLC | |
| `SnapshotPrecedence` | the rule that orders snapshots and events, and the gate that keeps its position | `snapshot-precedence.mjs` 249-348, `precedentie.mjs` 41-186 |
| `ClientSync` | one client: socket, reconnects, snapshots over HTTP, gate, screen; the server as far as that client can tell | `transport/verbinding`, `session-shell`, `session/verbinding`, `reconnect-state`, `publiceren`, `handshake`, `snapshot` |
| `AnswerFlow_proofs` | the inductive invariants, the refinement of `AnswerLedger`, theorems about answers, departures and scores | |
| `ClientSync_proofs` | the inductive invariants and five theorems about the gate | |
| `RoomBoard` | abstract: a room opens once, under a code nobody else has, and closes for good | `aanmaken` 268-272, `ttl.js` |
| `RoomDirectory` | locators and documents with their time to live, creation with claim, retry and release, use of a room, failing calls and lost replies, crash and the recovery of several rooms | `aanmaken`, `room-methods`, `scripts`, `gedeeld`, `levensduur`, `herstel`, `index` |
| `Membership` | join, kick, leave, rename, recolour, lock, configuration and the start of a match, on players, sessions, the Room document and sockets | `deelnemers`, `levensduur`, `configuratie`, `name-processing`, `handshake`, `clientevents`, `rest` |
| `MCRoomDirectory`, `MCMembership` | instances for TLC | |
| `RoomDirectory_proofs` | five invariants, the refinement of `RoomBoard`, nine theorems | |
| `Membership_proofs` | five invariants and seven theorems | |
| `AnalyticsWriter` | the statistics: gathering, sealing, buffer, flush, deadline, backoff, close, and the database behind it | `analytics` 162-716, `analytics-sql` 96-164, `connection` 470-518 |
| `AnalyticsWriter_proofs` | the inductive invariant and three theorems | |
| `QuestionSelection` | the rules that choose a question, for the six games | `question-selection.js` 30-596, `content-source.mjs` |
| `QuestionRounds` | the questions of one room: choice of game, what a match has asked, what a rematch takes over, recovery | `verloop`, `rondes`, `configuratie`, `fasepomp` |
| `MCQuestionRounds` | a pool of ten countries and the host's choices for TLC | |
| `QuestionRounds_proofs` | the inductive invariants and three theorems | |

`PROJECT.json` ("map") gives the lines of every definition.

### How state and actions correspond

*Documents* are records with the fields the properties tell apart: a Room is its
phase, current match, lock and the three settings that steer the flow; a Match
its sequence, phase, pause state, round index and round ids; a Round its match
and status; a Player its score, flags and time of joining. A document that is
not stored is a `No...` record. Times are abstracted: a deadline either has or
has not passed, `remainingMs` is either a number or not.

*Handlers* are records in a slot of `op`: what the handler does, where it waits
(`pc`) and the copies it holds. An action is one store call with the local
computation up to the next `await`, so a handler's copies can be stale when it
writes them. `Decided` is `applyTransition` up to its first store call: the
verdict, then either the bookkeeping write (`SaveMatch`) or straight to the
compare-and-set (`SwapPhase`). The `after` step of an event and the timer
callbacks are `After`, with `TimerAfter` for the timer and `ContinuesAs` for the
handler that follows in the same call (the next round straight after the
scoreboard, `finishMatch` after the last one).

*The timer* is one variable: what the room's runtime timer will run. It is lost
in a crash. `FireTimer` clears it and begins the handler, as `scheduleAt` does.
`RefuseRound` is the return of `startRound` with `CONTENT_UNAVAILABLE`
(`rondes.mjs` 77-89): nothing is stored, and `runStartRound` only logs it
(`fasepomp.mjs` 232-237). `unbuilt` records that this happened in the present
phase; it is history, which the next swap of the phase clears and no guard reads.

*The phase in `AnswerFlow`* is coarse (lobby, round, result, finished), because
`submitAnswer` looks at the round's status and never at the phase. What
`MatchLifecycle` has in detail (the calls of a rematch before the match changes,
`touchRoom`) is one step there. A crash during a round takes the phase to
result: the recovery pauses and the resume leads to a countdown, so a fresh round
may begin while the abandoned one is still stored as ACTIVE.

*Joins, kicks, departures, renames and recolours* touch the Room document too:
they write back the room they read, which is `EditRoom` with nothing changed.

*In `ClientSync`* the server is a position in the room's history (the sequence
of the match, and the change within it), a clock in milliseconds that several
changes may share, and whether this client's session is revoked. A match is
named by its sequence: its id is compared for equality only. A snapshot or event
carries the position it tells, which the code has no such field for and the
properties need. `wire` is the socket: in order, and lost as a whole with the
connection. Each HTTP call is a record of its own (`call`), so answers overtake
each other and the socket. `ServeRead` and `ServeReply` are the two points where
`buildSnapshot` looks: first at the room and match, then at the clock. `Deliver`
takes the next packet through the gate to the screen, `Receive` an HTTP answer
to the gate and to the screen whatever the gate decided. `began`, `applied` and
`owed` are history. Every change is published in the step that makes it: a
handler publishes right after its last store call.

*In `RoomDirectory`* a locator is a record of its owner and the ticks it has
left; an invite is a pair of the id and the version of the pepper it is hashed
with. `Claim`, `Release` and `Refresh` are the Lua scripts, one step each;
`createRoom` is `BeginCreate`, one `Claim` per attempt, `Mark`, `SaveNewRoom`,
`FinishCreate`. `Fail` is a store call that throws, with its effect (`Effect`,
the reply was lost) or without, followed by what the `catch` blocks do
(`AfterFailure`). A room in use is `BeginUse`, `Swap` (which moves a match into
or out of a phase with a timer), `Touch`, `Refresh`; an answer is
`WriteInRoom`, which keeps the room but not its locators alive. `Restart`,
`PassOver`, `RecoverRoom`, `RecoveryFails` and `RecoveryEnds` are the loop of
`recoverActiveRooms`. `claimed`, `opened`, `inUse` and `wrecked` are history.

*In `Membership`* the handlers are again records in slots. Whatever a handler
decides from a document it decides in the action that reads it (`ListForJoin`
looks at capacity and names at once), and what it writes in a later action is
its copy. A session is `none`, `live` or `revoked`; the socket handshake is the
one step `Connect`, and a kick's read and write of a session are the one step
`RevokeSession`: only the join that makes a session writes it too, and once, so the
read alone would change nothing another handler could see. `raced` is history: which pairs of handlers have overlapped
(two that list the players, two that write one player, a change of the room
document inside another handler, a kick inside the kicked player's own join).

*In `AnalyticsWriter`* `record` is one action per event, as it is synchronous.
A flush is `BeginFlush`, then `Commit` in the database and `Answered` in the
process, or `Fails`, `AnswerLost`, or `Hangs` and `TimesOut`; what timed out
waits in `late` for `LateCommit` or `LateRollback`. A row stands for a row of
`game_sessions` with those of `round_stats`; ids are given out in the order of
sealing. `days` and `dayRows` add up all daily counters, on both sides.
`counted`, `doubled` and `cutShort` are history.

*In `QuestionSelection`* what `random()` decides is a set: `QuestionsOf` are the
questions of a kind that the pool allows, `Selected` what may be drawn with some
keys excluded, `MayThrow` whether the code may give up, and `Built` and
`Unavailable` are `buildMatchQuestionPlan` with its second try, in which nothing
is excluded. A key is a record of game, kind and countries instead of a string.
In `QuestionRounds` a handler is one step: `StartRound` draws the question and
adds its key to `used`, `RefuseRound` is `CONTENT_UNAVAILABLE`, after which
`timer` is not set. A host's pause is refused in a countdown, so only the
recovery after a crash and the resume that follows it (`Recover`, one step) start
the round again.

*Three restrictions of behaviour* are constants. `Interleaved = FALSE` lets a
handler begin only when none runs; `Overlaps` lists the pairs of kinds that may
work on one player at the same time; in `ClientSync`, `Interleaved = FALSE`
keeps the room still while a snapshot is built. All are what the in-memory store gives,
and what Redis gives to a room whose requests do not coincide; they restrict
which behaviours are looked at, never what an action does. With them lifted the
properties below that are marked *serial* are violated, which sections 3 and 6
say for each.

## 3. What is checked

| Run | Instance | Properties | Shows |
|---|---|---|---|
| `lifecycle_serial` | one slot, all 12 settings, 2 rounds a match, 3 matches, 6 round documents, 4 host events, 2 crashes | `PhaseProjection`, `PumpArmed`, `RoundsKeepPace`, `PublishedPhases`, `MatchMovesOn` | *serial*: documents, timer and published phase stay in agreement through every mix of host events, timers, crashes and recoveries; the phases refine `MatchPhases`; a match under way reaches a point where it waits for its host, or stands still before a round the content refuses |
| `lifecycle_interleaved` | two slots, 1 round a match, 2 matches, 3 host events, 1 failing call | `TypeOK`, `PausedStateMatchesPhase`, `ReferencesStored` | what holds whatever overlaps and fails |
| `rematch_crash` | | `RoomPhaseProjectsMatchPhase` violated | decision 30 has a hole: a rematch cut off by a crash |
| `answers_serial` | one player, two taps, 2 rounds, 2 matches, 1 crash, 1 departure | `ScoreIsSumOfPoints`, `RevealIsFinal`, `TapsAreAtomic` | *serial*: a tap is one step of `AnswerLedger`, with resends and a crash inside any operation |
| `answers_races` | one player, two taps, two slots, 1 crash, answers overlapping answers, kicks, departures and the end of the round | `TypeOK`, `LastTapCounts`, `AckedIsRecorded`, `DepartureSticks` | what compare-and-set and action cache guarantee under overlap |
| `two_taps` | | `ScoreIsSumOfPoints` violated | overlapping taps lose points |
| `room_directory` | two rooms, codes, invites, pepper versions and handlers, `RoomTtl` 2, 2 attempts, 1 mishap | `TypeOK`, `LocatorsHold`, `InUseIsFindable`, `NoBurnedCode`, `RecoveryReachesAll`, `OpensOnce` | locators come, stay and go in pairs and lead home, through collisions, expiry, a lost reply or a crash; the recovery reaches every room or says that it did not; the directory implements `RoomBoard` |
| `membership` | three players on two places, one name, one identity, two slots, 4 handlers | `TypeOK`, `CapacityHolds`, `NamesTellApart`, `SessionsFit`, `KickedIsOut`, `RoomHolds` | what the room keeps under free interleaving, errors and crashes, and exactly which overlaps break the rest |
| `analytics` | two matches of a room, 1 gathered at a time, buffer of 2, batches of 1, 3 sessions, 3 counted events or mishaps | `TypeOK`, `NothingLostSilently`, `RematchRefersBack`, `ReachesPostgres` | the limits hold, what is sealed is stored or counted as dropped, rows arrive in order, and a hanging database does not stop the writer |
| `client_sync` | one client, two open calls, 2 matches, 2 milliseconds, 1 lost connection, 1 failing call | `TypeOK`, `SequenceNeverLeads`, `NeverBack`, `RefusedIsKnown`, `Resyncs`, `KickedLeaves` | the gate never takes the client back and refuses only what it has, except within a millisecond and while its sequence lags; after a reconnect it catches up; a removed player ends outside |
| `stale_screen` | | `ScreenShowsAccepted` violated | a snapshot the gate refuses is shown all the same |
| `questions` | all six games, a pool of ten countries with gaps, 2 seeds, 2 matches, 1 crash, 1 or 2 rounds a match | `TypeOK`, `OneRightAnswer`, `NewWhileEnough` | *serial*: every question has one right answer by the content; a match keeps its game, and no question comes back, in a match or its rematch, while there are enough of its kind |

Every property of a passing run has a mutant: a form of one mapped definition
with a plausible bug (named in `PROJECT.json`, defined next to the original and
marked "Mutant") under which TLC finds the property violated.

### Bounds

`MaxMatches`, `MaxRounds` bound the documents, `MaxHostEvents`, `MaxCrashes`,
`MaxFaults`, `MaxGone` count events of the environment; a creating action whose
bound is reached is disabled. Two rounds a match is the least that has a first,
an in-between and a last round; six round documents allow two matches and the
rounds that recovery replays. Four host events reach start, pause, resume and
one more, or start, finish, rematch, start. Two crashes are the least that hit
both a handler and the recovery that follows. One player is enough for the answers
because operations on different players share only the round and the phase,
which one player's operations race with as well. Two actions are one change of mind; points are 0 or 1. `SwapAttempts`
is 2 where the code has 5: an exhausted retry is reached sooner, and what
follows it is the same. For the client, two open calls are the least that
overtake each other (a retry and the call of a reconnect, or the first snapshot
and that call); two matches give a start, a rematch and a late snapshot of the
match before; two values of the clock give before, after and the shared
millisecond. Three failing calls in a row are the code's limit; the retry is the
same after each, so one shows it.

`RoomTtl` counts ticks where the code has twelve hours: two tell a key that was
refreshed from one that was not. Two codes and two invites for two rooms give
collisions and reuse; `MaxAttempts` is 2 where the code has more, since what
follows the last attempt is the same. `RequestTicks` and `SlowRequests` bound the
ticks that may fall while a request runs, one each: a request that straddles an
expiry. `MaxMishaps` counts failing calls and crashes together; the state space
allows one. Three players on two places are the least that overfill a room, and
`MaxHandlers` = 4 lets two overlaps follow each other; one name and one identity
make every newcomer collide. For the statistics, a buffer of two with batches of
one is the least in which a batch comes back to a buffer that is full, and
`MaxSealed` = 3 rows fill it once over; `MaxOpen` = 1 makes every second match
push out the first. `MaxEvents` bounds counted events and mishaps together.

Runs allow deadlock, `membership` excepted: when the bounds are used up and the
match has ended the room really is at rest.

For the questions, the ten countries are the least in which each branch of the
rules is reached: a continent of four and one of three, one with fewer than
three others of its own, a country without capital, shape or metric, two of the
same value, one of another difficulty. Two matches are one rematch. The server
draws a seed until it is new and has 2^32 of them; that `Seeds` run out is the
bound, and such a round is not drawn. `odd_one_out` draws four countries and
tests them fifty times over: the model may fall back with some left
(`MayThrow`), which the code does with a small probability, and
`NewWhileEnough` promises nothing there.

### Fairness

`MatchMovesOn` is checked under `FairSpec`: a running handler takes its next
step (the event loop never abandons a promise, and the store answers), a timer
that is set fires (`setTimeout`), a process that died is restarted (the
supervisor of the deployment) and opens its sockets when recovery is done. The
host is assumed to do nothing: the property ends where the match waits for the
host, or where it counts down to a round the content has refused (`unbuilt`). The
latter is the one stop of the code without a failing call or a crash: no timer is
set, a pause is refused in that phase, and only `game:finish` or a restart moves the
match on. No fairness would help, so the property names it. Failing store calls are excluded there (`MaxFaults = 0`), since the code
only logs an error in a timer callback and the room then does stand still.

`Resyncs` and `KickedLeaves` are checked under `ClientSync`'s `FairSpec`: the
socket delivers or drops, the server answers, the client's timers fire. No
connection has to hold, no call to succeed and nothing in the room to happen:
`Resyncs` says nothing when the connection is lost once more, and losses are
finite because their number is bounded. It speaks of reconnections; for the
first connection the code asks its snapshot before the socket is in the room,
and an event in between is lost (a hazard).

`ReachesPostgres` is checked under `AnalyticsWriter`'s `FairSpec`: the interval
timer fires, or the loop of `drain` goes on; the clock runs, so a backoff ends;
and a flush comes to an end, since `withDeadline` ends those whose database does
not answer. No fairness makes a flush succeed: mishaps are finite because
their number is bounded, which is "once the database is back".

## 4. What is proved

`MatchLifecycle_proofs` proves, for any set of slots, any bounds and any
configuration set that satisfies the assumptions of `MatchLifecycle`, with
handlers interleaving freely, store calls failing and the process crashing:

- `TypeCorrect`: `Spec => []TypeOK`;
- `PauseStateCorrect`: `Spec => []PausedStateMatchesPhase`;
- `NoDanglingReference`: `Spec => []ReferencesStored`;
- `Invariance`: `Spec => []IInv`, on which the other three rest.

None of the three is inductive, because a handler writes back what it read long
ago. `IInv` therefore speaks about the copies too: every stored document *fits*
(`RoomFits`, `MatchFits`: well-shaped, pause state set exactly in PAUSED, ids
point into the store), and so does every copy a handler holds, as far as its
place in the code will use it (`OpFits`, `PlaceFits`: who waits at `swap` holds
the reducer's verdict, who waits at `saveRound` will append an id that is not
used yet, and so on). A copy, however old, keeps fitting because the store only
grows: a match or round once stored stays, and a round never changes its match
(`Grows`, `GrowsKeepsOp`). So writing a stale copy back cannot break a reference
or separate a phase from its pause state, which is the whole argument.

The proof has one lemma per action (`LoadRoomFits` ... `AfterFits`), lemmas on
the reducer (`TransitionFits`) and on `applyTransition` (`PatchedFits`,
`DecidedFits`), and collects them in `NextFits`. The assumptions used are those
named in `MatchLifecycle`: the slots are a set, the bounds naturals, at least one
round, configurations with known fields.

`MatchSerial_proofs` proves, for any slots, bounds and configurations, what holds
when handlers do not overlap (`Interleaved = FALSE`). However often the process
dies or a store call throws:

- `PhaseIsProjected`: `Spec => []PhaseProjection`;
- `PhasesAreLegal`: `Spec => PublishedPhases`, the refinement of `MatchPhases`;

and as long as no call throws (`MaxFaults = 0`, crashes and recoveries included):

- `PumpIsArmed`: `Spec => []PumpArmed`;
- `RoundsKeptPace`: `Spec => []RoundsKeepPace`.

That one handler works at a time is not enough by itself: between two of its
calls the documents disagree, and a crash or an exception may leave them so. For
the first two, `SoloInv` says at each place what a handler has read and what it
has itself written since (`Current`): up to `saveMatch` its copies are the store,
at `swap` the match is what it patched, after it room and match are its copies
with the new phase, and a rematch works on a match the room does not yet point
to. The room's phase is therefore at every moment that of its match, or LOBBY
before a finished one (`Projects`). A step either leaves what the clients see
alone or is a swap of a verdict of the reducer, a rematch, or a new configuration
in the lobby (`Keeps`).

The last two need `PaceInv`. Between handlers (`AtRest`) the timer is that of the
phase, and the rounds follow the phase or, in a pause, the phase a resume returns
to (`Follows`, `Shown`): a recovery always returns to the countdown, which is why
nothing is asked of the rounds while one is due. While a handler works (`AtWork`)
the timer is the one it began with (`Clock`), and a verdict that is not in the
store yet is a promise about the match it will write (`Promises`). The lemmas on
the reducer say when it cannot refuse (`NeverRefused`): a handler that a timer
started has cleared the timer, and if it could turn back the room would stand
still. In one place it does: before a round the content refuses. `PumpArmed` says so,
and allows no timer exactly in a countdown with `unbuilt`; `TimersOf` has what is
known of a refusal as a parameter, and as soon as a handler has written, the
refusal it found no longer matters (`RefusedFor`, `ClockGrows`), since its swap ends
the phase. `Numbers` bounds `roundIndex` by the number of closed rounds at every
moment, so no number is passed over, crash or not. Without `MaxFaults = 0` both
are false: a call that throws in a timer callback leaves the phase without a
timer, which the code only logs.

`AnswerFlow_proofs` proves, for any players, actions, slots and bounds, and for
any choice of `Overlaps` (so for everything Redis can interleave):

- `TypeCorrect`: `Spec => []TypeOK`, no negative score included;
- `AckedStaysRecorded`: `Spec => []AckedIsRecorded`;
- `NoReplayWins`: `Spec => []LastTapCounts`;
- `DeparturesStick`: `Spec => DepartureSticks`, assuming `WritersApart`: kick,
  leave and rematch, which write whole documents, do not overlap on one player.
  The assumption is needed: section 6 says what happens without it.

The first three rest on an `IInv` that adds to `TypeOK` what a handler knows by
the place it has reached (`Fits`): from its session check on it holds a document,
at the swap the one it will replace and a score that is not negative, at the ack
an action the store knows. Players, taps, used actions and started rounds are
only added (`Grows`), so this knowledge does not age. `LastTapCounts` follows
because the swap writes an unused action only, while everything a tap comes
after was acknowledged, and whatever is acknowledged is used.

`DeparturesStick` needs a second invariant, `DepartureInv`: two writers never
touch the same player (`Apart`), and the copy a writer will write back knows
every departure (`Recalls`). `Effect` states what one step of a handler may do to
the flags of players; the answer's swap preserves them because it merges its
score into the document it has compared.

Its second half proves, for any players, taps, handlers and bounds and
assuming `Serially` (`Overlaps = {}`: no two operations run on one player at
once; and there is a player):

- `FlowIsLedger`: `Spec => TapsAreAtomic`, the refinement of `AnswerLedger`;
- `RevealsAreFinal`: `Spec => []RevealIsFinal`;
- `ScoresAddUp`: `Spec => []ScoreIsSumOfPoints`.

The invariant of the first two, `SerialInv`, says three things beside
`RevealIsFinal`. No two handlers at work have a player in common (`Alone`). What
a handler has read still holds (`HandlersKnow`): after its round check the round
is open, after its player check the copy it holds is the stored document of a
present player, then its previous answer is the stored one; the end of a round
holds the stored answers, the reset of a rematch the stored documents and, by
`ResetKnows`, nobody has answered yet in its match. And rounds, answers and
results come in that order (`StoreInOrder`). A step of another handler leaves
all this alone (`Undisturbed`), since it touches another player; one that
touches all players, the end of a round or a rematch, is the only one at work
but for handlers that have only their ack to send (`WholeIsAlone`), which hold
nothing. So at the swap the reads of the tap are true at once, and the swap is
`AnswerLedger`'s `Accept` (`SwapKeeps`); every other call is a stutter or one of
its other actions (`Keeps`). That a tap is one step is false when two taps
overlap: `two_taps` is the run that shows it, and this theorem says that
overlapping is the whole cause.

`ScoresAddUp` says the same of the scores, whose property `two_taps` violates.
The property speaks of moments at which nobody is at work on the player; the
invariant `ScoreInv` says more, that the sum is right while a handler is half
way too, except for a player whose reset a rematch still has to do, and that
only who is a player has answered. The swap takes the points of the previous
answer from the score it has read and adds the new ones; by `SerialInv` what it
has read is stored, so the score changes by what the sum changes by. The reset
of a rematch sets the score to 0, and in a new match nobody has answered
(`ResetKnows`). The sum is a fold over the rounds of the match, and what a fold
computes is a matter of induction, which is out of reach (below). It is counted
instead: `SumIsPile` shows that the fold is the cardinality of a *pile*, the
pairs of a round and a number from 1 to the points it earned. The cardinalities
of the piles satisfy the equations that define the fold, so the choice in its
definition has a witness, and a least set on which two solutions differ cannot
exist. What a step does to a sum is then what it does to a pile (`PileChanges`,
`SamePile`).

`ClientSync_proofs` proves, for any bounds, any set of calls that may be open and
either value of `Interleaved` (so for snapshots torn by a handler that ran
between two of their reads as well):

- `TypeCorrect`: `Spec => []TypeOK`;
- `SequenceIsBehind`: `Spec => []SequenceNeverLeads`;
- `Invariance`: `Spec => []IInv`, on which the other two rest;
- `NeverTakenBack` and `RefusedWasKnown`: `Spec => NeverBack` and
  `Spec => RefusedIsKnown`, assuming `Interleaved = FALSE`.

`SequenceNeverLeads` is not inductive: an event that names an earlier match
moves the gate's match and leaves its sequence, so one must know that the gate
refuses such an event. It does because of time. A match begins after the
one before it has ended, so a packet that names an earlier match is no younger
than the beginning of the match the gate's sequence names (`EventFits`,
`BeganFits`), while whatever the gate has applied since is no older, and
strictly younger if it was an event (`GateFits`); a snapshot under way is no older
than the match it names (`SnapshotFits`). The assumptions used are that the bounds
are naturals and that the room's first lobby is a change of its own
(`BoundsAssumption`, `StepsAssumption`).

The last two need `OrderInv`: of all that *tells* the client something (an event
on the wire, a reply under way, the gate itself), whoever speaks later knows no
less (`LaterKnowsMore`), nobody speaks of the future (`PastOnly`), and a snapshot
is whole (`Whole`). `Whole` is where `Interleaved = FALSE` is used: the values a
torn snapshot carries are older than its server time.

`RoomDirectory_proofs` proves every property of `room_directory`, for any
codes, invites, rooms, handlers, pepper versions and bounds that satisfy the
assumptions of `RoomDirectory`:

- `TypeCorrect`, `LocatorsStayPaired`, `LocatorsLeadHome`, `LocatorsExpire`,
  `InUseIsFound`, `CodesAreGivenBack`, `RecoveryLeavesNone`, each
  `Spec => []...`;
- `DirectoryIsBoard`: `Spec => OpensOnce`, the refinement of `RoomBoard`.

The actions are first summarised: what a step does to keys and documents is one
of seven `StoreStep`s, what it does to handlers an `OpStep`, and what a single
room sees of either a `RoomStep`. The invariants are then preserved by each of
those few, not by each action. `DirInv` says that every claim belongs to the
pair its room claimed (`ClaimsFit`), that both keys have one owner and one time
to live (`Paired`), and that a document names the pair its room claimed
(`DocsFit`). `LifeInv` adds the life of a room: it is saved once, its locators
expire no later than its document. `UseInv` (a room in use owns locators that
live as long), `CareInv` (who owns locators is stored, being created or wrecked)
and `WaitInv` (a stranded room is still to be recovered, or the loop broke)
give the last three theorems. What is needed of `None` is `NoneAssumption`: it
is no room, code or hash.

`Membership_proofs` proves every property of `membership`, for any players,
names, slots, capacity and number of handlers, in five layers that build on each
other: `RoomInv` (shapes, what each handler knows of its player by the place it
has reached, a player id is drawn by one join only) gives `TypeCorrect` and
`TokenHolds`; `KickInv` gives `KickedStaysOut`; `DocInv` (as long as no two
handlers have written one player, every copy is the document) gives
`RevokedStaysGone` (and, with `TokenHolds`, `SessionsStayFit`); `ListInv` (as long as no two that list have overlapped
either, who lists last knows all there are) gives `CapacityKept` and
`NamesKeptApart`; `HeldInv` gives `RoomStaysHeld`. The conditions on `raced`
are part of the properties: where an overlap breaks one, the code has no lock
that would prevent it. That `MakeUniqueInRoom` finds a free number at all is
`UniqueName`, by a pigeonhole argument.

`LocatorsAlwaysHold` of `RoomDirectory_proofs` puts three of its theorems
together, as the property of the run does.

`QuestionRounds_proofs` proves, for any content, any choices of the host, any
number of rounds, matches and recoveries:

- `TypeCorrect`: `Spec => []TypeOK`;
- `OneAnswerIsRight`: `Spec => []OneRightAnswer`;
- `QuestionsAreNew`: `Spec => []NewWhileEnough`.

`OneRightAnswer` follows from a lemma for each game (`ChoiceIsGood`,
`HigherIsRight`, `RealOrFakeIsRight`, `OddOneIsOdd`), which count options, and
from the pool and the question both standing still during a round. It needs
`FactsAssumption` (a metric is a number) and `FlagsAssumption` (the content is
finite, and a generated flag is that of no country).

`NewWhileEnough` counts: it promises something while the keys that the match
before has not used are at least as many as the rounds asked so far. That is not
inductive: a round adds to the count, and a change of difficulty in the lobby
changes what is counted. `NewWhileLeft` asks for one question only, which neither
the match before nor the rounds but the last have used. In the step that starts a
round this question was left to choose from, so the rules did not throw, the
fallback was not taken and the key is new (`BuiltIsNew`); and if there was one
left now, there was one left before. That enough questions leave one is the
pigeonhole of `EnoughLeavesOne`. In the lobby, where the configuration may
change, nothing has been asked yet. The assumptions used are those on the bounds
and on what a host may choose (`BoundsAssumption`, `ConfigsAssumption`).

`AnalyticsWriter_proofs` proves, for any rooms, sizes of Map, buffer and batch,
delays and bounds that satisfy `SizesAssumption` (the constructor refuses sizes
and delays below 1, lines 151-155) and `BoundsAssumption`:

- `WriterTypes`: `Spec => []TypeOK`;
- `NothingIsLostSilently`: `Spec => []NothingLostSilently`;
- `RematchIsStoredAfter`: `Spec => []RematchRefersBack`.

None of them is inductive. A row is known by its number, so the invariant `Inv`
says of every place a row can be (buffer, flush, abandoned transaction,
Postgres) that its rows have numbers given before and refer to smaller ones
(`RowsInv`). That the flush under way holds smaller numbers than the buffer
(`FlushInOrder`) is what keeps the order when a batch that failed is put back in
front; without it a rematch could come before its predecessor. A transaction
that outlives its deadline may commit at any time later, so it must hold nothing
whose predecessor still waits outside it (`LateSettled`): its batch was the
oldest there was when it began. Of the rows, that those which are nowhere are at
most those counted as dropped is a comparison of cardinalities (`RowsCounted`);
of the daily counters, the sum of what is gathered, in flight and stored
(`DaysCounted`), with the batches that were written twice in `doubled`.
`IdsLeft` keeps a number for every open match. What the walk over the Map does
is `Those`, a sequence by its positions: the library's `SelectSeq` takes an
operator as a parameter, and its theorems cannot be used (below).

Every invariant and every action property that a passing run checks is the
statement of one of these theorems. Only model-checked are the four liveness
properties, `MatchMovesOn`, `Resyncs`, `KickedLeaves` and `ReachesPostgres`:
fairness and `ENABLED` are outside what the prover handles. Induction over data
is too, as the induction theorems take an operator as a parameter that none of
the installed provers can instantiate; where a proof needs what a fold computes,
it counts.

## 5. Findings

Disagreements between the code and what its documents or comments promise, met
while modelling. Three have a run that exhibits them (section 3) and an entry with
the quoted line in `PROJECT.json`: a crash inside `rematch` strands the room; a
snapshot the precedence gate refuses is shown on the screen and takes it back
behind newer events; two overlapping taps miscount the score. The others:

- with `autoReveal` off, `game:resume` of a paused round sets a timer all the same
  (`fasepomp.mjs:195-199`), and that timer reveals the answer, against the comment
  at `fasepomp.mjs:248-255`;
- `rematch` gives the new match the game of the old one (`verloop.mjs:271`), and
  `startMatch` keeps a match that exists: what the host chooses in the lobby of a
  rematch is shown and never played, against `gamekeuze.mjs:10-11`;
- when nothing new is left, `buildMatchQuestionPlan` forgets this match's own
  questions too (`question-selection.js:593-596`): a rematch of three flags out of
  five can ask one of its own twice with others left, against GAME-RULES.md:73;
- real and fake are balanced over a match and the one before together, so rematches
  make up for each other: after matches of one flag and of two, a match of three
  is all real, against `question-selection.js:121-122` and GAME-RULES.md:99;
- late joiners answer the running round: `rest.mjs:553` passes no
  `eligibleFromRound`, and `resolveEligibleFromRound` is called by tests only,
  against GAME-RULES.md:162-163;
- the reset of a rematch skips departed players (`verloop.mjs:296-298`), while
  `rankablePlayers` drops only kicked ones: departed players take their old score
  into the next match's standings, against DECISIONS.md:19-20;
- a typed name is compared with the names shown by then, but the name of an
  identity that is given out later is compared with no typed name
  (`deelnemers.mjs:136-176`), so two players can be called the same, against
  GAME-FLOW.md:97 and 187;
- the comment at `rondes.mjs:70-76` says that a question which cannot be built
  fails visibly instead of leaving the room silent in COUNTDOWN ("faalt het
  zichtbaar in plaats van stil"); `runStartRound` writes a line in the log, no
  client is told, and the room stays in COUNTDOWN without a timer (`RefuseRound`,
  `unbuilt`; the exception in `PumpArmed` and `MatchMovesOn`);
- `markCodeSeen` stands outside the `try` that gives a claim back: when it
  throws, code and invite stay taken for the life of a room, against the comment
  at `aanmaken.mjs:187-189` (`wrecked`);
- a `saveRoom` that took effect but whose reply is lost gives the locators of an
  existing room back; that room is never found, but its code can be another's;
- a listed room whose locators have expired while answers kept its document
  makes `touchRoom` throw, which ends the recovery loop for all rooms after it
  (`broke`);
- a kick between the two writes of a join finds no session to revoke, and the
  join then stores a live one (`halfJoined`);
- `touchRoom` of a request that straddles the expiry of its room stores the room
  again without locators;
- the analytics writer gives one match two rows of `game_sessions` when an event
  arrives after the match was sealed, against analytics-sql.mjs ("dat per match
  één rij heeft"); `close()` during a flush writes nothing of the rest, because
  every call of its drain returns `in-flight` at once, against analytics.mjs:701
  ("probeert de buffer nog leeg te schrijven"); and what is recorded while
  `close()` awaits a flush is accepted and then lost uncounted.

## 6. What overlap breaks

Known consequences of overlap that no document of the repository contradicts
precisely enough for a run, listed as hazards:

- a kick or departure that overlaps an answer writes back the old score;
- a rematch's reset that overlaps a kick undoes it;
- an answer that overlaps `endRound` can be missing from the announced results;
- an answer that overlaps a rematch carries its points into the next match;
- the bookkeeping write of a transition brings back the phase its handler read
  before another handler's swap;
- a lock, configuration change or join that overlaps a start writes back a room
  in the lobby without a match;
- a pause that overlaps `endRound` leaves a running phase with a closed round;
- a change between the two reads of a snapshot is stamped earlier than the
  snapshot that misses it, and the client refuses its event.

Without overlap, and conceded by the header of `snapshot-precedence.mjs`: after
an event that starts a match, any snapshot of that match is accepted until the
next one sets the sequence, and within one millisecond an event loses to a
snapshot that does not contain it.

## 7. Not modelled, and why

Standings, snapshots and distribution are projections of stored documents that
nobody writes: what a snapshot contains is left out, when it is read and stamped
is in `ClientSync`. The other rules (points, eligibility, distribution) are
pure functions with unit tests of their own; points are drawn from a set. Of the
choice of questions, the order of the options, the drawing of fake flags and
matches of more than one game (which no room can have) are left out. The
other client flow machines are reducers of one screen each. Names are
values: cleaning, word lists and the random generator beyond its fallback are
left out, and so are colours. `rotateRoomLocators` is called by nobody. What
`markCodeSeen` stores (the difference between two error codes) is left out, and
so are the connection pools' own states, reconnection to Redis, and the retries
inside the phase swap. Of the client transport, `ClientSync` leaves out the acks
under way and a second room in the same page (the gate of `app.mjs` is never
emptied, so the snapshots of the second room are all refused, and shown all the
same). Reasons for a pause other than `host` and `server_recovery`: no client of
the repository sends one. Redis failover: a whole-room event that ends the game.
Of the statistics, what is counted in a row, the validation of events and the
writer without a database are left out.

Most lines of the repository are the content (countries, shapes, maps), the
user interface, the deployment and the older solo page: data and rendering,
which keep no state that a match shares. They are the reason why the lines the
map names are a small part of all lines.

## 8. Plan

1. Done: reducer, match lifecycle with timer, crash and recovery; the answer
   pipeline; the first proofs.
2. Done: `MatchSerial_proofs` and `AnswerFlow_proofs`, the scores included.
3. Done: `RoomDirectory` with `RoomBoard`, and `Membership`, with the proofs of
   all their properties.
4. Done: `ClientSync` (snapshot precedence, reconnect, requests in flight) and
   `ClientSync_proofs`.
5. Done: `AnalyticsWriter` and `AnalyticsWriter_proofs`.
6. Done: `QuestionSelection` and `QuestionRounds`, with the proof of the property
   that counts.
7. Left: the other rules as operators with reference definitions (ranking, scores
   with their clamps, eligibility, distribution); the Redis
   retry loop of the phase swap as an implementation of the one-step `SwapPhase`.
