--------------------------- MODULE AnalyticsWriter ----------------------------
(***************************************************************************)
(* The writer of the statistics: events of the game are gathered in memory *)
(* per match, a match that is over is sealed into rows, and the rows wait  *)
(* in a bounded buffer for a timer that writes them to Postgres, batch by  *)
(* batch, in one transaction each.                                         *)
(*                                                                         *)
(* record is synchronous, so an event is one action.  A flush is several:  *)
(* it begins, the transaction commits, its answer arrives; or it fails, or *)
(* hangs until the deadline, after which the transaction is still open in  *)
(* the database and may commit later.  A row stands for a row of           *)
(* game_sessions with the rows of round_stats that go with it; what they   *)
(* count, the counters of daily_metrics apart, is left out, and so are the *)
(* validation of an event and a writer without a database.  The server     *)
(* does not create the writer yet; the events are those its tests record.  *)
(***************************************************************************)
EXTENDS Integers, Sequences, FiniteSets

CONSTANTS
    Rooms,          \* room ids
    MaxSequence,    \* bound: matches of a room
    Capacity,       \* sealed matches the buffer holds
    MaxOpen,        \* maxOpenSessions: matches gathered at a time
    BatchSize,      \* sealed matches a flush takes
    MaxBatches,     \* batches that close tries to write
    IdleTicks,      \* sessionIdleMs: ticks after which a match is abandoned
    BackoffBase,    \* ticks to wait after a failed flush,
    BackoffMax,     \* and at most
    MaxSealed,      \* bound: sessions ever opened
    MaxEvents       \* bound: events that a daily counter counts, together with
                    \* transactions that fail, hang or lose their answer

ASSUME SizesAssumption ==
    {MaxSequence, Capacity, MaxOpen, BatchSize, MaxBatches, IdleTicks,
     BackoffBase, BackoffMax} \subseteq Nat \ {0}
ASSUME BoundsAssumption == {MaxSealed, MaxEvents} \subseteq Nat

VARIABLES
    open,           \* the matches being gathered, in the order of the Map
    outbox,         \* the sealed ones that wait, oldest first
    days,           \* what the daily counters have not written yet
    lastSessionIdByRoom,    \* the last row sealed for a match
    sealed,         \* stats.sealed: rows get their ids in this order
    dropped,        \* stats.dropped.capacity
    flush,          \* the flush under way
    failureStreak,  \* failed flushes in a row
    wait,           \* ticks until nextAttemptAt
    mode,           \* up, closing (draining, or awaiting a flush), or closed
    batches,        \* flushes that close has begun
    rows,           \* Postgres: the rows stored
    dayRows,        \* Postgres: what the daily counters add up to
    late,           \* Postgres: transactions that outlived their flush
    counted,        \* history: events that a daily counter has to count
    doubled,        \* history: counted twice after an answer got lost
    cutShort,       \* history: close ended with rows it did not try to write
    mishaps

writer == <<failureStreak, wait>>
closing == <<mode, batches, cutShort>>
database == <<rows, dayRows, late>>
sealing == <<outbox, lastSessionIdByRoom, sealed, dropped>>
counts == <<days, counted>>
vars == <<open, sealing, counts, flush, writer, closing, database, doubled, mishaps>>

-----------------------------------------------------------------------------
(* Sessions, rows and the buffer *)

Matches == Rooms \X (1..MaxSequence)
Previous(m) == <<m[1], m[2] - 1>>

NoRow == 0
Ids == 1..MaxSealed

Session(m, lag, rematch) == [match |-> m, quiet |-> lag, rematch |-> rematch]
Sessions == [match : Matches, quiet : 0..IdleTicks, rematch : BOOLEAN]
Rows == [id : Ids, match : Matches, rematchOf : {NoRow} \cup Ids]

Min2(a, b) == IF a <= b THEN a ELSE b

IsOpen(m) == \E i \in DOMAIN open : open[i].match = m

(* buildSessionRow for sessions sealed one after another: rematch_of is    *)
(* the last row of the match before, or nothing when it has none yet.      *)
RowOf(ss, i) ==
    LET prev == Previous(ss[i].match)
        same == {j \in 1..(i - 1) : ss[j].match = prev}
    IN [id |-> sealed + i, match |-> ss[i].match,
        rematchOf |->
            IF ~ss[i].rematch \/ prev \notin Matches THEN NoRow
            ELSE IF same # {} THEN sealed + (CHOOSE j \in same : TRUE)
            ELSE lastSessionIdByRoom[prev]]
SealedRows(ss) == [i \in DOMAIN ss |-> RowOf(ss, i)]

(* Mutant: what comes back from a failed flush may exceed the capacity.    *)
KeptAll(q) == q

(* A buffer that is too long loses its oldest rows.                        *)
Kept(q) == IF Len(q) <= Capacity THEN q
           ELSE SubSeq(q, Len(q) - Capacity + 1, Len(q))
Overflow(q) == IF Len(q) <= Capacity THEN 0 ELSE Len(q) - Capacity

(* seal and enqueue, for the sessions ss in this order, all but the buffer *)
(* that is left.                                                           *)
SealAway(ss) ==
    LET at(m) == {i \in DOMAIN ss : ss[i].match = m}
    IN /\ dropped' = dropped + Overflow(outbox \o SealedRows(ss))
       /\ sealed' = sealed + Len(ss)
       /\ lastSessionIdByRoom' =
            [m \in Matches |-> IF at(m) = {} THEN lastSessionIdByRoom[m]
                               ELSE sealed + (CHOOSE i \in at(m) : TRUE)]

Seal(ss) == outbox' = Kept(outbox \o SealedRows(ss)) /\ SealAway(ss)

-----------------------------------------------------------------------------
(* record *)

(* The calls of drain follow each other with nothing in between, except    *)
(* while it awaits a flush.                                                *)
Yields == mode # "draining"
Recording == Yields /\ mode # "closed"

(* Positions in order, and what stands there: what a walk over the Map     *)
(* meets.                                                                  *)
InOrder(I) ==
    CHOOSE at \in [1..Cardinality(I) -> I] :
        \A j, k \in DOMAIN at : j < k => at[j] < at[k]
Those(ss, I) == [k \in 1..Cardinality(I) |-> ss[InOrder(I)[k]]]

Without(ss, m) == Those(ss, {i \in DOMAIN ss : ss[i].match # m})
Only(ss, m) == Those(ss, {i \in DOMAIN ss : ss[i].match = m})

(* The sessions whose last event is the longest ago; what happened within  *)
(* a tick may have happened in any order.                                  *)
Oldest == {i \in DOMAIN open : \A j \in DOMAIN open : open[j].quiet <= open[i].quiet}

(* openSession, for an event that happened lag ticks ago: an open match is *)
(* heard of again, a new one may push out the oldest.                      *)
Openings(m, lag, rematch) ==
    LET Heard(x) == IF x.match = m THEN Session(m, lag, x.rematch \/ rematch) ELSE x
        new == Session(m, lag, rematch)
    IN IF IsOpen(m)
       THEN {[open |-> [i \in DOMAIN open |-> Heard(open[i])], evicted |-> << >>]}
       ELSE IF Len(open) < MaxOpen
       THEN {[open |-> Append(open, new), evicted |-> << >>]}
       ELSE {[open |-> Append(Without(open, open[i].match), new),
              evicted |-> <<open[i]>>] : i \in Oldest}

(* The event belongs to a match: the session it opens stays open.          *)
Gather(m, lag, rematch) ==
    /\ IsOpen(m) \/ sealed + Len(open) < MaxSealed
    /\ \E o \in Openings(m, lag, rematch) :
           /\ open' = o.open
           /\ Seal(o.evicted)

CountDay ==
    /\ counted + mishaps < MaxEvents
    /\ counted' = counted + 1
    /\ days' = days + 1

OnlyRecords ==
    /\ Recording
    /\ UNCHANGED <<flush, writer, closing, database, doubled, mishaps>>

(* ROOM_CREATED *)
RoomCreated ==
    /\ OnlyRecords
    /\ CountDay
    /\ UNCHANGED <<open, sealing>>

(* MATCH_STARTED, PLAYER_JOINED *)
MatchGoesOn(m, lag) ==
    /\ OnlyRecords
    /\ Gather(m, lag, FALSE)
    /\ CountDay

(* SHARE_OPENED, ROUND_FINISHED: no daily counter counts them.             *)
MatchHeardOf(m, lag) ==
    /\ OnlyRecords
    /\ Gather(m, lag, FALSE)
    /\ UNCHANGED counts

(* MATCH_FINISHED: the session is opened if need be, and sealed.           *)
MatchFinished(m, lag) ==
    /\ OnlyRecords
    /\ IsOpen(m) \/ sealed + Len(open) < MaxSealed
    /\ \E o \in Openings(m, lag, FALSE) :
           /\ open' = Without(o.open, m)
           /\ Seal(o.evicted \o Only(o.open, m))
    /\ CountDay

(* REMATCH_CREATED *)
RematchCreated(m, lag) ==
    /\ OnlyRecords
    /\ Gather(m, lag, TRUE)
    /\ CountDay

-----------------------------------------------------------------------------
(* flush *)

NoFlush == [stage |-> "none", batch |-> << >>, days |-> 0]
Flushing == flush.stage # "none"

Idle(x) == x.quiet >= IdleTicks
IdleOnes == Those(open, {i \in DOMAIN open : Idle(open[i])})
Alive == Those(open, {i \in DOMAIN open : ~Idle(open[i])})

(* What a flush that begins now finds in the buffer.                       *)
Ready == Kept(outbox \o SealedRows(IdleOnes))
NothingToWrite == Ready = << >> /\ days = 0

(* flush up to the transaction: idle matches are sealed, then a batch and  *)
(* all the daily counters are taken out.                                   *)
BeginFlush ==
    LET n == Min2(BatchSize, Len(Ready))
    IN /\ flush' = [stage |-> "open", batch |-> SubSeq(Ready, 1, n), days |-> days]
       /\ outbox' = SubSeq(Ready, n + 1, Len(Ready))
       /\ SealAway(IdleOnes)
       /\ open' = Alive
       /\ days' = 0

(* The timer's flush: not while another is under way, nor during backoff.  *)
TimerFlush ==
    /\ mode = "up"
    /\ ~Flushing
    /\ wait = 0
    /\ ~NothingToWrite
    /\ BeginFlush
    /\ UNCHANGED <<counted, writer, closing, database, doubled, mishaps>>

StoredIds == {u.id : u \in rows}

(* ON CONFLICT (id) DO NOTHING for the rows, an addition for the counters. *)
Write(t) ==
    /\ rows' = rows \cup {t.batch[i] : i \in DOMAIN t.batch}
    /\ dayRows' = dayRows + t.days

(* withTransaction commits; its answer is under way.                       *)
Commit ==
    /\ flush.stage = "open"
    /\ Write(flush)
    /\ flush' = [flush EXCEPT !.stage = "committed"]
    /\ UNCHANGED <<open, sealing, counts, writer, closing, late, doubled, mishaps>>

(* The flush has succeeded; close goes on with the next batch.             *)
Answered ==
    /\ Yields
    /\ flush.stage = "committed"
    /\ flush' = NoFlush
    /\ failureStreak' = 0
    /\ wait' = 0
    /\ mode' = IF mode = "awaiting" THEN "draining" ELSE mode
    /\ UNCHANGED <<open, sealing, counts, batches, cutShort, database, doubled, mishaps>>

Backoff(streak) == Min2(BackoffMax, BackoffBase * 2^(streak - 1))

(* Mutant: the rows go to the end of the buffer.                           *)
RequeueLast ==
    LET q == outbox \o flush.batch
    IN outbox' = Kept(q) /\ dropped' = dropped + Overflow(q)

(* Mutant: rows that no longer fit are not counted.                        *)
RequeueUncounted == outbox' = Kept(flush.batch \o outbox) /\ UNCHANGED dropped

(* requeue: the batch goes back to the front of the buffer.                *)
Requeue ==
    LET q == flush.batch \o outbox
    IN outbox' = Kept(q) /\ dropped' = dropped + Overflow(q)

(* The loop of drain ends, and with it close.                              *)
EndDrain(short) == mode' = "closed" /\ batches' = 0 /\ cutShort' = short

(* The flush has failed: everything goes back, and the drain of close ends *)
(* at the first error.                                                     *)
GiveBack ==
    /\ Yields
    /\ Requeue
    /\ days' = days + flush.days
    /\ flush' = NoFlush
    /\ failureStreak' = failureStreak + 1
    /\ wait' = Backoff(failureStreak + 1)
    /\ IF mode = "awaiting" THEN EndDrain(TRUE) ELSE UNCHANGED closing
    /\ UNCHANGED <<open, lastSessionIdByRoom, sealed, counted>>

Mishap ==
    /\ counted + mishaps < MaxEvents
    /\ mishaps' = mishaps + 1

(* No client, or an error before COMMIT: nothing is written.               *)
Fails ==
    /\ flush.stage = "open"
    /\ Mishap
    /\ GiveBack
    /\ UNCHANGED <<database, doubled>>

(* COMMIT took effect, but its answer is lost or comes after the deadline. *)
AnswerLost ==
    /\ flush.stage = "committed"
    /\ Mishap
    /\ GiveBack
    /\ doubled' = doubled + flush.days
    /\ UNCHANGED database

(* The database does not answer any more ...                               *)
Hangs ==
    /\ flush.stage = "open"
    /\ Mishap
    /\ flush' = [flush EXCEPT !.stage = "hanging"]
    /\ UNCHANGED <<open, sealing, counts, writer, closing, database, doubled>>

(* Mutant: no deadline.                                                    *)
NeverOverdue(f) == FALSE

(* A flush that its deadline ends.                                         *)
Overdue(f) == f.stage = "hanging"

(* ... and withDeadline gives up; the transaction itself goes on.          *)
TimesOut ==
    /\ Overdue(flush)
    /\ GiveBack
    /\ late' = Append(late, [batch |-> flush.batch, days |-> flush.days])
    /\ UNCHANGED <<rows, dayRows, doubled, mishaps>>

Forget(i) == late' = SubSeq(late, 1, i - 1) \o SubSeq(late, i + 1, Len(late))

(* A transaction that outlived its flush commits after all, or never.      *)
LateCommit(i) ==
    /\ Write(late[i])
    /\ doubled' = doubled + late[i].days
    /\ Forget(i)
    /\ UNCHANGED <<open, sealing, counts, flush, writer, closing, mishaps>>

LateRollback(i) ==
    /\ Forget(i)
    /\ UNCHANGED <<open, sealing, counts, flush, writer, closing, rows, dayRows,
                   doubled, mishaps>>

-----------------------------------------------------------------------------
(* Time and close *)

(* Time passes for the idle matches and for the backoff; nothing looks at  *)
(* the clock after close.                                                  *)
Tick ==
    /\ Recording
    /\ wait > 0 \/ \E i \in DOMAIN open : ~Idle(open[i])
    /\ wait' = IF wait = 0 THEN 0 ELSE wait - 1
    /\ open' = [i \in DOMAIN open |->
                   [open[i] EXCEPT !.quiet = Min2(IdleTicks, @ + 1)]]
    /\ UNCHANGED <<sealing, counts, flush, failureStreak, closing, database, doubled,
                   mishaps>>

(* close: the timer stops, what is open is sealed, and unless flushOnClose *)
(* is off the buffer is drained.                                           *)
Close(flushOnClose) ==
    /\ mode = "up"
    /\ open' = << >>
    /\ Seal(open)
    /\ mode' = IF flushOnClose THEN "draining" ELSE "closed"
    /\ cutShort' = ~flushOnClose
    /\ UNCHANGED <<counts, flush, writer, batches, database, doubled, mishaps>>

(* drain, the next flush.  One that is still under way from the timer does *)
(* not end while the loop runs: each call says so at once, and the last of *)
(* MaxBatches calls ends the loop.                                         *)
DrainNext ==
    /\ mode = "draining"
    /\ IF Flushing \/ batches = MaxBatches
       THEN EndDrain(TRUE) /\ UNCHANGED <<open, sealing, days, flush>>
       ELSE IF NothingToWrite
       THEN EndDrain(FALSE) /\ UNCHANGED <<open, sealing, days, flush>>
       ELSE /\ BeginFlush
            /\ mode' = "awaiting"
            /\ batches' = batches + 1
            /\ UNCHANGED cutShort
    /\ UNCHANGED <<counted, writer, database, doubled, mishaps>>

-----------------------------------------------------------------------------
Init ==
    /\ open = << >>
    /\ outbox = << >>
    /\ days = 0
    /\ lastSessionIdByRoom = [m \in Matches |-> NoRow]
    /\ sealed = 0
    /\ dropped = 0
    /\ flush = NoFlush
    /\ failureStreak = 0
    /\ wait = 0
    /\ mode = "up"
    /\ batches = 0
    /\ rows = {}
    /\ dayRows = 0
    /\ late = << >>
    /\ counted = 0
    /\ doubled = 0
    /\ cutShort = FALSE
    /\ mishaps = 0

Recorded ==
    \/ RoomCreated
    \/ \E m \in Matches, lag \in 0..IdleTicks :
           \/ MatchGoesOn(m, lag)
           \/ MatchHeardOf(m, lag)
           \/ MatchFinished(m, lag)
           \/ RematchCreated(m, lag)

FlushStep == Commit \/ Answered \/ Fails \/ AnswerLost \/ Hangs \/ TimesOut

LateStep == \E i \in DOMAIN late : LateCommit(i) \/ LateRollback(i)

Next ==
    \/ Recorded
    \/ TimerFlush
    \/ FlushStep
    \/ LateStep
    \/ Tick
    \/ \E flushOnClose \in BOOLEAN : Close(flushOnClose)
    \/ DrainNext

Spec == Init /\ [][Next]_vars

(* setInterval fires, or the loop of close goes on; the clock runs; and a  *)
(* flush comes to an end, since it commits, fails or reaches its deadline. *)
FairSpec ==
    /\ Spec
    /\ WF_vars(TimerFlush \/ DrainNext)
    /\ WF_vars(Tick)
    /\ WF_vars(FlushStep)

-----------------------------------------------------------------------------
(* Properties *)

IdsIn(q) == {q[i].id : i \in DOMAIN q}
BufferedIds == IdsIn(outbox) \cup IdsIn(flush.batch)

(* Types and limits: the map, the buffer, a batch and the backoff stay     *)
(* within what the writer was given, whatever fails and comes back, and    *)
(* the buffer is in the order of sealing.                                  *)
TypeOK ==
    /\ open \in Seq(Sessions) /\ Len(open) <= MaxOpen
    /\ \A i, j \in DOMAIN open : open[i].match = open[j].match => i = j
    /\ outbox \in Seq(Rows) /\ Len(outbox) <= Capacity
    /\ \A i, j \in DOMAIN outbox : i < j => outbox[i].id < outbox[j].id
    /\ {days, sealed, dropped, failureStreak, dayRows, counted, doubled, mishaps}
        \subseteq Nat
    /\ lastSessionIdByRoom \in [Matches -> {NoRow} \cup Ids]
    /\ flush \in [stage : {"none", "open", "hanging", "committed"}, batch : Seq(Rows),
                  days : Nat]
    /\ Len(flush.batch) <= BatchSize
    /\ wait \in 0..BackoffMax
    /\ mode \in {"up", "draining", "awaiting", "closed"}
    /\ batches \in 0..MaxBatches
    /\ rows \subseteq Rows
    /\ late \in Seq([batch : Seq(Rows), days : Nat])
    /\ cutShort \in BOOLEAN

(* What was sealed is in the buffer, in the flush under way, in Postgres,  *)
(* or counted as dropped; and the daily counters have every event exactly  *)
(* once, apart from those whose transaction committed without an answer.   *)
NothingLostSilently ==
    /\ Cardinality(1..sealed \ (BufferedIds \cup StoredIds)) <= dropped
    /\ dayRows + days + (IF flush.stage \in {"open", "hanging"} THEN flush.days ELSE 0)
            = counted + doubled

(* A row of a rematch is never in Postgres while the row it refers to is   *)
(* still to come.                                                          *)
RematchRefersBack ==
    \A u \in rows : u.rematchOf # NoRow =>
        u.rematchOf \in StoredIds \/ u.rematchOf \notin BufferedIds

(* Whatever is sealed is written or counted as dropped in the end, unless  *)
(* close ended without trying.                                             *)
ReachesPostgres ==
    \A i \in Ids : i \in BufferedIds ~> i \notin BufferedIds \/ cutShort
=============================================================================
