---------------------------- MODULE CaptureRecorder ----------------------------
(***************************************************************************)
(* One lane of the first-party market-data capture: the recorder           *)
(* (bybit_public_websocket_recorder_v1) and the partition writer           *)
(* (first_party_capture_archive_v1.CapturePartitionWriterV1).  Records     *)
(* arrive over a connection that breaks, under a wall clock that may step, *)
(* across UTC midnights, restarts and crashes; the recorder declares the   *)
(* windows in which it observed everything, and the gaps between them.     *)
(* A handler reads the clock once: it takes no time in this model.         *)
(***************************************************************************)
EXTENDS Integers, SequencesExt

CONSTANTS
    DayLength,      \* instants in a UTC day
    Steps,          \* steps of the wall clock, each beyond the tolerance
    MaxTime,        \* bound on the wall clock
    MaxSteps,       \* bound on the number of steps
    MaxRecords,     \* bound on the records of a session
    MaxSessions,    \* bound on the sessions of the lane
    MaxLosses       \* bound on healthy connections that are lost or dropped

ASSUME RecorderAssumption ==
    /\ DayLength \in Nat \ {0}
    /\ Steps \subseteq Int
    /\ {MaxTime, MaxSteps, MaxRecords, MaxSessions, MaxLosses} \subseteq Nat

VARIABLES
    wall,           \* the wall clock
    skew,           \* the wall clock minus the monotonic counter
    steps,          \* steps of the wall clock so far
    phase,          \* of the session: off, without a connection (loop), or how
                    \* the venue serves its connection (open, live, broken)
    acked,          \* the subscribe reply of this connection was received
    monitor,        \* last reading of CaptureClockMonitorV1, or NoReading
    seq,            \* _sequence
    book,           \* writer, coverage and archive, see below
    losses          \* connections lost so far

clockVars == <<wall, skew, steps>>
vars == <<clockVars, phase, acked, monitor, seq, book, losses>>

Day(t) == t \div DayLength
today == Day(wall)

NoReading == [wall |-> -1, skew |-> 0]
reading == [wall |-> wall, skew |-> skew]

\* The end of a gap that nothing bounds: no declaration may follow it.
Endless == MaxTime + 2

\* Causes that the recorder did not choose; they open a gap.
Involuntary == {"CONNECTION_LOST", "CLOCK_DISCONTINUITY", "CONTRACT_VIOLATION",
                "RECORDER_FAILURE"}
EndProof == Involuntary \cup {"UTC_DAY_ROLLOVER", "OPERATOR_STOP"}

NoWriter == [day |-> -1]
NoCover == [start |-> -1]
NoGap == -1

\* CapturePartitionWriterV1.__init__
NewWriter(day) ==
    [day |-> day, records |-> <<>>, unclaimed |-> <<>>,
     windows |-> <<>>, gaps |-> {}, frontier |-> 0, refused |-> FALSE]

\* What _open_coverage starts: a window at an instant.  skipped and hole are
\* not in the code: a message was missed since the last proof of the window,
\* and between two of its proofs.
NewCover(at) ==
    [start |-> at, last |-> at, count |-> 0, skipped |-> FALSE, hole |-> FALSE]

Time == 0 .. MaxTime
Cover == [start: Time, last: Time, count: 0 .. MaxRecords, skipped: BOOLEAN, hole: BOOLEAN]
Window == [start: Time, last: Time, count: 0 .. MaxRecords, hole: BOOLEAN, proof: EndProof]
Gap == [start: 1 .. MaxTime + 1, end: 0 .. Endless]
Record == [seq: 0 .. MaxRecords, at: Time, counted: BOOLEAN]

Writer == [day: 0 .. Day(MaxTime), records: Seq(Record), unclaimed: Seq(Time),
           windows: Seq(Window), gaps: SUBSET Gap, frontier: 0 .. Endless, refused: BOOLEAN]
Partition == [day: 0 .. Day(MaxTime), records: Seq(Record), windows: Seq(Window),
              gaps: SUBSET Gap]
Book == [session: 0 .. MaxSessions, writer: Writer \cup {NoWriter},
         cover: Cover \cup {NoCover}, floor: 0 .. MaxTime + 1,
         pending: {NoGap} \cup (0 .. MaxTime + 1), archive: SUBSET Partition,
         proven: SUBSET [start: Time, last: Time]]

TypeOK ==
    /\ wall \in Time
    /\ skew \in Int
    /\ steps \in 0 .. MaxSteps
    /\ phase \in {"off", "loop", "open", "live", "broken"}
    /\ acked \in BOOLEAN
    /\ monitor = NoReading \/ monitor \in [wall: Time, skew: Int]
    /\ seq \in 0 .. MaxRecords
    /\ book \in Book
    /\ book.pending = NoGap \/ book.pending = book.floor
    /\ losses \in 0 .. MaxLosses

Init ==
    /\ wall = 0 /\ skew = 0 /\ steps = 0
    /\ phase = "off"
    /\ acked = FALSE
    /\ monitor = NoReading
    /\ seq = 0
    /\ book = [session |-> 0, writer |-> NoWriter, cover |-> NoCover, floor |-> 0,
               pending |-> NoGap, archive |-> {}, proven |-> {}]
    /\ losses = 0
--------------------------------------------------------------------------------
(***************************************************************************)
(* The writer.  It refuses a declaration that its own count contradicts.   *)
(***************************************************************************)

Within(window, at) == window.start <= at /\ at <= window.last

\* declare_coverage
DeclareCoverage(writer, window) ==
    IF /\ writer.frontier <= window.start
       /\ window.count = Len(writer.unclaimed)
       /\ writer.unclaimed # <<>> =>
            Within(window, Head(writer.unclaimed)) /\ Within(window, Last(writer.unclaimed))
    THEN [writer EXCEPT !.windows = Append(@, window), !.unclaimed = <<>>,
                        !.frontier = window.last + 1]
    ELSE [writer EXCEPT !.refused = TRUE]

\* declare_gap
DeclareGap(writer, gap) ==
    IF writer.unclaimed = <<>> /\ writer.frontier <= gap.start /\ gap.start <= gap.end
    THEN [writer EXCEPT !.gaps = @ \cup {gap}, !.frontier = gap.end]
    ELSE [writer EXCEPT !.refused = TRUE]

\* append_record: the line is on disk, and counted unless the flush failed.
AppendRecord(writer, at, counted) ==
    [writer EXCEPT !.records = Append(@, [seq |-> seq, at |-> at, counted |-> counted]),
                   !.unclaimed = IF counted THEN Append(@, at) ELSE @]

\* finalize: the archive's COMPLETE partitions are those that have a manifest.
\* A PARTIAL partition claims nothing and is not kept here.
Finalized(archive, writer) ==
    IF writer.unclaimed # <<>> \/ writer.refused THEN archive
    ELSE archive \cup {[day |-> writer.day, records |-> writer.records,
                        windows |-> writer.windows, gaps |-> writer.gaps]}
--------------------------------------------------------------------------------
(***************************************************************************)
(* The recorder's book: session, the partition's writer, the open window   *)
(* (cover), the exclusive end of the last one (floor), the start of a gap  *)
(* that waits for its end (pending), the COMPLETE partitions of this       *)
(* session (archive), and of earlier ones what is still read: the windows  *)
(* they prove (proven).                                                    *)
(***************************************************************************)

\* Mutant of Closed: the end of the window is not remembered.
ClosedWithoutFloor(b, proof) ==
    IF b.cover = NoCover THEN b
    ELSE [b EXCEPT !.writer = DeclareCoverage(@,
                                [start |-> b.cover.start, last |-> b.cover.last,
                                 count |-> b.cover.count, hole |-> b.cover.hole,
                                 proof |-> proof]),
                   !.pending = IF proof \in Involuntary THEN b.cover.last + 1 ELSE @,
                   !.cover = NoCover]

\* _close_coverage: the window ends at its last positive proof.
Closed(b, proof) ==
    IF b.cover = NoCover THEN b
    ELSE [b EXCEPT !.writer = DeclareCoverage(@,
                                [start |-> b.cover.start, last |-> b.cover.last,
                                 count |-> b.cover.count, hole |-> b.cover.hole,
                                 proof |-> proof]),
                   !.pending = IF proof \in Involuntary THEN b.cover.last + 1 ELSE @,
                   !.floor = b.cover.last + 1,
                   !.cover = NoCover]

\* Mutant of Sealed: the next partition inherits the gap that still waits.
SealedKeepingGap(b) ==
    LET writer == IF b.pending = NoGap THEN b.writer
                  ELSE DeclareGap(b.writer, [start |-> b.pending, end |-> Endless])
    IN  [b EXCEPT !.archive = Finalized(@, writer), !.writer = NoWriter]

\* _finalize_writer: a gap that still waits stays open-ended.
Sealed(b) ==
    LET writer == IF b.pending = NoGap THEN b.writer
                  ELSE DeclareGap(b.writer, [start |-> b.pending, end |-> Endless])
    IN  [b EXCEPT !.archive = Finalized(@, writer), !.writer = NoWriter,
                  !.pending = NoGap]

\* _writer_for raises: the day is before the one being written.
Regressed(b, day) == b.writer # NoWriter /\ day < b.writer.day

\* _writer_for: after midnight the old partition is finished first.
Turned(b, day) ==
    IF b.writer # NoWriter /\ b.writer.day = day THEN b
    ELSE [(IF b.writer = NoWriter THEN b ELSE Sealed(Closed(b, "UTC_DAY_ROLLOVER")))
            EXCEPT !.writer = NewWriter(day)]

\* _open_coverage raises: the clock is before the end of the last window.
Unopenable(b) == b.cover = NoCover /\ wall < b.floor

\* Mutant of Opened: the acknowledgement opens the window again.
Reopened(b) ==
    [b EXCEPT !.writer = IF b.pending = NoGap THEN @
                         ELSE DeclareGap(@, [start |-> b.pending, end |-> wall]),
              !.pending = NoGap,
              !.cover = NewCover(wall)]

\* _open_coverage: an open window is left alone.
Opened(b) ==
    IF b.cover # NoCover THEN b
    ELSE [b EXCEPT !.writer = IF b.pending = NoGap THEN @
                              ELSE DeclareGap(@, [start |-> b.pending, end |-> wall]),
                   !.pending = NoGap,
                   !.cover = NewCover(wall)]
--------------------------------------------------------------------------------
(***************************************************************************)
(* Clock and venue                                                         *)
(***************************************************************************)

Tick ==
    /\ wall < MaxTime
    /\ wall' = wall + 1
    /\ UNCHANGED <<skew, steps, phase, acked, monitor, seq, book, losses>>

\* NTP, an operator or a resumed host steps the wall clock.
StepClock(d) ==
    /\ steps < MaxSteps
    /\ wall + d \in 0 .. MaxTime
    /\ wall' = wall + d
    /\ skew' = skew + d
    /\ steps' = steps + 1
    /\ UNCHANGED <<phase, acked, monitor, seq, book, losses>>

Skipped(b) == IF b.cover = NoCover THEN b ELSE [b EXCEPT !.cover.skipped = TRUE]

\* The venue pushes a message that never reaches the recorder; one that a
\* live connection fails to deliver is followed by nothing else on it.
MissMessage ==
    /\ \/ /\ phase = "live"
          /\ losses < MaxLosses
          /\ losses' = losses + 1
          /\ phase' = "broken"
       \/ phase # "live" /\ UNCHANGED <<losses, phase>>
    /\ book' = Skipped(book)
    /\ UNCHANGED <<clockVars, acked, monitor, seq>>

\* The venue serves the subscription: from here on it pushes to this socket.
VenueSubscribes ==
    /\ phase = "open"
    /\ phase' = "live"
    /\ UNCHANGED <<clockVars, acked, monitor, seq, book, losses>>
--------------------------------------------------------------------------------
(***************************************************************************)
(* The recorder                                                            *)
(***************************************************************************)

\* The session's memory is gone; what was not sealed stays PARTIAL.
SessionOver(b) ==
    /\ phase' = "off"
    /\ acked' = FALSE
    /\ monitor' = NoReading
    /\ seq' = 0
    /\ book' = [b EXCEPT !.writer = NoWriter, !.cover = NoCover, !.pending = NoGap,
                         !.floor = 0]

\* Mutant of Lost: the window of the lost connection stays open.
LostUnderCover(b, proof) ==
    \/ Regressed(b, today) /\ SessionOver(b)
    \/ /\ ~Regressed(b, today)
       /\ phase' = "loop"
       /\ acked' = FALSE
       /\ monitor' = NoReading
       /\ book' = Turned(b, today)
       /\ UNCHANGED seq

\* Mutant of Lost: the next connection expects no subscribe reply.
LostButAcked(b, proof) ==
    \/ Regressed(b, today) /\ SessionOver(Closed(b, proof))
    \/ /\ ~Regressed(b, today)
       /\ phase' = "loop"
       /\ acked' = TRUE
       /\ monitor' = NoReading
       /\ book' = Turned(Closed(b, proof), today)
       /\ UNCHANGED seq

\* Mutant of Lost: records are numbered from 0 on each connection.
LostRestartsSequence(b, proof) ==
    \/ Regressed(b, today) /\ SessionOver(Closed(b, proof))
    \/ /\ ~Regressed(b, today)
       /\ phase' = "loop"
       /\ acked' = FALSE
       /\ monitor' = NoReading
       /\ seq' = 0
       /\ book' = Turned(Closed(b, proof), today)

\* _capture_loop's handler of a connection error: the window is closed and the
\* clock monitor starts afresh.  The loss is logged, which may turn the day;
\* when the day has regressed the log cannot be written, neither by
\* _finish_session, and the session ends.
Lost(b, proof) ==
    \/ Regressed(b, today) /\ SessionOver(Closed(b, proof))
    \/ /\ ~Regressed(b, today)
       /\ phase' = "loop"
       /\ acked' = FALSE
       /\ monitor' = NoReading
       /\ book' = Turned(Closed(b, proof), today)
       /\ UNCHANGED seq

Positions(s) == 1 .. Len(s)

\* derive_archive_availability_v1: the windows of the COMPLETE partitions.
ProvenWindows ==
    book.proven \cup UNION {{[start |-> p.windows[i].start, last |-> p.windows[i].last] :
                                i \in Positions(p.windows)} : p \in book.archive}

\* run: a new recorder and session, by the fleet's restart or a new segment.
StartSession ==
    /\ phase = "off"
    /\ book.session < MaxSessions
    /\ phase' = "loop"
    /\ book' = [book EXCEPT !.session = @ + 1,
                            !.writer = NewWriter(today),
                            !.proven = ProvenWindows, !.archive = {}]
    /\ UNCHANGED <<clockVars, acked, monitor, seq, losses>>

\* The socket is open and the subscribe request sent; CONNECTION_OPENED is
\* logged, and when the day has regressed neither it nor the error can be.
Connect ==
    /\ phase = "loop"
    /\ \/ /\ ~Regressed(book, today)
          /\ phase' = "open"
          /\ book' = Turned(book, today)
          /\ UNCHANGED <<acked, monitor, seq>>
       \/ Regressed(book, today) /\ SessionOver(book)
    /\ UNCHANGED <<clockVars, losses>>

\* CaptureClockMonitorV1.observe of a message's reading.
Backwards == monitor # NoReading /\ wall < monitor.wall
Diverged == monitor # NoReading /\ ~Backwards /\ skew # monitor.skew

\* _observe_clock: the book once the reading has been judged.
Judged ==
    IF Backwards \/ Diverged THEN Closed(book, "CLOCK_DISCONTINUITY") ELSE book

\* The message cannot be used: its handling raises, on this book.
Unusable ==
    Backwards \/ Regressed(Judged, today) \/ Unopenable(Turned(Judged, today))
Damaged ==
    IF Backwards \/ Regressed(Judged, today) THEN Judged ELSE Turned(Judged, today)

\* The window that takes the message in, and how the message extends it.
Opening == Opened(Turned(Judged, today))
Proven(cover) ==
    [cover EXCEPT !.last = wall, !.hole = cover.hole \/ cover.skipped, !.skipped = FALSE]
Counting(cover) == [Proven(cover) EXCEPT !.count = cover.count + 1]

\* _handle_subscription_reply: a successful reply is a positive proof.
ReceiveAck ==
    /\ phase = "live"
    /\ ~acked
    /\ \/ Unusable /\ Lost(Damaged, "CONNECTION_LOST")
       \/ /\ ~Unusable
          /\ acked' = TRUE
          /\ monitor' = reading
          /\ book' = [Opening EXCEPT !.cover = Proven(@)]
          /\ UNCHANGED <<phase, seq>>
    /\ UNCHANGED <<clockVars, losses>>

\* _record of a message under the contract.
ReceiveRecord ==
    /\ phase = "live"
    /\ seq < MaxRecords
    /\ \/ Unusable /\ Lost(Skipped(Damaged), "CONNECTION_LOST")
       \/ /\ ~Unusable
          /\ book' = [Opening EXCEPT !.writer = AppendRecord(@, wall, TRUE),
                                     !.cover = Counting(@)]
          /\ seq' = seq + 1
          /\ monitor' = reading
          /\ UNCHANGED <<phase, acked>>
    /\ UNCHANGED <<clockVars, losses>>

\* _record of a message whose flush fails: the OSError counts as a lost
\* connection.  The line stays in the handle's buffer and a later flush or
\* close writes it (when none succeeds the partition ends as by Crash); it is
\* never counted, and its sequence is used again.
WriteError ==
    /\ phase = "live"
    /\ ~Unusable
    /\ losses < MaxLosses
    /\ losses' = losses + 1
    /\ Lost([Skipped(Opening) EXCEPT !.writer = AppendRecord(@, wall, FALSE)],
            "CONNECTION_LOST")
    /\ UNCHANGED clockVars

\* _reject: a message that violates the contract.
ReceiveInvalid ==
    /\ phase = "live"
    /\ losses < MaxLosses
    /\ losses' = losses + 1
    /\ Lost(Skipped(Judged), "CONTRACT_VIOLATION")
    /\ UNCHANGED clockVars

\* A pong is judged by its clock and proves nothing.
ReceiveControl ==
    /\ phase \in {"open", "live"}
    /\ \/ /\ Backwards \/ (Diverged /\ Regressed(Judged, today))
          /\ Lost(Judged, "CONNECTION_LOST")
       \/ /\ ~Backwards
          /\ Diverged => ~Regressed(Judged, today)
          /\ monitor' = reading
          /\ book' = IF Diverged THEN Turned(Judged, today) ELSE book
          /\ UNCHANGED <<phase, acked, seq>>
    /\ UNCHANGED <<clockVars, losses>>

\* The socket of a connection that delivers nothing any more fails or times out.
DetectBrokenLink ==
    /\ phase = "broken"
    /\ Lost(book, "CONNECTION_LOST")
    /\ UNCHANGED <<clockVars, losses>>

\* The peer closes, the network fails, or the venue refuses the subscription.
LoseConnection ==
    /\ phase \in {"open", "live"}
    /\ losses < MaxLosses
    /\ losses' = losses + 1
    /\ Lost(book, "CONNECTION_LOST")
    /\ UNCHANGED clockVars

\* Anything else that is logged: a clock sample of the supervisor between two
\* messages, or a connection attempt that failed.
LogEvent ==
    /\ phase # "off"
    /\ \/ Regressed(book, today) /\ SessionOver(book)
       \/ /\ ~Regressed(book, today)
          /\ book' = Turned(book, today)
          /\ UNCHANGED <<phase, acked, monitor, seq>>
    /\ UNCHANGED <<clockVars, losses>>

\* _finish_session: close, log, seal; a partition that cannot be finished
\* stays PARTIAL.
Finish(proof) ==
    /\ phase # "off"
    /\ LET c == Closed(book, proof)
       IN  SessionOver(IF Regressed(c, today) THEN c ELSE Sealed(Turned(c, today)))
    /\ UNCHANGED <<clockVars, losses>>

\* The stop signal is seen: a bound, an operator's interrupt or the disk floor.
StopSession == Finish("OPERATOR_STOP")

\* An exception that the loop does not catch.
FailSession == Finish("RECORDER_FAILURE")

\* The process dies: no manifest is written.
Crash ==
    /\ phase # "off"
    /\ SessionOver(book)
    /\ UNCHANGED <<clockVars, losses>>
--------------------------------------------------------------------------------
Next ==
    \/ Tick
    \/ \E d \in Steps : StepClock(d)
    \/ MissMessage
    \/ VenueSubscribes
    \/ StartSession
    \/ Connect
    \/ ReceiveAck
    \/ ReceiveRecord
    \/ WriteError
    \/ ReceiveInvalid
    \/ ReceiveControl
    \/ DetectBrokenLink
    \/ LoseConnection
    \/ LogEvent
    \/ StopSession
    \/ FailSession
    \/ Crash

Spec == Init /\ [][Next]_vars

\* The recorder's thread keeps running: it reconnects and notices a dead
\* socket; the venue answers a subscribe request.
FairSpec ==
    /\ Spec
    /\ WF_vars(Connect) /\ WF_vars(VenueSubscribes) /\ WF_vars(ReceiveAck)
    /\ WF_vars(DetectBrokenLink)
--------------------------------------------------------------------------------
(***************************************************************************)
(* Reading an archive                                                      *)
(***************************************************************************)

\* Where the records that the writer counted stand.
Counted(p) == {i \in Positions(p.records) : p.records[i].counted}

\* _metadata_reasons finds nothing: the partition is read as COMPLETE.
Consistent(p) ==
    LET covered(i) == \E j \in Positions(p.windows) : Within(p.windows[j], p.records[i].at)
    IN  /\ \A i \in 1 .. Len(p.windows) - 1 : p.windows[i].last < p.windows[i + 1].start
        /\ \A gap \in p.gaps, i \in Positions(p.windows) :
            p.windows[i].last < gap.start \/ gap.end <= p.windows[i].start
        /\ MapThenSumSet(LAMBDA j : p.windows[j].count, Positions(p.windows)) =
            Cardinality(Counted(p))
        /\ Counted(p) # {} => covered(Min(Counted(p))) /\ covered(Max(Counted(p)))

\* replay_partition_v1 raises nothing: it reads every line there is.
Replays(p) ==
    /\ \A i \in Positions(p.records) : Day(p.records[i].at) = p.day
    /\ \A i \in 1 .. Len(p.records) - 1 : p.records[i + 1].seq = p.records[i].seq + 1
    /\ \A i \in Positions(p.records) :
        \E j \in Positions(p.windows) : Within(p.windows[j], p.records[i].at)
    /\ Counted(p) = Positions(p.records)
    /\ \A j \in Positions(p.windows) :
        p.windows[j].count =
            Cardinality({i \in Positions(p.records) : Within(p.windows[j], p.records[i].at)})

\* Mutant of Reach: the newest window counts, not the one that reaches furthest.
ReachOfNewest(reach, window) == window

Reach(reach, window) ==
    IF reach = NoCover \/ window.last > reach.last THEN window ELSE reach

\* One turn of derive_capture_gaps_v1's loop over the windows: the hole before
\* this one, if the windows so far do not reach it.
Scanned(window, scan) ==
    [reach |-> Reach(scan.reach, window),
     gaps  |-> IF scan.reach # NoCover /\ window.start > scan.reach.last + 1
               THEN scan.gaps \cup {<<scan.reach.last + 1, window.start>>}
               ELSE scan.gaps]

\* The loop takes the windows by their start: the last turn is a latest one's.
Latest(windows) == CHOOSE w \in windows : \A v \in windows : v.start <= w.start

\* derive_capture_gaps_v1
Scan(windows) ==
    MapThenFoldSet(Scanned, [reach |-> NoCover, gaps |-> {}], LAMBDA w : w, Latest, windows)
DerivedGaps == Scan(ProvenWindows).gaps
--------------------------------------------------------------------------------
(***************************************************************************)
(* Properties                                                              *)
(***************************************************************************)

(* A partition that was sealed is read as COMPLETE, and it replays when no *)
(* flush failed: its records, their counts and its windows agree, whatever *)
(* connections, steps of the clock and midnights the session met           *)
(* (finalize, replay_partition_v1).                                        *)
SealedReplays ==
    \A p \in book.archive :
        /\ Consistent(p)
        /\ Counted(p) = Positions(p.records) => Replays(p)

(* Inside a window nothing was missed: of the messages that the venue      *)
(* pushed between the first and the last proof of a window, each one is    *)
(* recorded (_close_coverage, _reject).                                    *)
HoleFree ==
    \A p \in book.archive : \A i \in Positions(p.windows) : ~p.windows[i].hole

(* Two windows of a partition are kept apart by the declared gap that lies *)
(* exactly between them, and a window that an interruption ended last is   *)
(* followed by an open-ended gap: no interruption is bridged               *)
(* (CaptureGapV1, _finalize_writer).                                       *)
NeverBridged ==
    \A p \in book.archive :
        p.gaps = {[start |-> p.windows[i].last + 1,
                   end |-> IF i = Len(p.windows) THEN Endless ELSE p.windows[i + 1].start] :
                    i \in {j \in Positions(p.windows) :
                            j < Len(p.windows) \/ p.windows[j].proof \in Involuntary}}

(* The writer, which does not trust its caller's bookkeeping, never has a  *)
(* reason to refuse it (declare_coverage, declare_gap, finalize).          *)
WriterNeverRefuses ==
    book.writer # NoWriter => ~book.writer.refused

(* The gaps derived from the archive of all sessions are exactly the       *)
(* maximal stretches between two windows in which no window lies, also     *)
(* when the clock was stepped back between two sessions and their windows  *)
(* overlap (derive_capture_gaps_v1).                                       *)
GapsAreTheHoles ==
    LET covered(t) == \E w \in ProvenWindows : Within(w, t)
    IN  DerivedGaps = {hole \in (0 .. MaxTime) \X (0 .. MaxTime) :
                        /\ hole[1] < hole[2]
                        /\ hole[1] > 0 /\ covered(hole[1] - 1)
                        /\ \A t \in hole[1] .. hole[2] - 1 : ~covered(t)
                        /\ covered(hole[2])}

(* A recorder without a connection comes back to recording, or its session *)
(* ends, unless the clock stands before the end of its last window         *)
(* (_capture_loop).                                                        *)
RecordingResumes ==
    phase = "loop" ~> book.cover # NoCover \/ phase = "off" \/ wall < book.floor
================================================================================
