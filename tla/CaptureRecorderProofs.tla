------------------------- MODULE CaptureRecorderProofs -------------------------
(***************************************************************************)
(* Proofs about CaptureRecorder.  The windows of a partition and the one   *)
(* that is open make a line: each operator of the book changes only its    *)
(* end, which is why what holds of the line holds of the sealed windows.   *)
(***************************************************************************)
EXTENDS CaptureRecorder, DataInduction, SequenceTheorems

\* The windows of a partition, the one that is open at the end.
Line(b) == IF b.cover = NoCover THEN b.writer.windows ELSE Append(b.writer.windows, b.cover)

Sum(line) == MapThenSumSet(LAMBDA j : line[j].count, Positions(line))

\* The gaps between the windows of a line.
Between(line) ==
    {[start |-> line[i].last + 1, end |-> line[i + 1].start] : i \in 1 .. Len(line) - 1}

\* The counted records that arrived in a window.
Arrived(records, window) ==
    {i \in Positions(records) : records[i].counted /\ Within(window, records[i].at)}

Apart(line) ==
    \A i, j \in Positions(line) : i < j => line[i].last < line[j].start

Ending(line) == \A i \in Positions(line) : line[i].start <= line[i].last

NoHoles(line) == \A i \in Positions(line) : ~line[i].hole

\* The windows tell of every counted record, and count each one.
Claimed(records, line) ==
    \A i \in Positions(records) :
        records[i].counted => \E j \in Positions(line) : Within(line[j], records[i].at)

Tallied(records, line) ==
    \A j \in Positions(line) : line[j].count = Cardinality(Arrived(records, line[j]))

\* Without a failed flush the records are numbered one after the other.
Numbered(records, next) ==
    (\A i \in Positions(records) : records[i].counted) =>
        /\ \A i \in 1 .. Len(records) - 1 : records[i + 1].seq = records[i].seq + 1
        /\ records # <<>> => records[Len(records)].seq + 1 = next

\* What the lines on disk and the windows say of each other.
Recorded(writer, line, next) ==
    /\ \A i \in Positions(writer.records) : Day(writer.records[i].at) = writer.day
    /\ Numbered(writer.records, next)
    /\ Claimed(writer.records, line)
    /\ Tallied(writer.records, line)
    /\ Sum(line) = Cardinality(Counted(writer))

\* The window that is open, and the writer's view of what it has not declared.
Open(b, next) ==
    /\ b.pending = NoGap
    /\ b.cover.count = Len(b.writer.unclaimed)
    /\ b.cover.count <= next
    /\ b.writer.frontier <= b.cover.start
    /\ \A i \in Positions(b.writer.unclaimed) : Within(b.cover, b.writer.unclaimed[i])

\* Between two windows: a gap waits from the end of an interrupted window on.
Waiting(b) ==
    LET windows == b.writer.windows
    IN  /\ b.writer.unclaimed = <<>>
        /\ b.writer.frontier <= b.floor
        /\ b.pending # NoGap => b.pending = b.floor /\ windows # <<>>
        /\ windows # <<>> =>
            LET last == windows[Len(windows)]
            IN  (last.proof \in Involuntary <=> b.pending # NoGap)
                /\ (b.pending # NoGap => b.pending = last.last + 1)

\* What every operator of the book keeps; next is the number of the next record.
Kept(b, next) ==
    /\ b \in Book
    /\ b.writer = NoWriter => b.cover = NoCover /\ b.pending = NoGap
    /\ b.writer # NoWriter =>
        /\ ~b.writer.refused
        /\ \A i \in Positions(b.writer.windows) : b.writer.windows[i].last < b.writer.frontier
        /\ Apart(Line(b)) /\ Ending(Line(b)) /\ NoHoles(Line(b))
        /\ b.writer.gaps = Between(Line(b))
        /\ Recorded(b.writer, Line(b), next)
        /\ IF b.cover = NoCover THEN Waiting(b) ELSE Open(b, next)

\* A window may be opened: the last one was interrupted, or there is none.
Ready(b) ==
    b.writer # NoWriter /\ b.cover = NoCover /\ b.pending = NoGap => b.writer.windows = <<>>

\* What a sealed partition promises.
Separated(p) ==
    p.gaps = {[start |-> p.windows[i].last + 1,
               end |-> IF i = Len(p.windows) THEN Endless ELSE p.windows[i + 1].start] :
                i \in {j \in Positions(p.windows) :
                        j < Len(p.windows) \/ p.windows[j].proof \in Involuntary}}

Faithful(p) ==
    /\ Consistent(p)
    /\ Counted(p) = Positions(p.records) => Replays(p)
    /\ NoHoles(p.windows) /\ Ending(p.windows)
    /\ Separated(p)

\* The inductive invariant.
Inv ==
    /\ TypeOK
    /\ Kept(book, seq) /\ Ready(book)
    /\ phase = "off" <=> book.writer = NoWriter
    /\ phase \in {"off", "loop", "open"} => book.cover = NoCover
    /\ phase = "off" => seq = 0
    /\ book.cover # NoCover =>
        /\ monitor # NoReading /\ book.cover.last <= monitor.wall
        /\ phase = "live" => ~book.cover.skipped
    /\ \A p \in book.archive : Faithful(p)
    /\ \A w \in book.proven : w.start <= w.last
--------------------------------------------------------------------------------
(***************************************************************************)
(* Lines of windows                                                        *)
(***************************************************************************)

\* The sum over a line is a sum over a table of rows.
Counts(line) == [j \in Positions(line) |-> [quantity |-> line[j].count]]

LEMMA SumIsTotal ==
    ASSUME NEW n \in Nat, NEW line, Len(line) = n
    PROVE  Sum(line) = Total(Counts(line), 1 .. n)
<1>. DEFINE rows == Counts(line)
            S == 1 .. n
            g == CHOOSE g : g = [T \in SUBSET S |-> IF T = {} THEN 0
                                 ELSE line[Chosen(T)].count + g[T \ {Chosen(T)}]]
<1>1. \A j \in S : rows[j].quantity = line[j].count
  BY DEF Counts, Positions
<1>2. \A T \in SUBSET S : T # {} => Chosen(T) \in S
  BY DEF Chosen
<1>3. IsFiniteSet(S)
  BY FS_Interval
<1>. HIDE DEF rows
<1>4. PICK h : IsTable(h, rows, SUBSET S)
  BY <1>3, TableExists
<1>5. h = [T \in SUBSET S |-> IF T = {} THEN 0
                              ELSE line[Chosen(T)].count + h[T \ {Chosen(T)}]]
  BY <1>1, <1>2, <1>4 DEF IsTable
<1>6. g = [T \in SUBSET S |-> IF T = {} THEN 0
                              ELSE line[Chosen(T)].count + g[T \ {Chosen(T)}]]
  BY <1>5
<1>7. Sum(line) = g[S]
  BY DEF Sum, MapThenSumSet, MapThenFoldSet, Chosen, Positions
<1>. HIDE DEF g
<1>8. IsTable(g, rows, SUBSET S)
  BY <1>1, <1>2, <1>6 DEF IsTable
<1>9. PICK t : IsTable(t, rows, SUBSET S) /\ Total(rows, S) = t[S]
  BY <1>3, TotalIsTable
<1>10. g[S] = t[S]
  <2>1. TableOf(g, rows, S) /\ TableOf(t, rows, S) /\ SameRows(rows, rows, S)
    BY <1>3, <1>8, <1>9 DEF TableOf, SameRows
  <2>2. S \in SUBSET S
    OBVIOUS
  <2>. QED
    BY <2>1, <2>2, TablesAgree
<1>. QED
  BY <1>7, <1>9, <1>10 DEF rows

\* A window at the end of a line.
LEMMA SumAppend ==
    ASSUME NEW W, NEW windows \in Seq(W), NEW window \in W, \A w \in W : w.count \in Nat
    PROVE  Sum(Append(windows, window)) = Sum(windows) + window.count
<1>. DEFINE n == Len(windows)
            line == Append(windows, window)
<1>1. n \in Nat /\ Len(line) = n + 1
  BY LenProperties, AppendProperties
<1>2. Sum(windows) = Total(Counts(windows), 1 .. n) /\ Sum(line) = Total(Counts(line), 1 .. n + 1)
  <2>1. \A m \in Nat : \A s : Len(s) = m => Sum(s) = Total(Counts(s), 1 .. m)
    BY SumIsTotal
  <2>. HIDE DEF line
  <2>. QED
    BY <1>1, <2>1
<1>3. \A j \in 1 .. n + 1 : Counts(line)[j].quantity = line[j].count /\ line[j] \in W
  BY <1>1, AppendProperties DEF Counts, Positions
<1>4. \A j \in 1 .. n : Counts(windows)[j] = Counts(line)[j]
  BY <1>1, AppendProperties DEF Counts, Positions
<1>5. line[n + 1] = window
  BY AppendProperties
<1>. HIDE DEF n, line
<1>6. IsFiniteSet(1 .. n) /\ n + 1 \notin 1 .. n /\ 1 .. n + 1 = (1 .. n) \cup {n + 1}
  <2>1. n \in Nat /\ 1 \in Int /\ n \in Int
    BY <1>1
  <2>2. IsFiniteSet(1 .. n)
    BY <2>1, FS_Interval
  <2>. QED
    BY <2>1, <2>2
<1>7. Total(Counts(windows), 1 .. n) = Total(Counts(line), 1 .. n)
  BY <1>4, <1>6, TotalOf
<1>8. \A j \in (1 .. n) \cup {n + 1} : Counts(line)[j].quantity \in Nat
  BY <1>3, <1>6
<1>9. Total(Counts(line), (1 .. n) \cup {n + 1}) = Total(Counts(line), 1 .. n) + Counts(line)[n + 1].quantity
  BY <1>6, <1>8, TotalAdd
<1>10. Counts(line)[n + 1].quantity = window.count
  BY <1>3, <1>5, <1>6
<1>. QED
  BY <1>2, <1>6, <1>7, <1>9, <1>10 DEF n, line

LEMMA SumEmpty == Sum(<<>>) = 0
<1>1. Sum(<<>>) = Total(Counts(<<>>), 1 .. 0)
  BY SumIsTotal
<1>2. 1 .. 0 = {}
  OBVIOUS
<1>. QED
  BY <1>1, <1>2, TotalChosen, FS_EmptySet

LEMMA SumIsNat ==
    ASSUME NEW W, NEW windows \in Seq(W), \A w \in W : w.count \in Nat
    PROVE  Sum(windows) \in Nat
<1>. DEFINE n == Len(windows)
            rows == Counts(windows)
<1>1. n \in Nat /\ \A j \in 1 .. n : windows[j] \in W
  BY LenProperties, ElementOfSeq
<1>2. \A j \in 1 .. n : rows[j].quantity \in Nat
  BY <1>1 DEF Counts, Positions
<1>3. Sum(windows) = Total(rows, 1 .. n)
  <2>1. \A m \in Nat : \A s : Len(s) = m => Sum(s) = Total(Counts(s), 1 .. m)
    BY SumIsTotal
  <2>. QED
    BY <1>1, <2>1
<1>4. IsFiniteSet(1 .. n) /\ 1 .. n \in SUBSET (1 .. n)
  BY <1>1, FS_Interval
<1>. HIDE DEF rows, n
<1>5. Total(rows, 1 .. n) \in Nat
  BY <1>2, <1>4, TotalRemove
<1>. QED
  BY <1>3, <1>5

\* Lines that differ in nothing that the properties look at.
SameWindow(v, w) ==
    v.start = w.start /\ v.last = w.last /\ v.count = w.count /\ v.hole = w.hole
SameLine(line, other) ==
    /\ Len(line) \in Nat /\ Len(line) = Len(other)
    /\ \A i \in Positions(line) : SameWindow(line[i], other[i])

LEMMA SameLines ==
    ASSUME NEW line, NEW other, SameLine(line, other), NEW records
    PROVE  /\ Apart(line) => Apart(other)
           /\ Ending(line) => Ending(other)
           /\ NoHoles(line) => NoHoles(other)
           /\ Between(line) = Between(other)
           /\ Claimed(records, line) => Claimed(records, other)
           /\ Tallied(records, line) => Tallied(records, other)
<1>1. /\ Positions(line) = Positions(other)
      /\ \A i \in 1 .. Len(line) - 1 : i \in Positions(line) /\ i + 1 \in Positions(line)
  BY DEF SameLine, Positions
<1>2. \A i \in Positions(line) :
        /\ line[i].start = other[i].start /\ line[i].last = other[i].last
        /\ line[i].count = other[i].count /\ line[i].hole = other[i].hole
  BY DEF SameLine, SameWindow
<1>3. \A i \in Positions(line) : Arrived(records, line[i]) = Arrived(records, other[i])
  BY <1>2 DEF Arrived, Within
<1>4. Apart(line) => Apart(other)
  BY <1>1, <1>2 DEF Apart
<1>5. Ending(line) => Ending(other)
  BY <1>1, <1>2 DEF Ending
<1>6. NoHoles(line) => NoHoles(other)
  BY <1>1, <1>2 DEF NoHoles
<1>7. Between(line) = Between(other)
  <2>1. \A i \in 1 .. Len(line) - 1 :
          [start |-> line[i].last + 1, end |-> line[i + 1].start]
            = [start |-> other[i].last + 1, end |-> other[i + 1].start]
    BY <1>1, <1>2
  <2>2. 1 .. Len(line) - 1 = 1 .. Len(other) - 1
    BY DEF SameLine
  <2>. QED
    BY <2>1, <2>2 DEF Between
<1>8. Claimed(records, line) => Claimed(records, other)
  BY <1>1, <1>2 DEF Claimed, Within
<1>9. Tallied(records, line) => Tallied(records, other)
  BY <1>1, <1>2, <1>3 DEF Tallied
<1>. QED
  BY <1>4, <1>5, <1>6, <1>7, <1>8, <1>9

LEMMA BetweenAppend ==
    ASSUME NEW W, NEW windows \in Seq(W), NEW window
    PROVE  Between(Append(windows, window)) =
            Between(windows) \cup
                IF windows = <<>> THEN {}
                ELSE {[start |-> windows[Len(windows)].last + 1, end |-> window.start]}
<1>. DEFINE line == Append(windows, window)
            n == Len(windows)
            gap(i) == [start |-> line[i].last + 1, end |-> line[i + 1].start]
<1>1. /\ n \in Nat /\ Len(line) = n + 1 /\ line[n + 1] = window
      /\ \A i \in 1 .. n : line[i] = windows[i]
  BY LenProperties, AppendProperties
<1>2. Between(line) = {gap(i) : i \in 1 .. n}
  BY <1>1 DEF Between
<1>3. Between(windows) = {gap(i) : i \in 1 .. n - 1}
  <2>1. \A i \in 1 .. n - 1 : i \in 1 .. n /\ i + 1 \in 1 .. n
    BY <1>1
  <2>2. \A i \in 1 .. n - 1 : line[i] = windows[i] /\ line[i + 1] = windows[i + 1]
    BY <1>1, <2>1
  <2>3. \A i \in 1 .. n - 1 :
          gap(i) = [start |-> windows[i].last + 1, end |-> windows[i + 1].start]
    BY <2>2
  <2>. HIDE DEF line
  <2>. QED
    BY <2>3 DEF Between
<1>. HIDE DEF line, gap
<1>4. CASE windows = <<>>
  <2>1. n = 0 /\ 1 .. n = {} /\ 1 .. n - 1 = {}
    BY <1>4
  <2>. QED
    BY <1>2, <1>3, <1>4, <2>1 DEF line
<1>5. CASE windows # <<>>
  <2>1. n \in 1 .. n /\ 1 .. n = (1 .. n - 1) \cup {n}
    <3>1. n # 0
      BY <1>5, EmptySeq
    <3>2. n \in Nat
      BY <1>1
    <3>. HIDE DEF n
    <3>. QED
      BY <3>1, <3>2
  <2>2. Between(line) = Between(windows) \cup {gap(n)}
    BY <1>2, <1>3, <2>1
  <2>3. gap(n) = [start |-> windows[n].last + 1, end |-> window.start]
    BY <1>1, <2>1 DEF gap
  <2>. QED
    BY <1>5, <2>2, <2>3 DEF line
<1>. QED
  BY <1>4, <1>5

LEMMA Constants ==
    /\ MaxTime \in Nat /\ MaxSteps \in Nat /\ MaxRecords \in Nat /\ MaxSessions \in Nat
    /\ MaxLosses \in Nat
    /\ \A t \in Time : Day(t) \in 0 .. Day(MaxTime)
<1>1. /\ MaxTime \in Nat /\ MaxSteps \in Nat /\ MaxRecords \in Nat /\ MaxSessions \in Nat
      /\ MaxLosses \in Nat
  BY RecorderAssumption
<1>2. DayLength \in Nat /\ DayLength > 0
  BY RecorderAssumption
<1>3. ASSUME NEW t \in Time
      PROVE  Day(t) \in 0 .. Day(MaxTime)
  <2>1. t \in Nat /\ t <= MaxTime
    BY <1>1 DEF Time
  <2>2. \A x \in Nat : Day(x) \in Int /\ DayLength * Day(x) <= x /\ x < DayLength * (Day(x) + 1)
    BY <1>2, Z3T(30) DEF Day
  <2>3. Day(t) \in Int /\ Day(MaxTime) \in Int
    BY <1>1, <2>1, <2>2
  <2>4. Day(t) >= 0
    BY <1>2, <2>1, <2>2, <2>3, Z3T(30)
  <2>5. Day(t) <= Day(MaxTime)
    <3>. SUFFICES ASSUME Day(MaxTime) + 1 <= Day(t) PROVE FALSE
      BY <2>3
    <3>1. ASSUME NEW x \in Int, NEW y \in Int, x <= y
          PROVE  DayLength * x <= DayLength * y
      <4>1. y - x >= 0 /\ DayLength * y = DayLength * x + DayLength * (y - x)
        BY <1>2, <3>1
      <4>2. DayLength * (y - x) >= 0 /\ DayLength * x \in Int /\ DayLength * (y - x) \in Int
        BY <1>2, <3>1, <4>1
      <4>. QED
        BY <4>1, <4>2
    <3>2. DayLength * (Day(MaxTime) + 1) <= DayLength * Day(t)
      BY <2>3, <3>1
    <3>3. /\ MaxTime < DayLength * (Day(MaxTime) + 1) /\ DayLength * Day(t) <= t
          /\ DayLength * (Day(MaxTime) + 1) \in Int /\ DayLength * Day(t) \in Int
      BY <1>1, <1>2, <2>1, <2>2, <2>3
    <3>. QED
      BY <1>1, <2>1, <3>2, <3>3
  <2>. QED
    BY <2>3, <2>4, <2>5
<1>. QED
  BY <1>1, <1>3
--------------------------------------------------------------------------------
(***************************************************************************)
(* The operators of the book                                               *)
(***************************************************************************)

LEMMA BookFields ==
    ASSUME NEW b \in Book
    PROVE  /\ b.session \in 0 .. MaxSessions /\ b.floor \in 0 .. MaxTime + 1
           /\ b.pending \in {NoGap} \cup (0 .. MaxTime + 1)
           /\ b.archive \in SUBSET Partition /\ b.proven \in SUBSET [start: Time, last: Time]
           /\ b.writer # NoWriter => b.writer \in Writer
           /\ b.cover # NoCover => b.cover \in Cover
BY DEF Book

LEMMA WriterFields ==
    ASSUME NEW w \in Writer
    PROVE  /\ w # NoWriter
           /\ w.day \in 0 .. Day(MaxTime) /\ w.records \in Seq(Record)
           /\ w.unclaimed \in Seq(Time) /\ w.windows \in Seq(Window)
           /\ w.gaps \in SUBSET Gap /\ w.frontier \in 0 .. Endless /\ w.refused \in BOOLEAN
BY DEF Writer, NoWriter

LEMMA CoverFields ==
    ASSUME NEW c \in Cover
    PROVE  /\ c # NoCover
           /\ c.start \in Time /\ c.last \in Time /\ c.count \in 0 .. MaxRecords
           /\ c.skipped \in BOOLEAN /\ c.hole \in BOOLEAN
BY Constants DEF Cover, NoCover, Time

LEMMA WindowFields ==
    ASSUME NEW w \in Window
    PROVE  /\ w.start \in Time /\ w.last \in Time /\ w.count \in 0 .. MaxRecords
           /\ w.hole \in BOOLEAN /\ w.proof \in EndProof
BY DEF Window

\* The line of a book is a sequence of windows and covers.
LEMMA LineType ==
    ASSUME NEW b \in Book, b.writer # NoWriter
    PROVE  /\ Line(b) \in Seq(Cover \cup Window)
           /\ \A w \in Cover \cup Window :
                /\ w.start \in Time /\ w.last \in Time /\ w.count \in Nat
                /\ w.start \in Nat /\ w.last \in Nat
<1>1. b.writer.windows \in Seq(Window)
  BY BookFields, WriterFields
<1>2. b.writer.windows \in Seq(Cover \cup Window)
  BY <1>1, SeqMonotonic
<1>3. b.cover # NoCover => b.cover \in Cover \cup Window
  BY BookFields
<1>4. Line(b) \in Seq(Cover \cup Window)
  BY <1>2, <1>3, AppendProperties DEF Line
<1>5. ASSUME NEW w \in Cover \cup Window
      PROVE  /\ w.start \in Time /\ w.last \in Time /\ w.count \in Nat
             /\ w.start \in Nat /\ w.last \in Nat
  <2>1. w.start \in Time /\ w.last \in Time /\ w.count \in 0 .. MaxRecords
    BY CoverFields, WindowFields
  <2>. QED
    BY <2>1, Constants DEF Time
<1>. QED
  BY <1>4, <1>5

\* What an operator leaves of a book that it may have sealed a partition of.
Keeps(b, c) ==
    /\ c.session = b.session /\ c.proven = b.proven
    /\ \A p \in c.archive : p \in b.archive \/ Faithful(p)

LEMMA ClosedKept ==
    ASSUME NEW b, NEW next, Kept(b, next), NEW proof \in EndProof
    PROVE  LET c == Closed(b, proof)
           IN  /\ Kept(c, next) /\ Keeps(b, c)
               /\ c.cover = NoCover
               /\ c.writer = NoWriter <=> b.writer = NoWriter
               /\ c.writer.day = b.writer.day
               /\ proof \in Involuntary /\ Ready(b) => Ready(c)
<1>. DEFINE c == Closed(b, proof)
<1>1. CASE b.cover = NoCover
  BY <1>1 DEF Closed, Keeps
<1>2. CASE b.cover # NoCover
  <2>. DEFINE w == b.writer
              window == [start |-> b.cover.start, last |-> b.cover.last,
                         count |-> b.cover.count, hole |-> b.cover.hole, proof |-> proof]
              u == w.unclaimed
  <2>1. /\ b \in Book /\ w # NoWriter /\ ~w.refused /\ Open(b, next)
        /\ Line(b) = Append(w.windows, b.cover)
    BY <1>2 DEF Kept, Line
  <2>2. /\ w \in Writer /\ w.windows \in Seq(Window) /\ u \in Seq(Time) /\ Len(u) \in Nat
        /\ w.frontier \in Nat
    BY <2>1, BookFields, WriterFields, LenProperties
  <2>3. /\ b.cover \in Cover /\ b.cover.start \in Time /\ b.cover.last \in Time
        /\ b.cover.count \in 0 .. MaxRecords /\ b.cover.hole \in BOOLEAN
    BY <1>2, <2>1, BookFields, CoverFields
  <2>4. /\ window \in Window
        /\ window.start = b.cover.start /\ window.last = b.cover.last
        /\ window.count = b.cover.count /\ window.hole = b.cover.hole
        /\ window.proof = proof
    BY <2>3 DEF Window
  <2>. HIDE DEF window
  <2>5. /\ w.frontier <= window.start /\ window.count = Len(u)
        /\ u # <<>> => Within(window, Head(u)) /\ Within(window, Last(u))
    <3>1. \A i \in 1 .. Len(u) : Within(window, u[i])
      BY <2>1, <2>4 DEF Open, Within, Positions
    <3>2. u # <<>> => Head(u) = u[1] /\ Last(u) = u[Len(u)] /\ Len(u) # 0
      BY <2>2, EmptySeq, HeadTailProperties DEF Last
    <3>3. u # <<>> => Within(window, Head(u)) /\ Within(window, Last(u))
      BY <2>2, <3>1, <3>2
    <3>. QED
      BY <2>1, <2>4, <3>3 DEF Open
  <2>6. DeclareCoverage(w, window) =
          [w EXCEPT !.windows = Append(@, window), !.unclaimed = <<>>,
                    !.frontier = window.last + 1]
    BY <2>5 DEF DeclareCoverage
  <2>7. PICK v : v = [w EXCEPT !.windows = Append(@, window), !.unclaimed = <<>>,
                               !.frontier = window.last + 1]
    OBVIOUS
  <2>8. /\ v \in Writer /\ v.day = w.day /\ v.records = w.records /\ v.unclaimed = <<>>
        /\ v.windows = Append(w.windows, window) /\ v.gaps = w.gaps
        /\ v.frontier = window.last + 1 /\ v.refused = w.refused
    <3>1. Append(w.windows, window) \in Seq(Window) /\ <<>> \in Seq(Time)
      BY <2>2, <2>4, AppendProperties, EmptySeq
    <3>2. window.last + 1 \in 0 .. Endless
      BY <2>3, <2>4, Constants DEF Time, Endless
    <3>. QED
      BY <2>2, <2>7, <3>1, <3>2 DEF Writer
  <2>9. PICK e : e = Closed(b, proof)
    OBVIOUS
  <2>10. e = [b EXCEPT !.writer = v,
                       !.pending = IF proof \in Involuntary THEN b.cover.last + 1 ELSE @,
                       !.floor = b.cover.last + 1, !.cover = NoCover]
    BY <1>2, <2>6, <2>7, <2>9 DEF Closed, window
  <2>11. /\ e \in Book /\ e.writer = v /\ e.cover = NoCover /\ e.floor = b.cover.last + 1
         /\ e.pending = IF proof \in Involuntary THEN b.cover.last + 1 ELSE NoGap
         /\ e.session = b.session /\ e.proven = b.proven /\ e.archive = b.archive
    <3>1. b.cover.last + 1 \in 0 .. MaxTime + 1
      BY <2>3, Constants DEF Time
    <3>2. b.pending = NoGap
      BY <2>1 DEF Open
    <3>. QED
      BY <2>1, <2>8, <2>10, <3>1, <3>2 DEF Book
  <2>12. v # NoWriter
    BY <2>8, WriterFields
  <2>13. SameLine(Line(b), Line(e)) /\ Line(e) = Append(w.windows, window)
    <3>1. Line(e) = Append(w.windows, window)
      BY <2>8, <2>11 DEF Line
    <3>2. /\ Len(Append(w.windows, window)) = Len(w.windows) + 1
          /\ Len(Append(w.windows, b.cover)) = Len(w.windows) + 1
          /\ Len(w.windows) \in Nat
          /\ \A i \in 1 .. Len(w.windows) + 1 :
                /\ Append(w.windows, window)[i] = IF i = Len(w.windows) + 1 THEN window ELSE w.windows[i]
                /\ Append(w.windows, b.cover)[i] = IF i = Len(w.windows) + 1 THEN b.cover ELSE w.windows[i]
      BY <2>2, LenProperties
    <3>. QED
      BY <2>1, <2>4, <3>1, <3>2 DEF SameLine, SameWindow, Positions
  <2>14. Sum(Line(b)) = Sum(Line(e))
    <3>1. w.windows \in Seq(Cover \cup Window)
      BY <2>2, SeqMonotonic
    <3>2. \A x \in Cover \cup Window : x.count \in Nat
      BY <2>1, LineType
    <3>3. Sum(Append(w.windows, window)) = Sum(w.windows) + window.count
      BY <2>4, <3>1, <3>2, SumAppend
    <3>4. Sum(Append(w.windows, b.cover)) = Sum(w.windows) + b.cover.count
      BY <2>3, <3>1, <3>2, SumAppend
    <3>. QED
      BY <2>1, <2>4, <2>13, <3>3, <3>4
  <2>15. \A i \in Positions(v.windows) : v.windows[i].last < v.frontier
    <3>1. \A i \in Positions(w.windows) : w.windows[i].last < w.frontier
      BY <2>1 DEF Kept
    <3>2. window.start <= window.last
      <4>1. Ending(Line(b)) /\ Len(w.windows) + 1 \in Positions(Line(b))
            /\ Line(b)[Len(w.windows) + 1] = b.cover
        BY <2>1, <2>2, LenProperties, AppendProperties DEF Kept, Positions
      <4>. QED
        BY <2>4, <4>1 DEF Ending
    <3>3. /\ Len(v.windows) = Len(w.windows) + 1 /\ Len(w.windows) \in Nat
          /\ \A i \in 1 .. Len(w.windows) : v.windows[i] = w.windows[i]
          /\ v.windows[Len(w.windows) + 1] = window
      BY <2>2, <2>8, LenProperties, AppendProperties
    <3>4. \A i \in 1 .. Len(w.windows) : w.windows[i].last \in Int
      BY <2>2, WindowFields, ElementOfSeq, Constants DEF Time
    <3>5. /\ window.start \in Int /\ window.last \in Int /\ w.frontier \in Int
          /\ w.frontier <= window.start /\ v.frontier = window.last + 1
      BY <2>2, <2>3, <2>4, <2>5, <2>8, Constants DEF Time
    <3>. HIDE DEF w
    <3>6. ASSUME NEW i \in 1 .. Len(w.windows)
          PROVE  v.windows[i].last < v.frontier
      <4>1. w.windows[i].last < w.frontier /\ w.windows[i].last \in Int
        BY <3>1, <3>4 DEF Positions
      <4>2. v.windows[i].last = w.windows[i].last
        BY <3>3
      <4>. QED
        BY <3>2, <3>5, <4>1, <4>2
    <3>7. v.windows[Len(w.windows) + 1].last < v.frontier
      BY <3>3, <3>5
    <3>8. Positions(v.windows) = 1 .. Len(w.windows) + 1
      BY <3>3 DEF Positions
    <3>. QED
      BY <3>3, <3>6, <3>7, <3>8
  <2>16. /\ Apart(Line(e)) /\ Ending(Line(e)) /\ NoHoles(Line(e))
         /\ v.gaps = Between(Line(e)) /\ Recorded(v, Line(e), next)
    <3>1. /\ Apart(Line(b)) /\ Ending(Line(b)) /\ NoHoles(Line(b))
          /\ w.gaps = Between(Line(b)) /\ Recorded(w, Line(b), next)
      BY <2>1 DEF Kept
    <3>2. Counted(v) = Counted(w)
      BY <2>8 DEF Counted
    <3>3. SameLine(Line(b), Line(e)) => Recorded(v, Line(e), next)
      BY <2>8, <2>14, <3>1, <3>2, SameLines DEF Recorded
    <3>. QED
      BY <2>8, <2>13, <3>1, <3>3, SameLines
  <2>17. Waiting(e)
    <3>1. /\ Len(v.windows) = Len(w.windows) + 1 /\ Len(w.windows) \in Nat
          /\ v.windows[Len(v.windows)] = window /\ v.windows # <<>>
      BY <2>2, <2>8, LenProperties, AppendProperties
    <3>2. b.cover.last + 1 # NoGap
      BY <2>3, Constants DEF Time, NoGap
    <3>3. e.writer.unclaimed = <<>> /\ e.writer.frontier = e.floor /\ e.floor \in Int
      BY <2>3, <2>4, <2>8, <2>11, Constants DEF Time
    <3>4. /\ e.writer.windows # <<>>
          /\ e.writer.windows[Len(e.writer.windows)] = window
      BY <2>11, <3>1
    <3>5. /\ proof \in Involuntary => e.pending = window.last + 1 /\ e.pending = e.floor
          /\ proof \in Involuntary <=> e.pending # NoGap
      BY <2>4, <2>11, <3>2
    <3>. HIDE DEF w
    <3>. QED
      BY <2>4, <3>3, <3>4, <3>5 DEF Waiting
  <2>18. Kept(e, next)
    BY <2>1, <2>8, <2>11, <2>12, <2>15, <2>16, <2>17 DEF Kept
  <2>19. proof \in Involuntary => Ready(e)
    BY <2>3, <2>11, Constants DEF Ready, NoGap, Time
  <2>. QED
    BY <2>1, <2>8, <2>9, <2>11, <2>12, <2>18, <2>19 DEF Keeps
<1>. QED
  BY <1>1, <1>2

\* What the last line of finalize would be handed: the gap that still waits.
WithLastGap(b) ==
    [day |-> b.writer.day, records |-> b.writer.records, windows |-> b.writer.windows,
     gaps |-> IF b.pending = NoGap THEN b.writer.gaps
              ELSE b.writer.gaps \cup {[start |-> b.pending, end |-> Endless]}]

LEMMA GapsAreSeparated ==
    ASSUME NEW b, NEW next, Kept(b, next), b.writer # NoWriter, b.cover = NoCover
    PROVE  Separated(WithLastGap(b))
<1>. DEFINE p == WithLastGap(b)
            windows == b.writer.windows
            n == Len(windows)
            stretch(i) == [start |-> windows[i].last + 1,
                           end |-> IF i = n THEN Endless ELSE windows[i + 1].start]
            J == {j \in Positions(windows) : j < n \/ windows[j].proof \in Involuntary}
<1>1. /\ b \in Book /\ Waiting(b) /\ b.writer.gaps = Between(windows)
      /\ windows \in Seq(Window) /\ n \in Nat
  BY BookFields, WriterFields, LenProperties DEF Kept, Line
<1>2. Between(windows) = {stretch(i) : i \in 1 .. n - 1}
  <2>1. \A i \in 1 .. n - 1 : i # n
    BY <1>1
  <2>2. \A i \in 1 .. n - 1 :
          stretch(i) = [start |-> windows[i].last + 1, end |-> windows[i + 1].start]
    BY <2>1
  <2>. HIDE DEF windows
  <2>. QED
    BY <2>2 DEF Between
<1>3. /\ p.windows = windows
      /\ p.gaps = IF b.pending = NoGap THEN b.writer.gaps
                  ELSE b.writer.gaps \cup {[start |-> b.pending, end |-> Endless]}
  BY DEF WithLastGap
<1>4. Separated(p) <=> p.gaps = {stretch(i) : i \in J}
  BY <1>3 DEF Separated
<1>5. CASE windows = <<>>
  <2>1. n = 0 /\ J = {} /\ 1 .. n - 1 = {}
    BY <1>5 DEF Positions
  <2>2. b.pending = NoGap
    BY <1>1, <1>5 DEF Waiting
  <2>. HIDE DEF J, stretch
  <2>. QED
    BY <1>1, <1>2, <1>3, <1>4, <2>1, <2>2
<1>6. CASE windows # <<>>
  <2>1. n # 0
    BY <1>1, <1>6, EmptySeq
  <2>2. windows[n].proof \in Involuntary <=> b.pending # NoGap
    BY <1>1, <1>6 DEF Waiting
  <2>3. b.pending # NoGap => b.pending = windows[n].last + 1
    BY <1>1, <1>6 DEF Waiting
  <2>. HIDE DEF windows
  <2>4. J = (1 .. n - 1) \cup IF b.pending = NoGap THEN {} ELSE {n}
    <3>. HIDE DEF n
    <3>1. Positions(windows) = 1 .. n
      BY DEF Positions, n
    <3>. QED
      BY <1>1, <2>1, <2>2, <3>1
  <2>5. stretch(n) = [start |-> windows[n].last + 1, end |-> Endless]
    OBVIOUS
  <2>. HIDE DEF J, stretch, n
  <2>6. CASE b.pending = NoGap
    BY <1>1, <1>2, <1>3, <1>4, <2>4, <2>6
  <2>7. CASE b.pending # NoGap
    <3>1. {stretch(i) : i \in J} = {stretch(i) : i \in 1 .. n - 1} \cup {stretch(n)}
      BY <2>4, <2>7
    <3>. QED
      BY <1>1, <1>2, <1>3, <1>4, <2>3, <2>5, <2>7, <3>1
  <2>. QED
    BY <2>6, <2>7
<1>. QED
  BY <1>5, <1>6

\* No gap that separates two windows, or follows the last one, meets a window.
LEMMA GapsMissWindows ==
    ASSUME NEW p, p.windows \in Seq(Window), Separated(p), Apart(p.windows), Ending(p.windows)
    PROVE  \A gap \in p.gaps, i \in Positions(p.windows) :
            p.windows[i].last < gap.start \/ gap.end <= p.windows[i].start
<1>. DEFINE windows == p.windows
            n == Len(windows)
<1>. SUFFICES ASSUME NEW gap \in p.gaps, NEW i \in Positions(windows)
              PROVE  windows[i].last < gap.start \/ gap.end <= windows[i].start
  OBVIOUS
<1>1. PICK k \in Positions(windows) :
        gap = [start |-> windows[k].last + 1,
               end |-> IF k = n THEN Endless ELSE windows[k + 1].start]
  BY DEF Separated
<1>2. n \in Nat /\ i \in 1 .. n /\ k \in 1 .. n
  BY LenProperties DEF Positions
<1>3. \A j \in 1 .. n : windows[j].start \in Int /\ windows[j].last \in Int
  BY WindowFields, ElementOfSeq, Constants DEF Time
<1>4. /\ \A j, m \in 1 .. n : j < m => windows[j].last < windows[m].start
      /\ \A j \in 1 .. n : windows[j].start <= windows[j].last
  BY DEF Apart, Ending, Positions
<1>5. gap.start = windows[k].last + 1 /\ (k # n => gap.end = windows[k + 1].start)
  BY <1>1
<1>. HIDE DEF n, windows
<1>6. CASE i < k
  BY <1>2, <1>3, <1>4, <1>5, <1>6
<1>7. CASE i = k
  BY <1>2, <1>3, <1>5, <1>7
<1>8. CASE i > k
  <2>1. k + 1 \in 1 .. n /\ k # n /\ (i = k + 1 \/ k + 1 < i)
    BY <1>2, <1>8
  <2>2. windows[k + 1].start <= windows[i].start
    BY <1>2, <1>3, <1>4, <2>1
  <2>. QED
    BY <1>3, <1>5, <2>1, <2>2
<1>. QED
  BY <1>2, <1>6, <1>7, <1>8

\* The first and the last counted record exist when there is one.
LEMMA CountedEnds ==
    ASSUME NEW p, p.records \in Seq(Record), Counted(p) # {}
    PROVE  Min(Counted(p)) \in Counted(p) /\ Max(Counted(p)) \in Counted(p)
<1>. DEFINE S == Counted(p)
            n == Len(p.records)
<1>1. n \in Nat /\ S \subseteq 0 .. n /\ S \subseteq Nat
  BY LenProperties DEF Counted, Positions
<1>. HIDE DEF S, n
<1>2. S # {}
  BY DEF S
<1>3. \E x \in S : \A y \in S : x <= y
  BY <1>1, <1>2, LeastElement
<1>4. \E x \in S : \A y \in S : x >= y
  <2>1. \E x \in S : \A y \in S : y <= x
    BY <1>1, <1>2, GreatestElement
  <2>. QED
    BY <1>1, <2>1
<1>5. Min(S) \in S
  BY <1>3 DEF Min
<1>6. Max(S) \in S
  BY <1>4 DEF Max
<1>. QED
  BY <1>5, <1>6 DEF S

LEMMA SealedIsFaithful ==
    ASSUME NEW b, NEW next, Kept(b, next), b.writer # NoWriter, b.cover = NoCover
    PROVE  Faithful(WithLastGap(b)) /\ WithLastGap(b) \in Partition
<1>. DEFINE w == b.writer
<1>1. PICK p : p = WithLastGap(b)
  OBVIOUS
<1>2. /\ p.day = w.day /\ p.records = w.records /\ p.windows = w.windows
      /\ p.gaps = IF b.pending = NoGap THEN b.writer.gaps
                  ELSE b.writer.gaps \cup {[start |-> b.pending, end |-> Endless]}
  BY <1>1 DEF WithLastGap
<1>3. /\ b \in Book /\ Apart(w.windows) /\ Ending(w.windows) /\ NoHoles(w.windows)
      /\ Recorded(w, w.windows, next) /\ Waiting(b)
  BY DEF Kept, Line
<1>4. /\ w.day \in 0 .. Day(MaxTime) /\ w.records \in Seq(Record) /\ w.windows \in Seq(Window)
      /\ w.gaps \in SUBSET Gap /\ b.pending \in {NoGap} \cup (0 .. MaxTime + 1)
  BY <1>3, BookFields, WriterFields
<1>5. p \in Partition
  <2>1. b.pending # NoGap => b.pending \in 1 .. MaxTime + 1
    <3>1. CASE b.pending # NoGap
      <4>1. w.windows # <<>> /\ b.pending = w.windows[Len(w.windows)].last + 1
        BY <1>3, <3>1 DEF Waiting
      <4>2. Len(w.windows) \in 1 .. Len(w.windows)
        BY <1>4, <4>1, EmptySeq, LenProperties
      <4>3. w.windows[Len(w.windows)].last \in Time
        BY <1>4, <4>2, ElementOfSeq, WindowFields
      <4>. QED
        BY <4>1, <4>3, Constants DEF Time
    <3>. QED
      BY <3>1
  <2>2. Endless \in 0 .. Endless
    BY Constants DEF Endless
  <2>3. b.pending # NoGap => [start |-> b.pending, end |-> Endless] \in Gap
    BY <2>1, <2>2 DEF Gap
  <2>4. WithLastGap(b).gaps \in SUBSET Gap
    BY <1>1, <1>2, <1>4, <2>3
  <2>. QED
    BY <1>1, <1>4, <2>4 DEF WithLastGap, Partition
<1>6. Separated(p)
  BY <1>1, GapsAreSeparated
<1>7. Counted(p) = Counted(w)
  BY <1>2 DEF Counted
<1>8. Consistent(p)
  <2>1. \A i \in 1 .. Len(p.windows) - 1 : p.windows[i].last < p.windows[i + 1].start
    <3>1. \A i \in 1 .. Len(p.windows) - 1 : /\ i \in Positions(p.windows)
                                             /\ i + 1 \in Positions(p.windows) /\ i < i + 1
      BY <1>2, <1>4, LenProperties DEF Positions
    <3>. QED
      BY <1>2, <1>3, <3>1 DEF Apart
  <2>2. \A gap \in p.gaps, i \in Positions(p.windows) :
            p.windows[i].last < gap.start \/ gap.end <= p.windows[i].start
    BY <1>2, <1>3, <1>4, <1>6, GapsMissWindows
  <2>3. MapThenSumSet(LAMBDA j : p.windows[j].count, Positions(p.windows)) =
          Cardinality(Counted(p))
    <3>1. Sum(p.windows) = Cardinality(Counted(p))
      BY <1>2, <1>3, <1>7 DEF Recorded
    <3>. QED
      BY <3>1 DEF Sum
  <2>4. \A i \in Counted(p) : \E j \in Positions(p.windows) : Within(p.windows[j], p.records[i].at)
    BY <1>2, <1>3 DEF Recorded, Claimed, Counted
  <2>5. Counted(p) # {} => Min(Counted(p)) \in Counted(p) /\ Max(Counted(p)) \in Counted(p)
    BY <1>2, <1>4, CountedEnds
  <2>. QED
    BY <2>1, <2>2, <2>3, <2>4, <2>5 DEF Consistent
<1>9. ASSUME Counted(p) = Positions(p.records)
      PROVE  Replays(p)
  <2>1. \A i \in Positions(p.records) : p.records[i].counted
    BY <1>9 DEF Counted
  <2>2. \A i \in Positions(p.records) : Day(p.records[i].at) = p.day
    BY <1>2, <1>3 DEF Recorded
  <2>3. \A i \in 1 .. Len(p.records) - 1 : p.records[i + 1].seq = p.records[i].seq + 1
    BY <1>2, <1>3, <2>1 DEF Recorded, Numbered
  <2>4. \A i \in Positions(p.records) :
          \E j \in Positions(p.windows) : Within(p.windows[j], p.records[i].at)
    BY <1>2, <1>3, <2>1 DEF Recorded, Claimed
  <2>5. \A j \in Positions(p.windows) :
          p.windows[j].count =
            Cardinality({i \in Positions(p.records) : Within(p.windows[j], p.records[i].at)})
    <3>1. ASSUME NEW j \in Positions(p.windows)
          PROVE  Arrived(p.records, p.windows[j]) =
                  {i \in Positions(p.records) : Within(p.windows[j], p.records[i].at)}
      BY <2>1 DEF Arrived
    <3>2. Tallied(p.records, p.windows)
      BY <1>2, <1>3 DEF Recorded
    <3>. QED
      BY <3>1, <3>2 DEF Tallied
  <2>. QED
    BY <1>9, <2>2, <2>3, <2>4, <2>5 DEF Replays
<1>10. NoHoles(p.windows) /\ Ending(p.windows)
  BY <1>2, <1>3
<1>. QED
  BY <1>1, <1>5, <1>6, <1>8, <1>9, <1>10 DEF Faithful

LEMMA SealedKept ==
    ASSUME NEW b, NEW next, Kept(b, next), b.writer # NoWriter, b.cover = NoCover
    PROVE  LET c == Sealed(b)
           IN  Kept(c, next) /\ Keeps(b, c) /\ c.writer = NoWriter /\ c.cover = NoCover
<1>. DEFINE w == b.writer
            gap == [start |-> b.pending, end |-> Endless]
<1>1. PICK v : v = IF b.pending = NoGap THEN w ELSE DeclareGap(w, gap)
  OBVIOUS
<1>2. b \in Book /\ Waiting(b) /\ ~w.refused /\ w \in Writer
  BY BookFields DEF Kept
<1>3. w.unclaimed = <<>> /\ w.frontier <= b.floor
      /\ (b.pending # NoGap => b.pending = b.floor)
  BY <1>2 DEF Waiting
<1>4. b.pending # NoGap => w.frontier <= gap.start /\ gap.start <= gap.end
  BY <1>2, <1>3, BookFields, Constants DEF Endless
<1>5. v = IF b.pending = NoGap THEN w
          ELSE [w EXCEPT !.gaps = @ \cup {gap}, !.frontier = gap.end]
  BY <1>1, <1>3, <1>4 DEF DeclareGap
<1>6. /\ v.unclaimed = <<>> /\ ~v.refused /\ v.day = w.day /\ v.records = w.records
      /\ v.windows = w.windows
      /\ v.gaps = IF b.pending = NoGap THEN w.gaps ELSE w.gaps \cup {gap}
  BY <1>2, <1>3, <1>5 DEF Writer
<1>7. Finalized(b.archive, v) = b.archive \cup {WithLastGap(b)}
  BY <1>6 DEF Finalized, WithLastGap
<1>8. PICK c : c = Sealed(b)
  OBVIOUS
<1>9. c = [b EXCEPT !.archive = b.archive \cup {WithLastGap(b)}, !.writer = NoWriter,
                    !.pending = NoGap]
  BY <1>1, <1>7, <1>8 DEF Sealed
<1>10. Faithful(WithLastGap(b)) /\ WithLastGap(b) \in Partition
  BY SealedIsFaithful
<1>11. /\ c \in Book /\ c.writer = NoWriter /\ c.cover = NoCover /\ c.pending = NoGap
       /\ c.session = b.session /\ c.proven = b.proven
       /\ c.archive = b.archive \cup {WithLastGap(b)}
  BY <1>2, <1>9, <1>10 DEF Book
<1>. QED
  BY <1>8, <1>10, <1>11 DEF Kept, Keeps

\* A new partition is an empty one.
LEMMA NewWriterKept ==
    ASSUME NEW b \in Book, NEW next, b.cover = NoCover, b.pending = NoGap,
           NEW day \in 0 .. Day(MaxTime)
    PROVE  LET c == [b EXCEPT !.writer = NewWriter(day)]
           IN  /\ Kept(c, next) /\ Ready(c) /\ Keeps(b, c)
               /\ c.writer # NoWriter /\ c.writer.day = day /\ c.cover = NoCover
<1>. SUFFICES ASSUME NEW c, c = [b EXCEPT !.writer = NewWriter(day)]
              PROVE  /\ Kept(c, next) /\ Ready(c) /\ Keeps(b, c)
                     /\ c.writer # NoWriter /\ c.writer.day = day /\ c.cover = NoCover
  OBVIOUS
<1>. DEFINE w == NewWriter(day)
<1>1. /\ w.day = day /\ w.records = <<>> /\ w.unclaimed = <<>> /\ w.windows = <<>>
      /\ w.gaps = {} /\ w.frontier = 0 /\ w.refused = FALSE
  BY DEF NewWriter
<1>2. w \in Writer
  <2>1. <<>> \in Seq(Record) /\ <<>> \in Seq(Time) /\ <<>> \in Seq(Window)
    BY EmptySeq
  <2>2. 0 \in 0 .. Endless
    BY Constants DEF Endless
  <2>. QED
    BY <2>1, <2>2 DEF NewWriter, Writer
<1>. HIDE DEF w
<1>3. /\ c \in Book /\ c.writer = w /\ c.cover = NoCover /\ c.pending = NoGap
      /\ c.floor = b.floor
      /\ c.session = b.session /\ c.proven = b.proven /\ c.archive = b.archive
  BY <1>2 DEF Book, w
<1>4. w # NoWriter
  BY <1>2, WriterFields
<1>5. Positions(<<>>) = {} /\ 1 .. Len(<<>>) - 1 = {}
  BY DEF Positions
<1>6. Line(c) = <<>>
  BY <1>1, <1>3 DEF Line
<1>7. Counted(w) = {}
  BY <1>1, <1>5 DEF Counted
<1>8. Recorded(w, <<>>, next)
  BY <1>1, <1>5, <1>7, SumEmpty, FS_EmptySet DEF Recorded, Numbered, Claimed, Tallied
<1>9. Apart(<<>>) /\ Ending(<<>>) /\ NoHoles(<<>>) /\ Between(<<>>) = {}
  BY <1>5 DEF Apart, Ending, NoHoles, Between
<1>10. Waiting(c)
  <2>1. 0 <= b.floor
    BY BookFields
  <2>. QED
    BY <1>1, <1>3, <2>1 DEF Waiting
<1>11. Kept(c, next)
  BY <1>1, <1>3, <1>4, <1>5, <1>6, <1>8, <1>9, <1>10 DEF Kept
<1>. QED
  BY <1>1, <1>3, <1>4, <1>11 DEF Ready, Keeps

LEMMA TurnedKept ==
    ASSUME NEW b, NEW next, Kept(b, next), NEW day \in 0 .. Day(MaxTime)
    PROVE  LET c == Turned(b, day)
           IN  /\ Kept(c, next) /\ Keeps(b, c)
               /\ c.writer # NoWriter /\ c.writer.day = day
               /\ c.cover = b.cover \/ c.cover = NoCover
               /\ Ready(b) => Ready(c)
<1>1. CASE b.writer # NoWriter /\ b.writer.day = day
  BY <1>1 DEF Turned, Keeps
<1>2. CASE ~(b.writer # NoWriter /\ b.writer.day = day)
  <2>1. PICK d : d = IF b.writer = NoWriter THEN b ELSE Sealed(Closed(b, "UTC_DAY_ROLLOVER"))
    OBVIOUS
  <2>2. Kept(d, next) /\ Keeps(b, d) /\ d.writer = NoWriter
    <3>1. CASE b.writer = NoWriter
      BY <2>1, <3>1 DEF Keeps
    <3>2. CASE b.writer # NoWriter
      <4>1. PICK e : e = Closed(b, "UTC_DAY_ROLLOVER")
        OBVIOUS
      <4>2. "UTC_DAY_ROLLOVER" \in EndProof
        BY DEF EndProof
      <4>3. Kept(e, next) /\ Keeps(b, e) /\ e.cover = NoCover /\ e.writer # NoWriter
        BY <3>2, <4>1, <4>2, ClosedKept
      <4>4. d = Sealed(e)
        BY <2>1, <3>2, <4>1
      <4>5. Kept(d, next) /\ Keeps(e, d) /\ d.writer = NoWriter
        BY <4>3, <4>4, SealedKept
      <4>. QED
        BY <4>3, <4>5 DEF Keeps
    <3>. QED
      BY <3>1, <3>2
  <2>3. PICK c : c = [d EXCEPT !.writer = NewWriter(day)]
    OBVIOUS
  <2>4. Turned(b, day) = c
    BY <1>2, <2>1, <2>3 DEF Turned
  <2>5. d \in Book /\ d.cover = NoCover /\ d.pending = NoGap
    BY <2>2 DEF Kept
  <2>6. /\ Kept(c, next) /\ Ready(c) /\ Keeps(d, c)
        /\ c.writer # NoWriter /\ c.writer.day = day /\ c.cover = NoCover
    BY <2>3, <2>5, NewWriterKept
  <2>. QED
    BY <2>2, <2>4, <2>6 DEF Keeps
<1>. QED
  BY <1>1, <1>2

\* A line that ends with a new window, which no record has reached.
LEMMA OpenedKept ==
    ASSUME NEW b, NEW next \in Nat, Kept(b, next), Ready(b), b.writer # NoWriter, wall \in Time,
           b.cover = NoCover => b.floor <= wall
    PROVE  LET c == Opened(b)
           IN  /\ Kept(c, next) /\ Keeps(b, c)
               /\ c.writer # NoWriter /\ c.writer.day = b.writer.day
               /\ c.cover = IF b.cover = NoCover THEN NewCover(wall) ELSE b.cover
<1>1. CASE b.cover # NoCover
  BY <1>1 DEF Opened, Keeps
<1>2. CASE b.cover = NoCover
  <2>. DEFINE w == b.writer
              gap == [start |-> b.pending, end |-> wall]
              cover == NewCover(wall)
  <2>1. /\ b \in Book /\ Waiting(b) /\ ~w.refused /\ w \in Writer /\ w # NoWriter
        /\ \A i \in Positions(w.windows) : w.windows[i].last < w.frontier
        /\ Apart(w.windows) /\ Ending(w.windows) /\ NoHoles(w.windows)
        /\ w.gaps = Between(w.windows) /\ Recorded(w, w.windows, next)
    BY <1>2, BookFields DEF Kept, Line
  <2>2. /\ w.windows \in Seq(Window) /\ Len(w.windows) \in Nat /\ w.frontier \in Int
        /\ b.floor \in Int /\ wall \in Int /\ wall \in Time /\ b.floor <= wall
    BY <1>2, <2>1, BookFields, WriterFields, LenProperties, Constants DEF Time
  <2>3. /\ w.unclaimed = <<>> /\ w.frontier <= b.floor
        /\ (b.pending # NoGap => b.pending = b.floor /\ w.windows # <<>>)
        /\ (w.windows # <<>> => (b.pending # NoGap => b.pending = w.windows[Len(w.windows)].last + 1))
    BY <2>1 DEF Waiting
  <2>4. b.pending = NoGap => w.windows = <<>>
    BY <1>2 DEF Ready
  <2>5. PICK v : v = IF b.pending = NoGap THEN w ELSE DeclareGap(w, gap)
    OBVIOUS
  <2>6. v = IF b.pending = NoGap THEN w
            ELSE [w EXCEPT !.gaps = @ \cup {gap}, !.frontier = gap.end]
    BY <2>2, <2>3, <2>5 DEF DeclareGap
  <2>7. b.pending # NoGap => gap \in Gap
    <3>1. CASE b.pending # NoGap
      <4>1. w.windows # <<>> /\ b.pending = w.windows[Len(w.windows)].last + 1
        BY <2>3, <3>1
      <4>2. Len(w.windows) \in 1 .. Len(w.windows)
        BY <2>2, <4>1, EmptySeq
      <4>3. w.windows[Len(w.windows)].last \in Time
        BY <2>2, <4>2, ElementOfSeq, WindowFields
      <4>4. b.pending \in 1 .. MaxTime + 1
        <5>. HIDE DEF w
        <5>. QED
          BY <4>1, <4>3, Constants DEF Time
      <4>5. wall \in 0 .. Endless
        BY <2>2, Constants DEF Time, Endless
      <4>. QED
        BY <4>4, <4>5 DEF Gap
    <3>. QED
      BY <3>1
  <2>8. /\ v \in Writer /\ v.day = w.day /\ v.records = w.records /\ v.unclaimed = <<>>
        /\ v.windows = w.windows /\ v.refused = w.refused
        /\ v.gaps = IF b.pending = NoGap THEN w.gaps ELSE w.gaps \cup {gap}
        /\ v.frontier = IF b.pending = NoGap THEN w.frontier ELSE wall
    <3>1. wall \in 0 .. Endless
      BY <2>2, Constants DEF Time, Endless
    <3>. QED
      BY <2>1, <2>3, <2>6, <2>7, <3>1 DEF Writer
  <2>9. /\ cover \in Cover /\ cover.start = wall /\ cover.last = wall /\ cover.count = 0
        /\ cover.hole = FALSE
    BY <2>2, Constants DEF NewCover, Cover
  <2>10. PICK c : c = [b EXCEPT !.writer = v, !.pending = NoGap, !.cover = NewCover(wall)]
    OBVIOUS
  <2>11. Opened(b) = c
    BY <1>2, <2>5, <2>10 DEF Opened
  <2>. HIDE DEF cover, gap
  <2>12. /\ c \in Book /\ c.writer = v /\ c.cover = cover /\ c.pending = NoGap
         /\ c.session = b.session /\ c.proven = b.proven /\ c.archive = b.archive
    BY <2>1, <2>8, <2>9, <2>10 DEF Book, cover
  <2>13. v # NoWriter /\ cover # NoCover
    BY <2>8, <2>9, WriterFields, CoverFields
  <2>14. PICK line : line = Append(w.windows, cover)
    OBVIOUS
  <2>15. /\ Line(c) = line
         /\ Len(line) = Len(w.windows) + 1 /\ line[Len(w.windows) + 1] = cover
         /\ \A i \in 1 .. Len(w.windows) : line[i] = w.windows[i]
    <3>1. Line(c) = line
      BY <2>8, <2>12, <2>13, <2>14 DEF Line
    <3>2. w.windows \in Seq(Cover \cup Window) /\ cover \in Cover \cup Window
      BY <2>2, <2>9, SeqMonotonic
    <3>. QED
      BY <2>14, <3>1, <3>2, AppendProperties
  <2>16. \A i \in 1 .. Len(w.windows) : /\ line[i].last < wall /\ line[i].start \in Int
                                        /\ line[i].last \in Int
    <3>1. \A i \in 1 .. Len(w.windows) : w.windows[i].last \in Int /\ w.windows[i].start \in Int
      BY <2>2, ElementOfSeq, WindowFields, Constants DEF Time
    <3>2. \A i \in 1 .. Len(w.windows) : w.windows[i].last < w.frontier
      BY <2>1 DEF Positions
    <3>3. w.frontier <= wall
      BY <2>2, <2>3
    <3>4. \A i \in 1 .. Len(w.windows) : w.windows[i].last < wall
      <4>. HIDE DEF w
      <4>. QED
        BY <2>2, <3>1, <3>2, <3>3
    <3>. HIDE DEF w
    <3>. QED
      BY <2>15, <3>1, <3>4
  <2>17. Positions(line) = 1 .. Len(w.windows) + 1 /\ Positions(w.windows) = 1 .. Len(w.windows)
    BY <2>15 DEF Positions
  <2>18. Apart(line)
    <3>1. ASSUME NEW i \in Positions(line), NEW j \in Positions(line), i < j
          PROVE  line[i].last < line[j].start
      <4>1. CASE j = Len(w.windows) + 1
        <5>1. i \in 1 .. Len(w.windows)
          BY <2>2, <2>17, <3>1, <4>1
        <5>. QED
          BY <2>9, <2>15, <2>16, <4>1, <5>1
      <4>2. CASE j # Len(w.windows) + 1
        <5>1. i \in 1 .. Len(w.windows) /\ j \in 1 .. Len(w.windows)
          BY <2>2, <2>17, <3>1, <4>2
        <5>2. w.windows[i].last < w.windows[j].start
          BY <2>1, <2>17, <3>1, <5>1 DEF Apart
        <5>. QED
          BY <2>15, <5>1, <5>2
      <4>. QED
        BY <4>1, <4>2
    <3>. QED
      BY <3>1 DEF Apart
  <2>19. Ending(line) /\ NoHoles(line)
    <3>1. ASSUME NEW i \in Positions(line)
          PROVE  line[i].start <= line[i].last /\ ~line[i].hole
      <4>1. CASE i = Len(w.windows) + 1
        BY <2>2, <2>9, <2>15, <4>1
      <4>2. CASE i # Len(w.windows) + 1
        <5>1. i \in 1 .. Len(w.windows)
          BY <2>2, <2>17, <4>2
        <5>. QED
          BY <2>1, <2>15, <2>17, <5>1 DEF Ending, NoHoles
      <4>. QED
        BY <4>1, <4>2
    <3>. QED
      BY <3>1 DEF Ending, NoHoles
  <2>20. v.gaps = Between(line)
    <3>1. Between(line) = Between(w.windows) \cup
                            IF w.windows = <<>> THEN {}
                            ELSE {[start |-> w.windows[Len(w.windows)].last + 1, end |-> wall]}
      BY <2>2, <2>9, <2>14, BetweenAppend
    <3>2. b.pending # NoGap =>
            gap = [start |-> w.windows[Len(w.windows)].last + 1, end |-> wall]
      BY <2>3 DEF gap
    <3>. QED
      BY <2>1, <2>3, <2>4, <2>8, <3>1, <3>2
  <2>21. Recorded(v, line, next)
    <3>1. Counted(v) = Counted(w)
      BY <2>8 DEF Counted
    <3>2. Sum(line) = Cardinality(Counted(v))
      <4>1. w.windows \in Seq(Cover \cup Window) /\ cover \in Cover \cup Window
        BY <2>2, <2>9, SeqMonotonic
      <4>2. \A x \in Cover \cup Window : x.count \in Nat
        BY <2>1, LineType
      <4>3. Sum(line) = Sum(w.windows) + cover.count
        BY <2>14, <4>1, <4>2, SumAppend
      <4>4. Sum(w.windows) = Cardinality(Counted(w))
        BY <2>1 DEF Recorded
      <4>5. Cardinality(Counted(w)) \in Nat
        <5>1. w.records \in Seq(Record)
          BY <2>1, WriterFields
        <5>2. IsFiniteSet(1 .. Len(w.records))
          BY <5>1, LenProperties, FS_Interval
        <5>3. Counted(w) \subseteq 1 .. Len(w.records)
          BY DEF Counted, Positions
        <5>. QED
          BY <5>2, <5>3, FS_Subset, FS_CardinalityType
      <4>. QED
        BY <2>9, <3>1, <4>3, <4>4, <4>5
    <3>3. Claimed(v.records, line)
      <4>1. Claimed(w.records, w.windows)
        BY <2>1 DEF Recorded
      <4>2. \A j \in Positions(w.windows) : j \in Positions(line) /\ line[j] = w.windows[j]
        BY <2>2, <2>15, <2>17
      <4>. QED
        BY <2>8, <4>1, <4>2 DEF Claimed
    <3>4. Tallied(v.records, line)
      <4>1. ASSUME NEW j \in Positions(line)
            PROVE  line[j].count = Cardinality(Arrived(w.records, line[j]))
        <5>1. CASE j = Len(w.windows) + 1
          <6>1. ASSUME NEW i \in Positions(w.records), w.records[i].counted
                PROVE  ~Within(cover, w.records[i].at)
            <7>1. PICK k \in Positions(w.windows) : Within(w.windows[k], w.records[i].at)
              BY <2>1, <6>1 DEF Recorded, Claimed
            <7>2. w.records[i].at \in Int
              <8>1. w.records \in Seq(Record)
                BY <2>1, WriterFields
              <8>2. w.records[i] \in Record
                BY <8>1, ElementOfSeq DEF Positions
              <8>. QED
                BY <8>2, Constants DEF Record, Time
            <7>3. w.records[i].at <= line[k].last /\ line[k].last < wall /\ line[k].last \in Int
              BY <2>15, <2>16, <2>17, <7>1 DEF Within
            <7>. QED
              BY <2>2, <2>9, <7>2, <7>3 DEF Within
          <6>2. Arrived(w.records, cover) = {}
            BY <6>1 DEF Arrived
          <6>. QED
            BY <2>9, <2>15, <5>1, <6>2, FS_EmptySet
        <5>2. CASE j # Len(w.windows) + 1
          <6>1. j \in Positions(w.windows) /\ line[j] = w.windows[j]
            BY <2>2, <2>15, <2>17, <5>2
          <6>2. Tallied(w.records, w.windows)
            BY <2>1 DEF Recorded
          <6>. QED
            BY <6>1, <6>2 DEF Tallied
        <5>. QED
          BY <5>1, <5>2
      <4>. QED
        BY <2>8, <4>1 DEF Tallied
    <3>5. /\ \A i \in Positions(v.records) : Day(v.records[i].at) = v.day
          /\ Numbered(v.records, next)
      BY <2>1, <2>8 DEF Recorded
    <3>. QED
      BY <3>2, <3>3, <3>4, <3>5 DEF Recorded
  <2>22. Open(c, next)
    <3>1. Len(v.unclaimed) = 0 /\ Positions(v.unclaimed) = {}
      BY <2>8 DEF Positions
    <3>2. v.frontier <= wall
      BY <2>2, <2>3, <2>8
    <3>. QED
      BY <2>9, <2>12, <3>1, <3>2 DEF Open
  <2>23. \A i \in Positions(v.windows) : v.windows[i].last < v.frontier
    BY <2>1, <2>8, <2>15, <2>16, <2>17
  <2>24. Kept(c, next)
    BY <2>1, <2>8, <2>12, <2>13, <2>15, <2>18, <2>19, <2>20, <2>21, <2>22, <2>23 DEF Kept
  <2>. QED
    BY <1>2, <2>8, <2>11, <2>12, <2>13, <2>24 DEF Keeps, cover
<1>. QED
  BY <1>1, <1>2

LEMMA LineEnd ==
    ASSUME NEW b \in Book, b.writer # NoWriter, b.cover # NoCover
    PROVE  LET n == Len(b.writer.windows)
               line == Line(b)
           IN  /\ n \in Nat /\ Positions(b.writer.windows) = 1 .. n
               /\ Len(line) = n + 1 /\ Positions(line) = 1 .. n + 1 /\ line[n + 1] = b.cover
               /\ \A i \in 1 .. n : line[i] = b.writer.windows[i]
               /\ \A i \in Positions(line) : /\ line[i].start \in Nat /\ line[i].last \in Nat
                                             /\ line[i].count \in Nat
<1>1. /\ b.writer.windows \in Seq(Cover \cup Window) /\ b.cover \in Cover \cup Window
      /\ Line(b) = Append(b.writer.windows, b.cover)
  BY BookFields, WriterFields, SeqMonotonic DEF Line
<1>. DEFINE n == Len(b.writer.windows)
            line == Line(b)
<1>2. /\ n \in Nat /\ Len(line) = n + 1 /\ line[n + 1] = b.cover
      /\ \A i \in 1 .. n : line[i] = b.writer.windows[i]
  BY <1>1, LenProperties, AppendProperties
<1>3. Positions(b.writer.windows) = 1 .. n /\ Positions(line) = 1 .. n + 1
  BY <1>2 DEF Positions
<1>4. \A i \in Positions(line) : line[i] \in Cover \cup Window
  BY LineType, ElementOfSeq DEF Positions
<1>5. \A i \in Positions(line) : /\ line[i].start \in Nat /\ line[i].last \in Nat
                                 /\ line[i].count \in Nat
  BY <1>4, LineType
<1>. QED
  BY <1>2, <1>3, <1>5

\* What was counted arrived before the end of the window that is open.
LEMMA CountedBefore ==
    ASSUME NEW b, NEW next, Kept(b, next), b.writer # NoWriter, b.cover # NoCover
    PROVE  LET records == b.writer.records
           IN  /\ records \in Seq(Record) /\ Len(records) \in Nat
               /\ \A i \in Positions(records) :
                    /\ records[i].at \in Time /\ records[i].at \in Nat
                    /\ records[i].seq \in Nat
                    /\ records[i].counted => records[i].at <= b.cover.last
<1>. DEFINE records == b.writer.records
            n == Len(b.writer.windows)
<1>1. b \in Book /\ Apart(Line(b)) /\ Ending(Line(b)) /\ Claimed(records, Line(b))
  BY DEF Kept, Recorded
<1>2. records \in Seq(Record) /\ Len(records) \in Nat
  BY <1>1, BookFields, WriterFields, LenProperties
<1>3. \A i \in Positions(records) : /\ records[i].at \in Time /\ records[i].at \in Nat
                                    /\ records[i].seq \in Nat
  <2>1. \A i \in Positions(records) : records[i] \in Record
    BY <1>2, ElementOfSeq DEF Positions
  <2>. QED
    BY <2>1, Constants DEF Record, Time
<1>4. ASSUME NEW i \in Positions(records), records[i].counted
      PROVE  records[i].at <= b.cover.last
  <2>1. PICK j \in Positions(Line(b)) : Within(Line(b)[j], records[i].at)
    BY <1>1, <1>4 DEF Claimed
  <2>2. /\ n \in Nat /\ Positions(Line(b)) = 1 .. n + 1 /\ Line(b)[n + 1] = b.cover
        /\ Line(b)[j].last \in Nat /\ b.cover.start \in Nat /\ b.cover.last \in Nat
    BY <1>1, <2>1, LineEnd
  <2>3. records[i].at <= Line(b)[j].last
    BY <2>1 DEF Within
  <2>4. CASE j = n + 1
    BY <2>2, <2>3, <2>4
  <2>5. CASE j # n + 1
    <3>1. j < n + 1 /\ n + 1 \in Positions(Line(b))
      BY <2>1, <2>2, <2>5
    <3>2. Line(b)[j].last < b.cover.start
      BY <1>1, <2>1, <2>2, <3>1 DEF Apart
    <3>3. b.cover.start <= b.cover.last
      BY <1>1, <2>2, <3>1 DEF Ending
    <3>. QED
      BY <1>3, <2>2, <2>3, <3>2, <3>3
  <2>. QED
    BY <2>4, <2>5
<1>. QED
  BY <1>2, <1>3, <1>4

\* A positive proof moves the end of the open window.
LEMMA ProvenKept ==
    ASSUME NEW b, NEW next, Kept(b, next), b.writer # NoWriter, b.cover # NoCover,
           wall \in Time, b.cover.last <= wall, ~b.cover.skipped
    PROVE  LET c == [b EXCEPT !.cover = Proven(@)]
           IN  /\ Kept(c, next) /\ Keeps(b, c)
               /\ c.writer = b.writer /\ c.cover # NoCover
               /\ c.cover.last = wall /\ ~c.cover.skipped
<1>. DEFINE w == b.writer
            n == Len(w.windows)
            line == Line(b)
<1>1. PICK cover : cover = Proven(b.cover)
  OBVIOUS
<1>2. PICK c : c = [b EXCEPT !.cover = Proven(@)]
  OBVIOUS
<1>3. /\ b \in Book /\ Open(b, next) /\ ~w.refused
      /\ \A i \in Positions(w.windows) : w.windows[i].last < w.frontier
      /\ Apart(line) /\ Ending(line) /\ NoHoles(line)
      /\ w.gaps = Between(line) /\ Recorded(w, line, next)
  BY DEF Kept
<1>4. b.cover \in Cover /\ wall \in Nat
  BY <1>3, BookFields, Constants DEF Time
<1>5. /\ n \in Nat /\ Positions(w.windows) = 1 .. n
      /\ Positions(line) = 1 .. n + 1 /\ line[n + 1] = b.cover
      /\ \A i \in 1 .. n : line[i] = w.windows[i]
      /\ \A i \in Positions(line) : line[i].start \in Nat /\ line[i].last \in Nat
      /\ w.windows \in Seq(Window)
  BY <1>3, LineEnd, BookFields, WriterFields
<1>6. ~b.cover.hole
  BY <1>3, <1>5 DEF NoHoles
<1>7. /\ cover \in Cover /\ cover.start = b.cover.start /\ cover.last = wall
      /\ cover.count = b.cover.count /\ ~cover.hole /\ ~cover.skipped
  BY <1>1, <1>4, <1>6 DEF Proven, Cover
<1>8. /\ c \in Book /\ c.writer = w /\ c.cover = cover /\ c.pending = b.pending
      /\ c.session = b.session /\ c.proven = b.proven /\ c.archive = b.archive
  BY <1>1, <1>2, <1>3, <1>7 DEF Book
<1>9. cover # NoCover
  BY <1>7, CoverFields
<1>10. PICK other : other = Line(c)
  OBVIOUS
<1>11. /\ Positions(other) = 1 .. n + 1 /\ other[n + 1] = cover
       /\ \A i \in 1 .. n : other[i] = line[i]
  BY <1>5, <1>8, <1>9, <1>10, LineEnd
<1>12. b.cover.start \in Nat /\ b.cover.last \in Nat /\ b.cover.start <= b.cover.last
  <2>1. n + 1 \in Positions(line)
    BY <1>5
  <2>. QED
    BY <1>3, <1>5, <2>1 DEF Ending
<1>. HIDE DEF line, n
<1>13. Apart(other) /\ Ending(other) /\ NoHoles(other)
  <2>1. \A i \in Positions(other) : other[i].start = line[i].start /\ ~other[i].hole
    BY <1>3, <1>5, <1>7, <1>11 DEF NoHoles
  <2>2. \A i \in 1 .. n : other[i].last = line[i].last
    BY <1>11
  <2>3. \A i, j \in 1 .. n + 1 : i < j => i \in 1 .. n
    BY <1>5
  <2>4. Apart(other)
    BY <1>3, <1>5, <1>11, <2>1, <2>2, <2>3 DEF Apart
  <2>5. other[n + 1].start <= other[n + 1].last
    BY <1>4, <1>7, <1>11, <1>12
  <2>6. \A i \in 1 .. n : i \in Positions(line) /\ other[i].start <= other[i].last
    BY <1>3, <1>5, <1>11 DEF Ending
  <2>. QED
    BY <1>5, <1>11, <2>1, <2>4, <2>5, <2>6 DEF Ending, NoHoles
<1>14. Between(other) = Between(line)
  <2>1. other = Append(w.windows, cover) /\ line = Append(w.windows, b.cover)
    BY <1>8, <1>9, <1>10 DEF Line, line
  <2>2. Between(Append(w.windows, cover)) =
          Between(w.windows) \cup
            IF w.windows = <<>> THEN {}
            ELSE {[start |-> w.windows[Len(w.windows)].last + 1, end |-> cover.start]}
    BY <1>5, BetweenAppend
  <2>3. Between(Append(w.windows, b.cover)) =
          Between(w.windows) \cup
            IF w.windows = <<>> THEN {}
            ELSE {[start |-> w.windows[Len(w.windows)].last + 1, end |-> b.cover.start]}
    BY <1>5, BetweenAppend
  <2>. QED
    BY <1>7, <2>1, <2>2, <2>3
<1>15. \A i \in Positions(w.records) :
         w.records[i].counted =>
            (Within(cover, w.records[i].at) <=> Within(b.cover, w.records[i].at))
  <2>1. \A i \in Positions(w.records) :
          /\ w.records[i].at \in Nat
          /\ w.records[i].counted => w.records[i].at <= b.cover.last
    BY CountedBefore
  <2>. QED
    BY <1>4, <1>7, <1>12, <2>1 DEF Within
<1>16. Recorded(w, other, next)
  <2>1. Claimed(w.records, other)
    <3>1. ASSUME NEW i \in Positions(w.records), w.records[i].counted
          PROVE  \E j \in Positions(other) : Within(other[j], w.records[i].at)
      <4>1. PICK j \in Positions(line) : Within(line[j], w.records[i].at)
        BY <1>3, <3>1 DEF Recorded, Claimed
      <4>2. Within(other[j], w.records[i].at)
        <5>1. CASE j = n + 1
          BY <1>5, <1>11, <1>15, <3>1, <4>1, <5>1
        <5>2. CASE j # n + 1
          <6>1. j \in 1 .. n
            BY <1>5, <4>1, <5>2
          <6>. QED
            BY <1>11, <4>1, <6>1
        <5>. QED
          BY <5>1, <5>2
      <4>. QED
        BY <1>5, <1>11, <4>1, <4>2
    <3>. QED
      BY <3>1 DEF Claimed
  <2>2. Tallied(w.records, other)
    <3>1. Arrived(w.records, cover) = Arrived(w.records, b.cover)
      BY <1>15 DEF Arrived
    <3>2. \A j \in Positions(line) : line[j].count = Cardinality(Arrived(w.records, line[j]))
      BY <1>3 DEF Recorded, Tallied
    <3>3. \A j \in 1 .. n + 1 : j = n + 1 \/ j \in 1 .. n
      BY <1>5
    <3>. QED
      BY <1>5, <1>7, <1>11, <3>1, <3>2, <3>3 DEF Tallied
  <2>3. Sum(other) = Sum(line)
    <3>1. /\ w.windows \in Seq(Cover \cup Window)
          /\ cover \in Cover \cup Window /\ b.cover \in Cover \cup Window
      BY <1>4, <1>5, <1>7, SeqMonotonic
    <3>2. \A x \in Cover \cup Window : x.count \in Nat
      BY <1>3, LineType
    <3>3. other = Append(w.windows, cover) /\ line = Append(w.windows, b.cover)
      BY <1>8, <1>9, <1>10 DEF Line, line
    <3>4. Sum(Append(w.windows, cover)) = Sum(w.windows) + cover.count
      BY <3>1, <3>2, SumAppend
    <3>5. Sum(Append(w.windows, b.cover)) = Sum(w.windows) + b.cover.count
      BY <3>1, <3>2, SumAppend
    <3>. QED
      BY <1>7, <3>3, <3>4, <3>5
  <2>. QED
    BY <1>3, <2>1, <2>2, <2>3 DEF Recorded
<1>17. Open(c, next)
  <2>1. w.unclaimed \in Seq(Time)
    BY <1>3, BookFields, WriterFields
  <2>2. \A i \in Positions(w.unclaimed) : w.unclaimed[i] \in Nat
    BY <2>1, ElementOfSeq, Constants DEF Positions, Time
  <2>3. \A i \in Positions(w.unclaimed) : Within(b.cover, w.unclaimed[i])
    BY <1>3 DEF Open
  <2>4. \A i \in Positions(w.unclaimed) : Within(cover, w.unclaimed[i])
    BY <1>4, <1>7, <1>12, <2>2, <2>3 DEF Within
  <2>. QED
    BY <1>3, <1>7, <1>8, <2>4 DEF Open
<1>18. Kept(c, next)
  BY <1>3, <1>8, <1>9, <1>10, <1>13, <1>14, <1>16, <1>17 DEF Kept
<1>. QED
  BY <1>2, <1>7, <1>8, <1>9, <1>18 DEF Keeps

LEMMA SkippedKept ==
    ASSUME NEW b, NEW next, Kept(b, next)
    PROVE  LET c == Skipped(b)
           IN  /\ Kept(c, next) /\ Keeps(b, c) /\ c.writer = b.writer
               /\ c.cover = NoCover <=> b.cover = NoCover
               /\ Ready(b) => Ready(c)
               /\ c.cover.last = b.cover.last
<1>1. CASE b.cover = NoCover
  BY <1>1 DEF Skipped, Keeps
<1>2. CASE b.cover # NoCover
  <2>1. PICK c : c = [b EXCEPT !.cover.skipped = TRUE]
    OBVIOUS
  <2>2. Skipped(b) = c
    BY <1>2, <2>1 DEF Skipped
  <2>3. b \in Book /\ b.cover \in Cover /\ b.writer # NoWriter
    BY <1>2, BookFields DEF Kept
  <2>4. /\ c.cover \in Cover /\ c.cover.start = b.cover.start /\ c.cover.last = b.cover.last
        /\ c.cover.count = b.cover.count /\ c.cover.hole = b.cover.hole
    BY <2>1, <2>3 DEF Book, Cover
  <2>5. /\ c \in Book /\ c.writer = b.writer /\ c.pending = b.pending
        /\ c.session = b.session /\ c.proven = b.proven /\ c.archive = b.archive
    BY <2>1, <2>3, <2>4 DEF Book
  <2>6. c.cover # NoCover
    BY <2>4, CoverFields
  <2>. DEFINE w == b.writer
              n == Len(w.windows)
  <2>7. PICK line, other : line = Line(b) /\ other = Line(c)
    OBVIOUS
  <2>8. /\ n \in Nat /\ Positions(line) = 1 .. n + 1 /\ line[n + 1] = b.cover
        /\ Len(line) = n + 1 /\ Len(other) = n + 1
        /\ \A i \in 1 .. n : line[i] = w.windows[i] /\ other[i] = w.windows[i]
        /\ other[n + 1] = c.cover
    BY <1>2, <2>3, <2>5, <2>6, <2>7, LineEnd
  <2>9. SameLine(line, other)
    <3>1. \A i \in 1 .. n + 1 : i = n + 1 \/ i \in 1 .. n
      BY <2>8
    <3>. QED
      BY <2>4, <2>8, <3>1 DEF SameLine, SameWindow
  <2>10. Sum(other) = Sum(line)
    <3>1. /\ w.windows \in Seq(Cover \cup Window)
          /\ c.cover \in Cover \cup Window /\ b.cover \in Cover \cup Window
      BY <2>3, <2>4, BookFields, WriterFields, SeqMonotonic
    <3>2. \A x \in Cover \cup Window : x.count \in Nat
      BY <2>3, LineType
    <3>3. other = Append(w.windows, c.cover) /\ line = Append(w.windows, b.cover)
      BY <1>2, <2>5, <2>6, <2>7 DEF Line
    <3>4. Sum(Append(w.windows, c.cover)) = Sum(w.windows) + c.cover.count
      BY <3>1, <3>2, SumAppend
    <3>5. Sum(Append(w.windows, b.cover)) = Sum(w.windows) + b.cover.count
      BY <3>1, <3>2, SumAppend
    <3>. QED
      BY <2>4, <3>3, <3>4, <3>5
  <2>11. /\ Apart(line) /\ Ending(line) /\ NoHoles(line) /\ w.gaps = Between(line)
         /\ Recorded(w, line, next) /\ Open(b, next) /\ ~w.refused
         /\ \A i \in Positions(w.windows) : w.windows[i].last < w.frontier
    BY <1>2, <2>3, <2>7 DEF Kept
  <2>12. /\ Apart(other) /\ Ending(other) /\ NoHoles(other) /\ w.gaps = Between(other)
         /\ Recorded(w, other, next)
    BY <2>9, <2>10, <2>11, SameLines DEF Recorded
  <2>13. Open(c, next)
    BY <2>4, <2>5, <2>11 DEF Open, Within
  <2>14. Kept(c, next)
    BY <2>3, <2>5, <2>6, <2>7, <2>11, <2>12, <2>13 DEF Kept
  <2>. QED
    BY <1>2, <2>2, <2>4, <2>5, <2>6, <2>14 DEF Keeps, Ready
<1>. QED
  BY <1>1, <1>2

\* A line that is written: what it adds to the records of a partition.
LEMMA RecordAppended ==
    ASSUME NEW w \in Writer, wall \in Time, seq \in 0 .. MaxRecords, NEW counted \in BOOLEAN
    PROVE  LET v == AppendRecord(w, wall, counted)
               n == Len(w.records)
           IN  /\ v \in Writer /\ v.day = w.day /\ v.windows = w.windows /\ v.gaps = w.gaps
               /\ v.frontier = w.frontier /\ v.refused = w.refused
               /\ v.unclaimed = IF counted THEN Append(w.unclaimed, wall) ELSE w.unclaimed
               /\ n \in Nat /\ Len(v.records) = n + 1
               /\ Positions(w.records) = 1 .. n /\ Positions(v.records) = 1 .. n + 1
               /\ \A i \in 1 .. n : v.records[i] = w.records[i]
               /\ v.records[n + 1].seq = seq /\ v.records[n + 1].at = wall
               /\ v.records[n + 1].counted = counted
<1>. DEFINE n == Len(w.records)
<1>1. PICK r : r = [seq |-> seq, at |-> wall, counted |-> counted]
  OBVIOUS
<1>2. r \in Record /\ r.seq = seq /\ r.at = wall /\ r.counted = counted
  BY <1>1 DEF Record
<1>3. w.records \in Seq(Record) /\ w.unclaimed \in Seq(Time)
  BY WriterFields
<1>4. PICK v : v = AppendRecord(w, wall, counted)
  OBVIOUS
<1>5. v = [w EXCEPT !.records = Append(@, r),
                    !.unclaimed = IF counted THEN Append(@, wall) ELSE @]
  BY <1>1, <1>4 DEF AppendRecord
<1>6. PICK records : records = Append(w.records, r)
  OBVIOUS
<1>7. PICK unclaimed : unclaimed = IF counted THEN Append(w.unclaimed, wall) ELSE w.unclaimed
  OBVIOUS
<1>8. /\ records \in Seq(Record) /\ unclaimed \in Seq(Time)
      /\ n \in Nat /\ Len(records) = n + 1 /\ records[n + 1] = r
      /\ \A i \in 1 .. n : records[i] = w.records[i]
  BY <1>2, <1>3, <1>6, <1>7, LenProperties, AppendProperties
<1>9. v = [w EXCEPT !.records = records, !.unclaimed = unclaimed]
  BY <1>5, <1>6, <1>7
<1>10. /\ v \in Writer /\ v.day = w.day /\ v.windows = w.windows /\ v.gaps = w.gaps
       /\ v.frontier = w.frontier /\ v.refused = w.refused
       /\ v.unclaimed = unclaimed /\ v.records = records
  BY <1>8, <1>9 DEF Writer
<1>. QED
  BY <1>2, <1>4, <1>7, <1>8, <1>10 DEF Positions

\* A line that was written and not counted.
LEMMA UncountedKept ==
    ASSUME NEW b, Kept(b, seq), b.writer # NoWriter, b.cover # NoCover, b.writer.day = today,
           wall \in Time, seq \in 0 .. MaxRecords
    PROVE  LET c == [b EXCEPT !.writer = AppendRecord(@, wall, FALSE)]
           IN  /\ Kept(c, seq) /\ Keeps(b, c)
               /\ c.writer # NoWriter /\ c.writer.day = b.writer.day /\ c.cover = b.cover
<1>. DEFINE w == b.writer
            n == Len(w.records)
<1>1. PICK v : v = AppendRecord(w, wall, FALSE)
  OBVIOUS
<1>2. PICK c : c = [b EXCEPT !.writer = AppendRecord(@, wall, FALSE)]
  OBVIOUS
<1>3. b \in Book /\ w \in Writer
  BY BookFields DEF Kept
<1>4. /\ v \in Writer /\ v.day = w.day /\ v.windows = w.windows /\ v.gaps = w.gaps
      /\ v.frontier = w.frontier /\ v.refused = w.refused /\ v.unclaimed = w.unclaimed
      /\ n \in Nat /\ Positions(w.records) = 1 .. n /\ Positions(v.records) = 1 .. n + 1
      /\ \A i \in 1 .. n : v.records[i] = w.records[i]
      /\ v.records[n + 1].at = wall /\ ~v.records[n + 1].counted
  BY <1>1, <1>3, RecordAppended
<1>5. /\ c \in Book /\ c.writer = v /\ c.cover = b.cover /\ c.pending = b.pending
      /\ c.session = b.session /\ c.proven = b.proven /\ c.archive = b.archive
  BY <1>1, <1>2, <1>3, <1>4 DEF Book
<1>6. v # NoWriter
  BY <1>4, WriterFields
<1>7. PICK line : line = Line(b) /\ line = Line(c)
  BY <1>4, <1>5 DEF Line
<1>8. /\ Apart(line) /\ Ending(line) /\ NoHoles(line) /\ w.gaps = Between(line)
      /\ Recorded(w, line, seq) /\ Open(b, seq) /\ ~w.refused
      /\ \A i \in Positions(w.windows) : w.windows[i].last < w.frontier
  BY <1>7 DEF Kept
<1>9. \A i \in 1 .. n + 1 : i = n + 1 \/ i \in 1 .. n
  BY <1>4
<1>10. 1 .. n \subseteq 1 .. n + 1 /\ n + 1 \in 1 .. n + 1
  BY <1>4
<1>. HIDE DEF w, n
<1>11. Counted(v) = Counted(w)
  BY <1>4, <1>9, <1>10 DEF Counted
<1>12. \A x : Arrived(v.records, x) = Arrived(w.records, x)
  BY <1>4, <1>9, <1>10 DEF Arrived
<1>13. Recorded(v, line, seq)
  <2>1. \A i \in Positions(v.records) : Day(v.records[i].at) = v.day
    <3>1. \A i \in 1 .. n : Day(w.records[i].at) = w.day
      BY <1>4, <1>8 DEF Recorded
    <3>2. Day(wall) = w.day
      BY DEF today, w
    <3>. QED
      BY <1>4, <1>9, <3>1, <3>2
  <2>2. Numbered(v.records, seq)
    BY <1>4, <1>10 DEF Numbered
  <2>3. Claimed(v.records, line)
    BY <1>4, <1>8, <1>9 DEF Recorded, Claimed
  <2>4. Tallied(v.records, line)
    BY <1>8, <1>12 DEF Recorded, Tallied
  <2>. QED
    BY <1>8, <1>11, <2>1, <2>2, <2>3, <2>4 DEF Recorded
<1>14. Open(c, seq)
  BY <1>4, <1>5, <1>8 DEF Open, w
<1>15. Kept(c, seq)
  BY <1>4, <1>5, <1>6, <1>7, <1>8, <1>13, <1>14 DEF Kept
<1>. QED
  BY <1>2, <1>4, <1>5, <1>6, <1>15 DEF Keeps, w

LEMMA CountedIsFinite ==
    ASSUME NEW records, Len(records) \in Nat, NEW S, S \subseteq Positions(records)
    PROVE  IsFiniteSet(S) /\ Cardinality(S) \in Nat
<1>1. IsFiniteSet(1 .. Len(records))
  BY FS_Interval
<1>. QED
  BY <1>1, FS_Subset, FS_CardinalityType DEF Positions

\* A record that the open window, proven at this instant, takes in.
LEMMA CountedKept ==
    ASSUME NEW b, Kept(b, seq), b.writer # NoWriter, b.cover # NoCover, b.writer.day = today,
           b.cover.last = wall, wall \in Time, seq \in 0 .. MaxRecords, seq < MaxRecords
    PROVE  LET c == [b EXCEPT !.writer = AppendRecord(@, wall, TRUE),
                              !.cover = [b.cover EXCEPT !.count = b.cover.count + 1]]
           IN  /\ Kept(c, seq + 1) /\ Keeps(b, c)
               /\ c.writer # NoWriter /\ c.cover # NoCover
               /\ c.cover.last = wall /\ c.cover.skipped = b.cover.skipped
<1>. DEFINE w == b.writer
            n == Len(w.records)
            m == Len(w.windows)
<1>1. PICK v : v = AppendRecord(w, wall, TRUE)
  OBVIOUS
<1>2. PICK cover : cover = [b.cover EXCEPT !.count = b.cover.count + 1]
  OBVIOUS
<1>3. PICK c : /\ c = [b EXCEPT !.writer = AppendRecord(@, wall, TRUE),
                                !.cover = [b.cover EXCEPT !.count = b.cover.count + 1]]
               /\ c = [b EXCEPT !.writer = v, !.cover = cover]
  BY <1>1, <1>2
<1>4. /\ b \in Book /\ w \in Writer /\ b.cover \in Cover /\ w.windows \in Seq(Window)
      /\ wall \in Nat /\ seq \in Nat /\ MaxRecords \in Nat
  BY BookFields, WriterFields, Constants DEF Kept, Time
<1>5. /\ v \in Writer /\ v.day = w.day /\ v.windows = w.windows /\ v.gaps = w.gaps
      /\ v.frontier = w.frontier /\ v.refused = w.refused
      /\ v.unclaimed = Append(w.unclaimed, wall)
      /\ n \in Nat /\ Positions(w.records) = 1 .. n /\ Positions(v.records) = 1 .. n + 1
      /\ Len(v.records) = n + 1
      /\ \A i \in 1 .. n : v.records[i] = w.records[i]
      /\ v.records[n + 1].at = wall /\ v.records[n + 1].counted /\ v.records[n + 1].seq = seq
  BY <1>1, <1>4, RecordAppended
<1>6. PICK line : line = Line(b)
  OBVIOUS
<1>7. /\ Apart(line) /\ Ending(line) /\ NoHoles(line) /\ w.gaps = Between(line)
      /\ Recorded(w, line, seq) /\ Open(b, seq) /\ ~w.refused
      /\ \A i \in Positions(w.windows) : w.windows[i].last < w.frontier
  BY <1>6 DEF Kept
<1>8. b.cover.count \in Nat /\ b.cover.count <= seq /\ b.cover.start \in Nat
  BY <1>4, <1>7, CoverFields, Constants DEF Open, Time
<1>9. /\ cover \in Cover /\ cover.start = b.cover.start /\ cover.last = wall
      /\ cover.count = b.cover.count + 1 /\ cover.hole = b.cover.hole
      /\ cover.skipped = b.cover.skipped
  <2>1. b.cover.count + 1 \in 0 .. MaxRecords
    BY <1>4, <1>8
  <2>. QED
    BY <1>2, <1>4, <2>1 DEF Cover
<1>10. /\ c \in Book /\ c.writer = v /\ c.cover = cover /\ c.pending = b.pending
       /\ c.session = b.session /\ c.proven = b.proven /\ c.archive = b.archive
  BY <1>3, <1>4, <1>5, <1>9 DEF Book
<1>11. v # NoWriter /\ cover # NoCover
  BY <1>5, <1>9, WriterFields, CoverFields
<1>12. PICK other : other = Line(c)
  OBVIOUS
<1>13. /\ m \in Nat /\ Positions(w.windows) = 1 .. m
       /\ Positions(line) = 1 .. m + 1 /\ Positions(other) = 1 .. m + 1
       /\ Len(line) = m + 1 /\ Len(other) = m + 1
       /\ line[m + 1] = b.cover /\ other[m + 1] = cover
       /\ \A i \in 1 .. m : line[i] = other[i]
       /\ \A i \in 1 .. m + 1 : line[i].start \in Nat /\ line[i].last \in Nat
  <2>1. /\ m \in Nat /\ Positions(w.windows) = 1 .. m
        /\ Positions(line) = 1 .. m + 1 /\ Len(line) = m + 1
        /\ line[m + 1] = b.cover
        /\ \A i \in 1 .. m : line[i] = w.windows[i]
        /\ \A i \in Positions(line) : line[i].start \in Nat /\ line[i].last \in Nat
    BY <1>4, <1>6, LineEnd
  <2>2. /\ c.writer.windows = w.windows /\ c.writer # NoWriter /\ c.cover # NoCover /\ c \in Book
    BY <1>5, <1>10, <1>11
  <2>3. /\ Positions(other) = 1 .. m + 1 /\ Len(other) = m + 1
        /\ other[m + 1] = c.cover
        /\ \A i \in 1 .. m : other[i] = w.windows[i]
    BY <1>12, <2>2, LineEnd
  <2>. HIDE DEF m, w
  <2>. QED
    BY <1>10, <2>1, <2>3
<1>14. line = Append(w.windows, b.cover) /\ other = Append(w.windows, cover)
  BY <1>5, <1>6, <1>10, <1>11, <1>12 DEF Line
<1>15. Sum(other) = Sum(line) + 1
  <2>1. /\ w.windows \in Seq(Cover \cup Window)
        /\ cover \in Cover \cup Window /\ b.cover \in Cover \cup Window
    BY <1>4, <1>9, SeqMonotonic
  <2>2. \A x \in Cover \cup Window : x.count \in Nat
    BY <1>4, LineType
  <2>3. Sum(Append(w.windows, cover)) = Sum(w.windows) + cover.count
    BY <2>1, <2>2, SumAppend
  <2>4. Sum(Append(w.windows, b.cover)) = Sum(w.windows) + b.cover.count
    BY <2>1, <2>2, SumAppend
  <2>5. Sum(w.windows) \in Nat
    BY <2>1, <2>2, SumIsNat
  <2>. QED
    BY <1>8, <1>9, <1>14, <2>3, <2>4, <2>5
<1>16. \A i \in 1 .. n + 1 : i = n + 1 \/ i \in 1 .. n
  BY <1>5
<1>17. \A i \in 1 .. m + 1 : i = m + 1 \/ i \in 1 .. m
  BY <1>13
<1>18. /\ 1 .. n \subseteq 1 .. n + 1 /\ n + 1 \in 1 .. n + 1 /\ n + 1 \notin 1 .. n
       /\ 1 .. m \subseteq 1 .. m + 1 /\ m + 1 \in 1 .. m + 1
  BY <1>5, <1>13
<1>19. /\ \A j \in 1 .. m : ~Within(line[j], wall)
       /\ \A j \in 1 .. m : Within(other[j], wall) <=> Within(line[j], wall)
       /\ Within(cover, wall)
       /\ \A x : Within(cover, x) <=> Within(b.cover, x)
  <2>1. b.cover.start <= b.cover.last
    BY <1>7, <1>13, <1>18 DEF Ending
  <2>2. \A j \in 1 .. m : line[j].last < b.cover.start
    <3>1. \A j \in 1 .. m : j < m + 1
      BY <1>13
    <3>. QED
      BY <1>7, <1>13, <1>18, <3>1 DEF Apart
  <2>. HIDE DEF m, n, w
  <2>3. ASSUME NEW j \in 1 .. m
        PROVE  ~Within(line[j], wall)
    <3>1. line[j].last < b.cover.start /\ line[j].last \in Nat /\ b.cover.start <= wall
      BY <1>13, <1>18, <2>1, <2>2
    <3>. QED
      BY <1>4, <1>8, <3>1 DEF Within
  <2>4. Within(cover, wall)
    BY <1>4, <1>9, <2>1 DEF Within
  <2>5. \A x : Within(cover, x) <=> Within(b.cover, x)
    BY <1>9 DEF Within
  <2>. QED
    BY <1>13, <2>3, <2>4, <2>5
<1>. HIDE DEF w, n, m
<1>20. Counted(v) = Counted(w) \cup {n + 1} /\ n + 1 \notin Counted(w)
  BY <1>5, <1>16, <1>18 DEF Counted
<1>21. \A j \in 1 .. m : Arrived(v.records, other[j]) = Arrived(w.records, line[j])
  BY <1>5, <1>13, <1>16, <1>18, <1>19 DEF Arrived
<1>22. /\ Arrived(v.records, cover) = Arrived(w.records, b.cover) \cup {n + 1}
       /\ n + 1 \notin Arrived(w.records, b.cover)
  BY <1>5, <1>16, <1>18, <1>19 DEF Arrived
<1>23. Recorded(v, other, seq + 1)
  <2>1. \A i \in Positions(v.records) : Day(v.records[i].at) = v.day
    <3>1. \A i \in 1 .. n : Day(w.records[i].at) = w.day
      BY <1>5, <1>7 DEF Recorded
    <3>2. Day(wall) = w.day
      BY DEF today, w
    <3>. QED
      BY <1>5, <1>16, <3>1, <3>2
  <2>2. Numbered(v.records, seq + 1)
    <3>. SUFFICES ASSUME \A i \in Positions(v.records) : v.records[i].counted
                  PROVE  /\ \A i \in 1 .. n : v.records[i + 1].seq = v.records[i].seq + 1
                         /\ v.records[n + 1].seq + 1 = seq + 1
      BY <1>5 DEF Numbered
    <3>1. \A i \in Positions(w.records) : w.records[i].counted
      BY <1>5, <1>18
    <3>2. /\ \A i \in 1 .. n - 1 : w.records[i + 1].seq = w.records[i].seq + 1
          /\ w.records # <<>> => w.records[n].seq + 1 = seq
      BY <1>7, <3>1 DEF Recorded, Numbered, n
    <3>3. ASSUME NEW i \in 1 .. n
          PROVE  v.records[i + 1].seq = v.records[i].seq + 1
      <4>1. CASE i = n
        <5>1. w.records # <<>>
          BY <3>3 DEF n
        <5>. QED
          BY <1>5, <3>2, <3>3, <4>1, <5>1
      <4>2. CASE i # n
        <5>1. i \in 1 .. n - 1 /\ i + 1 \in 1 .. n
          BY <1>5, <3>3, <4>2
        <5>. QED
          BY <1>5, <3>2, <5>1
      <4>. QED
        BY <4>1, <4>2
    <3>. QED
      BY <1>5, <3>3
  <2>3. Claimed(v.records, other)
    <3>1. ASSUME NEW i \in 1 .. n, v.records[i].counted
          PROVE  \E j \in 1 .. m + 1 : Within(other[j], v.records[i].at)
      <4>1. PICK j \in 1 .. m + 1 : Within(line[j], w.records[i].at)
        BY <1>5, <1>7, <1>13, <3>1 DEF Recorded, Claimed
      <4>2. Within(other[j], w.records[i].at)
        BY <1>13, <1>17, <1>19, <4>1
      <4>. QED
        BY <1>5, <4>1, <4>2
    <3>2. Within(other[m + 1], v.records[n + 1].at)
      BY <1>5, <1>13, <1>19
    <3>. QED
      BY <1>5, <1>13, <1>16, <1>18, <3>1, <3>2 DEF Claimed
  <2>4. Tallied(v.records, other)
    <3>1. \A j \in 1 .. m + 1 : line[j].count = Cardinality(Arrived(w.records, line[j]))
      BY <1>7, <1>13 DEF Recorded, Tallied
    <3>2. \A j \in 1 .. m : other[j].count = Cardinality(Arrived(v.records, other[j]))
      BY <1>13, <1>18, <1>21, <3>1
    <3>3. cover.count = Cardinality(Arrived(v.records, cover))
      <4>1. Arrived(w.records, b.cover) \subseteq Positions(w.records)
        BY DEF Arrived
      <4>2. IsFiniteSet(Arrived(w.records, b.cover))
        BY <1>5, <4>1, CountedIsFinite DEF n
      <4>3. Cardinality(Arrived(v.records, cover)) = Cardinality(Arrived(w.records, b.cover)) + 1
        BY <1>22, <4>2, FS_AddElement
      <4>. QED
        BY <1>9, <1>13, <1>18, <3>1, <4>3
    <3>. QED
      BY <1>13, <1>17, <3>2, <3>3 DEF Tallied
  <2>5. Sum(other) = Cardinality(Counted(v))
    <3>1. Counted(w) \subseteq Positions(w.records)
      BY DEF Counted
    <3>2. IsFiniteSet(Counted(w))
      BY <1>5, <3>1, CountedIsFinite DEF n
    <3>3. Cardinality(Counted(v)) = Cardinality(Counted(w)) + 1
      BY <1>20, <3>2, FS_AddElement
    <3>. QED
      BY <1>7, <1>15, <3>3 DEF Recorded
  <2>. QED
    BY <2>1, <2>2, <2>3, <2>4, <2>5 DEF Recorded
<1>24. Apart(other) /\ Ending(other) /\ NoHoles(other) /\ Between(other) = Between(line)
  <2>1. \A i \in 1 .. m + 1 : /\ other[i].start = line[i].start /\ other[i].last = line[i].last
                              /\ other[i].hole = line[i].hole
    BY <1>9, <1>13, <1>17
  <2>2. /\ 1 .. Len(line) - 1 = 1 .. Len(other) - 1
        /\ \A i \in 1 .. Len(line) - 1 : i \in 1 .. m + 1 /\ i + 1 \in 1 .. m + 1
    BY <1>13
  <2>3. Between(other) = Between(line)
    <3>1. \A i \in 1 .. Len(line) - 1 :
            [start |-> line[i].last + 1, end |-> line[i + 1].start]
              = [start |-> other[i].last + 1, end |-> other[i + 1].start]
      BY <2>1, <2>2
    <3>. QED
      BY <2>2, <3>1 DEF Between
  <2>. QED
    BY <1>7, <1>13, <2>1, <2>3 DEF Apart, Ending, NoHoles
<1>25. Open(c, seq + 1)
  <2>1. w.unclaimed \in Seq(Time)
    BY <1>4, WriterFields
  <2>2. /\ Len(w.unclaimed) \in Nat /\ Len(v.unclaimed) = Len(w.unclaimed) + 1
        /\ v.unclaimed[Len(w.unclaimed) + 1] = wall
        /\ \A i \in 1 .. Len(w.unclaimed) : v.unclaimed[i] = w.unclaimed[i]
    BY <1>5, <2>1, LenProperties, AppendProperties
  <2>3. \A i \in 1 .. Len(w.unclaimed) : Within(cover, w.unclaimed[i])
    BY <1>7, <1>19 DEF Open, Positions, w
  <2>4. \A i \in 1 .. Len(w.unclaimed) + 1 : i = Len(w.unclaimed) + 1 \/ i \in 1 .. Len(w.unclaimed)
    BY <2>2
  <2>5. \A i \in Positions(v.unclaimed) : Within(cover, v.unclaimed[i])
    BY <1>19, <2>2, <2>3, <2>4 DEF Positions
  <2>6. /\ b.pending = NoGap /\ b.cover.count = Len(w.unclaimed)
        /\ w.frontier <= b.cover.start
    BY <1>7 DEF Open, w
  <2>7. cover.count <= seq + 1
    BY <1>4, <1>8, <1>9
  <2>. QED
    BY <1>5, <1>9, <1>10, <2>2, <2>5, <2>6, <2>7 DEF Open
<1>26. Kept(c, seq + 1)
  BY <1>5, <1>7, <1>10, <1>11, <1>12, <1>23, <1>24, <1>25 DEF Kept
<1>. QED
  BY <1>3, <1>9, <1>10, <1>11, <1>26 DEF Keeps
--------------------------------------------------------------------------------
(***************************************************************************)
(* The session                                                             *)
(***************************************************************************)

LEMMA KeepsChain ==
    ASSUME NEW a, NEW b, NEW c, Keeps(a, b), Keeps(b, c)
    PROVE  Keeps(a, c)
BY DEF Keeps

LEMMA KeptWaits ==
    ASSUME NEW b, NEW next, Kept(b, next)
    PROVE  b.pending = NoGap \/ b.pending = b.floor
BY DEF Kept, Open, Waiting

\* A step after which the session has a writer.
LEMMA SessionLives ==
    ASSUME Inv, Kept(book', seq'), Ready(book'), Keeps(book, book'), book'.writer # NoWriter,
           phase' \in {"loop", "open", "live", "broken"},
           phase' \in {"loop", "open"} => book'.cover = NoCover,
           book'.cover # NoCover =>
              /\ monitor' # NoReading /\ book'.cover.last <= monitor'.wall
              /\ phase' = "live" => ~book'.cover.skipped,
           monitor' = NoReading \/ monitor' \in [wall: Time, skew: Int],
           acked' \in BOOLEAN, seq' \in 0 .. MaxRecords, losses' \in 0 .. MaxLosses,
           UNCHANGED clockVars
    PROVE  Inv'
<1>1. TypeOK'
  <2>1. book' \in Book /\ (book'.pending = NoGap \/ book'.pending = book'.floor)
    BY KeptWaits DEF Kept
  <2>. QED
    BY <2>1 DEF Inv, TypeOK, clockVars
<1>2. /\ \A p \in book'.archive : Faithful(p)
      /\ \A w \in book'.proven : w.start <= w.last
  BY DEF Inv, Keeps
<1>. QED
  BY <1>1, <1>2 DEF Inv

\* A step that ends the session: its memory is gone.
LEMMA SessionEnds ==
    ASSUME Inv, NEW b, NEW next, Kept(b, next), Keeps(book, b), SessionOver(b),
           losses' \in 0 .. MaxLosses, UNCHANGED clockVars
    PROVE  Inv'
<1>1. /\ book' = [b EXCEPT !.writer = NoWriter, !.cover = NoCover, !.pending = NoGap,
                           !.floor = 0]
      /\ phase' = "off" /\ acked' = FALSE /\ monitor' = NoReading /\ seq' = 0
  BY DEF SessionOver
<1>2. b \in Book
  BY DEF Kept
<1>3. 0 \in 0 .. MaxTime + 1 /\ 0 \in 0 .. MaxRecords
  BY Constants
<1>4. /\ book' \in Book /\ book'.writer = NoWriter /\ book'.cover = NoCover
      /\ book'.pending = NoGap /\ book'.archive = b.archive /\ book'.proven = b.proven
  BY <1>1, <1>2, <1>3 DEF Book
<1>5. Kept(book', seq') /\ Ready(book')
  BY <1>4 DEF Kept, Ready
<1>6. TypeOK'
  BY <1>1, <1>3, <1>4 DEF Inv, TypeOK, clockVars
<1>7. /\ \A p \in book'.archive : Faithful(p)
      /\ \A w \in book'.proven : w.start <= w.last
  BY <1>4 DEF Inv, Keeps
<1>. QED
  BY <1>1, <1>4, <1>5, <1>6, <1>7 DEF Inv

LEMMA Today ==
    ASSUME Inv
    PROVE  wall \in Time /\ wall \in Nat /\ today \in 0 .. Day(MaxTime)
BY Constants DEF Inv, TypeOK, today, Time

\* The handler of a connection error, whatever book it finds.
LEMMA LostKeeps ==
    ASSUME Inv, NEW b, Kept(b, seq), Ready(b), Keeps(book, b), b.writer # NoWriter,
           NEW proof \in Involuntary, Lost(b, proof),
           losses' \in 0 .. MaxLosses, UNCHANGED clockVars
    PROVE  Inv'
<1>1. PICK c : c = Closed(b, proof)
  OBVIOUS
<1>2. proof \in EndProof
  BY DEF EndProof
<1>3. /\ Kept(c, seq) /\ Keeps(b, c) /\ c.cover = NoCover /\ c.writer # NoWriter /\ Ready(c)
  BY <1>1, <1>2, ClosedKept
<1>4. Keeps(book, c)
  BY <1>3, KeepsChain
<1>5. CASE SessionOver(c)
  BY <1>3, <1>4, <1>5, SessionEnds
<1>6. CASE /\ phase' = "loop" /\ acked' = FALSE /\ monitor' = NoReading
           /\ book' = Turned(c, today) /\ UNCHANGED seq
  <2>1. PICK d : d = Turned(c, today)
    OBVIOUS
  <2>2. /\ Kept(d, seq) /\ Keeps(c, d) /\ d.writer # NoWriter /\ d.cover = NoCover /\ Ready(d)
    BY <1>3, <2>1, Today, TurnedKept
  <2>3. Keeps(book, d)
    BY <1>4, <2>2, KeepsChain
  <2>4. seq \in 0 .. MaxRecords
    BY DEF Inv, TypeOK
  <2>. QED
    BY <1>6, <2>1, <2>2, <2>3, <2>4, SessionLives
<1>. QED
  BY <1>1, <1>5, <1>6 DEF Lost

LEMMA JudgedKept ==
    ASSUME Inv, phase # "off"
    PROVE  /\ Kept(Judged, seq) /\ Ready(Judged) /\ Keeps(book, Judged)
           /\ Judged.writer # NoWriter
           /\ Judged.cover = book.cover \/ Judged.cover = NoCover
           /\ Backwards \/ Diverged => Judged.cover = NoCover
<1>1. Kept(book, seq) /\ Ready(book) /\ book.writer # NoWriter
  BY DEF Inv
<1>2. "CLOCK_DISCONTINUITY" \in EndProof /\ "CLOCK_DISCONTINUITY" \in Involuntary
  BY DEF EndProof, Involuntary
<1>3. CASE Backwards \/ Diverged
  <2>1. PICK c : c = Closed(book, "CLOCK_DISCONTINUITY")
    OBVIOUS
  <2>2. Judged = c
    BY <1>3, <2>1 DEF Judged
  <2>3. /\ Kept(c, seq) /\ Keeps(book, c) /\ c.cover = NoCover /\ c.writer # NoWriter
        /\ Ready(c)
    BY <1>1, <1>2, <2>1, ClosedKept
  <2>. QED
    BY <2>2, <2>3
<1>4. CASE ~(Backwards \/ Diverged)
  BY <1>1, <1>4 DEF Judged, Keeps
<1>. QED
  BY <1>3, <1>4

LEMMA TurnedJudgedKept ==
    ASSUME Inv, phase # "off"
    PROVE  LET c == Turned(Judged, today)
           IN  /\ Kept(c, seq) /\ Ready(c) /\ Keeps(book, c)
               /\ c.writer # NoWriter /\ c.writer.day = today
               /\ c.cover = book.cover \/ c.cover = NoCover
               /\ Backwards \/ Diverged => c.cover = NoCover
<1>1. PICK b : b = Judged
  OBVIOUS
<1>2. PICK c : c = Turned(b, today)
  OBVIOUS
<1>3. /\ Kept(b, seq) /\ Ready(b) /\ Keeps(book, b) /\ b.writer # NoWriter
      /\ b.cover = book.cover \/ b.cover = NoCover
      /\ Backwards \/ Diverged => b.cover = NoCover
  BY <1>1, JudgedKept
<1>4. /\ Kept(c, seq) /\ Keeps(b, c) /\ c.writer # NoWriter /\ c.writer.day = today
      /\ c.cover = b.cover \/ c.cover = NoCover
      /\ Ready(c)
  BY <1>2, <1>3, Today, TurnedKept
<1>5. Keeps(book, c)
  BY <1>3, <1>4, KeepsChain
<1>. QED
  BY <1>1, <1>2, <1>3, <1>4, <1>5

LEMMA DamagedKept ==
    ASSUME Inv, phase # "off"
    PROVE  /\ Kept(Damaged, seq) /\ Ready(Damaged) /\ Keeps(book, Damaged)
           /\ Damaged.writer # NoWriter
<1>1. PICK c : c = Turned(Judged, today)
  OBVIOUS
<1>2. Kept(c, seq) /\ Ready(c) /\ Keeps(book, c) /\ c.writer # NoWriter
  BY <1>1, TurnedJudgedKept
<1>. QED
  BY <1>1, <1>2, JudgedKept DEF Damaged

\* A message that can be used finds, or opens, a window it may extend.
LEMMA OpeningKept ==
    ASSUME Inv, phase = "live", ~Unusable
    PROVE  /\ Kept(Opening, seq) /\ Keeps(book, Opening)
           /\ Opening.writer # NoWriter /\ Opening.writer.day = today
           /\ Opening.cover # NoCover /\ Opening.cover.last <= wall /\ ~Opening.cover.skipped
<1>1. PICK c : c = Turned(Judged, today)
  OBVIOUS
<1>2. PICK d : d = Opened(c)
  OBVIOUS
<1>3. d = Opening
  BY <1>1, <1>2 DEF Opening
<1>4. /\ Kept(c, seq) /\ Ready(c) /\ Keeps(book, c)
      /\ c.writer # NoWriter /\ c.writer.day = today
      /\ c.cover = book.cover \/ c.cover = NoCover
  BY <1>1, TurnedJudgedKept
<1>5. ~Backwards /\ (c.cover = NoCover => ~(wall < c.floor))
  BY <1>1 DEF Unusable, Unopenable
<1>6. c.cover = NoCover => c.floor <= wall
  <2>1. c.floor \in 0 .. MaxTime + 1
    BY <1>4, BookFields DEF Kept
  <2>. QED
    BY <1>5, <2>1, Today, Constants
<1>7. seq \in Nat
  BY Constants DEF Inv, TypeOK
<1>8. /\ Kept(d, seq) /\ Keeps(c, d)
      /\ d.writer # NoWriter /\ d.writer.day = today
      /\ d.cover = IF c.cover = NoCover THEN NewCover(wall) ELSE c.cover
  BY <1>2, <1>4, <1>6, <1>7, Today, OpenedKept
<1>9. Keeps(book, d)
  BY <1>4, <1>8, KeepsChain
<1>10. CASE c.cover = NoCover
  <2>1. d.cover = NewCover(wall)
    BY <1>8, <1>10
  <2>2. NewCover(wall).last = wall /\ NewCover(wall).skipped = FALSE
        /\ NewCover(wall).start = wall
    BY DEF NewCover
  <2>3. NewCover(wall) # NoCover
    <3>1. NoCover.start = -1
      BY DEF NoCover
    <3>. QED
      BY <2>2, <3>1, Today
  <2>. QED
    BY <1>3, <1>8, <1>9, <2>1, <2>2, <2>3, Today
<1>11. CASE c.cover # NoCover
  <2>1. d.cover = book.cover /\ book.cover # NoCover
    BY <1>4, <1>8, <1>11
  <2>2. monitor # NoReading /\ book.cover.last <= monitor.wall /\ ~book.cover.skipped
    BY <2>1 DEF Inv
  <2>3. monitor.wall \in Nat /\ book.cover.last \in Nat
    <3>1. monitor \in [wall: Time, skew: Int]
      BY <2>2 DEF Inv, TypeOK
    <3>2. book.cover \in Cover
      BY <2>1, BookFields DEF Inv, TypeOK
    <3>. QED
      BY <3>1, <3>2, CoverFields, Constants DEF Time
  <2>4. monitor.wall <= wall
    BY <1>5, <2>2, <2>3, Today DEF Backwards
  <2>5. book.cover.last <= wall
    BY <2>2, <2>3, <2>4, Today
  <2>. QED
    BY <1>3, <1>8, <1>9, <2>1, <2>2, <2>5
<1>. QED
  BY <1>10, <1>11
--------------------------------------------------------------------------------
(***************************************************************************)
(* One lemma per action                                                    *)
(***************************************************************************)

LEMMA InvInit == Init => Inv
<1>. SUFFICES ASSUME Init PROVE Inv
  OBVIOUS
<1>1. /\ book.session = 0 /\ book.writer = NoWriter /\ book.cover = NoCover /\ book.floor = 0
      /\ book.pending = NoGap /\ book.archive = {} /\ book.proven = {}
  BY DEF Init
<1>2. 0 \in 0 .. MaxSessions /\ 0 \in 0 .. MaxTime + 1 /\ 0 \in 0 .. MaxRecords
      /\ 0 \in 0 .. MaxSteps /\ 0 \in 0 .. MaxLosses /\ 0 \in Time
  BY Constants DEF Time
<1>3. book \in Book
  BY <1>2 DEF Init, Book
<1>4. TypeOK
  <2>1. wall \in Time /\ skew \in Int /\ steps \in 0 .. MaxSteps /\ seq \in 0 .. MaxRecords
    BY <1>2 DEF Init
  <2>2. losses \in 0 .. MaxLosses /\ acked \in BOOLEAN /\ monitor = NoReading
    BY <1>2 DEF Init
  <2>3. phase \in {"off", "loop", "open", "live", "broken"}
    BY DEF Init
  <2>. QED
    BY <1>1, <1>3, <2>1, <2>2, <2>3 DEF TypeOK
<1>5. Kept(book, seq) /\ Ready(book)
  BY <1>1, <1>3 DEF Kept, Ready
<1>. QED
  BY <1>1, <1>4, <1>5 DEF Inv, Init

\* Only the clock moves.
LEMMA InvClock ==
    ASSUME Inv, wall' \in Time, skew' \in Int, steps' \in 0 .. MaxSteps,
           UNCHANGED <<phase, acked, monitor, seq, book, losses>>
    PROVE  Inv'
<1>1. TypeOK'
  BY DEF Inv, TypeOK
<1>. QED
  BY <1>1 DEF Inv

LEMMA InvTick ==
    ASSUME Inv, Tick \/ \E d \in Steps : StepClock(d)
    PROVE  Inv'
<1>1. CASE Tick
  <2>1. wall' \in Time /\ skew' \in Int /\ steps' \in 0 .. MaxSteps
    BY <1>1, Constants DEF Tick, Time, Inv, TypeOK
  <2>. QED
    BY <1>1, <2>1, InvClock DEF Tick
<1>2. CASE \E d \in Steps : StepClock(d)
  <2>1. PICK d \in Steps : StepClock(d)
    BY <1>2
  <2>2. d \in Int
    BY RecorderAssumption
  <2>3. wall' \in Time /\ skew' \in Int /\ steps' \in 0 .. MaxSteps
    BY <2>1, <2>2, Constants DEF StepClock, Time, Inv, TypeOK
  <2>. QED
    BY <2>1, <2>3, InvClock DEF StepClock
<1>. QED
  BY <1>1, <1>2

LEMMA InvMissMessage ==
    ASSUME Inv, MissMessage
    PROVE  Inv'
<1>1. PICK c : c = Skipped(book)
  OBVIOUS
<1>2. /\ Kept(c, seq) /\ Keeps(book, c) /\ c.writer = book.writer
      /\ c.cover = NoCover <=> book.cover = NoCover
      /\ Ready(c) /\ c.cover.last = book.cover.last
  BY <1>1, SkippedKept DEF Inv
<1>3. /\ book' = c /\ UNCHANGED <<clockVars, acked, monitor, seq>>
      /\ losses' \in 0 .. MaxLosses
      /\ (phase = "live" /\ phase' = "broken") \/ (phase # "live" /\ phase' = phase)
  <2>1. losses \in 0 .. MaxLosses
    BY DEF Inv, TypeOK
  <2>. QED
    BY <1>1, <2>1, Constants DEF MissMessage
<1>4. CASE phase = "off"
  <2>1. c = book
    BY <1>1, <1>4 DEF Inv, Skipped
  <2>2. TypeOK'
    BY <1>3, <2>1 DEF Inv, TypeOK, clockVars
  <2>. QED
    BY <1>3, <1>4, <2>1, <2>2 DEF Inv
<1>5. CASE phase # "off"
  <2>1. c.writer # NoWriter /\ phase' \in {"loop", "open", "broken"}
    BY <1>2, <1>3, <1>5 DEF Inv, TypeOK
  <2>2. phase' \in {"loop", "open"} => c.cover = NoCover
    BY <1>2, <1>3 DEF Inv
  <2>3. c.cover # NoCover => monitor' # NoReading /\ c.cover.last <= monitor'.wall
    BY <1>2, <1>3 DEF Inv
  <2>4. /\ monitor' = NoReading \/ monitor' \in [wall: Time, skew: Int]
        /\ acked' \in BOOLEAN /\ seq' \in 0 .. MaxRecords
    BY <1>3 DEF Inv, TypeOK
  <2>. QED
    BY <1>2, <1>3, <2>1, <2>2, <2>3, <2>4, SessionLives
<1>. QED
  BY <1>4, <1>5

LEMMA InvVenueSubscribes ==
    ASSUME Inv, VenueSubscribes
    PROVE  Inv'
<1>1. /\ phase = "open" /\ phase' = "live"
      /\ UNCHANGED <<clockVars, acked, monitor, seq, book, losses>>
  BY DEF VenueSubscribes
<1>2. TypeOK'
  BY <1>1 DEF Inv, TypeOK, clockVars
<1>. QED
  BY <1>1, <1>2 DEF Inv

\* The windows that derive_archive_availability_v1 reads are windows of the clock.
LEMMA ProvenSpans ==
    ASSUME Inv, NEW w \in ProvenWindows
    PROVE  w \in [start: Time, last: Time] /\ w.start <= w.last
<1>1. book \in Book
  BY DEF Inv, TypeOK
<1>2. ASSUME NEW v \in book.proven
      PROVE  v \in [start: Time, last: Time] /\ v.start <= v.last
  BY <1>1, BookFields DEF Inv
<1>3. ASSUME NEW p \in book.archive, NEW i \in Positions(p.windows)
      PROVE  LET v == [start |-> p.windows[i].start, last |-> p.windows[i].last]
             IN  v \in [start: Time, last: Time] /\ v.start <= v.last
  <2>1. p \in Partition
    BY <1>1, BookFields
  <2>2. p.windows \in Seq(Window)
    BY <2>1 DEF Partition
  <2>3. p.windows[i] \in Window
    BY <2>2, ElementOfSeq DEF Positions
  <2>4. p.windows[i].start <= p.windows[i].last
    BY DEF Inv, Faithful, Ending
  <2>. QED
    BY <2>3, <2>4, WindowFields
<1>. QED
  BY <1>2, <1>3 DEF ProvenWindows

LEMMA InvStartSession ==
    ASSUME Inv, StartSession
    PROVE  Inv'
<1>1. /\ phase = "off" /\ phase' = "loop" /\ book.session < MaxSessions
      /\ book' = [book EXCEPT !.session = @ + 1, !.writer = NewWriter(today),
                              !.proven = ProvenWindows, !.archive = {}]
      /\ UNCHANGED <<clockVars, acked, monitor, seq, losses>>
  BY DEF StartSession
<1>2. /\ book \in Book /\ book.writer = NoWriter /\ book.cover = NoCover /\ book.pending = NoGap
  BY <1>1 DEF Inv, TypeOK, Kept
<1>3. \A w \in ProvenWindows : w \in [start: Time, last: Time] /\ w.start <= w.last
  BY ProvenSpans
<1>4. PICK b : b = [book EXCEPT !.session = @ + 1, !.proven = ProvenWindows, !.archive = {}]
  OBVIOUS
<1>5. /\ b \in Book /\ b.cover = NoCover /\ b.pending = NoGap /\ b.archive = {}
      /\ b.proven = ProvenWindows
  <2>1. book.session + 1 \in 0 .. MaxSessions
    BY <1>1, <1>2, BookFields, Constants
  <2>2. ProvenWindows \in SUBSET [start: Time, last: Time]
    BY <1>3
  <2>. QED
    BY <1>2, <1>4, <2>1, <2>2 DEF Book
<1>6. PICK c : c = [b EXCEPT !.writer = NewWriter(today)]
  OBVIOUS
<1>7. book' = c
  BY <1>1, <1>2, <1>4, <1>6 DEF Book
<1>8. /\ Kept(c, seq) /\ Ready(c) /\ Keeps(b, c)
      /\ c.writer # NoWriter /\ c.cover = NoCover
  BY <1>5, <1>6, Today, NewWriterKept
<1>9. /\ \A p \in c.archive : Faithful(p)
      /\ \A w \in c.proven : w.start <= w.last
  BY <1>3, <1>5, <1>8 DEF Keeps
<1>10. TypeOK'
  BY <1>1, <1>7, <1>8, KeptWaits DEF Inv, TypeOK, clockVars, Kept
<1>. QED
  BY <1>1, <1>7, <1>8, <1>9, <1>10 DEF Inv

\* Something is logged on the book as it stands: Connect and LogEvent.
LEMMA LoggedKept ==
    ASSUME Inv, phase # "off"
    PROVE  LET c == Turned(book, today)
           IN  /\ Kept(c, seq) /\ Ready(c) /\ Keeps(book, c) /\ c.writer # NoWriter
               /\ c.cover = book.cover \/ c.cover = NoCover
BY Today, TurnedKept DEF Inv

LEMMA InvConnect ==
    ASSUME Inv, Connect
    PROVE  Inv'
<1>1. losses' \in 0 .. MaxLosses /\ UNCHANGED clockVars /\ phase = "loop"
  BY DEF Connect, Inv, TypeOK
<1>2. CASE SessionOver(book)
  <2>1. Kept(book, seq) /\ Keeps(book, book)
    BY DEF Inv, Keeps
  <2>. QED
    BY <1>1, <1>2, <2>1, SessionEnds
<1>3. CASE /\ phase' = "open" /\ book' = Turned(book, today)
           /\ UNCHANGED <<acked, monitor, seq>>
  <2>1. PICK c : c = Turned(book, today)
    OBVIOUS
  <2>2. /\ Kept(c, seq) /\ Ready(c) /\ Keeps(book, c) /\ c.writer # NoWriter
        /\ c.cover = NoCover
    BY <1>1, <2>1, LoggedKept DEF Inv
  <2>3. /\ monitor' = NoReading \/ monitor' \in [wall: Time, skew: Int]
        /\ acked' \in BOOLEAN /\ seq' \in 0 .. MaxRecords
    BY <1>3 DEF Inv, TypeOK
  <2>. QED
    BY <1>1, <1>3, <2>1, <2>2, <2>3, SessionLives
<1>. QED
  BY <1>2, <1>3 DEF Connect

LEMMA InvLogEvent ==
    ASSUME Inv, LogEvent
    PROVE  Inv'
<1>1. losses' \in 0 .. MaxLosses /\ UNCHANGED clockVars /\ phase # "off"
  BY DEF LogEvent, Inv, TypeOK
<1>2. CASE SessionOver(book)
  <2>1. Kept(book, seq) /\ Keeps(book, book)
    BY DEF Inv, Keeps
  <2>. QED
    BY <1>1, <1>2, <2>1, SessionEnds
<1>3. CASE book' = Turned(book, today) /\ UNCHANGED <<phase, acked, monitor, seq>>
  <2>1. PICK c : c = Turned(book, today)
    OBVIOUS
  <2>2. /\ Kept(c, seq) /\ Ready(c) /\ Keeps(book, c) /\ c.writer # NoWriter
        /\ c.cover = book.cover \/ c.cover = NoCover
    BY <1>1, <2>1, LoggedKept
  <2>3. /\ monitor' = NoReading \/ monitor' \in [wall: Time, skew: Int]
        /\ acked' \in BOOLEAN /\ seq' \in 0 .. MaxRecords
    BY <1>3 DEF Inv, TypeOK
  <2>4. /\ phase' \in {"loop", "open", "live", "broken"}
        /\ phase' \in {"loop", "open"} => c.cover = NoCover
        /\ c.cover # NoCover =>
            /\ monitor' # NoReading /\ c.cover.last <= monitor'.wall
            /\ phase' = "live" => ~c.cover.skipped
    BY <1>1, <1>3, <2>2 DEF Inv, TypeOK
  <2>. QED
    BY <1>1, <1>3, <2>1, <2>2, <2>3, <2>4, SessionLives
<1>. QED
  BY <1>2, <1>3 DEF LogEvent

LEMMA InvReceiveAck ==
    ASSUME Inv, ReceiveAck
    PROVE  Inv'
<1>1. losses' \in 0 .. MaxLosses /\ UNCHANGED clockVars /\ phase = "live"
  BY DEF ReceiveAck, Inv, TypeOK
<1>2. CASE Lost(Damaged, "CONNECTION_LOST")
  <2>1. "CONNECTION_LOST" \in Involuntary
    BY DEF Involuntary
  <2>2. PICK b : b = Damaged
    OBVIOUS
  <2>3. Kept(b, seq) /\ Ready(b) /\ Keeps(book, b) /\ b.writer # NoWriter
    BY <1>1, <2>2, DamagedKept
  <2>. QED
    BY <1>1, <1>2, <2>1, <2>2, <2>3, LostKeeps
<1>3. CASE /\ ~Unusable /\ acked' = TRUE /\ monitor' = reading
           /\ book' = [Opening EXCEPT !.cover = Proven(@)]
           /\ UNCHANGED <<phase, seq>>
  <2>1. PICK b : b = Opening
    OBVIOUS
  <2>2. /\ Kept(b, seq) /\ Keeps(book, b) /\ b.writer # NoWriter /\ b.cover # NoCover
        /\ b.cover.last <= wall /\ ~b.cover.skipped
    BY <1>1, <1>3, <2>1, OpeningKept
  <2>3. PICK c : c = [b EXCEPT !.cover = Proven(@)]
    OBVIOUS
  <2>4. /\ Kept(c, seq) /\ Keeps(b, c) /\ c.writer = b.writer /\ c.cover # NoCover
        /\ c.cover.last = wall /\ ~c.cover.skipped
    BY <2>2, <2>3, Today, ProvenKept
  <2>5. /\ reading \in [wall: Time, skew: Int] /\ reading.wall = wall /\ wall \in Nat
    BY Today DEF reading, Inv, TypeOK
  <2>6. reading # NoReading
    BY <2>5 DEF NoReading
  <2>7. seq' \in 0 .. MaxRecords
    BY <1>3 DEF Inv, TypeOK
  <2>8. Keeps(book, c) /\ Ready(c)
    BY <2>2, <2>4, KeepsChain DEF Ready
  <2>9. book' = c
    BY <1>3, <2>1, <2>3
  <2>10. /\ Kept(book', seq') /\ Ready(book') /\ Keeps(book, book') /\ book'.writer # NoWriter
         /\ phase' = "live" /\ acked' \in BOOLEAN
    BY <1>1, <1>3, <2>2, <2>4, <2>8, <2>9
  <2>11. monitor' # NoReading /\ monitor' \in [wall: Time, skew: Int] /\ monitor'.wall = wall
    BY <1>3, <2>5, <2>6
  <2>12. book'.cover.last <= monitor'.wall /\ ~book'.cover.skipped
    BY <2>4, <2>5, <2>9, <2>11
  <2>. QED
    BY <1>1, <2>7, <2>10, <2>11, <2>12, SessionLives
<1>. QED
  BY <1>2, <1>3 DEF ReceiveAck

LEMMA InvReceiveRecord ==
    ASSUME Inv, ReceiveRecord
    PROVE  Inv'
<1>1. /\ losses' \in 0 .. MaxLosses /\ UNCHANGED clockVars /\ phase = "live"
      /\ seq < MaxRecords /\ seq \in 0 .. MaxRecords
  BY DEF ReceiveRecord, Inv, TypeOK
<1>2. CASE Lost(Skipped(Damaged), "CONNECTION_LOST")
  <2>1. "CONNECTION_LOST" \in Involuntary
    BY DEF Involuntary
  <2>2. PICK a, b : a = Damaged /\ b = Skipped(a)
    OBVIOUS
  <2>3. Kept(a, seq) /\ Ready(a) /\ Keeps(book, a) /\ a.writer # NoWriter
    BY <1>1, <2>2, DamagedKept
  <2>4. Kept(b, seq) /\ Ready(b) /\ Keeps(a, b) /\ b.writer # NoWriter
    BY <2>2, <2>3, SkippedKept
  <2>5. Keeps(book, b)
    BY <2>3, <2>4, KeepsChain
  <2>. QED
    BY <1>1, <1>2, <2>1, <2>2, <2>4, <2>5, LostKeeps
<1>3. CASE /\ ~Unusable
           /\ book' = [Opening EXCEPT !.writer = AppendRecord(@, wall, TRUE),
                                      !.cover = Counting(@)]
           /\ seq' = seq + 1 /\ monitor' = reading /\ UNCHANGED <<phase, acked>>
  <2>1. PICK b : b = Opening
    OBVIOUS
  <2>2. /\ Kept(b, seq) /\ Keeps(book, b) /\ b.writer # NoWriter /\ b.cover # NoCover
        /\ b.cover.last <= wall /\ ~b.cover.skipped /\ b.writer.day = today
    BY <1>1, <1>3, <2>1, OpeningKept
  <2>3. PICK c : c = [b EXCEPT !.cover = Proven(@)]
    OBVIOUS
  <2>4. /\ Kept(c, seq) /\ Keeps(b, c) /\ c.writer = b.writer /\ c.cover # NoCover
        /\ c.cover.last = wall /\ ~c.cover.skipped
    BY <2>2, <2>3, Today, ProvenKept
  <2>5. PICK d : d = [c EXCEPT !.writer = AppendRecord(@, wall, TRUE),
                               !.cover = [c.cover EXCEPT !.count = c.cover.count + 1]]
    OBVIOUS
  <2>6. /\ Kept(d, seq + 1) /\ Keeps(c, d) /\ d.writer # NoWriter /\ d.cover # NoCover
        /\ d.cover.last = wall /\ ~d.cover.skipped
    BY <1>1, <2>2, <2>4, <2>5, Today, CountedKept
  <2>7. book' = d
    <3>1. b \in Book
      BY <2>2 DEF Kept
    <3>2. c.cover = Proven(b.cover)
      BY <2>3, <3>1 DEF Book
    <3>3. Counting(b.cover).count = c.cover.count + 1
      <4>1. b.cover \in Cover
        BY <2>2, <3>1, BookFields
      <4>. QED
        BY <3>2, <4>1 DEF Counting, Proven, Cover
    <3>4. Counting(b.cover) = [c.cover EXCEPT !.count = c.cover.count + 1]
      <4>1. b.cover \in Cover
        BY <2>2, <3>1, BookFields
      <4>. QED
        BY <3>2, <4>1 DEF Counting, Proven, Cover
    <3>5. d = [b EXCEPT !.writer = AppendRecord(@, wall, TRUE), !.cover = Counting(@)]
      BY <2>3, <2>4, <2>5, <3>1, <3>4 DEF Book
    <3>. QED
      BY <1>3, <2>1, <3>5
  <2>8. /\ reading \in [wall: Time, skew: Int] /\ reading.wall = wall /\ wall \in Nat
    BY Today DEF reading, Inv, TypeOK
  <2>9. reading # NoReading
    BY <2>8 DEF NoReading
  <2>10. Keeps(book, d) /\ Ready(d)
    BY <2>2, <2>4, <2>6, KeepsChain DEF Ready
  <2>11. seq' \in 0 .. MaxRecords /\ acked' \in BOOLEAN
    BY <1>1, <1>3, Constants DEF Inv, TypeOK
  <2>12. /\ Kept(book', seq') /\ Ready(book') /\ Keeps(book, book') /\ book'.writer # NoWriter
         /\ phase' = "live"
    BY <1>1, <1>3, <2>6, <2>7, <2>10
  <2>13. monitor' # NoReading /\ monitor' \in [wall: Time, skew: Int] /\ monitor'.wall = wall
    BY <1>3, <2>8, <2>9
  <2>14. book'.cover.last <= monitor'.wall /\ ~book'.cover.skipped
    BY <2>6, <2>7, <2>8, <2>13
  <2>. QED
    BY <1>1, <2>11, <2>12, <2>13, <2>14, SessionLives
<1>. QED
  BY <1>2, <1>3 DEF ReceiveRecord

LEMMA InvWriteError ==
    ASSUME Inv, WriteError
    PROVE  Inv'
<1>1. /\ phase = "live" /\ ~Unusable /\ UNCHANGED clockVars
      /\ Lost([Skipped(Opening) EXCEPT !.writer = AppendRecord(@, wall, FALSE)],
              "CONNECTION_LOST")
  BY DEF WriteError
<1>2. losses' \in 0 .. MaxLosses /\ seq \in 0 .. MaxRecords
  BY Constants DEF WriteError, Inv, TypeOK
<1>3. PICK a, b : a = Opening /\ b = Skipped(a)
  OBVIOUS
<1>4. /\ Kept(a, seq) /\ Keeps(book, a) /\ a.writer # NoWriter /\ a.writer.day = today
      /\ a.cover # NoCover
  BY <1>1, <1>3, OpeningKept
<1>5. /\ Kept(b, seq) /\ Keeps(a, b) /\ b.writer # NoWriter /\ b.writer.day = today
      /\ b.cover # NoCover
  BY <1>3, <1>4, SkippedKept
<1>6. PICK c : c = [b EXCEPT !.writer = AppendRecord(@, wall, FALSE)]
  OBVIOUS
<1>7. Kept(c, seq) /\ Keeps(b, c) /\ c.writer # NoWriter /\ c.cover # NoCover
  BY <1>2, <1>5, <1>6, Today, UncountedKept
<1>8. Keeps(book, c) /\ Ready(c)
  BY <1>4, <1>5, <1>7, KeepsChain DEF Ready
<1>9. Lost(c, "CONNECTION_LOST") /\ "CONNECTION_LOST" \in Involuntary
  BY <1>1, <1>3, <1>6 DEF Involuntary
<1>. QED
  BY <1>1, <1>2, <1>7, <1>8, <1>9, LostKeeps

LEMMA InvReceiveInvalid ==
    ASSUME Inv, ReceiveInvalid
    PROVE  Inv'
<1>1. /\ phase = "live" /\ UNCHANGED clockVars
      /\ Lost(Skipped(Judged), "CONTRACT_VIOLATION")
  BY DEF ReceiveInvalid
<1>2. losses' \in 0 .. MaxLosses
  BY Constants DEF ReceiveInvalid, Inv, TypeOK
<1>3. PICK a, b : a = Judged /\ b = Skipped(a)
  OBVIOUS
<1>4. Kept(a, seq) /\ Ready(a) /\ Keeps(book, a) /\ a.writer # NoWriter
  BY <1>1, <1>3, JudgedKept
<1>5. Kept(b, seq) /\ Ready(b) /\ Keeps(a, b) /\ b.writer # NoWriter
  BY <1>3, <1>4, SkippedKept
<1>6. Keeps(book, b)
  BY <1>4, <1>5, KeepsChain
<1>7. Lost(b, "CONTRACT_VIOLATION") /\ "CONTRACT_VIOLATION" \in Involuntary
  BY <1>1, <1>3 DEF Involuntary
<1>. QED
  BY <1>1, <1>2, <1>5, <1>6, <1>7, LostKeeps

LEMMA InvReceiveControl ==
    ASSUME Inv, ReceiveControl
    PROVE  Inv'
<1>1. /\ losses' \in 0 .. MaxLosses /\ UNCHANGED clockVars /\ phase \in {"open", "live"}
  BY DEF ReceiveControl, Inv, TypeOK
<1>2. CASE Lost(Judged, "CONNECTION_LOST")
  <2>1. "CONNECTION_LOST" \in Involuntary
    BY DEF Involuntary
  <2>2. PICK b : b = Judged
    OBVIOUS
  <2>3. Kept(b, seq) /\ Ready(b) /\ Keeps(book, b) /\ b.writer # NoWriter
    BY <1>1, <2>2, JudgedKept
  <2>. QED
    BY <1>1, <1>2, <2>1, <2>2, <2>3, LostKeeps
<1>3. CASE /\ ~Backwards /\ monitor' = reading
           /\ book' = IF Diverged THEN Turned(Judged, today) ELSE book
           /\ UNCHANGED <<phase, acked, seq>>
  <2>1. PICK c : c = IF Diverged THEN Turned(Judged, today) ELSE book
    OBVIOUS
  <2>2. /\ Kept(c, seq) /\ Ready(c) /\ Keeps(book, c) /\ c.writer # NoWriter
        /\ c.cover = NoCover \/ (c.cover = book.cover /\ ~Diverged)
    <3>1. PICK d : d = Turned(Judged, today)
      OBVIOUS
    <3>2. /\ Kept(d, seq) /\ Ready(d) /\ Keeps(book, d) /\ d.writer # NoWriter
          /\ Diverged => d.cover = NoCover
      BY <1>1, <3>1, TurnedJudgedKept
    <3>3. Kept(book, seq) /\ Ready(book) /\ Keeps(book, book) /\ book.writer # NoWriter
      BY <1>1 DEF Inv, Keeps
    <3>. QED
      BY <2>1, <3>1, <3>2, <3>3
  <2>3. /\ reading \in [wall: Time, skew: Int] /\ reading.wall = wall /\ wall \in Nat
    BY Today DEF reading, Inv, TypeOK
  <2>4. reading # NoReading
    BY <2>3 DEF NoReading
  <2>5. c.cover # NoCover => c.cover.last <= wall /\ (phase = "live" => ~c.cover.skipped)
    <3>. SUFFICES ASSUME c.cover # NoCover
                  PROVE  c.cover.last <= wall /\ (phase = "live" => ~c.cover.skipped)
      OBVIOUS
    <3>1. /\ c.cover = book.cover /\ monitor # NoReading /\ book.cover.last <= monitor.wall
          /\ phase = "live" => ~book.cover.skipped
      BY <2>2 DEF Inv
    <3>2. monitor.wall \in Nat /\ book.cover.last \in Nat
      <4>1. monitor \in [wall: Time, skew: Int]
        BY <3>1 DEF Inv, TypeOK
      <4>2. book.cover \in Cover
        BY <3>1, BookFields DEF Inv, TypeOK
      <4>. QED
        BY <4>1, <4>2, CoverFields, Constants DEF Time
    <3>3. monitor.wall <= wall
      BY <1>3, <3>1, <3>2, Today DEF Backwards
    <3>. QED
      BY <3>1, <3>2, <3>3, Today
  <2>6. phase = "open" => c.cover = NoCover
    BY <2>2 DEF Inv
  <2>7. acked' \in BOOLEAN /\ seq' \in 0 .. MaxRecords
    BY <1>3 DEF Inv, TypeOK
  <2>8. book' = c
    BY <1>3, <2>1
  <2>. QED
    BY <1>1, <1>3, <2>2, <2>3, <2>4, <2>5, <2>6, <2>7, <2>8, SessionLives
<1>. QED
  BY <1>2, <1>3 DEF ReceiveControl

LEMMA InvLostLink ==
    ASSUME Inv, DetectBrokenLink \/ LoseConnection
    PROVE  Inv'
<1>1. /\ losses' \in 0 .. MaxLosses /\ UNCHANGED clockVars /\ phase # "off"
      /\ Lost(book, "CONNECTION_LOST")
  BY Constants DEF DetectBrokenLink, LoseConnection, Inv, TypeOK
<1>2. Kept(book, seq) /\ Ready(book) /\ Keeps(book, book) /\ book.writer # NoWriter
  BY <1>1 DEF Inv, Keeps
<1>3. "CONNECTION_LOST" \in Involuntary
  BY DEF Involuntary
<1>. QED
  BY <1>1, <1>2, <1>3, LostKeeps

LEMMA InvFinish ==
    ASSUME Inv, NEW proof \in EndProof, Finish(proof)
    PROVE  Inv'
<1>1. losses' \in 0 .. MaxLosses /\ UNCHANGED clockVars /\ phase # "off"
  BY DEF Finish, Inv, TypeOK
<1>2. Kept(book, seq) /\ book.writer # NoWriter
  BY <1>1 DEF Inv
<1>3. PICK c : c = Closed(book, proof)
  OBVIOUS
<1>4. Kept(c, seq) /\ Keeps(book, c) /\ c.cover = NoCover /\ c.writer # NoWriter
  BY <1>2, <1>3, ClosedKept
<1>5. PICK d : d = Turned(c, today)
  OBVIOUS
<1>6. Kept(d, seq) /\ Keeps(c, d) /\ d.cover = NoCover /\ d.writer # NoWriter
  BY <1>4, <1>5, Today, TurnedKept
<1>7. PICK e : e = Sealed(d)
  OBVIOUS
<1>8. Kept(e, seq) /\ Keeps(d, e)
  BY <1>6, <1>7, SealedKept
<1>9. Keeps(book, e)
  BY <1>4, <1>6, <1>8, KeepsChain
<1>10. SessionOver(c) \/ SessionOver(e)
  BY <1>3, <1>5, <1>7 DEF Finish
<1>. QED
  BY <1>1, <1>4, <1>8, <1>9, <1>10, SessionEnds

LEMMA InvCrash ==
    ASSUME Inv, Crash
    PROVE  Inv'
<1>1. losses' \in 0 .. MaxLosses /\ UNCHANGED clockVars /\ SessionOver(book)
  BY DEF Crash, Inv, TypeOK
<1>2. Kept(book, seq) /\ Keeps(book, book)
  BY DEF Inv, Keeps
<1>. QED
  BY <1>1, <1>2, SessionEnds

LEMMA InvNext == Inv /\ [Next]_vars => Inv'
<1>. SUFFICES ASSUME Inv, [Next]_vars PROVE Inv'
  OBVIOUS
<1>1. CASE UNCHANGED vars
  <2>1. TypeOK'
    BY <1>1 DEF vars, clockVars, Inv, TypeOK
  <2>. QED
    BY <1>1, <2>1 DEF vars, clockVars, Inv
<1>2. CASE Tick \/ \E d \in Steps : StepClock(d)
  BY <1>2, InvTick
<1>3. CASE MissMessage
  BY <1>3, InvMissMessage
<1>4. CASE VenueSubscribes
  BY <1>4, InvVenueSubscribes
<1>5. CASE StartSession
  BY <1>5, InvStartSession
<1>6. CASE Connect
  BY <1>6, InvConnect
<1>7. CASE ReceiveAck
  BY <1>7, InvReceiveAck
<1>8. CASE ReceiveRecord
  BY <1>8, InvReceiveRecord
<1>9. CASE WriteError
  BY <1>9, InvWriteError
<1>10. CASE ReceiveInvalid
  BY <1>10, InvReceiveInvalid
<1>11. CASE ReceiveControl
  BY <1>11, InvReceiveControl
<1>12. CASE DetectBrokenLink \/ LoseConnection
  BY <1>12, InvLostLink
<1>13. CASE LogEvent
  BY <1>13, InvLogEvent
<1>14. CASE StopSession \/ FailSession
  <2>1. "OPERATOR_STOP" \in EndProof /\ "RECORDER_FAILURE" \in EndProof
    BY DEF EndProof, Involuntary
  <2>. QED
    BY <1>14, <2>1, InvFinish DEF StopSession, FailSession
<1>15. CASE Crash
  BY <1>15, InvCrash
<1>. QED
  BY <1>1, <1>2, <1>3, <1>4, <1>5, <1>6, <1>7, <1>8, <1>9, <1>10, <1>11, <1>12, <1>13,
     <1>14, <1>15 DEF Next

(* The book, its windows and the partitions it sealed stay consistent      *)
(* through every handler of the recorder, clock step, restart and crash:   *)
(* the inductive invariant that the theorems below rest on.                *)
THEOREM Invariance == Spec => []Inv
BY InvInit, InvNext, PTL DEF Spec

(* Every reachable state has the types of its variables: clocks stay in    *)
(* their bounds, records and windows carry instants of the wall clock, and *)
(* a gap that waits starts where the last window ended (_close_coverage).  *)
THEOREM TypeCorrect == Spec => []TypeOK
<1>1. Inv => TypeOK
  BY DEF Inv
<1>. QED
  BY <1>1, Invariance, PTL

(* The writer, which counts on its own what the recorder declares, never   *)
(* finds a declaration to refuse: whatever connections, steps of the clock *)
(* and midnights a session meets, declare_coverage and declare_gap accept. *)
THEOREM WriterTrustsRecorder == Spec => []WriterNeverRefuses
<1>1. Inv => WriterNeverRefuses
  BY DEF Inv, Kept, WriterNeverRefuses
<1>. QED
  BY <1>1, Invariance, PTL

(* A sealed partition is read as COMPLETE by _metadata_reasons, and when no*)
(* flush failed replay_partition_v1 accepts every line of it: the numbers, *)
(* days, windows and counts of finalize agree with what was appended.      *)
THEOREM PartitionsReplay == Spec => []SealedReplays
<1>1. Inv => SealedReplays
  BY DEF Inv, Faithful, SealedReplays
<1>. QED
  BY <1>1, Invariance, PTL

(* No message that the venue pushed between the first and the last proof of*)
(* a declared window is missing from it: _close_coverage ends a window at  *)
(* its last proof, before anything was lost.                               *)
THEOREM WindowsHaveNoHole == Spec => []HoleFree
<1>1. Inv => HoleFree
  BY DEF Inv, Faithful, NoHoles, HoleFree
<1>. QED
  BY <1>1, Invariance, PTL

(* The gaps of a sealed partition are exactly the stretches between its    *)
(* windows, and an open end where an interruption ended the last one:      *)
(* _open_coverage and _finalize_writer declare all of them, once.          *)
THEOREM InterruptionsStayOpen == Spec => []NeverBridged
<1>1. Inv => NeverBridged
  BY DEF Inv, Faithful, Separated, NeverBridged
<1>. QED
  BY <1>1, Invariance, PTL
--------------------------------------------------------------------------------
(***************************************************************************)
(* The gaps of the archive.  The loop has met the windows that start no    *)
(* later than the next one: what it has found are the holes between them.  *)
(***************************************************************************)

Span == [start: Time, last: Time]

CoveredBy(windows, t) == \E w \in windows : Within(w, t)

Holes(windows) ==
    {hole \in (0 .. MaxTime) \X (0 .. MaxTime) :
        /\ hole[1] < hole[2]
        /\ hole[1] > 0 /\ CoveredBy(windows, hole[1] - 1)
        /\ \A t \in hole[1] .. hole[2] - 1 : ~CoveredBy(windows, t)
        /\ CoveredBy(windows, hole[2])}

\* What the loop holds when it has met these windows.
Found(windows, scan) ==
    /\ windows = {} => scan.reach = NoCover
    /\ windows # {} => /\ scan.reach \in windows
                       /\ \A w \in windows : w.last <= scan.reach.last
    /\ scan.gaps = Holes(windows)

IsHole(windows, from, to) ==
    /\ from \in 1 .. MaxTime /\ to \in 0 .. MaxTime /\ from < to
    /\ CoveredBy(windows, from - 1) /\ CoveredBy(windows, to)
    /\ \A t \in from .. to - 1 : ~CoveredBy(windows, t)

LEMMA HolesArePairs ==
    ASSUME NEW windows
    PROVE  /\ \A from, to : <<from, to>> \in Holes(windows) <=> IsHole(windows, from, to)
           /\ \A hole \in Holes(windows) : hole = <<hole[1], hole[2]>>
<1>1. MaxTime \in Nat
  BY Constants
<1>2. ASSUME NEW from, NEW to
      PROVE  <<from, to>> \in Holes(windows) <=> IsHole(windows, from, to)
  BY <1>1 DEF Holes, IsHole
<1>. QED
  BY <1>2 DEF Holes

\* A window that starts last leaves every hole before it alone, and bounds at
\* most one more.
LEMMA NextWindow ==
    ASSUME NEW U, NEW w \in Span, w.start <= w.last,
           \A v \in U : v \in Span /\ v.start <= v.last /\ v.start <= w.start,
           NEW r \in U, \A v \in U : v.last <= r.last,
           NEW from, NEW to
    PROVE  IsHole(U \cup {w}, from, to) <=>
               \/ IsHole(U, from, to)
               \/ w.start > r.last + 1 /\ from = r.last + 1 /\ to = w.start
<1>0. MaxTime \in Nat /\ Time = 0 .. MaxTime
  BY Constants DEF Time
<1>1. /\ w.start \in 0 .. MaxTime /\ w.last \in 0 .. MaxTime
      /\ \A v \in U : v.start \in 0 .. MaxTime /\ v.last \in 0 .. MaxTime
  BY <1>0 DEF Span
<1>2. \A t : CoveredBy(U \cup {w}, t) <=> CoveredBy(U, t) \/ Within(w, t)
  BY DEF CoveredBy
<1>3. \A t \in Int : CoveredBy(U, t) => t <= r.last
  BY <1>1 DEF CoveredBy, Within
<1>4. CoveredBy(U, r.last)
  BY <1>1 DEF CoveredBy, Within
\* An instant of w that the earlier windows reach is in one of them.
<1>5. \A t \in Int : w.start <= t /\ t <= r.last => CoveredBy(U, t)
  BY <1>1 DEF CoveredBy, Within
<1>6. ASSUME IsHole(U, from, to)
      PROVE  IsHole(U \cup {w}, from, to)
  <2>1. from \in Int /\ to \in Int /\ from > 0 /\ from < to
    BY <1>0, <1>6 DEF IsHole
  <2>2. PICK v \in U : Within(v, to)
    BY <1>6 DEF IsHole, CoveredBy
  <2>3. ~Within(v, to - 1)
    BY <1>6, <2>1 DEF IsHole, CoveredBy
  <2>4. to <= w.start
    BY <1>1, <2>1, <2>2, <2>3 DEF Within
  <2>5. \A t \in from .. to - 1 : ~Within(w, t)
    BY <1>1, <2>1, <2>4 DEF Within
  <2>. QED
    BY <1>2, <1>6, <2>5 DEF IsHole
<1>7. ASSUME w.start > r.last + 1, from = r.last + 1, to = w.start
      PROVE  IsHole(U \cup {w}, from, to)
  <2>1. from \in 1 .. MaxTime /\ to \in 0 .. MaxTime /\ from < to
    BY <1>0, <1>1, <1>7
  <2>2. from - 1 = r.last
    BY <1>1, <1>7
  <2>3. Within(w, to)
    BY <1>1, <1>7 DEF Within
  <2>4. \A t \in from .. to - 1 : ~CoveredBy(U, t) /\ ~Within(w, t)
    BY <1>1, <1>3, <1>7, <2>1 DEF Within
  <2>. QED
    BY <1>2, <1>4, <2>1, <2>2, <2>3, <2>4 DEF IsHole
<1>8. ASSUME IsHole(U \cup {w}, from, to), ~IsHole(U, from, to)
      PROVE  w.start > r.last + 1 /\ from = r.last + 1 /\ to = w.start
  <2>1. from \in Int /\ to \in Int /\ from > 0 /\ from < to
    BY <1>0, <1>8 DEF IsHole
  <2>2. \A t \in from .. to - 1 : ~CoveredBy(U, t) /\ ~Within(w, t)
    BY <1>2, <1>8 DEF IsHole
  <2>3. CoveredBy(U, from - 1) \/ Within(w, from - 1)
    BY <1>2, <1>8 DEF IsHole
  <2>4. CoveredBy(U, to) \/ Within(w, to)
    BY <1>2, <1>8 DEF IsHole
  <2>5. from \in from .. to - 1 /\ ~CoveredBy(U, from) /\ ~Within(w, from)
    BY <2>1, <2>2
  <2>6. ~CoveredBy(U, to)
    <3>. SUFFICES ASSUME CoveredBy(U, to) PROVE FALSE
      OBVIOUS
    <3>1. PICK v \in U : Within(v, to)
      BY DEF CoveredBy
    <3>2. ~CoveredBy(U, from - 1)
      BY <1>8, <2>2 DEF IsHole
    <3>3. w.start <= from - 1
      BY <2>3, <3>2 DEF Within
    <3>4. Within(v, from)
      BY <1>1, <2>1, <3>1, <3>3 DEF Within
    <3>. QED
      BY <2>5, <3>4 DEF CoveredBy
  <2>7. Within(w, to) /\ to > r.last
    BY <1>1, <1>5, <2>1, <2>4, <2>6 DEF Within
  <2>8. CoveredBy(U, from - 1)
    BY <1>1, <2>1, <2>3, <2>5, <2>7 DEF Within
  <2>9. from = r.last + 1
    <3>1. from - 1 <= r.last
      BY <1>3, <2>1, <2>8
    <3>2. ~(from <= r.last)
      BY <1>1, <1>4, <2>1, <2>2, <2>7
    <3>. QED
      BY <1>1, <2>1, <3>1, <3>2
  <2>10. w.start > from
    BY <1>1, <2>1, <2>5, <2>7 DEF Within
  <2>11. ~(w.start < to)
    BY <1>1, <2>1, <2>2, <2>10 DEF Within
  <2>. QED
    BY <1>1, <2>1, <2>7, <2>9, <2>10, <2>11 DEF Within
<1>. QED
  BY <1>6, <1>7, <1>8

\* A single window has no hole.
LEMMA FirstWindow ==
    ASSUME NEW w \in Span
    PROVE  Holes({w}) = {}
<1>1. MaxTime \in Nat /\ Time = 0 .. MaxTime
  BY Constants DEF Time
<1>2. w.start \in Int /\ w.last \in Int
  BY <1>1 DEF Span
<1>3. ASSUME NEW from, NEW to, IsHole({w}, from, to)
      PROVE  FALSE
  <2>1. from \in Int /\ to \in Int /\ from < to
    BY <1>1, <1>3 DEF IsHole
  <2>2. Within(w, from - 1) /\ Within(w, to) /\ ~Within(w, from)
    BY <1>3, <2>1 DEF IsHole, CoveredBy
  <2>. QED
    BY <1>2, <2>1, <2>2 DEF Within
<1>. QED
  BY <1>3, HolesArePairs

LEMMA NothingCovered == Holes({}) = {}
BY DEF Holes, CoveredBy

\* One turn of the loop.
LEMMA TurnFinds ==
    ASSUME NEW U, NEW w \in Span, w.start <= w.last,
           \A v \in U : v \in Span /\ v.start <= v.last /\ v.start <= w.start,
           NEW scan, Found(U, scan)
    PROVE  Found(U \cup {w}, Scanned(w, scan))
<1>0. MaxTime \in Nat /\ Time = 0 .. MaxTime
  BY Constants DEF Time
<1>1. w.last \in Int /\ w # NoCover
  <2>1. w.start # -1 /\ w.last \in Int
    BY <1>0 DEF Span
  <2>. QED
    BY <2>1 DEF NoCover
<1>2. CASE U = {}
  <2>1. scan.reach = NoCover /\ scan.gaps = {}
    BY <1>2, NothingCovered DEF Found
  <2>2. Scanned(w, scan) = [reach |-> w, gaps |-> {}]
    BY <2>1 DEF Scanned, Reach
  <2>3. U \cup {w} = {w}
    BY <1>2
  <2>. QED
    BY <1>1, <2>2, <2>3, FirstWindow DEF Found
<1>3. CASE U # {}
  <2>1. PICK r \in U : r = scan.reach
    BY <1>3 DEF Found
  <2>2. \A v \in U : v.last <= r.last /\ v.last \in Int
    BY <1>0, <1>3, <2>1 DEF Found, Span
  <2>3. r # NoCover
    <3>1. r.start # -1
      BY <1>0 DEF Span
    <3>. QED
      BY <3>1 DEF NoCover
  <2>. DEFINE next == Scanned(w, scan)
  <2>4. next.reach = IF w.last > r.last THEN w ELSE r
    BY <2>1, <2>3 DEF Scanned, Reach
  <2>5. next.gaps = IF w.start > r.last + 1 THEN Holes(U) \cup {<<r.last + 1, w.start>>}
                    ELSE Holes(U)
    BY <2>1, <2>3 DEF Scanned, Found
  <2>. HIDE DEF next
  <2>6. next.reach \in U \cup {w} /\ \A v \in U \cup {w} : v.last <= next.reach.last
    BY <1>1, <2>2, <2>4
  <2>7. next.gaps = Holes(U \cup {w})
    <3>1. ASSUME NEW from, NEW to
          PROVE  <<from, to>> \in next.gaps <=> <<from, to>> \in Holes(U \cup {w})
      <4>1. IsHole(U \cup {w}, from, to) <=>
               \/ IsHole(U, from, to)
               \/ w.start > r.last + 1 /\ from = r.last + 1 /\ to = w.start
        BY <2>2, NextWindow
      <4>2. /\ <<from, to>> \in Holes(U) <=> IsHole(U, from, to)
            /\ <<from, to>> \in Holes(U \cup {w}) <=> IsHole(U \cup {w}, from, to)
        BY HolesArePairs
      <4>. QED
        BY <2>5, <4>1, <4>2
    <3>2. /\ \A hole \in next.gaps : hole = <<hole[1], hole[2]>>
          /\ \A hole \in Holes(U \cup {w}) : hole = <<hole[1], hole[2]>>
      BY <2>5, HolesArePairs
    <3>. QED
      BY <3>1, <3>2
  <2>. QED
    BY <2>6, <2>7 DEF Found, next
<1>. QED
  BY <1>2, <1>3

LEMMA SpansAreFinite == IsFiniteSet(Span)
<1>1. IsFiniteSet(Time \X Time)
  <2>1. IsFiniteSet(Time)
    BY Constants, FS_Interval DEF Time
  <2>. QED
    BY <2>1, FS_Product
<1>. DEFINE span == [pair \in Time \X Time |-> [start |-> pair[1], last |-> pair[2]]]
<1>2. span \in [Time \X Time -> Span]
  BY DEF Span
<1>3. ASSUME NEW w \in Span
      PROVE  \E pair \in Time \X Time : span[pair] = w
  <2>1. <<w.start, w.last>> \in Time \X Time /\ span[<<w.start, w.last>>] = w
    BY DEF Span
  <2>. QED
    BY <2>1
<1>4. span \in Surjection(Time \X Time, Span)
  BY <1>2, <1>3 DEF Surjection
<1>. QED
  BY <1>1, <1>4, FS_Surjection

\* The window that the loop takes last.
LEMMA TakeLatest ==
    ASSUME NEW U \in SUBSET Span, U # {}
    PROVE  /\ Latest(U) \in U /\ \A v \in U : v.start <= Latest(U).start
           /\ Cardinality(U \ {Latest(U)}) = Cardinality(U) - 1
<1>1. MaxTime \in Nat /\ Time = 0 .. MaxTime
  BY Constants DEF Time
<1>. DEFINE starts == {v.start : v \in U}
<1>2. starts \subseteq 0 .. MaxTime /\ starts # {}
  BY <1>1 DEF Span
<1>3. PICK x \in starts : \A y \in starts : y <= x
  <2>. HIDE DEF starts
  <2>. QED
    BY <1>1, <1>2, GreatestElement
<1>4. \E w \in U : \A v \in U : v.start <= w.start
  BY <1>3
<1>5. Latest(U) \in U /\ \A v \in U : v.start <= Latest(U).start
  BY <1>4 DEF Latest
<1>6. IsFiniteSet(U)
  BY SpansAreFinite, FS_Subset
<1>. QED
  BY <1>5, <1>6, FS_RemoveElement

\* g is the table that the fold fills for the sets of windows in D.
IsScan(g, D) ==
    g = [U \in D |-> IF U = {} THEN [reach |-> NoCover, gaps |-> {}]
                     ELSE Scanned(Latest(U), g[U \ {Latest(U)}])]

Few(W, n) == {U \in SUBSET W : Cardinality(U) <= n}

LEMMA ScanExists ==
    ASSUME NEW W \in SUBSET Span
    PROVE  \E g : IsScan(g, SUBSET W)
<1>. DEFINE T == {n \in Nat : \E g : IsScan(g, Few(W, n))}
<1>0. /\ IsFiniteSet(W) /\ Cardinality(W) \in Nat
      /\ \A U \in SUBSET W : /\ IsFiniteSet(U) /\ Cardinality(U) \in Nat
                             /\ Cardinality(U) <= Cardinality(W)
  BY SpansAreFinite, FS_Subset, FS_CardinalityType
<1>1. 0 \in T
  <2>1. \A U \in Few(W, 0) : U = {}
    BY <1>0, FS_EmptySet DEF Few
  <2>2. IsScan([U \in Few(W, 0) |-> [reach |-> NoCover, gaps |-> {}]], Few(W, 0))
    BY <2>1 DEF IsScan
  <2>. QED
    BY <2>2
<1>2. ASSUME NEW n \in Nat, n \in T
      PROVE  n + 1 \in T
  <2>1. PICK g : IsScan(g, Few(W, n))
    BY <1>2
  <2>. DEFINE D == Few(W, n + 1)
              h == [U \in D |-> IF U = {} THEN [reach |-> NoCover, gaps |-> {}]
                                ELSE Scanned(Latest(U), g[U \ {Latest(U)}])]
  <2>2. Few(W, n) \subseteq D
    BY <1>0 DEF Few
  <2>3. \A U \in Few(W, n) : h[U] = g[U]
    BY <2>1, <2>2 DEF IsScan
  <2>4. \A U \in D : U # {} => U \ {Latest(U)} \in Few(W, n)
    <3>1. ASSUME NEW U \in D, U # {}
          PROVE  U \ {Latest(U)} \in Few(W, n)
      <4>1. U \in SUBSET W /\ U \in SUBSET Span /\ Cardinality(U) <= n + 1
        BY DEF Few
      <4>2. Cardinality(U \ {Latest(U)}) = Cardinality(U) - 1
        BY <3>1, <4>1, TakeLatest
      <4>. QED
        BY <1>0, <4>1, <4>2 DEF Few
    <3>. QED
      BY <3>1
  <2>5. \A U \in D : U # {} => h[U \ {Latest(U)}] = g[U \ {Latest(U)}]
    BY <2>3, <2>4
  <2>6. h = [U \in D |-> IF U = {} THEN [reach |-> NoCover, gaps |-> {}]
                         ELSE Scanned(Latest(U), h[U \ {Latest(U)}])]
    BY <2>5
  <2>7. IsScan(h, D)
    BY <2>6 DEF IsScan
  <2>. QED
    BY <2>7
<1>. HIDE DEF T
<1>3. Cardinality(W) \in T
  BY <1>0, <1>1, <1>2, SetInduction
<1>4. Few(W, Cardinality(W)) = SUBSET W
  BY <1>0 DEF Few
<1>. QED
  BY <1>3, <1>4 DEF T

\* The loop of derive_capture_gaps_v1 finds the holes, whatever windows it is given.
LEMMA ScanFinds ==
    ASSUME NEW W \in SUBSET Span, \A w \in W : w.start <= w.last
    PROVE  Found(W, Scan(W))
<1>. DEFINE g == CHOOSE g : IsScan(g, SUBSET W)
<1>1. IsScan(g, SUBSET W)
  BY ScanExists
<1>2. Scan(W) = g[W]
  BY DEF Scan, MapThenFoldSet, IsScan
<1>. HIDE DEF g
<1>. DEFINE T == {n \in Nat : \A U \in SUBSET W : Cardinality(U) = n => Found(U, g[U])}
<1>3. \A U \in SUBSET W : IsFiniteSet(U) /\ Cardinality(U) \in Nat
  BY SpansAreFinite, FS_Subset, FS_CardinalityType
<1>4. 0 \in T
  <2>1. ASSUME NEW U \in SUBSET W, Cardinality(U) = 0
        PROVE  Found(U, g[U])
    <3>1. U = {}
      BY <1>3, <2>1, FS_EmptySet
    <3>2. g[U] = [reach |-> NoCover, gaps |-> {}]
      BY <1>1, <3>1 DEF IsScan
    <3>. QED
      BY <3>1, <3>2, NothingCovered DEF Found
  <2>. QED
    BY <2>1
<1>5. ASSUME NEW n \in Nat, n \in T
      PROVE  n + 1 \in T
  <2>1. ASSUME NEW U \in SUBSET W, Cardinality(U) = n + 1
        PROVE  Found(U, g[U])
    <3>1. U # {}
      <4>1. Cardinality(U) # 0
        BY <2>1
      <4>. QED
        BY <1>3, <4>1, FS_EmptySet
    <3>2. PICK w \in U : w = Latest(U)
      BY <3>1, TakeLatest
    <3>3. /\ Cardinality(U \ {w}) = n /\ \A v \in U : v.start <= w.start
          /\ U \ {w} \in SUBSET W /\ w \in Span /\ w.start <= w.last
          /\ \A v \in U \ {w} : v \in Span /\ v.start <= v.last /\ v.start <= w.start
      <4>1. U \in SUBSET Span
        OBVIOUS
      <4>2. /\ \A v \in U : v.start <= w.start
            /\ Cardinality(U \ {w}) = Cardinality(U) - 1
        BY <3>1, <3>2, <4>1, TakeLatest
      <4>. QED
        BY <2>1, <4>1, <4>2
    <3>4. Found(U \ {w}, g[U \ {w}])
      BY <1>5, <3>3
    <3>5. g[U] = Scanned(w, g[U \ {w}])
      BY <1>1, <3>1, <3>2 DEF IsScan
    <3>6. PICK R : R = U \ {w}
      OBVIOUS
    <3>7. Found(R \cup {w}, Scanned(w, g[R]))
      BY <3>3, <3>4, <3>6, TurnFinds
    <3>8. R \cup {w} = U
      BY <3>6
    <3>. QED
      BY <3>5, <3>6, <3>7, <3>8
  <2>. QED
    BY <2>1
<1>. HIDE DEF T
<1>6. Cardinality(W) \in T
  BY <1>3, <1>4, <1>5, SetInduction
<1>. QED
  BY <1>2, <1>6 DEF T

(* Over all sessions, the gaps derived from the archive are exactly the    *)
(* holes between its windows, also when a clock that was stepped back made *)
(* windows of two sessions overlap: derive_capture_gaps_v1 compares each   *)
(* window with the one that reaches furthest.                              *)
THEOREM DerivedGapsAreHoles == Spec => []GapsAreTheHoles
<1>1. Inv => GapsAreTheHoles
  <2>. SUFFICES ASSUME Inv PROVE GapsAreTheHoles
    OBVIOUS
  <2>1. ProvenWindows \in SUBSET Span /\ \A w \in ProvenWindows : w.start <= w.last
    BY ProvenSpans DEF Span
  <2>2. DerivedGaps = Holes(ProvenWindows)
    BY <2>1, ScanFinds DEF DerivedGaps, Found
  <2>. QED
    BY <2>2 DEF GapsAreTheHoles, Holes, CoveredBy
<1>. QED
  BY <1>1, Invariance, PTL
================================================================================
