------------------------------ MODULE Formats -------------------------------
(***************************************************************************)
(* What each emitter makes of a snapshot: dhat_v2.rs merges the points     *)
(* that show the same frames, folded.rs the stacks of one metric, text.rs  *)
(* ranks the points, native.rs tables their addresses, and html.rs names   *)
(* them.                                                                   *)
(*                                                                         *)
(* A snapshot's points are in the order the program made them.  A format   *)
(* names addresses, not always apart, and keeps a range of each stack.  A  *)
(* name is the sequence of what lies between its semicolons.  The block    *)
(* columns but one follow the byte columns, which stand for both.          *)
(***************************************************************************)
EXTENDS Integers, FiniteSetsExt, SequencesExt

CONSTANT U64  \* the largest count

ROOT == <<"[root]">>
OVERFLOW_FRAME == <<"[overflow]">>
UNWALKABLE_FRAME == <<"[unwalkable]">>
Labels == [overflow |-> OVERFLOW_FRAME, recorded |-> UNWALKABLE_FRAME]

BlockLifetimes(mode) == mode = "heap"
SaturatingAdd(a, b) == Min({a + b, U64})

(***************************************************************************)
(* What a format shows of a stack.  The range it keeps is its own to get   *)
(* wrong: clamp_frames.                                                    *)
(***************************************************************************)
ClampFrames(keep, len) ==
    IF len = 0 THEN [start |-> 0, end |-> 0]
    ELSE LET start == Min({keep.start, len - 1}) IN
         [start |-> start, end |-> Max({start + 1, Min({keep.end, len})})]

ShownFrames(addresses, format) ==
    LET keep == ClampFrames(format.keep[addresses], Len(addresses)) IN
    [i \in 1..(keep.end - keep.start) |-> format.names[addresses[keep.start + i]]]

Labelled(point, format) ==
    LET shown == ShownFrames(point.frames, format) IN
    IF shown = <<>> THEN <<Labels[point.kind]>> ELSE shown

(***************************************************************************)
(* dhat_v2.rs, Folded::build: points that show the same frames are one.    *)
(***************************************************************************)
MergeOfMaxima(a, b) ==
    [tb |-> SaturatingAdd(a.tb, b.tb), tbk |-> SaturatingAdd(a.tbk, b.tbk),
     gb |-> SaturatingAdd(a.gb, b.gb), eb |-> SaturatingAdd(a.eb, b.eb),
     mb |-> Max({a.mb, b.mb})]
Merge(a, b) ==
    LET gb == SaturatingAdd(a.gb, b.gb)
        eb == SaturatingAdd(a.eb, b.eb) IN
    [tb |-> SaturatingAdd(a.tb, b.tb), tbk |-> SaturatingAdd(a.tbk, b.tbk),
     gb |-> gb, eb |-> eb, mb |-> Max({a.mb, b.mb, gb, eb})]

PlaceOf(points, frames) == {i \in DOMAIN points : points[i].frames = frames}

AddPoint(points, frames, c) ==
    LET at == PlaceOf(points, frames) IN
    IF at = {} THEN Append(points, [frames |-> frames, c |-> c])
    ELSE [i \in DOMAIN points |->
             IF i \in at THEN [points[i] EXCEPT !.c = Merge(@, c)] ELSE points[i]]

Merged(snapshot, format) ==
    FoldLeft(LAMBDA points, point : AddPoint(points, Labelled(point, format), point.c),
             <<>>, snapshot.points)

(* Folded::canonicalize: by bytes, then blocks, then place; the frames     *)
(* numbered as they are first met, after the root.                         *)
Heavier(a, b) == a.tb > b.tb \/ (a.tb = b.tb /\ a.tbk > b.tbk)
Sorted(points) ==
    LET Order(i, j) == \/ Heavier(points[i].c, points[j].c)
                       \/ ~Heavier(points[j].c, points[i].c) /\ i < j
        places == SetToSortSeq(DOMAIN points, Order)
    IN  [i \in DOMAIN points |-> points[places[i]]]

FirstUses(names) ==
    FoldLeft(LAMBDA seen, name : IF name \in Range(seen) THEN seen ELSE Append(seen, name),
             <<>>, names)
FrameId(table, name) == CHOOSE i \in DOMAIN table : table[i] = name

Columns(c, mode) ==
    IF BlockLifetimes(mode) THEN c ELSE [tb |-> c.tb, tbk |-> c.tbk]

Dhat(snapshot, format) ==
    LET points == Sorted(Merged(snapshot, format))
        table == FirstUses(FlattenSeq([i \in DOMAIN points |-> points[i].frames])) IN
    [ftbl |-> <<ROOT>> \o table,
     pps |-> [i \in DOMAIN points |->
                 [fs |-> [j \in DOMAIN points[i].frames |-> FrameId(table, points[i].frames[j])],
                  c |-> Columns(points[i].c, snapshot.mode)]],
     foldedPoints |-> Len(snapshot.points) - Len(points),
     trimmedFrames |-> FoldLeft(LAMBDA n, point : n + Len(point.frames)
                                    - Len(ShownFrames(point.frames, format)), 0, snapshot.points)]

(***************************************************************************)
(* folded.rs: one line a stack, outermost frame first, of what one metric  *)
(* counts.  A stack is what a reader that splits the line at its           *)
(* semicolons finds: a name whose own are escaped is one piece of it.      *)
(***************************************************************************)
Metrics == {"tb", "tbk", "gb", "eb"}
NeedsBlockLifetimes(metric) == metric \in {"gb", "eb"}
PushFrame(name) == <<name>>
StackText(frames) ==
    FlattenSeq([i \in DOMAIN frames |-> PushFrame(frames[Len(frames) + 1 - i])])

AddLine(lines, stack, count) ==
    LET at == {i \in DOMAIN lines : lines[i].stack = stack} IN
    IF at = {} THEN Append(lines, [stack |-> stack, count |-> count])
    ELSE [i \in DOMAIN lines |-> IF i \in at
             THEN [lines[i] EXCEPT !.count = SaturatingAdd(@, count)] ELSE lines[i]]

Refuses(metric, mode) == NeedsBlockLifetimes(metric) /\ ~BlockLifetimes(mode)
FoldedStacks(snapshot, format, metric) ==
    FoldLeft(LAMBDA lines, point : IF point.c[metric] = 0 THEN lines
                  ELSE AddLine(lines, StackText(Labelled(point, format)), point.c[metric]),
             <<>>, snapshot.points)

(***************************************************************************)
(* text.rs: the points that allocated, ranked, and the first of them.      *)
(***************************************************************************)
Key(ranking, c) == IF ranking = "bytes" THEN <<c.tb, c.tbk>> ELSE <<c.tbk, c.tb>>
OutRanks(ranking, a, b) ==
    LET left == Key(ranking, a)
        right == Key(ranking, b) IN
    left[1] > right[1] \/ (left[1] = right[1] /\ left[2] > right[2])

TextOrder(snapshot, ranking) ==
    LET c(i) == snapshot.points[i].c
        Order(i, j) == \/ OutRanks(ranking, c(i), c(j))
                       \/ ~OutRanks(ranking, c(j), c(i)) /\ i < j IN
    SetToSortSeq({i \in DOMAIN snapshot.points : c(i).tbk > 0}, Order)

Top(snapshot, ranking, top) ==
    LET order == TextOrder(snapshot, ranking)
        shown == Min({Len(order), top}) IN
    [ranked |-> Len(order), unranked |-> Len(snapshot.points) - Len(order),
     listed |-> SubSeq(order, 1, shown)]

(* write_threads and write_regions: the rows with the most, where there    *)
(* are `least` of them, and how many more there are.                       *)
RowOrder(rows) ==
    SetToSortSeq(DOMAIN rows,
                 LAMBDA i, j : rows[i] > rows[j] \/ (rows[i] = rows[j] /\ i < j))
TopRows(rows, least, top) ==
    IF Len(rows) < least \/ top = 0 THEN [listed |-> <<>>, more |-> 0]
    ELSE LET shown == Min({Len(rows), top}) IN
         [listed |-> SubSeq(RowOrder(rows), 1, shown), more |-> Len(rows) - shown]

(***************************************************************************)
(* native.rs, frame_table: the addresses in the order they are met, and    *)
(* each point's as places in it; html.rs, write_display: a name for each,  *)
(* and the range each stack keeps.                                         *)
(***************************************************************************)
FrameTable(snapshot) ==
    LET order == FirstUses(FlattenSeq([i \in DOMAIN snapshot.points |-> snapshot.points[i].frames]))
    IN  [order |-> order,
         per_point |-> [i \in DOMAIN snapshot.points |->
             [j \in DOMAIN snapshot.points[i].frames |->
                 FrameId(order, snapshot.points[i].frames[j]) - 1]]]

Display(snapshot, format) ==
    LET table == FrameTable(snapshot) IN
    [names |-> [i \in DOMAIN table.order |-> format.names[table.order[i]]],
     keep |-> [i \in DOMAIN table.per_point |->
                  ClampFrames(format.keep[snapshot.points[i].frames], Len(table.per_point[i]))],
     labels |-> Labels]
-----------------------------------------------------------------------------
(* What a reader of each file sees of point p. *)
PageFrames(snapshot, format, p) ==
    LET page == Display(snapshot, format)
        frames == FrameTable(snapshot).per_point[p]
        keep == page.keep[p]
        shown == [i \in 1..(keep.end - keep.start) |-> page.names[frames[keep.start + i] + 1]] IN
    IF shown = <<>> THEN <<page.labels[snapshot.points[p].kind]>> ELSE shown
DhatFrames(file, i) == [j \in DOMAIN file.pps[i].fs |-> file.ftbl[file.pps[i].fs[j] + 1]]
Showing(snapshot, format, frames) ==
    {p \in DOMAIN snapshot.points : PageFrames(snapshot, format, p) = frames}
SumOver(snapshot, places, column) ==
    Min({MapThenSumSet(LAMBDA p : snapshot.points[p].c[column], places), U64})

(* The points of a DHAT file are those of the snapshot, each in the one    *)
(* that shows what the page shows of it: sums are kept, and a merged       *)
(* maximum is no less than what the columns say was live at once and no    *)
(* more than the maxima together.                                          *)
DhatIsTheSnapshot(snapshot, format, file) ==
    /\ \A p \in DOMAIN snapshot.points :
           Cardinality({i \in DOMAIN file.pps :
                            DhatFrames(file, i) = PageFrames(snapshot, format, p)}) = 1
    /\ \A i \in DOMAIN file.pps :
           LET members == Showing(snapshot, format, DhatFrames(file, i))
               c == file.pps[i].c IN
           /\ members # {}
           /\ \A column \in DOMAIN c \ {"mb"} : c[column] = SumOver(snapshot, members, column)
           /\ BlockLifetimes(snapshot.mode) =>
                  /\ \A p \in members : c.mb >= snapshot.points[p].c.mb
                  /\ c.mb >= Max({c.gb, c.eb})
                  /\ c.mb <= SumOver(snapshot, members, "mb")
    /\ file.foldedPoints + Len(file.pps) = Len(snapshot.points)

(* Two runs that measured the same write the same file: heaviest first,    *)
(* ties as the program made them, frames numbered as they are met.         *)
DhatIsCanonical(snapshot, format, file) ==
    LET First(i) == Min(Showing(snapshot, format, DhatFrames(file, i)))
        uses == FlattenSeq([i \in DOMAIN file.pps |-> file.pps[i].fs]) IN
    /\ \A i, j \in DOMAIN file.pps : i < j =>
           /\ ~Heavier(file.pps[j].c, file.pps[i].c)
           /\ ~Heavier(file.pps[i].c, file.pps[j].c) => First(i) < First(j)
    /\ \A k \in DOMAIN uses : uses[k] \in 1..(1 + Max({0} \cup {uses[l] : l \in 1..(k - 1)}))
    /\ Range(uses) = 1..(Len(file.ftbl) - 1)

(* A metric's lines are the points of the DHAT file it counts in, and a    *)
(* reader that splits a line finds the frames shown and no others.         *)
FoldedIsDhat(metric, lines, file) ==
    /\ Len(lines) = Cardinality({i \in DOMAIN file.pps : file.pps[i].c[metric] # 0})
    /\ \A k \in DOMAIN lines : \E i \in DOMAIN file.pps :
           /\ lines[k].stack = StackText(DhatFrames(file, i))
           /\ lines[k].count = file.pps[i].c[metric]
           /\ Len(lines[k].stack) = Len(DhatFrames(file, i))

(* The list has the heaviest of the points that allocated, and says how    *)
(* many it leaves out.                                                     *)
TopIsHeaviest(snapshot, ranking, top) ==
    LET text == Top(snapshot, ranking, top)
        c(i) == snapshot.points[i].c IN
    /\ text.ranked + text.unranked = Len(snapshot.points)
    /\ Len(text.listed) = Min({top, text.ranked}) /\ IsInjective(text.listed)
    /\ \A i \in Range(text.listed), j \in DOMAIN snapshot.points \ Range(text.listed) :
           c(i).tbk > 0 /\ ~OutRanks(ranking, c(j), c(i))

(* A section that is written accounts for every row, and names no row      *)
(* while it leaves a heavier one out.                                      *)
RowsAccountForAll(rows, least, top) ==
    LET section == TopRows(rows, least, top)
        listed == Range(section.listed) IN
    listed # {} =>
        /\ Cardinality(listed) + section.more = Len(rows) /\ IsInjective(section.listed)
        /\ \A i \in listed, j \in DOMAIN rows \ listed : rows[i] >= rows[j]

(* The files written of one snapshot say the same of it (dhat_v2.rs,       *)
(* folded.rs, native.rs, html.rs and text.rs, each on its own).            *)
FilesAgree(snapshot, format) ==
    LET file == Dhat(snapshot, format) IN
    /\ DhatIsTheSnapshot(snapshot, format, file)
    /\ DhatIsCanonical(snapshot, format, file)
    /\ \A i \in DOMAIN file.pps, metric \in Metrics :
           Refuses(metric, snapshot.mode) <=> metric \notin DOMAIN file.pps[i].c
    /\ \A metric \in {m \in Metrics : ~Refuses(m, snapshot.mode)} :
           FoldedIsDhat(metric, FoldedStacks(snapshot, format, metric), file)
    /\ \A ranking \in {"bytes", "blocks"}, top \in 0..Len(snapshot.points) :
           TopIsHeaviest(snapshot, ranking, top)
=============================================================================
