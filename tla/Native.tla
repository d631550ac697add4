------------------------------- MODULE Native -------------------------------
(***************************************************************************)
(* The native profile, from the process that writes it to the tool that    *)
(* reads it: output/native.rs, section by section, and                     *)
(* heapscope-symbolize's profile.rs, whose flame graph is to be the one    *)
(* the process would have drawn (symbol/mod.rs, FunctionNames).            *)
(*                                                                         *)
(* A file is a record, and a key it leaves out is not in its domain.  An   *)
(* address is the place a snapshot gives it among its own; where it lies   *)
(* and what the platform calls it are the snapshot's.  As in Formats, the  *)
(* byte figures stand for the block figures.                               *)
(***************************************************************************)
EXTENDS Integers, FiniteSetsExt, SequencesExt

LOCAL INSTANCE TLC

CONSTANTS U64,      \* the largest count
          MODULUS,  \* of an address
          ClassOf   \* what the trimming makes of a name

Fmt == INSTANCE Formats
Sym == INSTANCE Symbols
None == Sym!None

FORMAT_VERSION == 1
RESTARTED_FORMAT_VERSION == 2

When(condition, members) == IF condition THEN members ELSE <<>>
Get(record, key, default) == IF key \in DOMAIN record THEN record[key] ELSE default
Lifetimes(snapshot) == Fmt!BlockLifetimes(snapshot.mode)

(***************************************************************************)
(* What was recorded: the figures of live blocks only in a mode that has   *)
(* them, and a restart only where there was one.                           *)
(***************************************************************************)
FormatVersion(snapshot) ==
    IF snapshot.reset # <<>> THEN RESTARTED_FORMAT_VERSION ELSE FORMAT_VERSION

WriteReset(snapshot) ==
    When(snapshot.reset # <<>>,
         [reset |-> [count |-> snapshot.reset.count, at |-> snapshot.reset.at]
                        @@ When(Lifetimes(snapshot), [carried |-> snapshot.reset.carried])])
WriteRun(snapshot) ==
    [mode |-> snapshot.mode, exact |-> snapshot.exact]
        @@ When(Lifetimes(snapshot), [timeAtMax |-> snapshot.stats.time_at_max])
        @@ WriteReset(snapshot)

WriteSettings(snapshot) ==
    When(snapshot.sampling # 0, [samplingInterval |-> snapshot.sampling])

Peaks(snapshot) ==
    Max({snapshot.stats.epoch - (IF snapshot.reset = <<>> THEN 0 ELSE snapshot.reset.epoch), 0})
WriteTotals(snapshot) ==
    [total |-> snapshot.stats.total]
        @@ When(Lifetimes(snapshot), [curr |-> snapshot.stats.curr, max |-> snapshot.stats.max,
                                      peaks |-> Peaks(snapshot)])

WriteTally(counts, lifetimes) ==
    [total |-> counts.total] @@ When(lifetimes, [curr |-> counts.curr, max |-> counts.max])

(* A row that stands for all past the table's capacity has no first event. *)
WriteThread(row, lifetimes) ==
    [id |-> row.id]
        @@ (IF row.overflow THEN [overflow |-> TRUE] ELSE [firstSeen |-> row.first_seen])
        @@ When(row.name # None, [name |-> row.name])
        @@ WriteTally(row.counts, lifetimes)
WriteRegion(row, lifetimes) ==
    [entries |-> row.entries, active |-> row.active] @@ WriteThread(row, lifetimes)
WriteOutside(snapshot) ==
    [total |-> snapshot.outside.total]
        @@ When(Lifetimes(snapshot), [curr |-> snapshot.outside.curr])

(* The classes that had a request, each by the sizes it holds. *)
WriteShapes(snapshot) ==
    LET used == SetToSortSeq({class \in DOMAIN snapshot.shapes : snapshot.shapes[class] > 0},
                             LAMBDA a, b : a < b) IN
    [i \in DOMAIN used |-> [atLeast |-> used[i], blocks |-> snapshot.shapes[used[i]]]]

(* A capture's cost, where the clock could tell it. *)
WriteSelfMetrics(snapshot) ==
    When(snapshot.cost.captures > 0,
         [captureCost |-> [nanos |-> snapshot.cost.nanos, captures |-> snapshot.cost.captures]])

(***************************************************************************)
(* symbol/mod.rs.  An address in no image has no name, whatever the        *)
(* platform calls it, and a symbol's offset is the return address's, one   *)
(* past the call that was looked up.                                       *)
(***************************************************************************)
NameCall(snapshot, address) ==
    [snapshot.lookup[address] EXCEPT !.offset = @ + 1]
ResolveUngated(snapshot, address) ==
    [located |-> snapshot.located[address],
     symbol |-> IF snapshot.lookup[address] = <<>> THEN <<>> ELSE NameCall(snapshot, address)]
Resolve(snapshot, address) ==
    LET located == snapshot.located[address] IN
    [located |-> located,
     symbol |-> IF located.module = 0 \/ snapshot.lookup[address] = <<>> THEN <<>>
                ELSE NameCall(snapshot, address)]

WriteFrame(snapshot, address) ==
    LET resolved == Resolve(snapshot, address) IN
    [addr |-> address]
        @@ When(resolved.located.module > 0,
                [module |-> resolved.located.module - 1,
                 fileAddr |-> resolved.located.file_address])
        @@ When(resolved.symbol # <<>>,
                [symbol |-> resolved.symbol.name, symbolOffset |-> resolved.symbol.offset])

WritePoint(point, frames, lifetimes) ==
    [kind |-> point.kind, tb |-> point.c.tb, tbk |-> point.c.tbk, frames |-> frames]
        @@ When(lifetimes, [mb |-> point.c.mb, gb |-> point.c.gb, eb |-> point.c.eb])

Write(snapshot) ==
    LET table == Fmt!FrameTable(snapshot)
        lifetimes == Lifetimes(snapshot) IN
    [formatVersion |-> FormatVersion(snapshot), run |-> WriteRun(snapshot),
     settings |-> WriteSettings(snapshot), totals |-> WriteTotals(snapshot),
     notRecorded |-> snapshot.dropped, shapes |-> WriteShapes(snapshot),
     selfMetrics |-> WriteSelfMetrics(snapshot),
     threads |-> [i \in DOMAIN snapshot.threads |-> WriteThread(snapshot.threads[i], lifetimes)],
     regions |-> [i \in DOMAIN snapshot.regions |-> WriteRegion(snapshot.regions[i], lifetimes)],
     outsideRegions |-> WriteOutside(snapshot),
     frames |-> [i \in DOMAIN table.order |-> WriteFrame(snapshot, table.order[i])],
     points |-> [i \in DOMAIN snapshot.points |->
                    WritePoint(snapshot.points[i], table.per_point[i], lifetimes)],
     modules |-> snapshot.modules]

(***************************************************************************)
(* profile.rs.  A reader of this version; one of version 1 knew no other.  *)
(***************************************************************************)
FORMAT_VERSIONS == {1, 2}
Refused == [refused |-> TRUE]
Parse(file, versions) == IF file.formatVersion \in versions THEN file ELSE Refused

(* What version 0.1.0 wrote for no name is read as none.                   *)
ResolvedName(entry) ==
    LET name == Get(entry, "function", None) IN IF name \in {"", "???"} THEN None ELSE name
Functions(frame) ==
    LET callers == Get(frame, "inlinedBy", <<>>) IN
    Sym!FunctionsOf([function |-> ResolvedName(frame), file |-> None,
                     symbol |-> Get(frame, "symbol", None),
                     inlinedBy |-> [i \in DOMAIN callers |->
                                       [function |-> ResolvedName(callers[i]), file |-> None]]])

ModuleOf(file, frame) ==
    IF "module" \in DOMAIN frame /\ frame.module < Len(file.modules) THEN frame.module + 1 ELSE 0

(* A frame for the trimming to read, and one of a flame graph.             *)
RenderAddressed(file, frame, name) ==
    [addr |-> frame.addr, name |-> name,
     offset |-> IF name # None /\ ResolvedName(frame) = None
                THEN Get(frame, "symbolOffset", 0) ELSE 0,
     image |-> IF ModuleOf(file, frame) = 0 THEN <<>>
               ELSE <<file.modules[ModuleOf(file, frame)], frame.fileAddr>>]

Bracketed(label, file_address, address) ==
    IF label \in {<<>>, <<"">>} THEN <<"[", address>> ELSE <<"[", label, file_address>>
RenderForDisplay(file, frame, name) ==
    IF name # None THEN <<name>>
    ELSE LET at == ModuleOf(file, frame) IN
         IF at = 0 THEN Bracketed(<<>>, 0, frame.addr)
         ELSE Bracketed(Sym!ImageLabels(file.modules)[at], frame.fileAddr, frame.addr)

ClassesOf(frame) ==
    LET functions == Functions(frame) IN [i \in DOMAIN functions |-> ClassOf[functions[i]]]

(* to_folded: outermost first, a frame under the function that names it.   *)
StackOf(file, point) ==
    LET indices == SelectSeq(point.frames, LAMBDA at : at < Len(file.frames))
        frame(i) == file.frames[indices[i] + 1]
        shown == Sym!WorthShowingInlined([i \in DOMAIN indices |-> ClassesOf(frame(i))])
        text(s) == RenderForDisplay(file, frame(s[1]), Functions(frame(s[1]))[s[2]])
    IN  IF shown = <<>> THEN Fmt!StackText(<<Fmt!Labels[point.kind]>>)
        ELSE Fmt!StackText([i \in DOMAIN shown |-> text(shown[i])])
ToFolded(file, metric) ==
    FoldLeft(LAMBDA lines, point : IF Get(point, metric, 0) = 0 THEN lines
                 ELSE Fmt!AddLine(lines, StackOf(file, point), point[metric]),
             <<>>, file.points)

(***************************************************************************)
(* symbol/mod.rs, in the process: what Symbolized says of an address, and  *)
(* FunctionNames, trimmed.                                                 *)
(***************************************************************************)
Image(modules, located) ==
    IF located.module = 0 THEN <<>> ELSE <<modules[located.module], located.file_address>>
Symbolized(snapshot, address) ==
    LET located == snapshot.located[address]
        named == located.module > 0 /\ snapshot.lookup[address] # <<>> IN
    [addr |-> address,
     name |-> IF named THEN snapshot.lookup[address].name ELSE None,
     offset |-> IF named THEN NameCall(snapshot, address).offset ELSE 0,
     image |-> Image(snapshot.modules, located)]

FunctionName(snapshot, address) ==
    LET located == snapshot.located[address] IN
    IF located.module > 0 /\ snapshot.lookup[address] # <<>>
    THEN <<snapshot.lookup[address].name>>
    ELSE Bracketed(IF located.module = 0 THEN <<>>
                   ELSE Sym!ImageLabels(snapshot.modules)[located.module],
                   located.file_address, address)

FunctionNames(snapshot) ==
    LET addresses == DOMAIN snapshot.lookup
        class(address) == ClassOf[Symbolized(snapshot, address).name]
        stacks == {snapshot.points[i].frames : i \in DOMAIN snapshot.points} IN
    [names |-> [address \in addresses |-> FunctionName(snapshot, address)],
     keep |-> [frames \in stacks |->
                  Sym!WorthShowing([i \in DOMAIN frames |-> class(frames[i])])]]
-----------------------------------------------------------------------------
(* The snapshot a reader makes of a file, with zero for what it leaves out. *)
ReadTally(row) == [total |-> row.total, curr |-> Get(row, "curr", 0), max |-> Get(row, "max", 0)]
ReadRow(row) ==
    [id |-> row.id, overflow |-> Get(row, "overflow", FALSE), name |-> Get(row, "name", None),
     first_seen |-> Get(row, "firstSeen", 0), counts |-> ReadTally(row)]
ReadRegion(row) == [entries |-> row.entries, active |-> row.active] @@ ReadRow(row)
ReadPoint(file, point) ==
    [kind |-> point.kind,
     frames |-> [j \in DOMAIN point.frames |-> file.frames[point.frames[j] + 1].addr],
     c |-> [tb |-> point.tb, tbk |-> point.tbk, mb |-> Get(point, "mb", 0),
            gb |-> Get(point, "gb", 0), eb |-> Get(point, "eb", 0)]]
Read(file) ==
    [mode |-> file.run.mode, exact |-> file.run.exact,
     sampling |-> Get(file.settings, "samplingInterval", 0),
     stats |-> ReadTally(file.totals), dropped |-> file.notRecorded,
     threads |-> [i \in DOMAIN file.threads |-> ReadRow(file.threads[i])],
     regions |-> [i \in DOMAIN file.regions |-> ReadRegion(file.regions[i])],
     points |-> [i \in DOMAIN file.points |-> ReadPoint(file, file.points[i])],
     modules |-> file.modules]

Lived(c, lifetimes) ==
    [figure \in DOMAIN c |-> IF ~lifetimes /\ figure \notin {"total", "tb", "tbk"} THEN 0
                             ELSE c[figure]]
Measured(snapshot) ==
    LET lifetimes == Lifetimes(snapshot)
        row(r) == [r EXCEPT !.first_seen = IF r.overflow THEN 0 ELSE @,
                            !.counts = Lived(@, lifetimes)] IN
    [mode |-> snapshot.mode, exact |-> snapshot.exact, sampling |-> snapshot.sampling,
     stats |-> Lived([total |-> snapshot.stats.total, curr |-> snapshot.stats.curr,
                      max |-> snapshot.stats.max], lifetimes),
     dropped |-> snapshot.dropped,
     threads |-> [i \in DOMAIN snapshot.threads |-> row(snapshot.threads[i])],
     regions |-> [i \in DOMAIN snapshot.regions |-> row(snapshot.regions[i])],
     points |-> [i \in DOMAIN snapshot.points |->
                    [snapshot.points[i] EXCEPT !.c = Lived(@, lifetimes)]],
     modules |-> snapshot.modules]

(* The file is the snapshot: everything measured can be read back, and a   *)
(* figure of live blocks is nowhere in a file whose mode had none.         *)
LiveFigures == {"timeAtMax", "carried", "curr", "max", "peaks", "mb", "gb", "eb"}
Sections(file) ==
    {file.run, Get(file.run, "reset", <<>>), file.totals, file.outsideRegions}
        \cup Range(file.threads) \cup Range(file.regions) \cup Range(file.points)
NativeIsTheSnapshot(snapshot) ==
    LET file == Write(snapshot) IN
    /\ Read(Parse(file, FORMAT_VERSIONS)) = Measured(snapshot)
    /\ ~Lifetimes(snapshot) =>
           \A section \in Sections(file) : DOMAIN section \cap LiveFigures = {}

(* A reader that knows nothing of restarts is never given more live than  *)
(* was allocated, which it would take for figures of the whole run, and    *)
(* refuses no file it could have read.                                     *)
RestartsAreRefused(snapshot) ==
    LET file == Parse(Write(snapshot), {1}) IN
    IF file = Refused THEN snapshot.reset # <<>>
    ELSE /\ \A row \in {file.totals} \cup Range(file.threads) \cup Range(file.regions) :
                Get(row, "curr", 0) <= row.total
         /\ \A point \in Range(file.points) : Get(point, "eb", 0) <= point.tb
         /\ Get(file.totals, "peaks", 0) \in {0, snapshot.stats.epoch}

(* "A name found in-process and one found offline describe the same        *)
(* instruction": before a symbolizer has answered, the tool renders every  *)
(* frame, trims every stack and merges every line as the process does, and *)
(* after it has, no count is lost.                                         *)
SumOf(lines) == Min({FoldLeft(LAMBDA sum, line : sum + line.count, 0, lines), U64})
ToolDrawsTheSame(snapshot, answers) ==
    LET file == Write(snapshot)
        symbolized == [file EXCEPT !.frames =
                          [i \in DOMAIN @ |->
                              IF @[i].addr \in DOMAIN answers THEN answers[@[i].addr] @@ @[i]
                              ELSE @[i]]]
        refused(metric) == Fmt!Refuses(metric, snapshot.mode) IN
    /\ \A i \in DOMAIN file.frames :
           RenderAddressed(file, file.frames[i], Functions(file.frames[i])[1])
               = Symbolized(snapshot, file.frames[i].addr)
    /\ \A metric \in Fmt!Metrics :
           ToFolded(file, metric) =
               IF refused(metric) THEN <<>>
               ELSE Fmt!FoldedStacks(snapshot, FunctionNames(snapshot), metric)
    /\ \A metric \in {m \in Fmt!Metrics : ~refused(m)} :
           /\ SumOf(ToFolded(symbolized, metric)) = SumOf(ToFolded(file, metric))
           /\ \A line \in Range(ToFolded(symbolized, metric)) : line.stack # <<>>
=============================================================================
