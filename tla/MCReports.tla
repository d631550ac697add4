------------------------------ MODULE MCReports -----------------------------
(***************************************************************************)
(* What a run leaves and says: the modules from the capture of a stack to  *)
(* the file on the disk, the assertion about it and the tools that read    *)
(* it.  None of them shares state with another, so one run checks them     *)
(* side by side: each behaviour is about one of them, its subject, and the *)
(* variables of the others stay Unused.  A module that is a computation    *)
(* has no variables: its behaviours are its cases, from MCCases.           *)
(***************************************************************************)
EXTENDS MCCases, TLC

CONSTANTS Subjects,                          \* those this run is about
          s1, s2, s3, s4, p1, p2, Savers, BaselineSavers, Formats, Pids, Pieces,
          MaxSaves, MaxFailures, MaxCrashes, \* Saving
          MAX_POINTS, SLACK, SHARDS,         \* Capture
          MAX_BLOCKS, RunModes, Limits,      \* Assertions
          MaxEvents,                         \* bound of both
          Bits, Sizes, Gaps, MaxRequests,    \* Sampling
          MODULUS, WORD, MAX_FRAME_SPAN, WINDOWS_LIMIT, SkipCounts, Rooms,
          FIRST_BATCH, MAX_BATCH, BATCHES, TARGET, BUDGET, Elapsed,  \* Unwind
          Tools, PIPE, MaxComplaints, MaxFaults,                     \* Symbolizer
          MAX_DEPTH, PRINT_BUDGET, MaxMore                           \* DemangleV0

VARIABLES subject, case,
          pid, handed_out, directory, content, saver, kept, outcome, failures, crashes,
          pointShard, created, counters, live, totals, now, snapshot, frozen,
          state, mode, sampled, poisoned, stats, resets, truth, events, mark, reading, verdict,
          countdown, position, points, shapes, requests, asked, spans,
          stack, walk, chain, cost,
          tool, toWrite, stdin, closed, child, stdout, stderr, said, parent, output, result, faults,
          input, unmet, place, pending, depth, budget, bound, printing, out, status

saving == <<pid, handed_out, directory, content, saver, kept, outcome, failures, crashes>>
capture == <<pointShard, created, counters, live, totals, now, snapshot, frozen>>
assertions == <<state, mode, sampled, poisoned, stats, resets, truth, events, mark, reading,
                verdict>>
sampling == <<countdown, position, points, shapes, requests, asked, spans>>
unwinding == <<stack, walk, chain, cost>>
symbolizing == <<tool, toWrite, stdin, closed, child, stdout, stderr, said, parent, output,
                 result, faults>>
demangling == <<input, unmet, place, pending, depth, budget, bound, printing, out, status>>
vars == <<subject, case, saving, capture, assertions, sampling, unwinding, symbolizing,
          demangling>>

ProcessOf == s1 :> p1 @@ s2 :> p1 @@ s3 :> p2 @@ s4 :> p2
Alike == Permutations({s1, s2})

Sav == INSTANCE Saving
Cap == INSTANCE Capture
Asr == INSTANCE Assertions WITH Modes <- RunModes
Smp == INSTANCE Sampling
Unw == INSTANCE Unwind WITH Stacks <- StackBounds, Skips <- SkipCounts
Tol == INSTANCE Symbolizer WITH Asked <- AskedAddresses, Blocks <- AnswerBlocks
Dem == INSTANCE DemangleV0 WITH Beginnings <- SymbolBeginnings, BUDGET <- PRINT_BUDGET,
                                position <- place

ASSUME ReportsAssumption ==
    /\ Sav!SaversAssumption /\ Sav!FormatsAssumption /\ Sav!PidsAssumption /\ Sav!PiecesAssumption
    /\ Cap!ConstantsAssumption /\ Asr!ConstantsAssumption
    /\ Smp!ConstantsAssumption /\ Smp!PowersDouble
    /\ Unw!ConstantsAssumption /\ Tol!ConstantsAssumption
    /\ Dem!ConstantsAssumption

(***************************************************************************)
(* The variables of a module no behaviour of this subject is about.        *)
(***************************************************************************)
Unused == "unused"
NoSaving == /\ pid = Unused /\ handed_out = Unused /\ directory = Unused /\ content = Unused
            /\ saver = Unused /\ kept = Unused /\ outcome = Unused /\ failures = Unused
            /\ crashes = Unused
NoCapture == /\ pointShard = Unused /\ created = Unused /\ counters = Unused /\ live = Unused
             /\ totals = Unused /\ now = Unused /\ snapshot = Unused /\ frozen = Unused
NoAssertions == /\ state = Unused /\ mode = Unused /\ sampled = Unused /\ poisoned = Unused
                /\ stats = Unused /\ resets = Unused /\ truth = Unused /\ events = Unused
                /\ mark = Unused /\ reading = Unused /\ verdict = Unused
NoSampling == /\ countdown = Unused /\ position = Unused /\ points = Unused /\ shapes = Unused
              /\ requests = Unused /\ asked = Unused /\ spans = Unused
NoUnwinding == stack = Unused /\ walk = Unused /\ chain = Unused /\ cost = Unused
NoSymbolizing == /\ tool = Unused /\ toWrite = Unused /\ stdin = Unused /\ closed = Unused
                 /\ child = Unused /\ stdout = Unused /\ stderr = Unused /\ said = Unused
                 /\ parent = Unused /\ output = Unused /\ result = Unused /\ faults = Unused
NoDemangling == /\ input = Unused /\ unmet = Unused /\ place = Unused /\ pending = Unused
                /\ depth = Unused /\ budget = Unused /\ bound = Unused /\ printing = Unused
                /\ out = Unused /\ status = Unused

Init == /\ subject \in Subjects
        /\ IF subject = "saving" THEN Sav!Init ELSE NoSaving
        /\ IF subject = "capture" THEN Cap!Init ELSE NoCapture
        /\ IF subject = "assertions" THEN Asr!Init ELSE NoAssertions
        /\ IF subject = "sampling" THEN Smp!Init ELSE NoSampling
        /\ IF subject = "unwinding" THEN Unw!Init ELSE NoUnwinding
        /\ IF subject = "symbolizing" THEN Tol!Init ELSE NoSymbolizing
        /\ IF subject = "demangling" THEN Dem!Init ELSE NoDemangling
        /\ IF subject = "case" THEN IsCase(case) ELSE case = Unused

Next == /\ UNCHANGED <<subject, case>>
        /\ \/ /\ subject = "saving" /\ Sav!Next
              /\ UNCHANGED <<capture, assertions, sampling, unwinding, symbolizing, demangling>>
           \/ /\ subject = "capture" /\ Cap!Next
              /\ UNCHANGED <<saving, assertions, sampling, unwinding, symbolizing, demangling>>
           \/ /\ subject = "assertions" /\ Asr!Next
              /\ UNCHANGED <<saving, capture, sampling, unwinding, symbolizing, demangling>>
           \/ /\ subject = "sampling" /\ Smp!Next
              /\ UNCHANGED <<saving, capture, assertions, unwinding, symbolizing, demangling>>
           \/ /\ subject = "unwinding" /\ Unw!Next
              /\ UNCHANGED <<saving, capture, assertions, sampling, symbolizing, demangling>>
           \/ /\ subject = "symbolizing" /\ Tol!Next
              /\ UNCHANGED <<saving, capture, assertions, sampling, unwinding, demangling>>
           \/ /\ subject = "demangling" /\ Dem!Next
              /\ UNCHANGED <<saving, capture, assertions, sampling, unwinding, symbolizing>>

Spec == Init /\ [][Next]_vars

IsOf(what) == subject = "case" /\ case.is = what
-----------------------------------------------------------------------------
(* A save replaces its destination with the whole of its own file or       *)
(* leaves it alone (Snapshot::save_with, Baseline::save), and a failing     *)
(* assertion's profile lands on no other one's (stats.rs, report).         *)
SavesAreWhole ==
    /\ subject = "saving" => Sav!SavesAreWhole
    /\ IsOf("dumps") => Dmp!DumpsAreKept(case.place, case.failures)

(* The first conjunct of it alone: nothing but a whole file ever stands    *)
(* where a save was asked to put one ("leaves the previous profile intact  *)
(* rather than replacing it with a truncated file").                       *)
DestinationIsWhole == subject = "saving" => Sav!DestinationIsWhole

(* A snapshot is one reading, whose points add up to its totals            *)
(* (Snapshot::of).                                                         *)
SnapshotAddsUp == subject = "capture" => Cap!SnapshotAddsUp

(* An assertion that passes or fails is a fact about the program           *)
(* (HeapStats::of, assert_max_bytes and its kind).                         *)
PassesAreFacts == subject = "assertions" => Asr!PassesAreFacts

(* A sampled run records the requests one process of points lands in, and  *)
(* counts every request (Sampler::admits, Shapes::record).                 *)
SampledAndCounted == subject = "sampling" => Smp!SampledAndCounted

(* A walk reads only its own stack and ends, a capture is the callers'     *)
(* frames, and what is published of its cost was measured (walk,           *)
(* capture_with, measure_cost).                                            *)
CapturesTheStack ==
    /\ subject = "unwinding" => Unw!WalksTheStack /\ Unw!CostIsMeasured
    /\ IsOf("calibration") =>
           Unw!CapturesTheCallers(case.strategy, case.m, case.n, case.depth, case.buffer,
                                  case.capacity)

(* A batch of addresses is answered address by address or not at all, and  *)
(* the pipes to the tool never stop everyone (tool.rs, resolve).           *)
ResolvesAsAsked == subject = "symbolizing" => Tol!ResolvesAsAsked

(* A mangled name is printed whole or not at all, in bounded work, and as  *)
(* it was mangled (symbol/demangle).                                       *)
NamesAreWhole ==
    /\ subject = "demangling" => Dem!PrintsWhole
    /\ IsOf("legacy") => Nam!LegacyReadsBack(case.path, case.suffix)
    /\ IsOf("component") => Nam!LegacyIsTotal(case.component)
    /\ IsOf("punycode") => Nam!PunycodeReadsBack(case.text)

(* A baseline is read as it was written, never from less than the whole    *)
(* file, and allows the percentage it says; so is JSON (baseline.rs, parse *)
(* and check; output/json.rs and heapscope-symbolize's json.rs).           *)
ReadsWhatWasWritten ==
    /\ IsOf("file") => Bas!ParsesExactly(case.file)
    /\ IsOf("baseline") => Bas!SurvivesBeingWritten(case.baseline)
    /\ IsOf("allowance") => Bas!AllowsExactly(case.recorded, case.measured, case.percent)
    /\ IsOf("check") => Bas!ChecksExactly(case.stats, case.file, case.percent, case.setting)
    /\ IsOf("value") => Jsn!RoundTrips(case.value) /\ Jsn!TruncatedIsRefused(case.value)
    /\ IsOf("string") => Jsn!StringIsSafe(case.bytes)

(* The formats of one snapshot agree with it and with each other           *)
(* (dhat_v2.rs, folded.rs, text.rs, native.rs).                            *)
FilesAgree ==
    /\ IsOf("format") => Fmt!FilesAgree(case.snapshot, case.format)
    /\ IsOf("rows") => Fmt!RowsAccountForAll(case.rows, case.least, case.top)
    /\ IsOf("recorded") => /\ Ntv!NativeIsTheSnapshot(case.snapshot)
                           /\ Ntv!RestartsAreRefused(case.snapshot)

(* heapscope-symbolize draws of a native file what the process itself      *)
(* would have drawn (native.rs, html.rs, folded.rs; profile.rs, main.rs).  *)
ToolDrawsTheSame == IsOf("drawn") => Ntv!ToolDrawsTheSame(case.snapshot, case.answers)

(* A frame is found in the image that made the call, shown when it says    *)
(* something, and named once (modules.rs, trim.rs, labels.rs, profile.rs). *)
FramesAreNamed ==
    /\ IsOf("locate") => Sym!LocatesExactly(case.images, case.address)
    /\ IsOf("labels") => Sym!LabelsAreDistinct(case.paths)
    /\ IsOf("trim") => Sym!TrimsTheEnds(case.frames)
    /\ IsOf("inline") => Sym!InliningIsSeenThrough(case.stack)
    /\ IsOf("symbolize") => Sym!SymbolizesOnce(case.frames, case.tool, case.again)
=============================================================================
