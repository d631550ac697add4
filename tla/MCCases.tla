------------------------------- MODULE MCCases ------------------------------
(***************************************************************************)
(* The inputs the computations are checked on.  A file of a baseline is    *)
(* every sequence of up to four lines after its first; a value of JSON has *)
(* two levels; a snapshot has up to three points over two addresses, with  *)
(* every stack of up to two frames; a process has up to two images, all    *)
(* ways they can lie in eight addresses.                                   *)
(***************************************************************************)
EXTENDS Integers, FiniteSets, SequencesExt

LOCAL INSTANCE TLC

FigureNames == <<"a", "b">>
FigureMax == 30
CountMax == 3

NameClasses == ("f" :> "program") @@ ("g" :> "program") @@ ("grow" :> "allocation")
                   @@ ("start" :> "runtime") @@ ("none" :> "unnamed")

Bas == INSTANCE Baselines WITH FIGURES <- FigureNames, U64 <- FigureMax
Fmt == INSTANCE Formats WITH U64 <- CountMax
Jsn == INSTANCE Json
Sym == INSTANCE Symbols WITH MODULUS <- 8
Ntv == INSTANCE Native WITH U64 <- CountMax, MODULUS <- 8, ClassOf <- NameClasses
Nam == INSTANCE Demangle WITH U32 <- 2147483647
Dmp == INSTANCE Dumps WITH MAX_THREAD_SUFFIX <- 3

ASSUME CasesAssumption == Bas!FiguresAssumption /\ Bas!WidthAssumption /\ Sym!ModulusAssumption
                           /\ Nam!U32Assumption /\ Dmp!SuffixAssumption

UpTo(n, S) == UNION {[1..k -> S] : k \in 0..n}

(* What the state machines of MCReports are given. *)
Bounds(start, end) == [start |-> start, end |-> end]
StackBounds == {Bounds(4, 12), Bounds(3, 9), Bounds(8, 11), Bounds(8, 15)}

AskedAddresses == <<5, 3, 6>>
Said(function, file) == <<[is |-> "name", known |-> function], [is |-> "location", known |-> file]>>
AnswerBlocks == {Said(TRUE, FALSE) \o Said(TRUE, TRUE), Said(FALSE, FALSE)}

(* Symbols begin with nothing, or so far into a type that a function       *)
(* pointer with a binder and a trait object with generics are in reach.    *)
Tag(tag) == <<tag, 0>>
SymbolBeginnings ==
    {<<>>, <<Tag("M"), Tag("C")>>, <<Tag("M"), Tag("C"), Tag("F"), <<"G", 1>>>>,
     <<Tag("M"), Tag("C"), Tag("D"), Tag("I"), Tag("C")>>}

(***************************************************************************)
(* Baselines.                                                              *)
(***************************************************************************)
Lines == {Bas!Nothing, Bas!Word, Bas!VersionLine(1), Bas!Entry("mode", Bas!HEAP),
          Bas!Entry("mode", 2), Bas!Entry("mode", 3), Bas!Entry("a", 0),
          Bas!Entry("a", FigureMax + 1), Bas!Entry("b", 2), Bas!Entry("other", 1)}
BaselineFiles ==
    {<<>>, <<Bas!Word>>} \cup
    {<<Bas!VersionLine(version)>> \o rest : version \in {-1, 1, 2}, rest \in UpTo(3, Lines)} \cup
    {<<Bas!VersionLine(1), first>> \o rest : first \in {Bas!Nothing, Bas!Entry("b", 2)},
                                             rest \in [1..3 -> Lines]}
RunStats == [{"a", "b"} -> 0..3]

IsBaselineCase(case) ==
    \/ case \in [is : {"file"}, file : BaselineFiles]
    \/ case \in [is : {"baseline"}, baseline : [{"a", "b"} -> {0, 1, FigureMax}]]
    \/ case \in [is : {"allowance"}, recorded : 0..FigureMax, measured : 0..FigureMax,
                 percent : {0, 1, 33, 50, 99, 100, 200}]
    \/ case \in [is : {"check"}, stats : RunStats,
                 file : {Bas!Missing, <<>>, <<Bas!Word, Bas!Word>>}
                            \cup {Bas!Written(baseline) : baseline \in RunStats},
                 percent : {0, 50}, setting : {"unset", "0", "1"}]

(***************************************************************************)
(* JSON.                                                                   *)
(***************************************************************************)
Leaves == {Jsn!Number(1), Jsn!String(<<Jsn!Quote>>)}
Keyed(members) ==
    [i \in DOMAIN members |-> Jsn!Member(IF i = 1 THEN <<Jsn!Opener>> ELSE <<Jsn!Lead>>, members[i])]
Over(values) ==
    Leaves \cup {Jsn!Array(members) : members \in UpTo(2, values)}
           \cup {Jsn!Object(Keyed(members)) : members \in UpTo(2, values)}
Bytes == {Jsn!Quote, Jsn!Lead, Jsn!Middle, Jsn!Byte("A8"), Jsn!Opener, Jsn!Control}

IsJsonCase(case) ==
    \/ case \in [is : {"value"}, value : Over(Over(Leaves))]
    \/ case \in [is : {"string"}, bytes : UpTo(4, Bytes)]

(***************************************************************************)
(* Formats of a snapshot.  Its points come in the order of the snapshot,   *)
(* the one that stands for a full table among them.                        *)
(***************************************************************************)
FrameLists == UpTo(1, {1, 2}) \cup {<<1, 2>>, <<2, 1>>, <<1, 1>>}
Identities ==
    {[frames |-> frames, kind |-> "recorded"] : frames \in FrameLists}
        \cup {[frames |-> <<>>, kind |-> "overflow"]}
Counts == {[tb |-> 2, tbk |-> 1, mb |-> 2, gb |-> 2, eb |-> 0],
           [tb |-> 2, tbk |-> 2, mb |-> 1, gb |-> 0, eb |-> 1],
           [tb |-> 0, tbk |-> 0, mb |-> 1, gb |-> 1, eb |-> 1]}
PointLists(n) ==
    {[i \in 1..n |-> [frames |-> who[i].frames, kind |-> who[i].kind, c |-> counts[i]]] :
        who \in {w \in [1..n -> Identities] : IsInjective(w)}, counts \in [1..n -> Counts]}
Named(one, two) == (1 :> one) @@ (2 :> two)
Namings == {Named(<<"f">>, <<"g">>), Named(<<"f">>, <<"f">>), Named(<<"f">>, <<"f", "g">>)}
Keeping(start, end) == [frames \in FrameLists |-> [start |-> start, end |-> end]]

IsFormatCase(case) ==
    \/ case \in [is : {"format"},
                 snapshot : [mode : {"heap", "ad-hoc"},
                             points : PointLists(0) \cup PointLists(1) \cup PointLists(2)],
                 format : [names : Namings,
                           keep : {Keeping(0, 9), Keeping(1, 9), Keeping(2, 1), Keeping(0, 1)}]]
    \/ case \in [is : {"format"},
                 snapshot : [mode : {"heap"},
                             points : {points \in PointLists(3) :
                                           points[1].c.tb = 2 /\ points[3].c.tb = 0}],
                 format : [names : Namings, keep : {Keeping(0, 1)}]]

    \/ case \in [is : {"rows"}, rows : UpTo(4, 0..2), least : {1, 2}, top : 0..4]

(***************************************************************************)
(* Native profiles: what a snapshot may hold beside its points, and stacks *)
(* of addresses that a symbolizer may name.  Before a restart nothing has  *)
(* more live than it allocated.                                            *)
(***************************************************************************)
Tallies == {[total |-> 2, curr |-> 1, max |-> 2], [total |-> 0, curr |-> 1, max |-> 1]}
Rows == [id : {0}, overflow : BOOLEAN, name : {"none", "f"}, first_seen : {3}, counts : Tallies]
NoStats == [total |-> 2, curr |-> 1, max |-> 2, epoch |-> 2, time_at_max |-> 1]
NowherePlace == [module |-> 0, file_address |-> 0]
Located == {[a \in 1..2 |-> NowherePlace],
            (1 :> [module |-> 1, file_address |-> 5]) @@ (2 :> NowherePlace),
            (1 :> [module |-> 1, file_address |-> 5]) @@ (2 :> [module |-> 2, file_address |-> 5])}
Lookups == {<<>>} \cup [name : {"f", "grow", "start"}, offset : {0}]
NativePoint(frames, kind, c) == [frames |-> frames, kind |-> kind, c |-> c]

Snapshots(modes, resets, samplings, costs, shapes, rows, regions, points, located, lookups) ==
    [mode : modes, exact : {TRUE}, reset : resets, sampling : samplings, stats : {NoStats},
     dropped : {0}, shapes : shapes, cost : costs, threads : rows, regions : regions,
     outside : {[total |-> 1, curr |-> 1]}, modules : {<<<<"x", "f">>, <<"y", "f">>>>},
     points : points, located : located, lookup : lookups]
Restart == [count |-> 1, at |-> 1, carried |-> 1, epoch |-> 1]
ExceedsTotals(snapshot) ==
    \/ \E i \in DOMAIN snapshot.threads :
           snapshot.threads[i].counts.curr > snapshot.threads[i].counts.total
    \/ \E i \in DOMAIN snapshot.points : snapshot.points[i].c.eb > snapshot.points[i].c.tb

RecordedSnapshots ==
    Snapshots({"heap", "ad-hoc"}, {<<>>, Restart}, {0, 2},
              {[nanos |-> 0, captures |-> 0], [nanos |-> 3, captures |-> 1]},
              {[class \in 0..2 |-> IF class = 1 THEN 0 ELSE 1]},
              UpTo(1, Rows), {<<>>, <<[entries |-> 1, active |-> 1, id |-> 0, overflow |-> FALSE,
                                      name |-> "f", first_seen |-> 2,
                                      counts |-> [total |-> 2, curr |-> 0, max |-> 2]]>>},
              {<<NativePoint(<<1, 2, 1>>, "recorded", c)>> : c \in Counts},
              {CHOOSE l \in Located : l[2].module = 2}, {[a \in 1..2 |-> <<>>]})
DrawnSnapshots ==
    Snapshots({"heap", "ad-hoc"}, {<<>>}, {0}, {[nanos |-> 0, captures |-> 0]}, {<<>>}, {<<>>}, {<<>>},
              {<<NativePoint(one.frames, one.kind, CHOOSE c \in Counts : c.eb = 0),
                 NativePoint(two, "recorded", CHOOSE c \in Counts : c.tb = 2 /\ c.eb = 1)>> :
                   one \in Identities, two \in {<<2>>, <<1, 2>>, <<2, 1, 1>>}},
              Located, [1..2 -> Lookups])
Inlined(function, caller) ==
    [function |-> function, inlinedBy |-> <<[function |-> caller]>>]
ToolAnswered == {<<>>, (1 :> Inlined("grow", "g")), (1 :> Inlined("???", "g")) @@ (2 :> [function |-> ""])}

IsNativeCase(case) ==
    \/ case \in [is : {"recorded"},
                 snapshot : {s \in RecordedSnapshots : s.reset # <<>> \/ ~ExceedsTotals(s)}]
    \/ case \in [is : {"drawn"}, snapshot : DrawnSnapshots, answers : ToolAnswered]

(***************************************************************************)
(* Symbols.                                                                *)
(***************************************************************************)
Segment(address, extent, executable) ==
    [address |-> address, extent |-> extent, executable |-> executable]
SegmentSets ==
    {{Segment(1, 2, TRUE)}, {Segment(0, 1, FALSE), Segment(2, 1, TRUE)},
     {Segment(0, 1, TRUE), Segment(2, 1, TRUE)}, {Segment(3, 0, TRUE)}, {Segment(6, 3, TRUE)},
     {Segment(7, 1, TRUE)}}
Images == [path : {"image"}, address : 0..7, segments : SegmentSets]

Paths == {<<"x", "f">>, <<"y", "f">>, <<"f">>, <<"x", "">>, <<"">>, <<"x", "g">>}

Function(function, file) == [function |-> function, file |-> file]
ToolAnswers ==
    {<<>>, <<Function("f", Sym!None)>>, <<Function(Sym!None, "l")>>,
     <<Function("f", "l"), Function(Sym!None, "l")>>,
     <<Function(Sym!None, "l"), Function("g", Sym!None)>>}
ToolOf(one, two) == [at \in 1..2 |-> IF at = 1 THEN one ELSE two]
Answering == {(1 :> ToolOf(one, two)) : one, two \in ToolAnswers}
                 \cup {<<>>, (1 :> ToolOf(<<>>, <<>>)) @@ (2 :> ToolOf(<<Function("h", "l")>>, <<>>))}
AnsweringAgain == {<<>>, (1 :> ToolOf(<<Function("h", Sym!None)>>, <<>>)),
                   (1 :> ToolOf(<<>>, <<Function("h", "k")>>)) @@ (2 :> ToolOf(<<>>, <<Function("h", "k")>>))}
ProfileFrames == [module : 0..2, symbol : {Sym!None, "s"}, function : {Sym!None, "f"},
                  file : {Sym!None}, inlinedBy : {<<>>}]

IsSymbolsCase(case) ==
    \/ case \in [is : {"locate"}, images : {{i, j} : i, j \in Images}, address : 0..7]
    \/ case \in [is : {"labels"}, paths : UpTo(3, Paths)]
    \/ case \in [is : {"trim"}, frames : UpTo(4, Sym!Classes)]
    \/ case \in [is : {"inline"}, stack : UpTo(3, UpTo(2, Sym!Classes) \ {<<>>})]
    \/ case \in [is : {"symbolize"}, frames : [1..2 -> ProfileFrames], tool : Answering,
                 again : AnsweringAgain]

(***************************************************************************)
(* Calibration: the frames the machinery puts below the program's, those   *)
(* of the program, and the sizes of the shim's buffer and of the           *)
(* calibration's.                                                          *)
(***************************************************************************)
IsCalibrationCase(case) ==
    case \in [is : {"calibration"}, strategy : {"frame-pointer", "unix", "windows"},
              m : 1..3, n : 1..5, depth : 1..5, buffer : {4, 6}, capacity : 4..7]

(***************************************************************************)
(* Mangled names.  A name of the compiler does not begin with a path       *)
(* separator, and one that begins with an underscore is not escaped next.  *)
(***************************************************************************)
RustNames == {name \in UpTo(2, {"a", "h", "_", "<", "::"}) :
                 /\ name # <<>> /\ Head(name) # "::"
                 /\ ~(Len(name) > 1 /\ name[1] = "_" /\ name[2] = "<")}
CodePoints == {97, 98, 128, 129, 1000, 1114111}

IsNamesCase(case) ==
    \/ case \in [is : {"legacy"}, path : UpTo(2, RustNames) \ {<<>>},
                 suffix : {<<>>, <<".cold">>, <<".llvm.", ".cold">>}]
    \/ case \in [is : {"component"},
                 component : UpTo(4, {"a", "control", "u7", "_", "$", ".", "lt"}) \ {<<>>}]
    \/ case \in [is : {"punycode"}, text : UpTo(4, CodePoints)]

(***************************************************************************)
(* Dumps: threads whose names are kept, screened, cut or look like a       *)
(* number's, and every way three directories can be tagged.                *)
(***************************************************************************)
ThreadNames == {<<>>, <<"t">>, <<"t", ".", "2">>, <<"t", ":">>, <<"t", "/", "t", "u">>,
                <<"t", "_", "t">>}
Failures == [thread : ThreadNames, entered : BOOLEAN, since : BOOLEAN,
             complaint : {"wrong count", "leaked", "mark"}]
FailureLists ==
    UpTo(2, {f \in Failures : f.complaint = "wrong count" \/ (f.thread = <<"t">> /\ f.entered)})
        \cup [1..3 -> [thread : ThreadNames, entered : {TRUE}, since : {FALSE},
                       complaint : {"leaked"}]]

Executable == <<"target", "deps", "test">>
Above == {SubSeq(Executable, 1, k) : k \in 0..2}
NoTags == [directory \in Above |-> "none"]
SetTo(under, name, slash) == [is |-> "path", path |-> Dmp!Path(under, name, slash)]
DumpSettings ==
    {[is |-> "off"], SetTo(<<"d">>, <<"a", ".", "x">>, FALSE), SetTo(<<>>, <<".", "x">>, FALSE),
     SetTo(<<"d">>, <<"e">>, FALSE), SetTo(<<"d">>, <<"e">>, TRUE), SetTo(<<>>, <<>>, FALSE)}
DumpPlaces ==
    [state : {"running", "finished", "idle", "starting", "forked child"}, setting : {[is |-> "unset"]},
     executable : {Executable}, tags : {NoTags}, directories : {{}}]
        \cup [state : {"running"}, setting : {[is |-> "unset"]}, executable : {Executable},
              tags : [Above -> {"none", "name", "signature"}], directories : {{}}]
        \cup [state : {"running"}, setting : DumpSettings, executable : {Executable},
              tags : {[NoTags EXCEPT ![<<"target">>] = "signature"]},
              directories : {{}, {Dmp!Path(<<"d">>, <<"e">>, FALSE)}}]

IsDumpCase(case) ==
    case \in [is : {"dumps"}, place : DumpPlaces, failures : FailureLists]

IsCase(case) ==
    \/ IsDumpCase(case)
    \/ IsNamesCase(case)
    \/ IsBaselineCase(case) \/ IsJsonCase(case) \/ IsFormatCase(case) \/ IsNativeCase(case)
    \/ IsSymbolsCase(case)
    \/ IsCalibrationCase(case)
=============================================================================
