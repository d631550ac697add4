----------------------------- MODULE Baselines ------------------------------
(***************************************************************************)
(* baseline.rs: a baseline file, a line at a time, and the comparison a    *)
(* run is held to.                                                         *)
(*                                                                         *)
(* A line is what Baseline::parse makes of it once trimmed: the version    *)
(* line, nothing (blank, or a comment), a key and a value, or a word with  *)
(* no white space in it.                                                   *)
(***************************************************************************)
EXTENDS Integers, Sequences, FiniteSets, SequencesExt

CONSTANTS FIGURES,  \* the keys of the figures, in order
          U64       \* the largest figure

FiguresAssumption == FIGURES \in Seq(STRING) /\ IsInjective(FIGURES)
WidthAssumption == U64 \in Nat

VERSION == 1
Keys == Range(FIGURES)
HEAP == 0  \* a mode by its number, then ad-hoc and copy
Modes == 0..2

VersionLine(version) == [is |-> "version", value |-> version]
Nothing == [is |-> "nothing"]
Word == [is |-> "word"]
Entry(key, value) == [is |-> "entry", key |-> key, value |-> value]

(***************************************************************************)
(* Baseline::write.  A baseline is its figures; its mode is always heap.   *)
(***************************************************************************)
Written(baseline) ==
    <<VersionLine(VERSION), Nothing, Entry("mode", HEAP)>>
        \o [i \in DOMAIN FIGURES |-> Entry(FIGURES[i], baseline[FIGURES[i]])]

(***************************************************************************)
(* Baseline::parse: the first line is the version, the others are read in  *)
(* order until one cannot be, keys not known are passed over, and nothing  *)
(* may be missing.                                                         *)
(***************************************************************************)
Parsed(values) == [error |-> "none", values |-> values]
Refused(why) == [error |-> why]
IsError(result) == result.error # "none"

ParseVersion(line) ==
    CASE line.is # "version" -> "not a baseline"
      [] line.is = "version" /\ line.value < 0 -> "not a version number"
      [] OTHER -> IF line.value = VERSION THEN "known" ELSE "another version"

OverwrittenBy(values, key) == FALSE
GivenTwice(values, key) == key \in DOMAIN values
IsNumber(value) == value \in 0..U64

ParseEntry(values, key, value) ==
    IF key \notin Keys \cup {"mode"} THEN Parsed(values)
    ELSE IF GivenTwice(values, key) THEN Refused("given twice")
    ELSE IF key = "mode" /\ value \notin Modes THEN Refused("not a mode")
    ELSE IF key \in Keys /\ ~IsNumber(value) THEN Refused("not a number")
    ELSE Parsed([k \in DOMAIN values \cup {key} |-> IF k = key THEN value ELSE values[k]])

ParseLine(result, line) ==
    IF IsError(result) \/ line.is = "nothing" THEN result
    ELSE IF line.is = "entry" THEN ParseEntry(result.values, line.key, line.value)
    ELSE Refused("expected key and value")

Completed(result) ==
    IF IsError(result) THEN result
    ELSE IF "mode" \notin DOMAIN result.values THEN Refused("mode is missing")
    ELSE IF result.values["mode"] # HEAP THEN Refused("another mode")
    ELSE IF ~(Keys \subseteq DOMAIN result.values) THEN Refused("a figure is missing")
    ELSE Parsed([k \in Keys |-> result.values[k]])

Parse(file) ==
    CASE file = <<>> -> Refused("empty")
      [] file # <<>> /\ ParseVersion(file[1]) # "known" -> Refused(ParseVersion(file[1]))
      [] OTHER -> Completed(FoldLeft(ParseLine, Parsed([k \in {} |-> 0]), Tail(file)))

(***************************************************************************)
(* Tolerance::allowance, in twice the width, and saturating.               *)
(***************************************************************************)
Allowance(recorded, percent) ==
    LET allowed == recorded + (recorded * percent) \div 100
    IN  IF allowed > U64 THEN U64 ELSE allowed

(* Baseline::compare: every figure that grew past its allowance. *)
Regressions(baseline, stats, percent) ==
    {k \in Keys : stats[k] > Allowance(baseline[k], percent)}

(***************************************************************************)
(* check: with HEAPSCOPE_UPDATE_BASELINE set the run is recorded and never *)
(* compared, without it compared and never recorded.                       *)
(***************************************************************************)
Off == {"0", "off", "no", "false"}
WantsUpdate(setting) == setting # "unset" /\ setting \notin Off

Missing == <<Word>>  \* stands for no file
Check(stats, file, percent, setting) ==
    CASE WantsUpdate(setting) -> [at |-> "recorded", file |-> Written(stats)]
      [] ~WantsUpdate(setting) /\ file = Missing -> [at |-> "missing", file |-> file]
      [] OTHER ->
            LET baseline == Parse(file) IN
            [at |-> IF IsError(baseline) THEN "unreadable"
                    ELSE IF Regressions(baseline.values, stats, percent) = {} THEN "passed" ELSE "regressed",
             file |-> file]
-----------------------------------------------------------------------------
(* A file is a baseline when it starts with the version, and each of its   *)
(* lines but the first is nothing, is not known, or is the only line of its *)
(* key and reads as what that key is; and every key is there.              *)
LinesOf(file, key) == {i \in 2..Len(file) : file[i].is = "entry" /\ file[i].key = key}
IsBaseline(file) ==
    /\ file # <<>> /\ file[1] = VersionLine(VERSION)
    /\ \A i \in 2..Len(file) : file[i].is \in {"nothing", "entry"}
    /\ \A key \in Keys \cup {"mode"} : Cardinality(LinesOf(file, key)) = 1
    /\ \A i \in LinesOf(file, "mode") : file[i].value = HEAP
    /\ \A key \in Keys : \A i \in LinesOf(file, key) : file[i].value \in 0..U64

(* What was written is what is read, and a file is read as a baseline if    *)
(* and only if it is one: none that lost a line or has one twice            *)
(* (baseline.rs, "A truncated baseline").                                   *)
ParsesExactly(file) ==
    /\ IsError(Parse(file)) <=> ~IsBaseline(file)
    /\ IsBaseline(file) =>
           \A key \in Keys : \A i \in LinesOf(file, key) : Parse(file).values[key] = file[i].value

SurvivesBeingWritten(baseline) ==
    /\ Parse(Written(baseline)) = Parsed(baseline)
    /\ \A n \in 0..(Len(Written(baseline)) - 1) : IsError(Parse(SubSeq(Written(baseline), 1, n)))

(* A figure passes exactly when it grew by no more than the percentage of  *)
(* what was recorded, and no rounding and no overflow lets one more byte by *)
(* or holds one back.                                                      *)
AllowsExactly(recorded, measured, percent) ==
    measured <= Allowance(recorded, percent)
        <=> (100 * measured <= (100 + percent) * recorded)

(* A check that passes compared a whole baseline, and one that records     *)
(* leaves a file the next check passes with.                               *)
ChecksExactly(stats, file, percent, setting) ==
    LET checked == Check(stats, file, percent, setting) IN
    /\ checked.at = "passed" =>
           IsBaseline(file) /\ \A key \in Keys :
               100 * stats[key] <= (100 + percent) * Parse(file).values[key]
    /\ checked.at = "recorded" => Check(stats, checked.file, percent, "unset").at = "passed"
    /\ checked.at # "recorded" => checked.file = file
=============================================================================
