-------------------------------- MODULE Dumps --------------------------------
(***************************************************************************)
(* Where a failing assertion leaves a profile of the run (stats.rs,        *)
(* report, dump and dump_target): which failures write one, and under      *)
(* which name, so that a second one does not land on the first.  Whether a *)
(* file is then written whole is Saving's.                                 *)
(*                                                                         *)
(* A name is a sequence of characters, a directory one of names, and a     *)
(* path is a name in a directory, with or without a separator at its end;  *)
(* `/` and `..` have no name.                                              *)
(***************************************************************************)
EXTENDS Integers, FiniteSetsExt, SequencesExt

LOCAL INSTANCE TLC

CONSTANT MAX_THREAD_SUFFIX

SuffixAssumption == MAX_THREAD_SUFFIX \in Nat \ {0}

Path(under, name, slash) == [under |-> under, name |-> name, slash |-> slash]
Nowhere == <<>>

(***************************************************************************)
(* distinguish.  An extension begins at the last period, if that is not    *)
(* the first character.                                                    *)
(***************************************************************************)
Period(name) == Max({0} \cup {i \in 2..Len(name) : name[i] = "."})
Stem(name) == IF Period(name) = 0 THEN name ELSE SubSeq(name, 1, Period(name) - 1)
Extension(name) == IF Period(name) = 0 THEN <<>> ELSE SubSeq(name, Period(name), Len(name))

EndsInSeparator(path) == path.slash
Distinguish(path, dump) ==
    IF dump = 0 \/ EndsInSeparator(path) \/ path.name = <<>> THEN path
    ELSE Path(path.under,
              Stem(path.name) \o <<".", ToString(dump + 1)>> \o Extension(path.name), FALSE)

(***************************************************************************)
(* The default: a file named for the thread, in the nearest directory      *)
(* above the executable with the tag of a cache, if there is one.          *)
(***************************************************************************)
Plain == {"t", "u", ".", "-", "_", "2"}
ThreadSuffix(thread) ==
    IF thread = <<>> THEN <<>>
    ELSE <<"-">> \o [i \in 1..Min({Len(thread), MAX_THREAD_SUFFIX}) |->
                         IF thread[i] \in Plain THEN thread[i] ELSE "_"]

IsCacheDirectory(tags, directory) == tags[directory] = "signature"
DefaultDirectory(executable, tags) ==
    LET above == {k \in 0..(Len(executable) - 1) :
                      IsCacheDirectory(tags, SubSeq(executable, 1, k))} IN
    IF above = {} THEN Nowhere ELSE <<Append(SubSeq(executable, 1, Max(above)), "heapscope")>>

DumpBase(setting, directory, thread) ==
    CASE setting.is = "off" -> Nowhere
      [] setting.is = "path" -> <<setting.path>>
      [] setting.is = "unset" ->
             <<Path(IF directory = Nowhere THEN <<>> ELSE directory[1],
                    <<"heapscope-assert">> \o ThreadSuffix(thread) \o <<".", "json">>, FALSE)>>

(***************************************************************************)
(* dump_target.  A dump takes its number once it has a base, and a base    *)
(* that is a directory keeps its name.                                     *)
(***************************************************************************)
HasAProfile(place) == place.state \in {"running", "finished"}
Directory(place) ==
    IF place.setting.is = "unset" THEN DefaultDirectory(place.executable, place.tags) ELSE Nowhere
Base(place, thread) ==
    IF HasAProfile(place) THEN DumpBase(place.setting, Directory(place), thread) ELSE Nowhere
DumpTarget(place, base, dump) ==
    [path |-> IF base \in place.directories THEN base ELSE Distinguish(base, dump),
     create |-> Directory(place)]

(***************************************************************************)
(* report: the target is chosen, and its number taken, whether or not the  *)
(* thread could be entered; only one that could writes.  What a failure    *)
(* measured decides what is said of a profile of the whole run.            *)
(***************************************************************************)
Scope(failure) ==
    IF failure.complaint \in {"wrong count", "over ceiling", "leaked"} /\ failure.since
    THEN "since mark" ELSE "whole run"
Ranking(failure) ==
    IF failure.complaint \in {"wrong count", "over ceiling"} THEN "blocks" ELSE "bytes"

Report(place, reported, failure) ==
    LET base == Base(place, failure.thread)
        dumped == base # Nowhere /\ failure.entered IN
    [dumps |-> reported.dumps + (IF base = Nowhere THEN 0 ELSE 1),
     written |-> Append(reported.written,
         IF dumped THEN [by |-> failure, base |-> base[1], ranking |-> Ranking(failure),
                         target |-> DumpTarget(place, base[1], reported.dumps),
                         note |-> Scope(failure) = "since mark"]
         ELSE [by |-> failure, note |-> FALSE])]
Reported(place, failures) ==
    FoldLeft(LAMBDA reported, failure : Report(place, reported, failure),
             [dumps |-> 0, written |-> <<>>], failures)
-----------------------------------------------------------------------------
Wrote(message) == "target" \in DOMAIN message
In(path) == IF path.slash THEN Append(path.under, path.name) ELSE path.under

(* "A second dump in the same process never overwrites the first", for     *)
(* dumps that would have had the same name, whatever the threads; and it   *)
(* never lands in a directory but the one that was named.                  *)
DumpsAreApart(place, messages) ==
    LET Target(i) == messages[i].target.path
        wrote == {i \in DOMAIN messages : Wrote(messages[i])} IN
    /\ \A i, j \in wrote :
           i # j /\ messages[i].base = messages[j].base /\ Target(i) = Target(j) =>
               \/ Target(i).slash \/ Target(i).name = <<>> \/ Target(i) \in place.directories
    /\ \A i \in wrote : In(Target(i)) = In(messages[i].base)

(* A directory is made only for the default, and is under the nearest      *)
(* directory that carries the signature, not a file of that name alone.    *)
DirectoriesAreChosen(place, messages) ==
    \A i \in {i \in DOMAIN messages : Wrote(messages[i])} :
        LET create == messages[i].target.create
            signed == {d \in DOMAIN place.tags : place.tags[d] = "signature"} IN
        /\ create # Nowhere =>
               /\ place.setting.is = "unset" /\ messages[i].target.path.under = create[1]
               /\ Front(create[1]) \in signed
               /\ \A d \in signed : Len(d) <= Len(Front(create[1]))
        /\ place.setting.is = "unset" /\ signed # {} => create # Nowhere

(* A thread inside the profiler dumps nothing, a run there is no profile   *)
(* of has none, and a count from a mark is never left to look like the     *)
(* profile's: sites are ranked by what was counted and the note is there.  *)
DumpsAreKept(place, failures) ==
    LET messages == Reported(place, failures).written IN
    /\ DumpsAreApart(place, messages) /\ DirectoriesAreChosen(place, messages)
    /\ \A i \in DOMAIN messages :
           /\ Wrote(messages[i]) <=>
                  /\ failures[i].entered /\ place.setting.is # "off"
                  /\ place.state \notin {"idle", "starting", "forked child"}
           /\ messages[i].note => Wrote(messages[i])
           /\ Wrote(messages[i]) /\ failures[i].complaint = "wrong count" =>
                  /\ messages[i].ranking = "blocks"
                  /\ messages[i].note <=> failures[i].since
=============================================================================
