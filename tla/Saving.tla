------------------------------- MODULE Saving -------------------------------
(***************************************************************************)
(* How a profile and a baseline reach the disk: Snapshot::save_with and    *)
(* Baseline::save, by threads of several processes, beside crashes and a   *)
(* file system that refuses any call.                                      *)
(*                                                                         *)
(* A directory maps names to inodes, and an open file keeps its inode and  *)
(* its own offset whatever becomes of the name.  A file is the sequence of *)
(* pieces written to it, a piece being the save it belongs to and its      *)
(* position; a save writes Pieces of them.                                 *)
(***************************************************************************)
EXTENDS Integers, Sequences, FiniteSets, Functions

CONSTANTS Savers,         \* threads that save
          ProcessOf,      \* the process of each
          BaselineSavers, \* those that save a baseline; the others, a profile
          Formats,        \* what a profile is written in
          Pids,           \* process ids
          Pieces,         \* what a whole file is made of
          MaxSaves, MaxFailures, MaxCrashes  \* bounds

SaversAssumption ==
    BaselineSavers \subseteq Savers /\ DOMAIN ProcessOf = Savers
FormatsAssumption == Formats \subseteq {"dhat", "native", "html", "folded"}
PidsAssumption ==
    IsFiniteSet(Pids) /\ Cardinality(Pids) >= Cardinality(Range(ProcessOf))
PiecesAssumption ==
    Pieces \in Nat \ {0} /\ {MaxSaves, MaxFailures, MaxCrashes} \subseteq Nat

Processes == Range(ProcessOf)
SaveIds == 1..MaxSaves
Destinations == {"profile", "baseline"}
Piece(save, i) == [save |-> save, piece |-> i]
Whole(save) == [i \in 1..Pieces |-> Piece(save, i)]

VARIABLES pid,        \* of each process
          handed_out, \* WRITE: temporary names given, of each process
          directory,  \* names to inodes
          content,    \* of every inode
          saver,      \* what each thread is doing
          kept,       \* the save each destination was last replaced by, or 0
          outcome,    \* of every save begun
          failures, crashes
vars == <<pid, handed_out, directory, content, saver, kept, outcome, failures, crashes>>
files == <<directory, content>>

Destination(t) == IF t \in BaselineSavers THEN "baseline" ELSE "profile"
FormatsOf(t) == IF t \in BaselineSavers THEN {"baseline"} ELSE Formats
Idle == [at |-> "idle"]

Init == /\ pid \in {f \in [Processes -> Pids] : IsInjective(f)}
        /\ handed_out = [p \in Processes |-> 0]
        /\ directory = <<>>
        /\ content = <<>>
        /\ saver = [t \in Savers |-> Idle]
        /\ kept = [d \in Destinations |-> 0]
        /\ outcome = <<>>
        /\ failures = 0
        /\ crashes = 0

(***************************************************************************)
(* temporary_path: a sibling named for the process and the call.           *)
(* Baseline::save: a sibling of one fixed name.                            *)
(***************************************************************************)
Partial == <<"baseline", "partial">>
TemporaryPathOfPid(t) == <<"profile", pid[ProcessOf[t]], 0>>
TemporaryPath(t) == <<"profile", pid[ProcessOf[t]], handed_out[ProcessOf[t]]>>

Begin(t, format) ==
    /\ saver[t] = Idle
    /\ Len(outcome) < MaxSaves
    /\ outcome' = Append(outcome, "begun")
    /\ saver' = [saver EXCEPT ![t] =
           [at |-> "create", save |-> Len(outcome) + 1, format |-> format, inode |-> 0,
            done |-> 0, buffer |-> 0,
            temporary |-> IF t \in BaselineSavers THEN Partial ELSE TemporaryPath(t)]]
    /\ handed_out' = IF t \in BaselineSavers THEN handed_out
                     ELSE [handed_out EXCEPT ![ProcessOf[t]] = @ + 1]
    /\ UNCHANGED <<pid, files, kept, failures, crashes>>

At(t, place) == saver[t].at = place
Named(names, name, inode) ==
    [n \in DOMAIN names \cup {name} |-> IF n = name THEN inode ELSE names[n]]
Without(names, name) == Restrict(names, DOMAIN names \ {name})

(* File::create: a new inode, or the one of that name cut to nothing. *)
Create(t) ==
    /\ At(t, "create")
    /\ LET name == saver[t].temporary
           known == name \in DOMAIN directory
           inode == IF known THEN directory[name] ELSE Len(content) + 1 IN
       /\ content' = IF known THEN [content EXCEPT ![inode] = <<>>] ELSE Append(content, <<>>)
       /\ directory' = Named(directory, name, inode)
       /\ saver' = [saver EXCEPT ![t].at = "emit", ![t].inode = inode]
    /\ UNCHANGED <<pid, handed_out, kept, outcome, failures, crashes>>

(***************************************************************************)
(* A profile goes through a BufWriter, which holds a piece back until the  *)
(* next one, a flush or its own drop; a baseline goes to the file.         *)
(* A write lands at the file's own offset, beyond a gap if it must.        *)
(***************************************************************************)
Gap == [save |-> 0, piece |-> 0]
PutAt(file, i, piece) ==
    [j \in 1..(IF i > Len(file) THEN i ELSE Len(file)) |->
        IF j = i THEN piece ELSE IF j <= Len(file) THEN file[j] ELSE Gap]
Put(t, i) ==
    content' = [content EXCEPT ![saver[t].inode] = PutAt(@, i, Piece(saver[t].save, i))]
Emitted(t) == saver[t].done + saver[t].buffer

Emit(t) ==
    /\ At(t, "emit")
    /\ Emitted(t) < Pieces
    /\ IF t \in BaselineSavers \/ saver[t].buffer = 1
       THEN Put(t, saver[t].done + 1) /\ saver' = [saver EXCEPT ![t].done = @ + 1]
       ELSE UNCHANGED content /\ saver' = [saver EXCEPT ![t].buffer = 1]
    /\ UNCHANGED <<pid, handed_out, directory, kept, outcome, failures, crashes>>

(***************************************************************************)
(* The end of an emitter: JsonWriter::finish and html::write flush, and    *)
(* folded::write returns and drops the BufWriter, which writes what it     *)
(* holds and discards the error.                                           *)
(***************************************************************************)
Flushes(format) == format # "folded"

Flush(t) ==
    /\ At(t, "emit")
    /\ Emitted(t) = Pieces
    /\ IF saver[t].buffer = 1 THEN Put(t, Pieces) ELSE UNCHANGED content
    /\ saver' = [saver EXCEPT ![t].at = "rename", ![t].done = Pieces, ![t].buffer = 0]
    /\ UNCHANGED <<pid, handed_out, directory, kept, outcome, failures, crashes>>

(* The file of that name replaces the destination's in one step. *)
Rename(t) ==
    /\ At(t, "rename")
    /\ saver[t].temporary \in DOMAIN directory
    /\ LET name == saver[t].temporary IN
       directory' = Named(Without(directory, name), <<Destination(t)>>, directory[name])
    /\ kept' = [kept EXCEPT ![Destination(t)] = saver[t].save]
    /\ outcome' = [outcome EXCEPT ![saver[t].save] = "ok"]
    /\ saver' = [saver EXCEPT ![t] = Idle]
    /\ UNCHANGED <<pid, handed_out, content, failures, crashes>>

(***************************************************************************)
(* A call is refused, or finds no file of that name to rename.  The error  *)
(* is on its way to the caller, but for the one a drop discards.           *)
(***************************************************************************)
Discarded(t) == At(t, "emit") /\ Emitted(t) = Pieces /\ ~Flushes(saver[t].format)

Fail(t) ==
    /\ \E place \in {"create", "emit", "rename"} : At(t, place)
    /\ \/ At(t, "rename") /\ saver[t].temporary \notin DOMAIN directory /\ UNCHANGED failures
       \/ failures < MaxFailures /\ failures' = failures + 1
    /\ saver' = [saver EXCEPT ![t].at = IF Discarded(t) THEN "rename" ELSE "remove",
                              ![t].buffer = 0]
    /\ UNCHANGED <<pid, handed_out, files, kept, outcome, crashes>>

(* The temporary is removed, if it can be; a baseline's that could not be  *)
(* created is not.                                                         *)
CleanUp(t) ==
    /\ At(t, "remove")
    /\ IF t \in BaselineSavers /\ saver[t].inode = 0 THEN UNCHANGED directory
       ELSE directory' = Without(directory, saver[t].temporary)
    /\ outcome' = [outcome EXCEPT ![saver[t].save] = "failed"]
    /\ saver' = [saver EXCEPT ![t] = Idle]
    /\ UNCHANGED <<pid, handed_out, content, kept, failures, crashes>>

(***************************************************************************)
(* A process dies where it stands; its successor counts from zero, under   *)
(* any id no live process has.                                             *)
(***************************************************************************)
Crash(p) ==
    /\ crashes < MaxCrashes
    /\ crashes' = crashes + 1
    /\ \E t \in Savers : ProcessOf[t] = p /\ saver[t] # Idle
    /\ \E new \in Pids \ {pid[q] : q \in Processes \ {p}} : pid' = [pid EXCEPT ![p] = new]
    /\ handed_out' = [handed_out EXCEPT ![p] = 0]
    /\ outcome' = [s \in DOMAIN outcome |->
           IF \E t \in Savers : ProcessOf[t] = p /\ saver[t] # Idle /\ saver[t].save = s
           THEN "crashed" ELSE outcome[s]]
    /\ saver' = [t \in Savers |-> IF ProcessOf[t] = p THEN Idle ELSE saver[t]]
    /\ UNCHANGED <<files, kept, failures>>

Next == \/ \E t \in Savers :
             \/ \E format \in FormatsOf(t) : Begin(t, format)
             \/ Create(t) \/ Emit(t) \/ Flush(t) \/ Rename(t) \/ Fail(t) \/ CleanUp(t)
        \/ \E p \in Processes : Crash(p)

Spec == Init /\ [][Next]_vars
-----------------------------------------------------------------------------
(* Every name leads to an inode. *)
TypeOK == /\ \A name \in DOMAIN directory : directory[name] \in DOMAIN content
          /\ Range(outcome) \subseteq {"begun", "ok", "failed", "crashed"}
          /\ \A p \in Processes : handed_out[p] \in 0..MaxSaves
          /\ failures \in 0..MaxFailures /\ crashes \in 0..MaxCrashes

FileAt(d) == content[directory[<<d>>]]

(* "A full disk, a write error, or a process killed mid-write leaves the   *)
(* previous profile intact": whatever is at a destination is the whole     *)
(* file of one save, and once there is one, there always is.               *)
DestinationIsWhole ==
    \A d \in Destinations :
        IF kept[d] = 0 THEN <<d>> \notin DOMAIN directory
        ELSE <<d>> \in DOMAIN directory /\ \E s \in SaveIds : FileAt(d) = Whole(s)

(* What a save answers is so: the file it replaced is its own, and a save  *)
(* that failed, or was killed, has not touched the destination.            *)
AnswersAreTrue ==
    \A d \in Destinations : kept[d] # 0 =>
        outcome[kept[d]] = "ok" /\ FileAt(d) = Whole(kept[d])

(* Only a crash leaves a temporary behind. *)
NothingLeftBehind ==
    (crashes = 0 /\ \A t \in Savers : saver[t] = Idle) =>
        DOMAIN directory \subseteq {<<d>> : d \in Destinations}

(* A save replaces its destination with the whole of its own file or       *)
(* leaves it alone, through refused calls, crashes and saves beside it     *)
(* (Snapshot::save_with).                                                  *)
SavesAreWhole == TypeOK /\ DestinationIsWhole /\ AnswersAreTrue /\ NothingLeftBehind
=============================================================================
