----------------------------- MODULE Symbolizer -----------------------------
(***************************************************************************)
(* bin/heapscope-symbolize/tool.rs: one batch of addresses put to an       *)
(* external symbolizer through three pipes, and its answers matched to     *)
(* them.  The tool is external: it reads an address at a time, prints what *)
(* it likes of it, complains, and ends as it likes.                        *)
(***************************************************************************)
EXTENDS Integers, Sequences, FiniteSets, SequencesExt

CONSTANTS Asked,      \* the batch: addresses, in order
          Tools,      \* the output formats parsed
          Blocks,     \* the bodies a tool prints of an address
          PIPE,       \* lines a pipe holds
          MaxComplaints, \* bound of the lines the tool complains
          MaxFaults   \* and of the addresses it skips and its ends before the last

(* A name and a location are known to the tool, or not ("??", "??:0").      *)
Name(known) == [is |-> "name", known |-> known]
Location(known) == [is |-> "location", known |-> known]

ConstantsAssumption ==
    /\ Asked \in Seq(Nat) /\ IsInjective(Asked)
    /\ \A block \in Blocks : \A i \in DOMAIN block :
           block[i] \in IF i % 2 = 1 THEN {Name(TRUE), Name(FALSE)} ELSE {Location(TRUE), Location(FALSE)}
    /\ PIPE \in Nat \ {0} /\ MaxComplaints \in Nat /\ MaxFaults \in Nat

VARIABLES tool,     \* which one
          toWrite,  \* of the batch, with the thread that writes it
          stdin,    \* addresses in the pipe
          closed,   \* whether the writer has closed it
          child,    \* the tool: reading, or with lines still to print
          stdout, stderr,
          said,     \* the body the tool printed of each address, for the properties
          parent,   \* where resolve is
          output, result, faults

vars == <<tool, toWrite, stdin, closed, child, stdout, stderr, said, parent, output, result, faults>>

(***************************************************************************)
(* A line of output: the address asked, a name, a location, or a blank.    *)
(***************************************************************************)
Header(address) == [is |-> "header", address |-> address]
Blank == [is |-> "blank"]

Printed(address, body) ==
    IF tool = "addr2line" THEN <<Header(address)>> \o body ELSE Append(body, Blank)

(***************************************************************************)
(* frame and alternating: a function per two lines, with what is known of  *)
(* it, and no answer where nothing is.                                     *)
(***************************************************************************)
IsFrame(frame) == frame.function \/ frame.file
FrameAt(body, i) ==
    [function |-> body[2 * i - 1].known,
     file |-> 2 * i <= Len(body) /\ body[2 * i].known]
Alternating(body) ==
    SelectSeq([i \in 1..((Len(body) + 1) \div 2) |-> FrameAt(body, i)], IsFrame)

(* parse_llvm: the runs between blank lines. *)
IsBlank(text, i) == i \notin DOMAIN text \/ text[i].is = "blank"
Runs(text) == SetToSortSeq({i \in DOMAIN text : ~IsBlank(text, i) /\ IsBlank(text, i - 1)}, <)
Run(text, start) ==
    LET after == CHOOSE i \in (start + 1)..(Len(text) + 1) :
                     IsBlank(text, i) /\ \A j \in start..(i - 1) : ~IsBlank(text, j) IN
    SubSeq(text, start, after - 1)
ParseLlvm(text) ==
    LET runs == Runs(text) IN [k \in DOMAIN runs |-> Alternating(Run(text, runs[k]))]

(* parse_addr2line: block by block, as long as each is headed by the       *)
(* address asked and made of pairs of lines.                               *)
Headers(text) == SetToSortSeq({i \in DOMAIN text : text[i].is = "header"}, <)
Body(text, k) ==
    SubSeq(text, Headers(text)[k] + 1,
           IF k < Len(Headers(text)) THEN Headers(text)[k + 1] - 1 ELSE Len(text))
Believed(text, k) ==
    /\ k <= Len(Headers(text)) /\ text[1].is = "header"
    /\ text[Headers(text)[k]].address = Asked[k]
    /\ Body(text, k) # <<>> /\ Len(Body(text, k)) % 2 = 0
ParseAddr2Line(text) ==
    LET answers == CHOOSE n \in 0..Len(Asked) :
                       /\ \A k \in 1..n : Believed(text, k)
                       /\ n < Len(Asked) => ~Believed(text, n + 1) IN
    [k \in 1..answers |-> Alternating(Body(text, k))]

ParseOutput(text) == IF tool = "addr2line" THEN ParseAddr2Line(text) ELSE ParseLlvm(text)
-----------------------------------------------------------------------------
Reading == [at |-> "reading", lines |-> <<>>, complaints |-> 0]
NoResult == [is |-> "none"]
Refused == [is |-> "refused"]
Exited(success) == [at |-> "exited", success |-> success]

Init ==
    /\ tool \in Tools /\ toWrite = Asked /\ stdin = <<>> /\ closed = FALSE
    /\ child = Reading /\ stdout = <<>> /\ stderr = 0 /\ said = <<>>
    /\ parent = "reading" /\ output = <<>> /\ result = NoResult /\ faults = 0

Running == child.at # "exited"

(***************************************************************************)
(* The writer's thread, apart from the reader so that neither pipe can     *)
(* stop both.  A tool that has exited reads no more, which is not an error *)
(* of the writer's.                                                        *)
(***************************************************************************)
Writes ==
    /\ toWrite # <<>> /\ Running /\ Len(stdin) < PIPE
    /\ stdin' = Append(stdin, Head(toWrite)) /\ toWrite' = Tail(toWrite)
    /\ UNCHANGED <<tool, closed, child, stdout, stderr, said, parent, output, result, faults>>

Closes ==
    /\ ~closed /\ (toWrite = <<>> \/ ~Running)
    /\ closed' = TRUE /\ toWrite' = <<>>
    /\ UNCHANGED <<tool, stdin, child, stdout, stderr, said, parent, output, result, faults>>

(* The reader's thread: lines until the end of the tool's output. *)
MayReadFirst == TRUE
MayReadOnceWritten == closed
ReaderMayRead == MayReadFirst

ReadsLine ==
    /\ parent = "reading" /\ ReaderMayRead /\ stdout # <<>>
    /\ output' = Append(output, Head(stdout)) /\ stdout' = Tail(stdout)
    /\ UNCHANGED <<tool, toWrite, stdin, closed, child, stderr, said, parent, result, faults>>

ReadsEnd ==
    /\ parent = "reading" /\ ReaderMayRead /\ stdout = <<>> /\ ~Running
    /\ parent' = "waiting"
    /\ UNCHANGED <<tool, toWrite, stdin, closed, child, stdout, stderr, said, output, result, faults>>

(* wait_with_output reads the complaints; then the writer is joined. *)
ReadsComplaint ==
    /\ parent = "waiting" /\ stderr > 0
    /\ stderr' = stderr - 1
    /\ UNCHANGED <<tool, toWrite, stdin, closed, child, stdout, said, parent, output, result, faults>>

Matched(answers) ==
    IF Len(answers) = Len(Asked) THEN [is |-> "answers", answers |-> answers] ELSE Refused

Finishes ==
    /\ parent = "waiting" /\ stderr = 0 /\ closed
    /\ parent' = "done"
    /\ result' = IF child.success THEN Matched(ParseOutput(output)) ELSE Refused
    /\ UNCHANGED <<tool, toWrite, stdin, closed, child, stdout, stderr, said, output, faults>>

(***************************************************************************)
(* The tool: takes an address, complains, prints its lines, of that        *)
(* address, of another, or none.  A pipe that is full makes it wait.       *)
(***************************************************************************)
Takes ==
    /\ child = Reading /\ stdin # <<>> /\ stdin' = Tail(stdin)
    /\ \E complaints \in 0..(MaxComplaints - stderr) :
          \/ \E body \in Blocks, about \in Range(Asked) :
                /\ about # Head(stdin) => tool = "addr2line" /\ faults < MaxFaults
                /\ child' = [at |-> "printing", lines |-> Printed(about, body),
                             complaints |-> complaints]
                /\ said' = Append(said, [address |-> about, body |-> body])
                /\ faults' = IF about = Head(stdin) THEN faults ELSE faults + 1
          \/ /\ faults < MaxFaults /\ faults' = faults + 1
             /\ child' = [at |-> "printing", lines |-> <<>>, complaints |-> complaints]
             /\ UNCHANGED said
    /\ UNCHANGED <<tool, toWrite, closed, stdout, stderr, parent, output, result>>

Complains ==
    /\ child.at = "printing" /\ child.complaints > 0 /\ stderr < PIPE
    /\ stderr' = stderr + 1 /\ child' = [child EXCEPT !.complaints = @ - 1]
    /\ UNCHANGED <<tool, toWrite, stdin, closed, stdout, said, parent, output, result, faults>>

PrintsLine ==
    /\ child.at = "printing" /\ child.complaints = 0 /\ child.lines # <<>> /\ Len(stdout) < PIPE
    /\ stdout' = Append(stdout, Head(child.lines)) /\ child' = [child EXCEPT !.lines = Tail(@)]
    /\ UNCHANGED <<tool, toWrite, stdin, closed, stderr, said, parent, output, result, faults>>

Answers ==
    /\ child.at = "printing" /\ child.complaints = 0 /\ child.lines = <<>>
    /\ child' = Reading
    /\ UNCHANGED <<tool, toWrite, stdin, closed, stdout, stderr, said, parent, output, result, faults>>

Ends ==
    /\ child = Reading /\ stdin = <<>> /\ closed
    /\ child' = Exited(TRUE)
    /\ UNCHANGED <<tool, toWrite, stdin, closed, stdout, stderr, said, parent, output, result, faults>>

(* It may end wherever it is, whatever it then says of itself. *)
EndsEarly ==
    /\ Running /\ faults < MaxFaults /\ faults' = faults + 1
    /\ \E success \in BOOLEAN : child' = Exited(success)
    /\ UNCHANGED <<tool, toWrite, stdin, closed, stdout, stderr, said, parent, output, result>>

Moves ==
    \/ Writes \/ Closes \/ ReadsLine \/ ReadsEnd \/ ReadsComplaint \/ Finishes
    \/ Takes \/ Complains \/ PrintsLine \/ Answers \/ Ends
Next == Moves \/ EndsEarly

Spec == Init /\ [][Next]_vars
-----------------------------------------------------------------------------
(* An answer is taken only for the address it is about, and only from a    *)
(* tool that answered every one: a list that may be shifted is refused     *)
(* whole (tool.rs, resolve; parse_addr2line).  A tool cut off inside its   *)
(* last answer and calling that success is believed for what it printed.   *)
WasCut == Len(output) > 0 /\ child.at = "exited" /\ faults > 0
AnswersAreAsked ==
    result.is = "answers" =>
        /\ Len(said) = Len(Asked) /\ child.success
        /\ \A i \in DOMAIN Asked :
               /\ said[i].address = Asked[i]
               /\ i < Len(Asked) \/ ~WasCut => result.answers[i] = Alternating(said[i].body)
               /\ Len(result.answers[i]) <= Len(Alternating(said[i].body))

(* The batch, the answers and the complaints never wait for one another:   *)
(* until resolve returns, a thread or the tool can move by itself.  Each   *)
(* of those moves uses something up, so it returns (tool.rs, the writer's  *)
(* thread).                                                                *)
NeverStuck == parent # "done" => ENABLED Moves

ResolvesAsAsked == AnswersAreAsked /\ NeverStuck
=============================================================================
