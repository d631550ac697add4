----------------------------- MODULE DemangleV0 -----------------------------
(***************************************************************************)
(* symbol/demangle/v0.rs: the printer of v0 symbols, which reads a symbol  *)
(* and prints its name in one pass.                                        *)
(*                                                                         *)
(* The recursion is a stack of what is still to be done.  A tag and the    *)
(* number after it (B, L, G) are one token, as are the tag of a crate and  *)
(* its name, and the length, bytes and disambiguator of an identifier.     *)
(* Constants are placeholders or arrays, and one basic type, one pointer   *)
(* and one binder stand for their kinds.  The symbol is chosen as it is    *)
(* read.                                                                   *)
(***************************************************************************)
EXTENDS Integers, FiniteSets, SequencesExt, TLC

CONSTANTS MAX_DEPTH, BUDGET,
          Beginnings, MaxMore  \* bounds: how a symbol begins, and the tokens after that

ConstantsAssumption == MAX_DEPTH \in Nat \ {0} /\ BUDGET \in Nat \ {0} /\ MaxMore \in Nat

VARIABLES input, unmet, position, pending, depth, budget, bound, printing, out, status

vars == <<input, unmet, position, pending, depth, budget, bound, printing, out, status>>

Targets == 0..(MaxMore + 3)
Token(tag) == <<tag, 0>>
Numbered(tag) == {<<tag, n>> : n \in 0..2}
Tags == {"C", "N", "M", "Y", "I", "id", "y", "P", "T", "F", "D", "A", "p", "u", "K", "E", "."}
Tokens == {Token(tag) : tag \in Tags} \cup Numbered("L") \cup Numbered("G")
              \cup {<<"B", n>> : n \in Targets}
End == Token("end")

(* What is to be done, innermost first. *)
Rule(name) == [do |-> name, n |-> 0]
Text(text) == [do |-> "print", n |-> 0, text |-> text]
Resume(at) == [do |-> "resume", n |-> at]
Restore(was) == [do |-> "restore", n |-> IF was THEN 1 ELSE 0]
PopDepth == Rule("pop_depth")
CloseBinder(count) == [do |-> "close_binder", n |-> count]
Elements(rule, n) == [do |-> "list", n |-> n, of |-> rule]

Init ==
    /\ input \in Beginnings /\ unmet = MaxMore /\ position = 0
    /\ pending = <<Rule("path"), Rule("instantiating"), Rule("suffix")>>
    /\ depth = 0 /\ budget = BUDGET /\ bound = 0 /\ printing = TRUE
    /\ out = <<>> /\ status = "running"

Peek == IF position < Len(input) THEN input[position + 1] ELSE End
Tag == Peek[1]
Known == position < Len(input) \/ unmet = 0
Top == Head(pending)

(***************************************************************************)
(* The symbol is any sequence of tokens, met one by one; `unmet` bounds    *)
(* those still to come.                                                    *)
(***************************************************************************)
Meets ==
    /\ status = "running" /\ ~Known
    /\ \/ unmet' = 0 /\ UNCHANGED input
       \/ /\ \E token \in Tokens : input' = Append(input, token)
          /\ unmet' = unmet - 1
    /\ UNCHANGED <<position, pending, depth, budget, bound, printing, out, status>>

Doing(rule) == status = "running" /\ Known /\ Top.do = rule

(* Every failure, of the grammar or of a limit, restores the output. *)
Fails ==
    /\ status' = "refused" /\ out' = <<>>
    /\ UNCHANGED <<input, unmet, position, pending, depth, budget, bound, printing>>

(* Spends and goes on with `items`, from the token `at`.  A level of depth *)
(* is a PopDepth among the items.                                          *)
Levels(items) == Cardinality({i \in DOMAIN items : items[i].do = "pop_depth"})
Goes(at, cost, items) ==
    IF budget < cost + Levels(items) \/ depth + Levels(items) > MAX_DEPTH THEN Fails
    ELSE /\ budget' = budget - cost - Levels(items)
         /\ depth' = depth + Levels(items)
         /\ position' = at /\ pending' = items \o Tail(pending)
         /\ UNCHANGED <<input, unmet, bound, printing, out, status>>

Next1 == position + 1
Reads(items) == Goes(Next1, 1, Append(items, PopDepth))

(* backref: to before the tag that names it. *)
IsTarget(target) == target < position
ReadsBackref(rule) ==
    IF IsTarget(Peek[2]) THEN Goes(Peek[2], 2, <<Rule(rule), Resume(Next1), PopDepth>>) ELSE Fails

(***************************************************************************)
(* print_path.  What is skipped is read with nothing printed.              *)
(***************************************************************************)
Generics(rule) == <<Text("<"), Elements(rule, 0), Text(">")>>
Skips(items) ==
    IF budget < 2 \/ depth + 1 > MAX_DEPTH THEN Fails
    ELSE /\ budget' = budget - 2 /\ depth' = depth + 1 /\ position' = Next1
         /\ pending' = <<Rule("path"), Restore(printing)>> \o items \o <<PopDepth>> \o Tail(pending)
         /\ printing' = FALSE
         /\ UNCHANGED <<input, unmet, bound, out, status>>

Path ==
    /\ Doing("path")
    /\ CASE Tag = "C" -> Reads(<<Text("name")>>)
         [] Tag = "N" -> Reads(<<Rule("path"), Rule("ident")>>)
         [] Tag = "M" -> Skips(<<Text("<"), Rule("type"), Text(">")>>)
         [] Tag = "Y" -> Reads(<<Text("<"), Rule("type"), Text(" as "), Rule("path"), Text(">")>>)
         [] Tag = "I" -> Reads(<<Rule("path")>> \o Generics("arg"))
         [] Tag = "B" -> ReadsBackref("path")
         [] OTHER -> Fails

Ident ==
    /\ Doing("ident")
    /\ IF Tag = "id" THEN Goes(Next1, 1, <<Text("::"), Text("name")>>) ELSE Fails

(* print_type, print_fn_sig and print_dyn; what is no type is a path.      *)
Type ==
    /\ Doing("type")
    /\ CASE Tag = "y" -> Reads(<<Text("u64")>>)
         [] Tag = "P" -> Reads(<<Text("*const "), Rule("type")>>)
         [] Tag = "T" -> Reads(<<Text("("), Elements("type", 0), Text(")")>>)
         [] Tag = "A" -> Reads(<<Text("["), Rule("type"), Text("; "), Rule("const"), Text("]")>>)
         [] Tag = "F" -> Reads(<<Rule("binder"), Text("("), Elements("type", 0), Text(")"),
                                 Rule("returned"), Rule("close")>>)
         [] Tag = "D" -> Reads(<<Text("dyn "), Rule("binder"), Elements("dyn_trait", 0),
                                 Rule("close"), Rule("dyn_bound")>>)
         [] Tag = "B" -> ReadsBackref("type")
         [] OTHER -> Goes(position, 1, <<Rule("path"), PopDepth>>)

Returned ==
    /\ Doing("returned")
    /\ IF Tag = "u" THEN Goes(Next1, 0, <<>>) ELSE Goes(position, 0, <<Text(" -> "), Rule("type")>>)

DynBound ==
    /\ Doing("dyn_bound")
    /\ IF Tag # "L" THEN Fails
       ELSE Goes(Next1, 1, IF Peek[2] = 0 THEN <<>> ELSE <<Text(" + "), [do |-> "lifetime", n |-> Peek[2]]>>)

(* open_binder introduces its lifetimes, each named as it is; the matching *)
(* close_binder is the first still open in what is to be done.             *)
OpenCount == IF Tag = "G" THEN Peek[2] + 1 ELSE 0
Closing(items, count) ==
    LET at == SelectInSeq(items, LAMBDA item : item.do = "close") IN
    [items EXCEPT ![at] = CloseBinder(count)]
Binder ==
    /\ Doing("binder")
    /\ IF budget < OpenCount THEN Fails
       ELSE /\ budget' = budget - OpenCount /\ bound' = bound + OpenCount
            /\ pending' = Closing(Tail(pending), OpenCount)
            /\ position' = IF Tag = "G" THEN Next1 ELSE position
            /\ out' = IF Tag = "G" /\ printing
                      THEN out \o <<<<"for<", 0>>>> \o
                               [i \in 1..OpenCount |-> <<"'", bound + i - 1>>] \o <<<<">", 0>>>>
                      ELSE out
            /\ UNCHANGED <<input, unmet, depth, printing, status>>

KeepsBound(count) == bound
WithoutBinder(count) == bound - count
Closes ==
    /\ Doing("close_binder")
    /\ bound' = WithoutBinder(Top.n) /\ pending' = Tail(pending)
    /\ UNCHANGED <<input, unmet, position, depth, budget, printing, out, status>>

(* print_lifetime: an index counts outwards from where it is used. *)
Lifetime ==
    /\ Doing("lifetime")
    /\ IF Top.n > bound \/ budget < 1 THEN Fails
       ELSE /\ budget' = budget - 1 /\ pending' = Tail(pending)
            /\ out' = IF printing THEN Append(out, <<"'", IF Top.n = 0 THEN -1 ELSE bound - Top.n>>)
                      ELSE out
            /\ UNCHANGED <<input, unmet, position, depth, bound, printing, status>>

(* print_generic_arg, and print_const, of which two forms are kept.        *)
Arg ==
    /\ Doing("arg")
    /\ CASE Tag = "L" -> Goes(Next1, 1, <<[do |-> "lifetime", n |-> Peek[2]]>>)
         [] Tag = "K" -> Goes(Next1, 0, <<Rule("const")>>)
         [] OTHER -> Goes(position, 0, <<Rule("type")>>)

Const ==
    /\ Doing("const")
    /\ CASE Tag = "p" -> Reads(<<Text("_")>>)
         [] Tag = "A" -> Reads(<<Text("["), Elements("const", 0), Text("]")>>)
         [] Tag = "B" -> ReadsBackref("const")
         [] OTHER -> Fails

(***************************************************************************)
(* print_dyn_trait: a trait's generic list is left open for the associated *)
(* types that join it, through a backreference too                         *)
(* (print_path_leaving_generics_open).                                     *)
(***************************************************************************)
DynTrait ==
    /\ Doing("dyn_trait")
    /\ Goes(position, 0, <<Rule("open_path"), Rule("associated"), PopDepth>>)

OpenPath ==
    /\ Doing("open_path")
    /\ CASE Tag = "B" -> ReadsBackref("open_path")
         [] Tag = "I" -> Goes(Next1, 0, <<Rule("path"), Text("<"), Elements("arg", 0),
                                          Rule("left_open"), PopDepth>>)
         [] OTHER -> Goes(position, 0, <<Rule("path"), PopDepth>>)

(* Whether it was left open is said to the associated types that wait.     *)
LeavesOpen ==
    /\ Doing("left_open")
    /\ pending' = LET rest == Tail(pending)
                      at == SelectInSeq(rest, LAMBDA item : item.do = "associated") IN
                  [rest EXCEPT ![at].n = 1]
    /\ UNCHANGED <<input, unmet, position, depth, budget, bound, printing, out, status>>

Associated ==
    /\ Doing("associated")
    /\ IF Tag = "p"
       THEN Goes(Next1, 1, <<Text(IF Top.n = 1 THEN ", " ELSE "<"), Text("name"), Text(" = "),
                             Rule("associated_value"), [do |-> "associated", n |-> 1]>>)
       ELSE Goes(position, 0, IF Top.n = 1 THEN <<Text(">")>> ELSE <<>>)

AssociatedValue ==
    /\ Doing("associated_value")
    /\ IF Tag = "K" THEN Goes(Next1, 0, <<Rule("const")>>) ELSE Goes(position, 0, <<Rule("type")>>)

(* print_list; a tuple of one keeps its comma, which is left out.          *)
List ==
    /\ Doing("list")
    /\ CASE Tag = "E" -> Goes(Next1, 0, <<>>)
         [] Peek = End -> Fails
         [] OTHER -> Goes(position, 0, (IF Top.n > 0 THEN <<Text(", ")>> ELSE <<>>)
                                           \o <<Rule(Top.of), Elements(Top.of, 1)>>)

Prints ==
    /\ Doing("print")
    /\ IF budget < 1 THEN Fails
       ELSE /\ budget' = budget - 1 /\ pending' = Tail(pending)
            /\ out' = IF printing THEN Append(out, <<Top.text, 0>>) ELSE out
            /\ UNCHANGED <<input, unmet, position, depth, bound, printing, status>>

(* The end of a backreference, of what is skipped, and of a level. *)
Returns ==
    /\ status = "running" /\ Known /\ Top.do \in {"resume", "restore", "pop_depth"}
    /\ pending' = Tail(pending)
    /\ position' = IF Top.do = "resume" THEN Top.n ELSE position
    /\ printing' = IF Top.do = "restore" THEN Top.n = 1 ELSE printing
    /\ depth' = IF Top.do = "pop_depth" THEN depth - 1 ELSE depth
    /\ UNCHANGED <<input, unmet, budget, bound, out, status>>

(***************************************************************************)
(* print_symbol: after the path the crate that instantiated it, which is   *)
(* not printed, then a suffix, then nothing.                               *)
(***************************************************************************)
Instantiating ==
    /\ Doing("instantiating")
    /\ IF Tag \in {"end", "."} THEN Goes(position, 0, <<>>)
       ELSE /\ printing' = FALSE
            /\ pending' = <<Rule("path"), Restore(printing)>> \o Tail(pending)
            /\ UNCHANGED <<input, unmet, position, depth, budget, bound, out, status>>

Suffix ==
    /\ Doing("suffix")
    /\ CASE Tag = "end" ->
              /\ status' = "printed" /\ pending' = Tail(pending)
              /\ UNCHANGED <<input, unmet, position, depth, budget, bound, printing, out>>
         [] Tag = "." /\ budget > 0 ->
              /\ status' = "printed" /\ pending' = Tail(pending) /\ budget' = budget - 1
              /\ out' = Append(out, <<"suffix", 0>>)
              /\ UNCHANGED <<input, unmet, position, depth, bound, printing>>
         [] OTHER -> Fails

Next ==
    \/ Meets \/ Path \/ Ident \/ Type \/ Returned \/ DynBound \/ Binder \/ Closes \/ Lifetime
    \/ Arg \/ Const \/ DynTrait \/ OpenPath \/ LeavesOpen \/ Associated \/ AssociatedValue
    \/ List \/ Prints \/ Returns \/ Instantiating \/ Suffix

Spec == Init /\ [][Next]_vars
-----------------------------------------------------------------------------
Opening == {"<", "(", "[", "for<"}
Closer == "<" :> ">" @@ "(" :> ")" @@ "[" :> "]" @@ "for<" :> ">"
Nest(open, piece) ==
    IF open # <<>> /\ open[1] = "wrong" THEN open
    ELSE CASE piece[1] \in Opening -> <<piece[1]>> \o open
           [] piece[1] \in {">", ")", "]"} ->
                 IF open # <<>> /\ Closer[open[1]] = piece[1] THEN Tail(open) ELSE <<"wrong">>
           [] OTHER -> open

Together(items) == FoldLeft(LAMBDA sum, item : sum + item.n, 0, items)
Open(what) == SelectSeq(pending, LAMBDA item : item.do = what)

(* A symbol is refused with nothing printed or printed whole: every        *)
(* bracket it opened is closed, lists left open for associated types and   *)
(* those read through a backreference among them.  Until then there is a   *)
(* next step; the depth, the lifetimes in scope and whether what is read   *)
(* is printed are those of the constructs being read, whichever of them    *)
(* were left through a backreference; and neither the work nor the name    *)
(* outgrows the budget (v0.rs, Printer).                                   *)
PrintsWhole ==
    /\ status = "refused" => out = <<>>
    /\ status = "printed" =>
           /\ pending = <<>> /\ depth = 0 /\ bound = 0 /\ printing
           /\ out # <<>> /\ FoldLeft(Nest, <<>>, out) = <<>>
    /\ status = "running" =>
           /\ ENABLED Next
           /\ depth = Len(Open("pop_depth")) /\ bound = Together(Open("close_binder"))
           /\ printing <=> \A i \in DOMAIN Open("restore") : Open("restore")[i].n = 0
           /\ \A i \in DOMAIN Open("resume") : Open("resume")[i].n <= Len(input)
    /\ depth <= MAX_DEPTH /\ budget \in 0..BUDGET
    /\ Len(out) <= 2 * (BUDGET - budget)
=============================================================================
