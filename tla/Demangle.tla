------------------------------ MODULE Demangle ------------------------------
(***************************************************************************)
(* symbol/demangle: mod.rs (the choice of a scheme and what is refused of  *)
(* either), legacy.rs (the `_ZN` names) and punycode.rs (identifiers that  *)
(* are not ASCII).  v0.rs is DemangleV0.                                   *)
(*                                                                         *)
(* A legacy name is a sequence of components, an end or none, and a        *)
(* suffix; a component is a sequence of characters, of which "lt" and "u7" *)
(* stand for the codes of a character and of a control character.  A code  *)
(* point is its number.                                                    *)
(***************************************************************************)
EXTENDS Integers, FiniteSets, SequencesExt

CONSTANT U32  \* the largest number punycode's arithmetic holds

U32Assumption == U32 \in Nat \ {0}

Refused == <<"refused">>

(***************************************************************************)
(* legacy.rs.                                                              *)
(***************************************************************************)
Hexadecimal == {"a"}
IsDisambiguator(component) ==
    Head(component) = "h" /\ Range(Tail(component)) \subseteq Hexadecimal

Decoded(code) == IF code = <<"lt">> THEN "<" ELSE "none"

(* write_component: an escape that is none ends the reading of escapes. *)
RECURSIVE Unescaped(_)
Unescaped(rest) ==
    IF rest = <<>> THEN <<>>
    ELSE IF IsPrefix(<<".", ".">>, rest) THEN <<"::">> \o Unescaped(SubSeq(rest, 3, Len(rest)))
    ELSE IF Head(rest) # "$" THEN <<Head(rest)>> \o Unescaped(Tail(rest))
    ELSE LET after == Tail(rest)
             end == SelectInSeq(after, LAMBDA c : c = "$") IN
         IF end = 0 \/ Decoded(SubSeq(after, 1, end - 1)) = "none" THEN rest
         ELSE <<Decoded(SubSeq(after, 1, end - 1))>> \o Unescaped(SubSeq(after, end + 1, Len(after)))
WithoutGuard(component) ==
    IF IsPrefix(<<"_", "$">>, component) THEN Tail(component) ELSE component
Component(component) == Unescaped(WithoutGuard(component))

(* suffix_is_acceptable: graphic characters after a dot or a dollar. *)
Acceptable(suffix) == suffix = <<>> \/ Head(suffix) \in {".cold", ".llvm."}

Shown(components) == IF components # <<>> /\ IsDisambiguator(Last(components))
                     THEN Front(components) ELSE components
Joined(names) ==
    FoldLeft(LAMBDA all, name : IF all = <<>> THEN name ELSE all \o <<"::">> \o name, <<>>, names)
Legacy(symbol) ==
    LET shown == Shown(symbol.components) IN
    IF ~symbol.ended \/ ~Acceptable(symbol.suffix) \/ shown = <<>> THEN Refused
    ELSE Joined([i \in DOMAIN shown |-> Component(shown[i])]) \o symbol.suffix

(***************************************************************************)
(* mod.rs: an LTO marker at the very end is taken off first, and a name    *)
(* with a control character is refused after all.                          *)
(***************************************************************************)
WithoutMarker(suffix) ==
    LET at == SelectInSeq(suffix, LAMBDA part : part = ".llvm.") IN
    IF at > 0 /\ \A i \in (at + 1)..Len(suffix) : suffix[i] = "0A1" THEN SubSeq(suffix, 1, at - 1)
    ELSE suffix
Demangled(symbol) ==
    LET name == Legacy([symbol EXCEPT !.suffix = WithoutMarker(@)]) IN
    IF ~symbol.ascii \/ Contains(name, "control") THEN Refused ELSE name

(***************************************************************************)
(* punycode.rs.  A digit that is none is refused.                          *)
(***************************************************************************)
BASE == 36
T_MIN == 1
T_MAX == 26
SKEW == 38
DAMP == 700
INITIAL_BIAS == 72
INITIAL_N == 128

RECURSIVE Scaled(_, _)
Scaled(delta, scale) ==
    IF delta > ((BASE - T_MIN) * T_MAX) \div 2 THEN Scaled(delta \div (BASE - T_MIN), scale + BASE)
    ELSE scale + ((BASE - T_MIN + 1) * delta) \div (delta + SKEW)
Adapt(delta, positions, first) ==
    LET damped == delta \div (IF first THEN DAMP ELSE 2) IN
    Scaled(damped + damped \div positions, 0)

Threshold(scale, bias) ==
    IF scale <= bias THEN T_MIN ELSE IF scale >= bias + T_MAX THEN T_MAX ELSE scale - bias
IsDigit(digit) == digit \in 0..(BASE - 1)
IsCharacter(code) == code <= 1114111 /\ code \notin 55296..57343
FitsProduct(a, b) == a = 0 \/ b <= U32 \div a

(* The digits of a number are read into `index`, and the character it      *)
(* stands for is inserted where it says.                                   *)
Inserted(s, index) ==
    LET positions == Len(s.decoded) + 1
        code == s.code + index \div positions
        at == index % positions IN
    [s EXCEPT !.bias = Adapt(index - s.previous, positions, s.previous = 0),
              !.ok = code <= U32 /\ IsCharacter(code), !.code = code,
              !.decoded = InsertAt(@, at + 1, code),
              !.index = at + 1, !.previous = at + 1, !.weight = 1, !.scale = BASE]
Digit(s, digit) ==
    LET threshold == Threshold(s.scale, s.bias) IN
    IF ~s.ok \/ ~IsDigit(digit) \/ ~FitsProduct(digit, s.weight)
          \/ s.index > U32 - digit * s.weight
    THEN [s EXCEPT !.ok = FALSE]
    ELSE IF digit < threshold THEN Inserted(s, s.index + digit * s.weight)
    ELSE [s EXCEPT !.index = @ + digit * s.weight,
                   !.ok = FitsProduct(BASE - threshold, s.weight),
                   !.weight = IF FitsProduct(BASE - threshold, @) THEN @ * (BASE - threshold) ELSE @,
                   !.scale = @ + BASE]
Decode(literal, deltas) ==
    LET start == [ok |-> TRUE, decoded |-> literal, code |-> INITIAL_N, index |-> 0, previous |-> 0,
                  bias |-> INITIAL_BIAS, weight |-> 1, scale |-> BASE]
        end == FoldLeft(Digit, start, deltas) IN
    [ok |-> end.ok /\ end.scale = BASE, decoded |-> end.decoded]
-----------------------------------------------------------------------------
(* The schemes as they are written down: what rustc does to a name, and    *)
(* the encoder of RFC 3492.                                                *)
Escape(c) == CASE c = "<" -> <<"$", "lt", "$">> [] c = "::" -> <<".", ".">> [] OTHER -> <<c>>
Mangled(name) ==
    LET text == FlattenSeq([i \in DOMAIN name |-> Escape(name[i])]) IN
    IF Head(text) = "$" THEN <<"_">> \o text ELSE text

RECURSIVE Digits(_, _, _)
Digits(number, bias, scale) ==
    LET t == Threshold(scale, bias) IN
    IF number < t THEN <<number>>
    ELSE <<t + ((number - t) % (BASE - t))>> \o Digits((number - t) \div (BASE - t), bias, scale + BASE)

(* Characters go in by their code, those of one code from left to right;   *)
(* each is a number of steps through the places every code could go in.    *)
Encode(text) ==
    LET special == {i \in DOMAIN text : text[i] >= INITIAL_N}
        order == SetToSortSeq(special, LAMBDA i, j : text[i] < text[j] \/ (text[i] = text[j] /\ i < j))
        before(i, k) == {j \in 1..(i - 1) : text[j] < INITIAL_N \/ j \in {order[m] : m \in 1..(k - 1)}}
        Write(s, k) ==
            LET i == order[k]
                positions == Len(text) - Cardinality(special) + k
                at == Cardinality(before(i, k))
                delta == (text[i] - s.code) * positions + at - s.index IN
            [code |-> text[i], index |-> at + 1,
             bias |-> Adapt(delta, positions, k = 1),
             digits |-> s.digits \o Digits(delta, s.bias, BASE)] IN
    FoldLeft(Write, [code |-> INITIAL_N, index |-> 0, bias |-> INITIAL_BIAS, digits |-> <<>>],
             [k \in DOMAIN order |-> k]).digits

(* A mangled path reads as it was written: its disambiguator is not shown, *)
(* nor the marker of a link-time optimiser, and any other suffix is, one   *)
(* that only looks like the marker too (mod.rs and legacy.rs, demangle).   *)
LegacyReadsBack(path, suffix) ==
    LET symbol(end, ended) == [ascii |-> TRUE, ended |-> ended, suffix |-> end,
                components |-> [i \in DOMAIN path |-> Mangled(path[i])] \o <<<<"h", "a", "a">>>>] IN
    /\ Demangled(symbol(suffix, TRUE)) = Joined(path) \o suffix
    /\ Contains(suffix, ".llvm.") \/
           Demangled(symbol(suffix \o <<".llvm.", "0A1">>, TRUE)) = Joined(path) \o suffix
    /\ Demangled(symbol(suffix, FALSE)) = Refused

(* Whatever is in a component, its reading ends, loses no character that   *)
(* is not part of an escape, and shows no control character (legacy.rs,    *)
(* write_component; mod.rs, demangle).                                     *)
LegacyIsTotal(component) ==
    LET plain(text) == SelectSeq(text, LAMBDA c : c \in {"a", "control", "u7"})
        symbol == [ascii |-> TRUE, ended |-> TRUE, suffix |-> <<>>, components |-> <<component>>] IN
    /\ plain(Component(component)) = plain(component)
    /\ ~Contains(Demangled(symbol), "control")

(* An identifier that is not ASCII reads as it was encoded, and a number   *)
(* that does not end is refused (punycode.rs, decode).                     *)
PunycodeReadsBack(text) ==
    LET literal == SelectSeq(text, LAMBDA c : c < INITIAL_N)
        digits == Encode(text) IN
    /\ Decode(literal, digits) = [ok |-> TRUE, decoded |-> text]
    /\ \A n \in 0..(Len(digits) - 1) :
           LET cut == Decode(literal, SubSeq(digits, 1, n)) IN
           cut.ok => Len(cut.decoded) < Len(text)
=============================================================================
