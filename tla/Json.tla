------------------------------- MODULE Json ---------------------------------
(***************************************************************************)
(* A document on its way: written by the library's JsonWriter, put into a  *)
(* page by ScriptSafe, read by heapscope-symbolize's parser and written    *)
(* back by its renderer.                                                   *)
(*                                                                         *)
(* A value is a number, a string, an array or an object, whose members are *)
(* a sequence.  A text is a sequence of tokens, and the characters of a    *)
(* string token are the bytes between its quotes.                          *)
(***************************************************************************)
EXTENDS Integers, SequencesExt

Number(n) == [is |-> "number", number |-> n]
String(s) == [is |-> "string", chars |-> s]
Array(items) == [is |-> "array", items |-> items]
Object(members) == [is |-> "object", items |-> members]
Member(key, value) == [is |-> "member", key |-> key, value |-> value]

Mark(token) == [mark |-> token]
Space == Mark("space")

(***************************************************************************)
(* output/json.rs, JsonWriter::write_string.  A run of bytes no escape is  *)
(* for goes as it is; the separators U+2028 and U+2029 are three bytes,    *)
(* escaped as one.                                                         *)
(***************************************************************************)
Byte(b) == <<b>>
Quote == Byte("quote")
Backslash == Byte("backslash")
Control == Byte("control")  \* a byte below 0x20, by a short escape or \u00xx
Opener == Byte("<")
Lead == Byte("E2")
Middle == Byte("80")
Separators == {Byte("A8"), Byte("A9")}
Escape(run) == <<"escape">> \o FlattenSeq(run)

IsSeparator(bytes, i) ==
    /\ i + 2 <= Len(bytes)
    /\ bytes[i] = Lead /\ bytes[i + 1] = Middle /\ bytes[i + 2] \in Separators

RECURSIVE EscapedFrom(_, _)
EscapedFrom(bytes, i) ==
    IF i > Len(bytes) THEN <<>>
    ELSE IF bytes[i] \in {Quote, Backslash, Control}
    THEN <<Escape(<<bytes[i]>>)>> \o EscapedFrom(bytes, i + 1)
    ELSE IF IsSeparator(bytes, i)
    THEN <<Escape(SubSeq(bytes, i, i + 2))>> \o EscapedFrom(bytes, i + 3)
    ELSE <<bytes[i]>> \o EscapedFrom(bytes, i + 1)

WriteString(bytes) == EscapedFrom(bytes, 1)

(* html.rs, ScriptSafe: every `<`, wherever the writer's calls cut it.      *)
ScriptSafe(chars) == [i \in DOMAIN chars |-> IF chars[i] = Opener THEN Escape(<<Opener>>) ELSE chars[i]]

(* heapscope-symbolize's Parser::string. *)
Unescaped(chars) ==
    FlattenSeq([i \in DOMAIN chars |->
        IF Len(chars[i]) = 1 THEN <<chars[i]>>
        ELSE [j \in 1..(Len(chars[i]) - 1) |-> Byte(chars[i][j + 1])]])

(***************************************************************************)
(* JsonWriter: what it holds between calls.                                *)
(***************************************************************************)
NewWriter == [out |-> <<>>, stack |-> <<>>, expecting |-> FALSE]
Out(w, tokens) == [w EXCEPT !.out = @ \o tokens]
Newline(level) == IF level.layout = "wrap" THEN <<Space>> ELSE <<>>

BeforeValueOf(w, level) ==
    Out([w EXCEPT !.stack = Front(@) \o <<[level EXCEPT !.populated = TRUE]>>],
        (IF level.populated THEN <<Mark(",")>> ELSE <<>>) \o Newline(level))
BeforeValue(w) ==
    IF w.expecting THEN [w EXCEPT !.expecting = FALSE]
    ELSE IF w.stack = <<>> THEN w ELSE BeforeValueOf(w, Last(w.stack))

Begin(w, container, layout) ==
    LET begun == Out(BeforeValue(w), <<Mark(IF container = "object" THEN "{" ELSE "[")>>) IN
    [begun EXCEPT !.stack = Append(@, [container |-> container, layout |-> layout,
                                       populated |-> FALSE])]
End(w, container) ==
    LET level == Last(w.stack) IN
    Out([w EXCEPT !.stack = Front(@)],
        (IF level.populated THEN Newline(level) ELSE <<>>)
            \o <<Mark(IF container = "object" THEN "}" ELSE "]")>>)
KeyOf(w, key) == [Out(BeforeValue(w), <<String(WriteString(key)), Mark(":")>>)
                     EXCEPT !.expecting = TRUE]
Scalar(w, token) == Out(BeforeValue(w), <<token>>)

(* The calls an emitter makes for a value. *)
RECURSIVE Emit(_, _, _)
Emit(w, value, layout) ==
    CASE value.is = "number" -> Scalar(w, value)
      [] value.is = "string" -> Scalar(w, String(WriteString(value.chars)))
      [] value.is = "array" ->
            End(FoldLeft(LAMBDA u, item : Emit(u, item, layout),
                         Begin(w, "array", layout), value.items), "array")
      [] value.is = "object" ->
            End(FoldLeft(LAMBDA u, member : Emit(KeyOf(u, member.key), member.value, layout),
                         Begin(w, "object", layout), value.items), "object")

Written(value, layout) == Emit(NewWriter, value, layout).out
InPage(text) ==
    [i \in DOMAIN text |-> IF "chars" \in DOMAIN text[i]
                           THEN [text[i] EXCEPT !.chars = ScriptSafe(@)] ELSE text[i]]

(***************************************************************************)
(* bin/heapscope-symbolize/json.rs: Parser.  What is left of the text goes *)
(* on beside the value read; an error is where nothing could be.           *)
(***************************************************************************)
Error == [is |-> "error"]
Parsed(value, rest) == [value |-> value, rest |-> rest]
Failed == Parsed(Error, <<>>)

RECURSIVE SkipWhitespace(_)
SkipWhitespace(text) ==
    IF text # <<>> /\ text[1] = Space THEN SkipWhitespace(Tail(text)) ELSE text
Starts(text, token) == text # <<>> /\ text[1] = Mark(token)
StartsString(text) == text # <<>> /\ "chars" \in DOMAIN text[1]

RECURSIVE ParseValue(_), ParseItems(_, _, _), ParseMember(_)
ParseMember(text) ==
    IF ~StartsString(text) \/ ~Starts(SkipWhitespace(Tail(text)), ":") THEN Failed
    ELSE LET value == ParseValue(SkipWhitespace(Tail(SkipWhitespace(Tail(text))))) IN
         IF value.value = Error THEN Failed
         ELSE Parsed(Member(Unescaped(text[1].chars), value.value), value.rest)

ParseItems(text, container, items) ==
    LET item == IF container = "object" THEN ParseMember(SkipWhitespace(text))
                ELSE ParseValue(SkipWhitespace(text))
        rest == SkipWhitespace(item.rest) IN
    CASE item = Failed -> Failed
      [] item # Failed /\ Starts(rest, ",") ->
            ParseItems(Tail(rest), container, Append(items, item.value))
      [] item # Failed /\ Starts(rest, IF container = "object" THEN "}" ELSE "]") ->
            Parsed([is |-> container, items |-> Append(items, item.value)], Tail(rest))
      [] OTHER -> Failed

ParseValue(text) ==
    CASE Starts(text, "{") /\ Starts(SkipWhitespace(Tail(text)), "}") ->
            Parsed(Object(<<>>), Tail(SkipWhitespace(Tail(text))))
      [] Starts(text, "[") /\ Starts(SkipWhitespace(Tail(text)), "]") ->
            Parsed(Array(<<>>), Tail(SkipWhitespace(Tail(text))))
      [] Starts(text, "{") /\ ~Starts(SkipWhitespace(Tail(text)), "}") ->
            ParseItems(Tail(text), "object", <<>>)
      [] Starts(text, "[") /\ ~Starts(SkipWhitespace(Tail(text)), "]") ->
            ParseItems(Tail(text), "array", <<>>)
      [] StartsString(text) -> Parsed(String(Unescaped(text[1].chars)), Tail(text))
      [] text # <<>> /\ "number" \in DOMAIN text[1] -> Parsed(text[1], Tail(text))
      [] OTHER -> Failed

Parse(text) ==
    LET read == ParseValue(SkipWhitespace(text)) IN
    IF SkipWhitespace(read.rest) = <<>> THEN read.value ELSE Error

(***************************************************************************)
(* The tool's renderer: a container is wrapped if it holds another.        *)
(***************************************************************************)
IsContainer(value) == value.is \in {"array", "object"}
WriteSequence(open, close, wrap, texts) ==
    LET line == IF wrap THEN <<Space>> ELSE <<>>
        item(i) == (IF i > 1 THEN <<Mark(",")>> ELSE <<>>) \o line \o texts[i] IN
    IF texts = <<>> THEN <<Mark(open), Mark(close)>>
    ELSE <<Mark(open)>> \o FlattenSeq([i \in DOMAIN texts |-> item(i)]) \o line \o <<Mark(close)>>

RECURSIVE WriteValue(_)
WriteValue(value) ==
    CASE value.is = "number" -> <<value>>
      [] value.is = "string" -> <<String(WriteString(value.chars))>>
      [] value.is = "array" ->
            WriteSequence("[", "]", \E i \in DOMAIN value.items : IsContainer(value.items[i]),
                          [i \in DOMAIN value.items |-> WriteValue(value.items[i])])
      [] value.is = "object" ->
            WriteSequence("{", "}", \E i \in DOMAIN value.items : IsContainer(value.items[i].value),
                          [i \in DOMAIN value.items |->
                              <<String(WriteString(value.items[i].key)), Mark(":")>>
                                  \o WriteValue(value.items[i].value)])
-----------------------------------------------------------------------------
(* What the tool reads is what the library wrote, from a file or out of a  *)
(* page, and what it writes back it reads the same again.                  *)
RoundTrips(value) ==
    /\ \A layout \in {"wrap", "inline"} :
           LET text == Written(value, layout) IN
           /\ Parse(text) = value
           /\ Parse(InPage(text)) = value
    /\ Parse(WriteValue(value)) = value

(* Nothing in a string can end it, or the script element it stands in; and *)
(* it reads as it was.                                                     *)
StringIsSafe(bytes) ==
    LET chars == ScriptSafe(WriteString(bytes)) IN
    /\ Range(chars) \cap {Quote, Backslash, Control, Opener} = {}
    /\ \A i \in DOMAIN chars : ~IsSeparator(chars, i)
    /\ Unescaped(chars) = bytes

(* A text cut short is refused, never read as something less. *)
TruncatedIsRefused(value) ==
    LET text == Written(value, "wrap") IN
    IsContainer(value) => \A n \in 0..(Len(text) - 1) : Parse(SubSeq(text, 1, n)) = Error
=============================================================================
