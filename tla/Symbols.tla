------------------------------ MODULE Symbols -------------------------------
(***************************************************************************)
(* What an address is called and which frames of a stack are shown:        *)
(* symbol/modules.rs, mod.rs, labels.rs and trim.rs in the process, and    *)
(* heapscope-symbolize's profile.rs after it.                              *)
(*                                                                         *)
(* An address is a number modulo MODULUS.  A function is what the trimming *)
(* makes of its name: of the program, on the allocation path, the          *)
(* runtime's marker, or without a name.                                    *)
(***************************************************************************)
EXTENDS Integers, FiniteSetsExt, SequencesExt

CONSTANT MODULUS  \* of an address

ModulusAssumption == MODULUS \in Nat \ {0}

Addresses == 0..(MODULUS - 1)
MAX == MODULUS - 1
WrappingAdd(a, b) == (a + b) % MODULUS
WrappingSub(a, b) == (a - b) % MODULUS
None == "none"

(***************************************************************************)
(* modules.rs: what dl_iterate_phdr says of an image, as a module: the     *)
(* hull of its executable segments, moved by where it was loaded.          *)
(***************************************************************************)
Executable(image) == {s \in image.segments : s.executable /\ s.extent > 0}
CodeStart(image) == Min({s.address : s \in Executable(image)})
CodeEnd(image) == Max({Min({s.address + s.extent, MAX}) : s \in Executable(image)})

Described(image) == Executable(image) # {} /\ CodeEnd(image) > CodeStart(image)
Visit(image) ==
    [path |-> image.path, start |-> WrappingAdd(image.address, CodeStart(image)),
     size |-> CodeEnd(image) - CodeStart(image), bias |-> image.address]

(* capture: by where they start. *)
Capture(images) ==
    SetToSortSeq({Visit(image) : image \in {i \in images : Described(i)}},
                 LAMBDA a, b : a.start < b.start)

Holds(module, address) == address >= module.start /\ address - module.start < module.size
FileAddress(module, address) == WrappingSub(address, module.bias)

(* index_containing: the last module to start at or below the address.     *)
IndexContaining(modules, address) ==
    LET at == Cardinality({i \in DOMAIN modules : modules[i].start <= address}) IN
    IF at > 0 /\ Holds(modules[at], address) THEN at ELSE 0

(***************************************************************************)
(* mod.rs: a return address is looked up as the call before it, and        *)
(* answered as itself.                                                     *)
(***************************************************************************)
HasCallSite(address) == address > 0
CallSiteItself(address) == address
CallSite(address) == address - 1

Nowhere == [module |-> 0, file_address |-> 0]
Locate(modules, address) ==
    IF ~HasCallSite(address) \/ IndexContaining(modules, CallSite(address)) = 0 THEN Nowhere
    ELSE LET at == IndexContaining(modules, CallSite(address)) IN
         [module |-> at,
          file_address |-> FileAddress(modules[at], CallSite(address))
                               + (address - CallSite(address))]

(* The address heapscope-symbolize asks a tool about: Profile::batches.    *)
AskedFor(modules, address, runtime) ==
    CallSite(IF runtime THEN address ELSE Locate(modules, address).file_address)

(***************************************************************************)
(* labels.rs: an image is called by its file name, or by its path where    *)
(* two paths share one.  A path is the sequence of its components.         *)
(***************************************************************************)
FileName(path) == Last(path)
NameIsShared(paths, path) ==
    \E other \in Range(paths) : other # path /\ FileName(other) = FileName(path)
ImageLabels(paths) ==
    [i \in DOMAIN paths |->
        IF FileName(paths[i]) = "" \/ NameIsShared(paths, paths[i]) THEN paths[i]
        ELSE <<FileName(paths[i])>>]

(***************************************************************************)
(* trim.rs, worth_showing_by: from the first frame off the allocation path *)
(* to the last before the runtime's marker, and always one.                *)
(***************************************************************************)
Classes == {"program", "allocation", "runtime", "unnamed"}
FirstRuntime(frames) == SelectInSeq(frames, LAMBDA frame : frame = "runtime")
KeptEnd(frames) ==
    IF FirstRuntime(frames) = 0 THEN Len(frames) ELSE Max({FirstRuntime(frames) - 1, 1})
KeptStart(frames) ==
    Max({n \in 0..(KeptEnd(frames) - 1) : \A i \in 1..n : frames[i] = "allocation"})
WorthShowing(frames) ==
    IF frames = <<>> THEN [start |-> 0, end |-> 0]
    ELSE [start |-> KeptStart(frames), end |-> KeptEnd(frames)]

(* Trimmed::keep, inside what another format keeps. *)
TrimmedKeep(inner, frames) ==
    [start |-> Max({inner.start, WorthShowing(frames).start}),
     end |-> Min({inner.end, WorthShowing(frames).end})]

(***************************************************************************)
(* profile.rs, worth_showing_inlined: a frame is every function its        *)
(* address is in, innermost first; the rule is put to the functions of the *)
(* whole stack, and a frame is named by the last of its own that is kept.  *)
(***************************************************************************)
Owners(stack) ==
    FlattenSeq([f \in DOMAIN stack |-> [i \in DOMAIN stack[f] |-> <<f, i>>]])
Place(shown, owner) ==
    IF shown # <<>> /\ Last(shown)[1] = owner[1]
    THEN Append(Front(shown), owner) ELSE Append(shown, owner)

WorthShowingInlined(stack) ==
    LET keep == WorthShowing(FlattenSeq(stack)) IN
    FoldLeft(Place, <<>>, SubSeq(Owners(stack), keep.start + 1, keep.end))

(***************************************************************************)
(* A frame of a profile has what a tool said of it, if one did, and the    *)
(* symbol the process knew.  A tool's answer is a sequence of functions    *)
(* with a name, a file, or both.                                           *)
(***************************************************************************)
Answered(frame) == frame.function # None \/ frame.file # None
ToAsk(frames) == {at \in DOMAIN frames : ~Answered(frames[at]) /\ frames[at].module > 0}

ResolveFrame(frame, answer) ==
    [frame EXCEPT
        !.function = IF answer[1].function # None THEN answer[1].function ELSE @,
        !.file = IF answer[1].file # None THEN answer[1].file ELSE @,
        !.inlinedBy = IF Len(answer) > 1 THEN Tail(answer) ELSE @]

(* symbolize: an image that is not there, or that the tool failed on, is   *)
(* skipped; the others' answers are applied as they come.                  *)
Symbolize(frames, tool) ==
    LET asked == {at \in ToAsk(frames) : frames[at].module \in DOMAIN tool}
        resolved == {at \in asked : tool[frames[at].module][at] # <<>>} IN
    [frames |-> [at \in DOMAIN frames |->
         IF at \in resolved THEN ResolveFrame(frames[at], tool[frames[at].module][at])
         ELSE frames[at]],
     asked |-> Cardinality(asked), resolved |-> Cardinality(resolved)]
Succeeds(outcome) == ~(outcome.resolved = 0 /\ outcome.asked > 0)

(* functions_of: the symbol stands for the outermost function alone. *)
FunctionsOf(frame) ==
    LET entries == <<[function |-> frame.function, file |-> frame.file]>> \o frame.inlinedBy IN
    [level \in DOMAIN entries |->
        CASE entries[level].function # None -> entries[level].function
          [] entries[level].function = None /\ level = Len(entries) -> frame.symbol
          [] OTHER -> None]
-----------------------------------------------------------------------------
(* What a loader may have loaded: code that does not meet, nor wrap.       *)
Loaded(image) == {WrappingAdd(image.address, a) : a \in CodeStart(image)..(CodeEnd(image) - 1)}
CanBeLoaded(images) ==
    /\ \A i \in images : Described(i) =>
           WrappingAdd(i.address, CodeStart(i)) + CodeEnd(i) - CodeStart(i) <= MAX
    /\ \A i, j \in {k \in images : Described(k)} : i # j => Loaded(i) \cap Loaded(j) = {}

(* An address is in an image when the call before it is: the one past its   *)
(* code is, its first is not, and 0 is in none.  What it is called in the   *)
(* file leads back to it (mod.rs, locate; modules.rs, capture).            *)
LocatesExactly(images, address) ==
    CanBeLoaded(images) =>
        LET modules == Capture(images)
            found == Locate(modules, address)
            holding == {i \in images : Described(i) /\ address > 0 /\ address - 1 \in Loaded(i)} IN
        /\ found.module = 0 <=> holding = {}
        /\ \A i \in holding :
               /\ modules[found.module] = Visit(i)
               /\ found.file_address \in Addresses
               /\ WrappingAdd(found.file_address, i.address) = address
               /\ \A runtime \in BOOLEAN :
                      AskedFor(modules, address, runtime)
                          = WrappingSub(address - 1, IF runtime THEN 0 ELSE i.address)

(* Two images are called the same only when they are the same file          *)
(* (labels.rs, image_labels).                                              *)
LabelsAreDistinct(paths) ==
    \A i, j \in DOMAIN paths : ImageLabels(paths)[i] = ImageLabels(paths)[j] <=> paths[i] = paths[j]

(* Trimming leaves something of every stack, drops only the allocation path *)
(* from the front and the runtime from the back, no frame of the program    *)
(* between them, and has nothing left to do the second time, on what it    *)
(* kept or wrapped in another one (trim.rs).                               *)
TrimsTheEnds(frames) ==
    LET keep == WorthShowing(frames)
        kept == SubSeq(frames, keep.start + 1, keep.end) IN
    frames # <<>> =>
        /\ kept # <<>>
        /\ \A i \in DOMAIN frames :
               /\ i <= keep.start => frames[i] = "allocation"
               /\ i > keep.end => \E j \in 1..i : frames[j] = "runtime"
        /\ Len(kept) > 1 => Head(kept) # "allocation" /\ \A i \in DOMAIN kept : kept[i] # "runtime"
        /\ WorthShowing(kept) = [start |-> 0, end |-> Len(kept)]
        /\ TrimmedKeep(keep, frames) = keep

(* A stack is shown the same functions however the compiler inlined them:   *)
(* a frame is there exactly when the rule keeps a function of its, once, in *)
(* order, under the last of those kept (profile.rs, worth_showing_inlined). *)
InliningIsSeenThrough(stack) ==
    LET keep == WorthShowing(FlattenSeq(stack))
        kept == Range(SubSeq(Owners(stack), keep.start + 1, keep.end))
        shown == WorthShowingInlined(stack) IN
    /\ {shown[i][1] : i \in DOMAIN shown} = {owner[1] : owner \in kept}
    /\ \A i, j \in DOMAIN shown : i < j => shown[i][1] < shown[j][1]
    /\ \A i \in DOMAIN shown :
           shown[i][2] = Max({owner[2] : owner \in {o \in kept : o[1] = shown[i][1]}})
    /\ (\A f \in DOMAIN stack : Len(stack[f]) = 1) =>
           Len(shown) = keep.end - keep.start

(* Symbolizing a profile again, with the same tool or another, asks nothing *)
(* that was answered and loses no answer; a frame in no image is never      *)
(* asked about, and every frame keeps a name for each of its functions or   *)
(* says that it has none (profile.rs, batches and resolve_frame).  Asking   *)
(* the same tool twice succeeds where it answered all it was asked (main.rs,*)
(* verdict).                                                               *)
SymbolizesOnce(frames, tool, again) ==
    LET first == Symbolize(frames, tool)
        second == Symbolize(first.frames, again)
        repeated == Symbolize(first.frames, tool) IN
    /\ repeated.frames = first.frames
    /\ Succeeds(repeated) <=> first.resolved = first.asked
    /\ \A at \in DOMAIN frames :
           /\ frames[at].module = 0 \/ Answered(frames[at]) => second.frames[at] = frames[at]
           /\ Answered(first.frames[at]) => second.frames[at] = first.frames[at]
           /\ Answered(second.frames[at]) /\ ~Answered(frames[at]) =>
                  \E asked \in {tool, again} :
                      /\ frames[at].module \in DOMAIN asked
                      /\ LET said == asked[frames[at].module][at] IN
                         /\ said # <<>>
                         /\ FunctionsOf(second.frames[at]) =
                                [level \in DOMAIN said |->
                                    IF said[level].function # None THEN said[level].function
                                    ELSE IF level = Len(said) THEN frames[at].symbol ELSE None]
    /\ first.resolved + second.resolved
           = Cardinality({at \in DOMAIN frames :
                              Answered(second.frames[at]) /\ ~Answered(frames[at])})
=============================================================================
