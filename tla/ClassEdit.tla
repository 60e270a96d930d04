----------------------------- MODULE ClassEdit -----------------------------
(***************************************************************************)
(* native/class_edit.cpp and the callback of native/connection_hook.cpp:   *)
(* a static call to the hook bridge, once the proxy has written that class *)
(* (ClassFile), is put before the code of Connection.channelActive.        *)
(*                                                                         *)
(* A class file is its constant pool and its methods.  What is not edited  *)
(* (interfaces, fields, attributes) is copied byte for byte and left out.  *)
(* Code is known by its length and by the tables that speak of positions   *)
(* in it: exception handlers, stack-map frames, line numbers and local     *)
(* variables.  Outside the domain: frames with uninitialized types, whose  *)
(* offset the editor leaves as it is, and switch instructions, whose       *)
(* padding it does not realign.                                            *)
(***************************************************************************)
EXTENDS ClassFile

CONSTANTS
  Files,               \* the class files: [entries, methods]
  Target, TargetType,  \* channelActive and its descriptor
  Owner, Callee, CalleeType, \* the method of the hook bridge
  Delta, ExtraStack,   \* of the inserted code: its length, what it pushes
  Narrow,              \* 63: the largest offset in a one-byte frame
  U2,                  \* 65536, of a position in the code
  PoolU2               \* 65536, of an index into the pool

NoCode == [len |-> 0]

Entries ==
  [tag : {"utf8"}, text : STRING] \cup {Wide} \cup
  [tag : {"class", "name and type", "method", "field", "string"}, of : Seq(Nat)]

FrameTypes == [kind : {"same", "one item", "other"}, ext : BOOLEAN, offset : Nat]
CodeTypes ==
  [len : Nat, stack : Nat, handlers : Seq([from : Nat, to : Nat, at : Nat]), frames : Seq(FrameTypes),
   lines : Seq(Nat), vars : Seq([start : Nat, length : Nat, slot : Nat])]

\* The instructions that frames describe: each frame counts from the one before.
Describe(frames, pcs) ==
  \A i \in DOMAIN frames :
    pcs[i] = IF i = 1 THEN frames[i].offset ELSE pcs[i - 1] + frames[i].offset + 1

\* What the JVM specification asks of the code of a file that was loaded.
WellFormed(code) ==
  /\ \E pcs \in [DOMAIN code.frames -> 0..(code.len - 1)] : Describe(code.frames, pcs)
  /\ \A i \in DOMAIN code.frames : ~code.frames[i].ext => code.frames[i].offset <= Narrow
  /\ \A i \in DOMAIN code.vars : code.vars[i].start + code.vars[i].length <= code.len
  /\ \A i \in DOMAIN code.handlers :
       LET h == code.handlers[i] IN h.from < h.to /\ h.to <= code.len /\ h.at < code.len
  /\ \A i \in DOMAIN code.lines : code.lines[i] < code.len

\* The indexes that a file's entries take, a wide entry two.
Taken(entries) ==
  UNION {{IndexOf(entries, i)} \cup (IF entries[i] = Wide THEN {IndexOf(entries, i) + 1} ELSE {}) :
         i \in DOMAIN entries}

\* and of the file itself, whose count of indexes and 0 is a u2.
Loadable(f) ==
  /\ f.entries \in Seq(Entries)
  /\ Taken(f.entries) \subseteq 1..(PoolU2 - 2)
  /\ f.methods \in Seq([name : Nat, type : Nat, code : CodeTypes \cup {NoCode}])
  /\ \A i, j \in DOMAIN f.methods :
       /\ \E e \in ToSet(f.entries) :
            Denotes(f.entries, f.methods[i].name, e) /\ Denotes(f.entries, f.methods[j].name, e)
       /\ \E e \in ToSet(f.entries) :
            Denotes(f.entries, f.methods[i].type, e) /\ Denotes(f.entries, f.methods[j].type, e)
       => i = j
  /\ \A i \in DOMAIN f.methods :
       LET method == f.methods[i]
       IN /\ \E k \in DOMAIN f.entries : IndexOf(f.entries, k) = method.name
          /\ \E k \in DOMAIN f.entries : IndexOf(f.entries, k) = method.type
          /\ method.code # NoCode => WellFormed(method.code) /\ method.code.len + Delta < U2

ASSUME FilesAreLoadable == \A f \in Files : Loadable(f)
\* A method's code is the attribute that is named by the first text "Code"; as
\* compilers write a class there is no second one.
ASSUME CodeIsOnce ==
  \A f \in Files : \A i, j \in DOMAIN f.entries :
    f.entries[i] = Utf8("Code") /\ f.entries[j] = Utf8("Code") => i = j
\* defineHookBridge
ASSUME BridgeHasCallee ==
  \A b \in Builds : b.this = Owner =>
    [op |-> "native", name |-> Callee, type |-> CalleeType, flags |-> {"static"}] \in ToSet(b.calls)
ASSUME NamesAreTexts == {Target, TargetType, Owner, Callee, CalleeType} \subseteq STRING
ASSUME SizesAreNat ==
  Delta \in Nat /\ ExtraStack \in Nat /\ Narrow \in Nat /\ U2 \in Nat \ {0} /\ PoolU2 \in Nat \ {0}

VARIABLES
  file,     \* what the JVM hands to the callback
  step,     \* waiting, read, parsed, referenced, prepended; then written, refused or stuck
  pool,     \* cp_, with index 0 left out
  methods,  \* methods_; a method whose code has the insertion says so
  mref,     \* the index that the inserted call uses
  written   \* the new class file

editVars == <<file, step, pool, methods, mref, written>>
vars == <<builderVars, editVars>>

Empty == [entries |-> <<>>, methods |-> <<>>]
NotWritten == [entries |-> <<>>, methods |-> <<>>, count |-> 0]

Init ==
  /\ InitBuilder
  /\ file = Empty /\ step = "waiting"
  /\ pool = <<>> /\ methods = <<>> /\ mref = 0 /\ written = NotWritten

-----------------------------------------------------------------------------
\* ClassFileLoadHookCallback: a Connection is loaded while the bridge is there.
ClassFileLoadHook ==
  /\ step = "waiting" /\ step' = "read"
  /\ built.state = "built" /\ asked.this = Owner
  /\ file' \in Files
  /\ UNCHANGED <<pool, methods, mref, written>>

\* parse: a wide entry takes two indexes.  mutant: it takes one.
SlotsOfOne(entries) == entries
Slots(entries) ==
  FlattenSeq([i \in DOMAIN entries |-> IF entries[i] = Wide THEN <<Wide, Gap>> ELSE <<entries[i]>>])

Unedited(method) ==
  [name |-> method.name, type |-> method.type, code |-> method.code, inserted |-> FALSE]

Parse ==
  /\ step = "read" /\ step' = "parsed"
  /\ pool' = Slots(file.entries)
  /\ methods' = [i \in DOMAIN file.methods |-> Unedited(file.methods[i])]
  /\ UNCHANGED <<file, mref, written>>

\* The first index of an entry, 0 if there is none: what a search found, or the
\* cast of cp_.size() in addRawEntry.
Find(entries, entry) == SelectInSeq(entries, LAMBDA e : e = entry) % PoolU2

\* cp_.size()
Size(entries) == Len(entries) + 1

\* A size that is out of reach for the u2 that counts up to it: the search that finds
\* nothing never ends.  mutant: the counter is wide enough.
NeverEndless(size) == FALSE
Endless(size) == size >= PoolU2

\* addUtf8, addClass, addNameAndType, addMethodRef: an entry that is there is used.
Added(entries, entry) == IF Find(entries, entry) # 0 THEN entries ELSE Append(entries, entry)

ClassOf(entries, class) == Class(Find(entries, Utf8(class)))
WithClass(entries, class) ==
  LET named == Added(entries, Utf8(class)) IN Added(named, ClassOf(named, class))

MemberOf(entries, name, type) == NameAndType(Find(entries, Utf8(name)), Find(entries, Utf8(type)))
WithNameAndType(entries, name, type) ==
  LET named == Added(Added(entries, Utf8(name)), Utf8(type)) IN Added(named, MemberOf(named, name, type))

RefOf(entries, class, name, type) ==
  MethodRef(Find(entries, ClassOf(entries, class)), Find(entries, MemberOf(entries, name, type)))
WithMethodRef(entries, class, name, type) ==
  LET known == WithNameAndType(WithClass(entries, class), name, type)
  IN Added(known, RefOf(known, class, name, type))

\* The last entry it appends was searched for without it, the others in less.
AddMethodRef ==
  LET grown == WithMethodRef(pool, Owner, Callee, CalleeType)
  IN /\ step = "parsed"
     /\ IF Endless(Size(grown) - 1)
        THEN step' = "stuck" /\ UNCHANGED <<pool, mref>>
        ELSE /\ step' = "referenced"
             /\ pool' = grown
             /\ mref' = Find(grown, RefOf(grown, Owner, Callee, CalleeType))
     /\ UNCHANGED <<file, methods, written>>

-----------------------------------------------------------------------------
Moved(pc) == (pc + Delta) % U2

\* shiftStackMap: offsets are relative to the frame before, but for the first.  A
\* one-byte frame whose offset does not fit any more becomes an extended one.
\* mutant: all are moved.
MoveFrame(frame) ==
  [frame EXCEPT !.offset = Moved(@), !.ext = @ \/ frame.offset + Delta > Narrow]

ShiftAllFrames(frames) == [i \in DOMAIN frames |-> MoveFrame(frames[i])]
ShiftStackMap(frames) ==
  [i \in DOMAIN frames |-> IF i = 1 THEN MoveFrame(frames[i]) ELSE frames[i]]

ShiftLineNumberTable(lines) == [i \in DOMAIN lines |-> Moved(lines[i])]

\* shiftLocalVarTable: what is visible from the start is visible in the insertion,
\* too.
MoveVar(v) ==
  IF v.start = 0 THEN [v EXCEPT !.length = Moved(@)] ELSE [v EXCEPT !.start = Moved(@)]
ShiftLocalVarTable(table) == [i \in DOMAIN table |-> MoveVar(table[i])]

\* mutant: what is guarded from the start is guarded in the insertion, too.
MoveHandlerFromStart(h) ==
  [h EXCEPT !.from = IF @ = 0 THEN 0 ELSE Moved(@), !.to = Moved(@), !.at = Moved(@)]
MoveHandler(h) == [h EXCEPT !.from = Moved(@), !.to = Moved(@), !.at = Moved(@)]
MoveHandlers(handlers) == [i \in DOMAIN handlers |-> MoveHandler(handlers[i])]

\* rebuildCodeAttribute
Rebuilt(code) ==
  [len |-> code.len + Delta,
   stack |-> IF ExtraStack > code.stack THEN ExtraStack ELSE code.stack,
   handlers |-> MoveHandlers(code.handlers),
   frames |-> ShiftStackMap(code.frames),
   lines |-> ShiftLineNumberTable(code.lines),
   vars |-> ShiftLocalVarTable(code.vars)]

Edited(method) ==
  [name |-> method.name, type |-> method.type, code |-> Rebuilt(method.code), inserted |-> TRUE]

\* prependToMethodCode: the first method of that name and descriptor, if it has
\* code; all three texts are searched for.  mutant: the name is enough.
MatchesName(method, name, type) == method.name = name
Matches(method, name, type) == method.name = name /\ method.type = type

Prepend ==
  LET name == Find(pool, Utf8(Target))
      type == Find(pool, Utf8(TargetType))
      i == SelectInSeq(methods, LAMBDA m : Matches(m, name, type))
      missing == name = 0 \/ type = 0
  IN /\ step = "referenced"
     /\ \/ /\ Endless(Size(pool)) /\ (missing \/ (i # 0 /\ Find(pool, Utf8("Code")) = 0))
           /\ step' = "stuck" /\ UNCHANGED <<pool, methods>>
        \/ /\ (missing /\ ~Endless(Size(pool))) \/ (~missing /\ i = 0)
           /\ step' = "refused" /\ UNCHANGED <<pool, methods>>
        \/ /\ ~missing /\ i # 0 /\ (Endless(Size(pool)) => Find(pool, Utf8("Code")) # 0)
           /\ step' = "prepended"
           /\ pool' = Added(pool, Utf8("Code"))
           /\ methods' = IF methods[i].code = NoCode THEN methods
                         ELSE [methods EXCEPT ![i] = Edited(@)]
     /\ UNCHANGED <<file, mref, written>>

\* What of the pool is written.
Kept(slots) == FlattenSeq([i \in DOMAIN slots |-> IF slots[i] = Gap THEN <<>> ELSE <<slots[i]>>])

\* serialize, and the JVM takes the new file unless there is no memory for it; the
\* file of an endless pool takes all the memory there is.
Serialize ==
  /\ step = "prepended"
  /\ \/ /\ ~Endless(Size(pool)) /\ step' = "written"
        /\ written' = [entries |-> Kept(pool), methods |-> methods, count |-> Size(pool) % PoolU2]
     \/ step' = "refused" /\ UNCHANGED written
  /\ UNCHANGED <<file, pool, methods, mref>>

EditStep == ClassFileLoadHook \/ Parse \/ AddMethodRef \/ Prepend \/ Serialize

Next ==
  \/ BuilderStep /\ UNCHANGED editVars
  \/ EditStep /\ UNCHANGED builderVars

Spec == Init /\ [][Next]_vars

-----------------------------------------------------------------------------
Changed == {i \in DOMAIN written.methods : written.methods[i].inserted}
EachEdit(P(_, _)) ==
  step = "written" => \A i \in Changed : P(file.methods[i].code, written.methods[i].code)

\* In a class the proxy wrote every index denotes what it was asked for.  In the
\* edited class the inserted call's index denotes the bridge's method, every index
\* of the old file what it denoted before, wide entries or not, and the count says
\* how many indexes there are, however full the pool was
\* (classfile.cpp:31-127, 159-200, class_edit.cpp:82-95, 155-235, 514-521).
IndexesKeepMeaning ==
  /\ BuiltAsAsked
  /\ step = "written" =>
    /\ RefersTo(written.entries, mref, MethodRef, Owner, Callee, CalleeType)
    /\ \A i \in DOMAIN file.entries :
         Denotes(written.entries, IndexOf(file.entries, i), file.entries[i])
    /\ Taken(written.entries) = 1..(written.count - 1)

\* A method of the class the proxy built, as the inserted call needs it.
Bridged(m) ==
  /\ m.flags = {"static", "native"}
  /\ m.name \in Named(built.entries, Callee) /\ m.type \in Named(built.entries, CalleeType)

\* What the new Connection does and the old did not is one thing: its
\* channelActive, whatever overloads there are, calls a static method that the
\* bridge class really has (classfile.cpp:129-138, class_edit.cpp:389-399, trampolines.cpp:73-77,
\* connection_hook.cpp:43-56).
CallIsTheEdit ==
  step = "written" =>
    /\ \E i \in DOMAIN built.methods : Bridged(built.methods[i])
    /\ \A i \in DOMAIN file.methods :
         LET method == file.methods[i]
         IN IF /\ Denotes(file.entries, method.name, Utf8(Target))
               /\ Denotes(file.entries, method.type, Utf8(TargetType)) /\ method.code # NoCode
            THEN i \in Changed
            ELSE written.methods[i] = Unedited(method)

\* Every stack-map frame describes the instruction it described before, in a form
\* that can hold its offset (class_edit.cpp:237-339).
FramesFollowCode == EachEdit(LAMBDA old, new :
  /\ DOMAIN new.frames = DOMAIN old.frames
  /\ \A pcs \in [DOMAIN old.frames -> 0..(old.len - 1)] :
       Describe(old.frames, pcs) => Describe(new.frames, [i \in DOMAIN pcs |-> pcs[i] + Delta])
  /\ \A i \in DOMAIN old.frames :
       /\ new.frames[i].kind = old.frames[i].kind
       /\ ~new.frames[i].ext => new.frames[i].offset <= Narrow)

\* At every old instruction the same variables are visible, the same handlers
\* guard it and the same lines begin, and what the inserted call throws is not
\* caught by the method (class_edit.cpp:341-379, 446, 475-487).
VisibleAt(code, pc) == {v \in ToSet(code.vars) : pc \in v.start..(v.start + v.length - 1)}
GuardedAt(code, pc) == {h \in ToSet(code.handlers) : pc \in h.from..(h.to - 1)}
ScopesFollowCode == EachEdit(LAMBDA old, new :
  /\ \A pc \in 0..(old.len - 1) :
       /\ {v.slot : v \in VisibleAt(new, pc + Delta)} = {v.slot : v \in VisibleAt(old, pc)}
       /\ {h.at - Delta : h \in GuardedAt(new, pc + Delta)} = {h.at : h \in GuardedAt(old, pc)}
       /\ pc + Delta \in ToSet(new.lines) <=> pc \in ToSet(old.lines)
  /\ \A pc \in 0..(Delta - 1) : GuardedAt(new, pc) = {}
  /\ new.stack >= ExtraStack /\ new.stack >= old.stack)
=============================================================================
