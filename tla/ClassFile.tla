----------------------------- MODULE ClassFile -----------------------------
(***************************************************************************)
(* ClassBuilder of native/classfile.cpp: the class files the proxy writes  *)
(* itself (the hook bridge, the relay and server handlers, the tasks for   *)
(* A's render thread), and how the JVM reads a class file.  A caller asks  *)
(* for entries and methods one after the other and builds the class at the *)
(* end; an entry that was asked for before is found by its key.            *)
(***************************************************************************)
EXTENDS Integers, FiniteSets, SequencesExt

CONSTANTS
  Builds,       \* the classes: [this, super, calls]
  PoolLimit     \* 65534: entries a pool can hold

Calls ==
  [op : {"method", "field"}, owner : STRING, name : STRING, type : STRING] \cup
  [op : {"string"}, text : STRING] \cup
  [op : {"native", "coded"}, name : STRING, type : STRING, flags : SUBSET STRING]

ASSUME BuildsAreCalls == Builds \subseteq [this : STRING, super : STRING, calls : Seq(Calls)]
ASSUME CodeIsText == "Code" \in STRING

Utf8(text) == [tag |-> "utf8", text |-> text]
Class(name) == [tag |-> "class", of |-> <<name>>]
NameAndType(name, type) == [tag |-> "name and type", of |-> <<name, type>>]
MethodRef(class, member) == [tag |-> "method", of |-> <<class, member>>]
FieldRef(class, member) == [tag |-> "field", of |-> <<class, member>>]
Text(utf8) == [tag |-> "string", of |-> <<utf8>>]
Wide == [tag |-> "wide"]   \* long and double
Gap == [tag |-> "none"]    \* the slot after a wide entry

VARIABLES
  asked,    \* the class that is built
  done,     \* the calls made for it
  cp,       \* cp_
  index,    \* utf8_index_, class_index_, nat_index_, ref_index_: key to index
  given,    \* the index each call returned, of a method its place in methods_
  members,  \* methods_
  built     \* the class file; its state before it is one

builderVars == <<asked, done, cp, index, given, members, built>>

NotBuilt == [state |-> "building"]
Thrown == [state |-> "thrown"]

InitBuilder ==
  /\ asked \in Builds /\ done = 0
  /\ cp = <<>> /\ index = <<>> /\ given = <<>> /\ members = <<>>
  /\ built = NotBuilt

-----------------------------------------------------------------------------
\* A pool with its keys; addEntry appends, the key finds it from then on.
Pool == [cp |-> cp, index |-> index]

Put(pool, key, entry) ==
  IF key \in DOMAIN pool.index THEN pool
  ELSE [cp |-> Append(pool.cp, entry), index |->
          [k \in DOMAIN pool.index \cup {key} |-> IF k = key THEN Len(pool.cp) + 1 ELSE pool.index[k]]]

WithText(pool, text) == Put(pool, <<"utf8", text>>, Utf8(text))
TextAt(pool, text) == pool.index[<<"utf8", text>>]

ClassKey(pool, name) == <<"class", TextAt(pool, name)>>
WithClassRef(pool, name) ==
  LET named == WithText(pool, name) IN Put(named, ClassKey(named, name), Class(TextAt(named, name)))

MemberKey(pool, name, type) == <<"name and type", TextAt(pool, name), TextAt(pool, type)>>
WithMember(pool, name, type) ==
  LET named == WithText(WithText(pool, name), type)
  IN Put(named, MemberKey(named, name, type), NameAndType(TextAt(named, name), TextAt(named, type)))

\* make_ref_key.  mutant: the key forgets whether a field or a method was meant.
RefKeyWithoutTag(tag, owner, member) == <<"ref", owner, member>>
RefKey(tag, owner, member) == <<tag, owner, member>>

\* methodRef and fieldRef
AskedRef(pool, ref) ==
  RefKey(ref.op, pool.index[ClassKey(pool, ref.owner)], pool.index[MemberKey(pool, ref.name, ref.type)])
WithRef(pool, ref) ==
  LET known == WithMember(WithClassRef(pool, ref.owner), ref.name, ref.type)
      owner == known.index[ClassKey(known, ref.owner)]
      member == known.index[MemberKey(known, ref.name, ref.type)]
  IN Put(known, AskedRef(known, ref),
         IF ref.op = "method" THEN MethodRef(owner, member) ELSE FieldRef(owner, member))

Ask(pool) == cp' = pool.cp /\ index' = pool.index

Entry(call) ==
  /\ call.op \in {"method", "field"}
  /\ Ask(WithRef(Pool, call))
  /\ given' = Append(given, index'[AskedRef(WithRef(Pool, call), call)])
  /\ UNCHANGED members

\* stringRef: its own entry is new each time.
StringRef(call) ==
  /\ call.op = "string"
  /\ LET named == WithText(Pool, call.text)
     IN Ask([named EXCEPT !.cp = Append(@, Text(TextAt(named, call.text)))])
  /\ given' = Append(given, Len(cp'))
  /\ UNCHANGED members

\* addNativeMethod and addCodedMethod
AddMethod(call) ==
  LET coded == IF call.op = "coded" THEN WithText(Pool, "Code") ELSE Pool
      pool == WithText(WithText(coded, call.name), call.type)
  IN /\ call.op \in {"native", "coded"}
     /\ Ask(pool)
     /\ members' = Append(members,
          [flags |-> call.flags \cup (IF call.op = "native" THEN {"native"} ELSE {}),
           name |-> TextAt(pool, call.name), type |-> TextAt(pool, call.type),
           code |-> IF call.op = "coded" THEN TextAt(pool, "Code") ELSE 0])
     /\ given' = Append(given, Len(members'))

\* The entry that does not fit any more throws.
Overflow == built' = IF Len(cp') > PoolLimit THEN Thrown ELSE built

Call ==
  LET call == asked.calls[done + 1]
  IN /\ built = NotBuilt /\ done < Len(asked.calls)
     /\ done' = done + 1
     /\ Entry(call) \/ StringRef(call) \/ AddMethod(call)
     /\ Overflow
     /\ UNCHANGED asked

\* build: the built's own names come last, before anything is written.
Build ==
  LET pool == WithClassRef(WithClassRef(Pool, asked.this), asked.super)
  IN /\ built = NotBuilt /\ done = Len(asked.calls)
     /\ Ask(pool)
     /\ built' = IF Len(pool.cp) > PoolLimit THEN Thrown
                 ELSE [state |-> "built", entries |-> pool.cp, methods |-> members,
                       this |-> pool.index[ClassKey(pool, asked.this)],
                       super |-> pool.index[ClassKey(pool, asked.super)]]
     /\ UNCHANGED <<asked, done, given, members>>

BuilderStep == Call \/ Build

-----------------------------------------------------------------------------
\* How the JVM reads a class file: the index of an entry, and what it denotes.
IndexOf(entries, i) == i + Cardinality({j \in 1..(i - 1) : entries[j] = Wide})
Denotes(entries, at, entry) ==
  \E i \in DOMAIN entries : IndexOf(entries, i) = at /\ entries[i] = entry
Named(entries, text) == {at \in 1..(2 * Len(entries)) : Denotes(entries, at, Utf8(text))}
IsClass(entries, at, name) == \E n \in Named(entries, name) : Denotes(entries, at, Class(n))
RefersTo(entries, at, Ref(_, _), owner, name, type) ==
  \E i, j, k \in DOMAIN entries :
    /\ IndexOf(entries, i) = at
    /\ entries[i] = Ref(IndexOf(entries, j), IndexOf(entries, k))
    /\ \E n \in Named(entries, owner) : entries[j] = Class(n)
    /\ \E n \in Named(entries, name), t \in Named(entries, type) : entries[k] = NameAndType(n, t)

\* What a call asked for is what its index denotes in the class file.
Answers(call, at) ==
  CASE call.op = "method" -> RefersTo(built.entries, at, MethodRef, call.owner, call.name, call.type)
    [] call.op = "field" -> RefersTo(built.entries, at, FieldRef, call.owner, call.name, call.type)
    [] call.op = "string" -> \E n \in Named(built.entries, call.text) : Denotes(built.entries, at, Text(n))
    [] OTHER ->
         LET method == built.methods[at]
         IN /\ method.name \in Named(built.entries, call.name)
            /\ method.type \in Named(built.entries, call.type)
            /\ IF call.op = "coded" THEN method.code \in Named(built.entries, "Code")
                                    ELSE method.code = 0

\* Every index in a class file the proxy wrote denotes what it was asked for,
\* whatever else the class shares its entries with (classfile.cpp:31-127, 159-200).
BuiltAsAsked ==
  built.state = "built" =>
    /\ IsClass(built.entries, built.this, asked.this)
    /\ IsClass(built.entries, built.super, asked.super)
    /\ \A i \in DOMAIN asked.calls : Answers(asked.calls[i], given[i])
=============================================================================
