---------------------------- MODULE MCClassEdit ----------------------------
(***************************************************************************)
(* ClassEdit for TLC: small class files, built and edited.                 *)
(***************************************************************************)
EXTENDS ClassEdit

\* Code of up to MaxLen bytes.
MaxLen == 6

Plain(len) == [len |-> len, stack |-> 1, handlers |-> <<>>, frames |-> <<>>, lines |-> <<0>>, vars |-> <<>>]

\* One or two frames, of every form.
Frames == [kind : {"same", "one item"}, ext : BOOLEAN, offset : 0..(MaxLen - 1)] \cup
          [kind : {"other"}, ext : {TRUE}, offset : 0..(MaxLen - 1)]
WithFrames == {c \in {[Plain(MaxLen) EXCEPT !.frames = fs] : fs \in SeqOf(Frames, 2)} : WellFormed(c)}

\* A parameter and a local variable.
Vars(slot) == [start : 0..(MaxLen - 1), length : 0..MaxLen, slot : {slot}]
WithVars == {c \in {[Plain(MaxLen) EXCEPT !.vars = <<v, w>>, !.lines = <<0, 3>>] : v \in Vars(0), w \in Vars(1)} :
               WellFormed(c)}

Handlers == [from : 0..(MaxLen - 1), to : 1..MaxLen, at : 0..(MaxLen - 1)]
WithHandlers == {c \in {[Plain(MaxLen) EXCEPT !.handlers = <<h>>, !.stack = 3] : h \in Handlers} : WellFormed(c)}

Codes == WithFrames \cup WithVars \cup WithHandlers \cup {Plain(len) : len \in 1..MaxLen}

\* Pools: the target's names, another descriptor, and what may be there already
\* of the call's; a wide entry before or between.
Names == <<Utf8("channelActive"), Utf8("(ctx)V"), Utf8("()V")>>
WideFirst == <<Wide>> \o Names \o <<Utf8("Code"), Utf8("Bridge"), Class(7)>>
Pools ==
  {Names, Names \o <<Utf8("Code"), Wide, Utf8("Bridge"), Class(7)>>,
   Names \o <<Utf8("onChannelActive"), NameAndType(4, 2), Utf8("Code"), Wide>>,
   Names \o <<Utf8("Bridge"), Utf8("onChannelActive"), Utf8("(conn,ctx)V"), Class(4),
              NameAndType(5, 6), MethodRef(7, 8)>>}
\* The target's name twice, a method has the second one.
NameTwice == <<Utf8("channelActive"), Utf8("(ctx)V"), Wide, Utf8("channelActive"), Utf8("()V")>>

\* Pools that leave just room for the call's entries and "Code", or less: all of it,
\* only "Code", or nothing is there, a wide entry last.
Padding(n) == [i \in 1..n |-> Utf8("padding")]
NearlyFull ==
  {Names \o Padding(n) : n \in 3..10} \cup {Names \o <<Utf8("Code")>> \o Padding(n) \o <<Wide>> : n \in 1..7} \cup
  {Names \o <<Utf8("Bridge"), Utf8("onChannelActive"), Utf8("(conn,ctx)V"), Class(4),
              NameAndType(5, 6), MethodRef(7, 8)>> \o Padding(n) : n \in 3..4}

-----------------------------------------------------------------------------
Native(name, type, flags) == [op |-> "native", name |-> name, type |-> type, flags |-> flags]
Coded(name, type) == [op |-> "coded", name |-> name, type |-> type, flags |-> {}]
Ref(op, owner, name, type) == [op |-> op, owner |-> owner, name |-> name, type |-> type]

\* The hook bridge, a subclass with a constructor as all the others are, and
\* classes of three calls in which a name is also a type, an owner or a text.
Bridge == [this |-> "Bridge", super |-> "Object",
           calls |-> <<Native("trace", "(s)V", {"static"}), Native("onChannelActive", "(conn,ctx)V", {"static"})>>]
Handler == [this |-> "Handler", super |-> "Thread",
            calls |-> <<Ref("method", "Thread", "<init>", "()V"), Coded("<init>", "()V"), Native("run", "()V", {})>>]
AnyCall == {Ref(op, owner, name, "a") : op \in {"method", "field"}, owner \in {"a", "b"}, name \in {"a", "b"}} \cup
           {[op |-> "string", text |-> "a"], [op |-> "string", text |-> "Code"],
            Coded("a", "Code"), Native("b", "a", {})}
AnyClass == [this : {"b"}, super : {"a"}, calls : [1..3 -> AnyCall]]
\* More entries than a pool holds.
TooLarge == [this |-> "Large", super |-> "Object",
             calls |-> <<Ref("method", "a", "b", "c"), Ref("field", "d", "e", "f")>>]
AllBuilds == {Bridge, Handler, TooLarge} \cup AnyClass

-----------------------------------------------------------------------------
Method(name, type, code) == [name |-> name, type |-> type, code |-> code]

\* The target alone, after or before an overload, without code, or missing.
Bodies(first, code) ==
  LET target == Method(first, first + 1, code)
      other == Method(first, first + 2, Plain(2))
  IN {<<target>>, <<other, target>>, <<target, other>>}

Small == {Plain(1)} \cup {c \in WithFrames : Len(c.frames) = 1}
AllFiles ==
  {[entries |-> Names \o <<Utf8("Code")>>, methods |-> <<Method(1, 2, code)>>] : code \in Codes} \cup
  UNION {{[entries |-> entries, methods |-> ms] : entries \in Pools, ms \in Bodies(1, code)} : code \in Small} \cup
  UNION {{[entries |-> WideFirst, methods |-> ms] : ms \in Bodies(3, code)} : code \in Small} \cup
  {[entries |-> entries, methods |-> <<Method(1, type, Plain(2))>>] : entries \in NearlyFull, type \in {2, 3}} \cup
  {[entries |-> Padding(n), methods |-> <<Method(1, 1, Plain(2))>>] : n \in 8..9} \cup
  {[entries |-> Names, methods |-> <<Method(1, 3, Plain(2))>>],
   [entries |-> <<Utf8("()V"), Utf8("other"), Wide>>, methods |-> <<Method(2, 1, Plain(2))>>],
   [entries |-> NameTwice, methods |-> <<Method(5, 2, Plain(2)), Method(1, 6, Plain(2))>>],
   [entries |-> Names, methods |-> <<Method(1, 2, NoCode), Method(1, 3, Plain(2))>>]}
=============================================================================
