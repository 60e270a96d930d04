--------------------------- MODULE ClassEditProofs ---------------------------
(***************************************************************************)
(* The class files that the proxy writes and edits, for all classes: what  *)
(* an index denotes, and what the edit of the code keeps.                  *)
(*                                                                         *)
(* parse and serialize go through a pool entry by entry.  Flattened says   *)
(* what FlattenSeq computes from one entry to the next, AllOfInterval goes *)
(* through them; from these SlotsHold and KeptHolds relate the indexes of  *)
(* a file to the places in the pool in both directions.  EditInv says what *)
(* each step of the edit hands to the next, BuilderInv that what was asked *)
(* of the builder stays answered while the pool grows.                     *)
(***************************************************************************)
EXTENDS ClassEdit, SequenceTheorems, FiniteSetTheorems, WellFoundedInduction, TLAPS

-----------------------------------------------------------------------------
\* A set of numbers up to a bound has a least one: what induction rests on here.
LEMMA LeastOfInterval ==
  ASSUME NEW n \in Nat, NEW I \in SUBSET (0..n), I # {}
  PROVE  \E m \in I : \A i \in I : m <= i
<1> DEFINE less == {ss \in Nat \X Nat : ss[1] < ss[2]}
<1>1. IsWellFoundedOn(less, Nat)
  BY NatLessThanWellFounded DEF OpToRel
<1>2. I \subseteq Nat
  OBVIOUS
<1>3. \E m \in I : \A i \in I : ~(<<i, m>> \in less)
  <2> HIDE DEF less
  <2> QED
    BY <1>1, <1>2, WFMin
<1>4. PICK m \in I : \A i \in I : ~(<<i, m>> \in less)
  BY <1>3
<1>5. \A i \in I : ~(i < m)
  BY <1>2, <1>4
<1> QED
  BY <1>2, <1>5

\* A set of numbers that has the first and with each one the next has all.
LEMMA AllOfInterval ==
  ASSUME NEW n \in Nat, NEW I, 0 \in I, \A i \in 0..n : i + 1 \in 0..n /\ i \in I => i + 1 \in I
  PROVE  0..n \subseteq I
<1> SUFFICES ASSUME (0..n) \ I # {} PROVE FALSE
  OBVIOUS
<1>1. PICK m \in (0..n) \ I : \A i \in (0..n) \ I : m <= i
  <2> DEFINE J == (0..n) \ I
  <2>1. J \in SUBSET (0..n) /\ J # {}
    OBVIOUS
  <2> HIDE DEF J
  <2>2. \E m \in J : \A i \in J : m <= i
    BY <2>1, LeastOfInterval
  <2> QED
    BY <2>2 DEF J
<1>2. m # 0 /\ m - 1 \in 0..n /\ (m - 1) + 1 = m
  BY <1>1
<1>3. m - 1 \in I
  BY <1>1, <1>2
<1> QED
  BY <1>1, <1>2, <1>3

-----------------------------------------------------------------------------
\* What FlattenSeq computes, one sequence after the other.
LEMMA Flattened ==
  ASSUME NEW S, NEW w \in Seq(Seq(S))
  PROVE  \E f \in [0..Len(w) -> Seq(S)] :
           /\ f[0] = <<>> /\ FlattenSeq(w) = f[Len(w)]
           /\ \A i \in 1..Len(w) : f[i] = f[i - 1] \o w[i]
<1>1. PICK n \in Nat : n = Len(w) /\ w \in [1..n -> Seq(S)]
  BY LenProperties
<1>2. CASE n = 0
  <2>1. w = <<>> /\ FlattenSeq(w) = w
    BY <1>1, <1>2, EmptySeq DEF FlattenSeq
  <2> DEFINE f == [i \in 0..n |-> <<>>]
  <2>2. f \in [0..n -> Seq(S)] /\ f[0] = <<>>
    BY EmptySeq
  <2> HIDE DEF f
  <2>3. f[0] = <<>> /\ FlattenSeq(w) = f[n] /\ \A i \in 1..n : f[i] = f[i - 1] \o w[i]
    BY <1>2, <2>1, <2>2
  <2> QED
    BY <1>1, <2>2, <2>3
<1>3. CASE n # 0
  <2> DEFINE Flat(f, m) == f = [i \in 1..m |-> IF i = 1 THEN w[i] ELSE f[i - 1] \o w[i]]
             I == {m \in 0..n : \E f : Flat(f, m)}
  <2>0. ASSUME NEW m, NEW f, Flat(f, m), NEW i \in 1..m
        PROVE  f[i] = IF i = 1 THEN w[i] ELSE f[i - 1] \o w[i]
    <3> DEFINE g == [j \in 1..m |-> IF j = 1 THEN w[j] ELSE f[j - 1] \o w[j]]
    <3>1. g[i] = IF i = 1 THEN w[i] ELSE f[i - 1] \o w[i]
      OBVIOUS
    <3>2. f = g
      BY <2>0
    <3> HIDE DEF g
    <3>3. f[i] = g[i]
      BY <3>2
    <3> QED
      BY <3>1, <3>3
  <2>1. 0..n \subseteq I
    <3>1. 0 \in I
      <4>1. \E f : Flat(f, 0)
        <5>1. Flat([i \in 1..0 |-> 0], 0)
          OBVIOUS
        <5> HIDE DEF Flat
        <5> QED
          BY <5>1
      <4> HIDE DEF Flat
      <4> QED
        BY <4>1
    <3>2. ASSUME NEW m \in 0..n, m + 1 \in 0..n, m \in I PROVE m + 1 \in I
      <4>1. PICK f : Flat(f, m)
        BY <3>2
      <4>11. \A j \in 1..m : f[j] = IF j = 1 THEN w[j] ELSE f[j - 1] \o w[j]
        <5> HIDE DEF Flat
        <5> QED
          BY <2>0, <4>1
      <4> DEFINE g == [i \in 1..(m + 1) |->
                        IF i = 1 THEN w[i] ELSE IF i = m + 1 THEN f[m] \o w[i] ELSE f[i]]
      <4>2. ASSUME NEW i \in 1..(m + 1) PROVE g[i] = IF i = 1 THEN w[i] ELSE g[i - 1] \o w[i]
        <5>1. CASE i = 1
          BY <5>1
        <5>2. CASE i # 1 /\ i # m + 1
          <6>1. i \in 1..m /\ i - 1 \in 1..m /\ i - 1 # m + 1
            BY <5>2
          <6>2. f[i] = f[i - 1] \o w[i] /\ f[1] = w[1]
            <7>1. 1 \in 1..m
              BY <6>1
            <7> HIDE DEF Flat
            <7> QED
              BY <4>11, <5>2, <6>1, <7>1
          <6>3. g[i - 1] = f[i - 1]
            BY <6>1, <6>2
          <6> QED
            BY <5>2, <6>2, <6>3
        <5>3. CASE i # 1 /\ i = m + 1
          <6>1. m \in 1..m /\ m # m + 1
            BY <5>3
          <6>2. f[1] = w[1]
            <7>1. 1 \in 1..m
              BY <6>1
            <7> HIDE DEF Flat
            <7> QED
              BY <4>11, <7>1
          <6>3. g[m] = f[m] /\ i - 1 = m
            BY <5>3, <6>1, <6>2
          <6>4. g[i] = f[m] \o w[i]
            BY <5>3
          <6> QED
            BY <5>3, <6>3, <6>4
        <5> QED
          BY <5>1, <5>2, <5>3
      <4>3. Flat(g, m + 1)
        BY <4>2
      <4> QED
        BY <3>2, <4>3
    <3> HIDE DEF I
    <3> QED
      BY <3>1, <3>2, AllOfInterval
  <2>2. \E f : Flat(f, n)
    <3>1. n \in I
      <4>1. n \in 0..n
        OBVIOUS
      <4> HIDE DEF I
      <4> QED
        BY <2>1, <4>1
    <3> HIDE DEF Flat
    <3> QED
      BY <3>1
  <2>3. PICK f : FlattenSeq(w) = f[n] /\ Flat(f, n)
    <3>1. FlattenSeq(w) = (CHOOSE f : Flat(f, n))[n]
      BY <1>1, <1>3 DEF FlattenSeq
    <3> QED
      BY <2>2, <3>1
  <2> DEFINE g == [i \in 0..n |-> IF i = 0 THEN <<>> ELSE f[i]]
             J == {m \in 0..n : g[m] \in Seq(S)}
  <2>4. g[0] = <<>> /\ \A i \in 1..n : g[i] = f[i]
    OBVIOUS
  <2>5. \A i \in 1..n : g[i - 1] \in Seq(S) => g[i] = g[i - 1] \o w[i]
    <3> SUFFICES ASSUME NEW i \in 1..n, g[i - 1] \in Seq(S) PROVE g[i] = g[i - 1] \o w[i]
      OBVIOUS
    <3>1. CASE i = 1
      <4>1. f[1] = w[1] /\ w[1] \in Seq(S)
        <5> HIDE DEF Flat
        <5> QED
          BY <1>1, <2>0, <2>3, <3>1
      <4>2. <<>> \o w[1] = w[1]
        BY <4>1, ConcatEmptySeq
      <4> QED
        BY <2>4, <3>1, <4>1, <4>2
    <3>2. CASE i # 1
      <4>1. f[i] = f[i - 1] \o w[i] /\ i - 1 \in 1..n
        <5>1. f[i] = IF i = 1 THEN w[i] ELSE f[i - 1] \o w[i]
          <6> HIDE DEF Flat
          <6> QED
            BY <2>0, <2>3
        <5>2. i - 1 \in 1..n
          BY <3>2
        <5>3. f[i] = f[i - 1] \o w[i]
          BY <3>2, <5>1, Zenon
        <5> QED
          BY <5>2, <5>3
      <4> QED
        BY <2>4, <4>1
    <3> QED
      BY <3>1, <3>2
  <2>6. 0..n \subseteq J
    <3>1. 0 \in J
      BY <2>4, EmptySeq
    <3>2. ASSUME NEW m \in 0..n, m + 1 \in 0..n, m \in J PROVE m + 1 \in J
      <4>1. m + 1 \in 1..n /\ (m + 1) - 1 = m
        BY <3>2
      <4>2. g[m] \in Seq(S)
        BY <3>2
      <4> HIDE DEF g
      <4>3. g[m + 1] = g[m] \o w[m + 1] /\ w[m + 1] \in Seq(S)
        BY <1>1, <2>5, <4>1, <4>2
      <4>4. g[m + 1] \in Seq(S)
        BY <4>2, <4>3, ConcatProperties
      <4> QED
        BY <3>2, <4>4
    <3> HIDE DEF J
    <3> QED
      BY <3>1, <3>2, AllOfInterval
  <2>7. \A i \in 0..n : g[i] \in Seq(S)
    BY <2>6
  <2>8. g \in [0..n -> Seq(S)]
    <3>1. g = [i \in 0..n |-> g[i]]
      OBVIOUS
    <3> HIDE DEF g
    <3> QED
      BY <2>7, <3>1
  <2>9. \A i \in 1..n : g[i] = g[i - 1] \o w[i]
    <3> SUFFICES ASSUME NEW i \in 1..n PROVE g[i] = g[i - 1] \o w[i]
      OBVIOUS
    <3>1. i - 1 \in 0..n
      OBVIOUS
    <3> HIDE DEF g
    <3> QED
      BY <2>5, <2>7, <3>1
  <2>10. FlattenSeq(w) = g[n]
    BY <1>3, <2>3, <2>4
  <2> HIDE DEF g
  <2> QED
    BY <1>1, <2>4, <2>8, <2>9, <2>10
<1> QED
  BY <1>2, <1>3

-----------------------------------------------------------------------------
\* How many of the first entries are wide; IndexOf counts those before an entry.
Wides(entries, n) == Cardinality({j \in 1..n : entries[j] = Wide})

LEMMA WidesCount ==
  /\ \A e : Wides(e, 0) = 0
  /\ \A e : \A n \in Nat :
       /\ Wides(e, n) \in Nat /\ Wides(e, n) <= n
       /\ Wides(e, n + 1) = Wides(e, n) + (IF e[n + 1] = Wide THEN 1 ELSE 0)
<1> DEFINE W(e, n) == {j \in 1..n : e[j] = Wide}
<1>1. \A e : Wides(e, 0) = 0
  <2> SUFFICES ASSUME NEW e PROVE Wides(e, 0) = 0
    OBVIOUS
  <2>1. W(e, 0) = {}
    OBVIOUS
  <2> QED
    BY <2>1, FS_EmptySet DEF Wides
<1>2. ASSUME NEW e, NEW n \in Nat
      PROVE  /\ Wides(e, n) \in Nat /\ Wides(e, n) <= n
             /\ Wides(e, n + 1) = Wides(e, n) + (IF e[n + 1] = Wide THEN 1 ELSE 0)
  <2>1. IsFiniteSet(1..n) /\ Cardinality(1..n) = n
    BY FS_Interval
  <2>2. W(e, n) \subseteq 1..n
    OBVIOUS
  <2>3. IsFiniteSet(W(e, n)) /\ Cardinality(W(e, n)) \in Nat /\ Cardinality(W(e, n)) <= n
    BY <2>1, <2>2, FS_Subset, FS_CardinalityType
  <2>4. n + 1 \notin W(e, n) /\ W(e, n + 1) = IF e[n + 1] = Wide THEN W(e, n) \cup {n + 1} ELSE W(e, n)
    OBVIOUS
  <2>5. Cardinality(W(e, n + 1)) = Cardinality(W(e, n)) + (IF e[n + 1] = Wide THEN 1 ELSE 0)
    <3> HIDE DEF W
    <3>1. CASE e[n + 1] = Wide
      <4>1. Cardinality(W(e, n) \cup {n + 1}) = Cardinality(W(e, n)) + 1
        BY <2>3, <2>4, FS_AddElement
      <4> QED
        BY <2>4, <3>1, <4>1
    <3>2. CASE e[n + 1] # Wide
      BY <2>3, <2>4, <3>2
    <3> QED
      BY <3>1, <3>2
  <2> QED
    BY <2>3, <2>5 DEF Wides
<1> QED
  BY <1>1, <1>2

LEMMA IndexCount ==
  ASSUME NEW e, NEW i \in Nat \ {0}
  PROVE  IndexOf(e, i) = i + Wides(e, i - 1) /\ IndexOf(e, i) \in Nat /\ IndexOf(e, i) >= i /\ IndexOf(e, i) < 2 * i
<1>1. i - 1 \in Nat
  OBVIOUS
<1>2. IndexOf(e, i) = i + Wides(e, i - 1)
  BY DEF IndexOf, Wides
<1> QED
  BY <1>1, <1>2, WidesCount

\* Indexes do not depend on what comes after.
LEMMA SameIndex ==
  ASSUME NEW e, NEW g, NEW n \in Nat, \A j \in 1..n : e[j] = g[j], NEW i \in 1..(n + 1)
  PROVE  IndexOf(e, i) = IndexOf(g, i)
<1>1. {j \in 1..(i - 1) : e[j] = Wide} = {j \in 1..(i - 1) : g[j] = Wide}
  OBVIOUS
<1> QED
  BY <1>1 DEF IndexOf

-----------------------------------------------------------------------------
\* Each wide entry has its gap, and each gap its wide entry.
Gapped(slots) ==
  \A s \in DOMAIN slots :
    /\ slots[s] = Wide => s + 1 \in DOMAIN slots /\ slots[s + 1] = Gap
    /\ slots[s] = Gap => s - 1 \in DOMAIN slots /\ slots[s - 1] = Wide

SlotTypes == Entries \cup {Gap}

LEMMA GapIsNoEntry == Gap \notin Entries /\ Wide # Gap /\ Wide \in Entries
BY DEF Gap, Entries, Wide

\* parse puts each entry where its index says.
LEMMA SlotsHold ==
  ASSUME NEW E \in Seq(Entries)
  PROVE  /\ Slots(E) \in Seq(SlotTypes) /\ Gapped(Slots(E))
         /\ \A i \in DOMAIN E : IndexOf(E, i) \in DOMAIN Slots(E) /\ Slots(E)[IndexOf(E, i)] = E[i]
<1>1. PICK N \in Nat : N = Len(E) /\ DOMAIN E = 1..N /\ E \in [1..N -> Entries]
  BY LenProperties
<1> DEFINE w == [i \in DOMAIN E |-> IF E[i] = Wide THEN <<Wide, Gap>> ELSE <<E[i]>>]
<1>2. \A i \in 1..N : /\ w[i] = (IF E[i] = Wide THEN <<Wide, Gap>> ELSE <<E[i]>>)
                      /\ w[i] \in Seq(SlotTypes)
  <2> SUFFICES ASSUME NEW i \in 1..N
               PROVE  /\ w[i] = (IF E[i] = Wide THEN <<Wide, Gap>> ELSE <<E[i]>>)
                      /\ w[i] \in Seq(SlotTypes)
    OBVIOUS
  <2>1. w[i] = (IF E[i] = Wide THEN <<Wide, Gap>> ELSE <<E[i]>>)
    BY <1>1
  <2>2. Wide \in SlotTypes /\ Gap \in SlotTypes /\ E[i] \in SlotTypes
    BY <1>1, GapIsNoEntry DEF SlotTypes
  <2>3. <<Wide, Gap>> \in Seq(SlotTypes) /\ <<E[i]>> \in Seq(SlotTypes)
    BY <2>2
  <2> HIDE DEF w
  <2> QED
    BY <2>1, <2>3
<1>3. w \in Seq(Seq(SlotTypes)) /\ Len(w) = N
  <2>1. w \in [1..N -> Seq(SlotTypes)]
    <3>1. w = [i \in 1..N |-> w[i]]
      BY <1>1
    <3> HIDE DEF w
    <3> QED
      BY <1>2, <3>1
  <2> HIDE DEF w
  <2> QED
    BY <2>1, LenProperties, IsASeq
<1>4. Slots(E) = FlattenSeq(w)
  BY DEF Slots
<1> HIDE DEF w
<1>5. PICK f \in [0..N -> Seq(SlotTypes)] :
        /\ f[0] = <<>> /\ FlattenSeq(w) = f[N]
        /\ \A i \in 1..N : f[i] = f[i - 1] \o w[i]
  BY <1>3, Flattened
<1> DEFINE Good(n) ==
      /\ Len(f[n]) = n + Wides(E, n) /\ Gapped(f[n])
      /\ \A i \in 1..n : IndexOf(E, i) \in 1..Len(f[n]) /\ f[n][IndexOf(E, i)] = E[i]
    I == {n \in 0..N : Good(n)}
<1>6. Good(0)
  <2>1. DOMAIN <<>> = {} /\ Len(<<>>) = 0
    BY EmptySeq
  <2> QED
    BY <1>5, <2>1, WidesCount DEF Gapped
<1>7. ASSUME NEW n \in 0..N, n + 1 \in 0..N, Good(n) PROVE Good(n + 1)
  <2>1. PICK s \in Seq(SlotTypes), k \in Nat : s = f[n] /\ k = Len(s) /\ DOMAIN s = 1..k
    BY <1>5, LenProperties
  <2>2. n + 1 \in 1..N /\ (n + 1) - 1 = n /\ n \in Nat
    BY <1>7
  <2>3. PICK u \in Seq(SlotTypes), m \in Nat :
          /\ u = f[n + 1] /\ m = Len(u) /\ DOMAIN u = 1..m /\ u = s \o w[n + 1]
    <3>1. f[n + 1] \in Seq(SlotTypes)
      BY <1>5, <1>7
    <3>2. f[n + 1] = f[n] \o w[n + 1]
      BY <1>5, <2>2
    <3> QED
      BY <2>1, <3>1, <3>2, LenProperties
  <2>4. /\ k = n + Wides(E, n) /\ Gapped(s)
        /\ \A i \in 1..n : IndexOf(E, i) \in 1..k /\ s[IndexOf(E, i)] = E[i]
    BY <1>7, <2>1
  <2>5. /\ IndexOf(E, n + 1) = k + 1
        /\ Wides(E, n + 1) = Wides(E, n) + (IF E[n + 1] = Wide THEN 1 ELSE 0) /\ Wides(E, n) \in Nat
    <3>1. n + 1 \in Nat \ {0}
      BY <2>2
    <3>2. IndexOf(E, n + 1) = (n + 1) + Wides(E, n)
      BY <2>2, <3>1, IndexCount
    <3>3. /\ Wides(E, n + 1) = Wides(E, n) + (IF E[n + 1] = Wide THEN 1 ELSE 0)
          /\ Wides(E, n) \in Nat
      BY <2>2, WidesCount
    <3> DEFINE x == Wides(E, n)
    <3>4. x \in Nat /\ k = n + x /\ IndexOf(E, n + 1) = (n + 1) + x
      BY <2>4, <3>2, <3>3
    <3> HIDE DEF x
    <3>5. IndexOf(E, n + 1) = k + 1
      BY <2>2, <3>4
    <3> QED
      BY <3>3, <3>5
  <2>6. /\ m = k + (IF E[n + 1] = Wide THEN 2 ELSE 1)
        /\ \A i \in 1..k : u[i] = s[i]
        /\ u[k + 1] = E[n + 1] /\ (E[n + 1] = Wide => u[k + 2] = Gap)
    <3>1. /\ m = k + Len(w[n + 1])
          /\ \A i \in 1..(k + Len(w[n + 1])) : u[i] = IF i <= k THEN s[i] ELSE w[n + 1][i - k]
      BY <1>2, <2>1, <2>2, <2>3, ConcatProperties
    <3>2. CASE E[n + 1] = Wide
      <4>1. Len(w[n + 1]) = 2 /\ w[n + 1][1] = Wide /\ w[n + 1][2] = Gap
        <5>1. w[n + 1] = <<Wide, Gap>>
          BY <1>2, <2>2, <3>2
        <5> QED
          BY <5>1
      <4>2. /\ m = k + 2
            /\ \A i \in 1..(k + 2) : u[i] = IF i <= k THEN s[i] ELSE w[n + 1][i - k]
        BY <3>1, <4>1
      <4>3. /\ k + 1 \in 1..(k + 2) /\ k + 2 \in 1..(k + 2) /\ ~(k + 1 <= k) /\ ~(k + 2 <= k)
            /\ (k + 1) - k = 1 /\ (k + 2) - k = 2
        BY <2>1
      <4>4. u[k + 1] = E[n + 1] /\ u[k + 2] = Gap
        BY <3>2, <4>1, <4>2, <4>3
      <4>5. \A i \in 1..k : u[i] = s[i]
        <5>1. \A i \in 1..k : i \in 1..(k + 2) /\ i <= k
          BY <2>1
        <5> QED
          BY <4>2, <5>1
      <4> QED
        BY <3>2, <4>2, <4>4, <4>5
    <3>3. CASE E[n + 1] # Wide
      <4>1. Len(w[n + 1]) = 1 /\ w[n + 1][1] = E[n + 1]
        <5>1. w[n + 1] = <<E[n + 1]>>
          BY <1>2, <2>2, <3>3
        <5> QED
          BY <5>1
      <4>2. /\ m = k + 1
            /\ \A i \in 1..(k + 1) : u[i] = IF i <= k THEN s[i] ELSE w[n + 1][i - k]
        BY <3>1, <4>1
      <4>3. k + 1 \in 1..(k + 1) /\ ~(k + 1 <= k) /\ (k + 1) - k = 1
        BY <2>1
      <4>4. u[k + 1] = E[n + 1]
        BY <4>1, <4>2, <4>3
      <4>5. \A i \in 1..k : i \in 1..(k + 1) /\ i <= k
        BY <2>1
      <4> QED
        BY <3>3, <4>2, <4>4, <4>5
    <3> QED
      BY <3>2, <3>3
  <2>61. m >= k + 1 /\ (E[n + 1] = Wide => m = k + 2)
    BY <2>6
  <2>7. E[n + 1] # Gap
    BY <1>1, <2>2, GapIsNoEntry
  <2>8. Gapped(u)
    <3> SUFFICES ASSUME NEW i \in 1..m
                 PROVE  /\ u[i] = Wide => i + 1 \in 1..m /\ u[i + 1] = Gap
                        /\ u[i] = Gap => i - 1 \in 1..m /\ u[i - 1] = Wide
      BY <2>3 DEF Gapped
    <3>1. CASE i \in 1..k
      <4>1. /\ s[i] = Wide => i + 1 \in 1..k /\ s[i + 1] = Gap
            /\ s[i] = Gap => i - 1 \in 1..k /\ s[i - 1] = Wide
        BY <2>1, <2>4, <3>1 DEF Gapped
      <4> QED
        <5>1. u[i] = s[i] /\ (i + 1 \in 1..k => u[i + 1] = s[i + 1]) /\ (i - 1 \in 1..k => u[i - 1] = s[i - 1])
          BY <2>6, <3>1
        <5>2. \A j \in 1..k : j \in 1..m
          BY <2>61
        <5> QED
          BY <3>1, <4>1, <5>1, <5>2
    <3>2. CASE i = k + 1
      <4>1. u[i] = E[n + 1] /\ u[i] # Gap
        BY <2>6, <2>7, <3>2
      <4>2. u[i] = Wide => i + 1 \in 1..m /\ u[i + 1] = Gap
        <5>1. i + 1 = k + 2 /\ k + 2 \in 1..(k + 2)
          BY <2>1, <3>2
        <5>2. E[n + 1] = Wide => u[k + 2] = Gap /\ m = k + 2
          BY <2>6, <2>61
        <5> QED
          BY <4>1, <5>1, <5>2
      <4> QED
        BY <4>1, <4>2
    <3>3. CASE i = k + 2 /\ E[n + 1] = Wide
      BY <2>6, <3>3, GapIsNoEntry
    <3> QED
      BY <2>6, <3>1, <3>2, <3>3
  <2>9. ASSUME NEW i \in 1..(n + 1) PROVE IndexOf(E, i) \in 1..m /\ u[IndexOf(E, i)] = E[i]
    <3>1. CASE i \in 1..n
      <4>1. IndexOf(E, i) \in 1..k /\ s[IndexOf(E, i)] = E[i]
        BY <2>4, <3>1
      <4>2. \A j \in 1..k : j \in 1..m
        BY <2>61
      <4> QED
        BY <2>6, <4>1, <4>2
    <3>2. CASE i = n + 1
      <4>1. k + 1 \in 1..m
        BY <2>61
      <4> QED
        BY <2>5, <2>6, <3>2, <4>1
    <3>3. i \in 1..n \/ i = n + 1
      OBVIOUS
    <3> QED
      BY <3>1, <3>2, <3>3
  <2>10. m = n + 1 + Wides(E, n + 1)
    <3>1. CASE E[n + 1] = Wide
      BY <2>2, <2>4, <2>5, <2>6, <3>1
    <3>2. CASE E[n + 1] # Wide
      BY <2>2, <2>4, <2>5, <2>6, <3>2
    <3> QED
      BY <3>1, <3>2
  <2> QED
    BY <2>3, <2>8, <2>9, <2>10
<1>8. Good(N)
  <2>1. 0 \in I
    BY <1>6
  <2>2. \A n \in 0..N : n + 1 \in 0..N /\ n \in I => n + 1 \in I
    <3> HIDE DEF Good
    <3> QED
      BY <1>7
  <2>3. N \in 0..N
    OBVIOUS
  <2> HIDE DEF I
  <2>4. N \in I
    BY <2>1, <2>2, <2>3, AllOfInterval
  <2> QED
    BY <2>4 DEF I
<1>9. f[N] \in Seq(SlotTypes) /\ DOMAIN f[N] = 1..Len(f[N])
  BY <1>5, LenProperties
<1> QED
  BY <1>1, <1>4, <1>5, <1>8, <1>9

LEMMA SameWides ==
  ASSUME NEW e, NEW g, NEW n \in Nat, \A j \in 1..n : e[j] = g[j]
  PROVE  Wides(e, n) = Wides(g, n)
<1>1. {j \in 1..n : e[j] = Wide} = {j \in 1..n : g[j] = Wide}
  OBVIOUS
<1> QED
  BY <1>1 DEF Wides

\* What is written denotes by each index what was there in the pool.
LEMMA KeptHolds ==
  ASSUME NEW P \in Seq(SlotTypes), Gapped(P)
  PROVE  /\ Kept(P) \in Seq(Entries)
         /\ \A s \in DOMAIN P : P[s] # Gap => Denotes(Kept(P), s, P[s])
         /\ \A i \in DOMAIN Kept(P) : IndexOf(Kept(P), i) \in DOMAIN P /\ P[IndexOf(Kept(P), i)] = Kept(P)[i]
<1>1. PICK N \in Nat : N = Len(P) /\ DOMAIN P = 1..N /\ P \in [1..N -> SlotTypes]
  BY LenProperties
<1> DEFINE w == [i \in DOMAIN P |-> IF P[i] = Gap THEN <<>> ELSE <<P[i]>>]
<1>2. \A i \in 1..N : /\ w[i] = (IF P[i] = Gap THEN <<>> ELSE <<P[i]>>)
                      /\ w[i] \in Seq(Entries)
  <2> SUFFICES ASSUME NEW i \in 1..N
               PROVE  /\ w[i] = (IF P[i] = Gap THEN <<>> ELSE <<P[i]>>)
                      /\ w[i] \in Seq(Entries)
    OBVIOUS
  <2>1. w[i] = (IF P[i] = Gap THEN <<>> ELSE <<P[i]>>)
    BY <1>1
  <2>2. P[i] # Gap => P[i] \in Entries
    BY <1>1 DEF SlotTypes
  <2>3. <<>> \in Seq(Entries) /\ (P[i] # Gap => <<P[i]>> \in Seq(Entries))
    BY <2>2, EmptySeq
  <2> HIDE DEF w
  <2> QED
    BY <2>1, <2>3
<1>3. w \in Seq(Seq(Entries)) /\ Len(w) = N
  <2>1. w \in [1..N -> Seq(Entries)]
    <3>1. w = [i \in 1..N |-> w[i]]
      BY <1>1
    <3> HIDE DEF w
    <3> QED
      BY <1>2, <3>1
  <2> HIDE DEF w
  <2> QED
    BY <2>1, LenProperties, IsASeq
<1>4. Kept(P) = FlattenSeq(w)
  BY DEF Kept
<1> HIDE DEF w
<1>5. PICK f \in [0..N -> Seq(Entries)] :
        /\ f[0] = <<>> /\ FlattenSeq(w) = f[N]
        /\ \A i \in 1..N : f[i] = f[i - 1] \o w[i]
  BY <1>3, Flattened
<1> DEFINE HasFirst(h, n) ==
      /\ Len(h) + Wides(h, Len(h)) = IF n # 0 /\ P[n] = Wide THEN n + 1 ELSE n
      /\ \A s \in 1..n : P[s] # Gap => \E i \in 1..Len(h) : IndexOf(h, i) = s /\ h[i] = P[s]
      /\ \A i \in 1..Len(h) : IndexOf(h, i) \in 1..n /\ P[IndexOf(h, i)] = h[i]
    Good(n) == HasFirst(f[n], n)
    I == {n \in 0..N : Good(n)}
<1>6. Good(0)
  <2>1. Len(<<>>) = 0
    BY EmptySeq
  <2> QED
    BY <1>5, <2>1, WidesCount
<1>7. ASSUME NEW n \in 0..N, n + 1 \in 0..N, Good(n) PROVE Good(n + 1)
  <2>1. PICK g \in Seq(Entries), k \in Nat : g = f[n] /\ k = Len(g) /\ DOMAIN g = 1..k
    BY <1>5, LenProperties
  <2>2. n + 1 \in 1..N /\ (n + 1) - 1 = n /\ n \in Nat /\ n + 1 # 0
    <3> HIDE DEF Good
    <3> QED
      BY <1>7
  <2>3. f[n + 1] \in Seq(Entries) /\ f[n + 1] = g \o w[n + 1]
    BY <1>5, <1>7, <2>1, <2>2
  <2>4. /\ k + Wides(g, k) = IF n # 0 /\ P[n] = Wide THEN n + 1 ELSE n
        /\ \A s \in 1..n : P[s] # Gap => \E i \in 1..k : IndexOf(g, i) = s /\ g[i] = P[s]
        /\ \A i \in 1..k : IndexOf(g, i) \in 1..n /\ P[IndexOf(g, i)] = g[i]
    BY <1>7, <2>1
  <2>5. /\ P[n + 1] = Gap => n \in 1..N /\ P[n] = Wide
        /\ n # 0 /\ P[n] = Wide => P[n + 1] = Gap
    BY <1>1, <2>2 DEF Gapped
  <2>6. CASE P[n + 1] = Gap
    <3>1. w[n + 1] = <<>>
      BY <1>2, <2>2, <2>6
    <3>2. f[n + 1] = g
      BY <2>1, <2>3, <3>1, ConcatEmptySeq
    <3>3. P[n + 1] # Wide
      BY <2>6, GapIsNoEntry
    <3>4. k + Wides(g, k) = n + 1
      BY <2>4, <2>5, <2>6
    <3>5. ASSUME NEW s \in 1..(n + 1), P[s] # Gap
          PROVE  \E i \in 1..k : IndexOf(g, i) = s /\ g[i] = P[s]
      <4>1. s \in 1..n
        BY <2>6, <3>5
      <4> QED
        BY <2>4, <3>5, <4>1
    <3>6. \A i \in 1..k : IndexOf(g, i) \in 1..(n + 1) /\ P[IndexOf(g, i)] = g[i]
      BY <2>2, <2>4
    <3>7. HasFirst(g, n + 1)
      BY <2>1, <2>2, <3>3, <3>4, <3>5, <3>6
    <3> HIDE DEF HasFirst
    <3> QED
      BY <3>2, <3>7
  <2>7. CASE P[n + 1] # Gap
    <3>1. w[n + 1] = <<P[n + 1]>> /\ P[n + 1] \in Entries
      BY <1>1, <1>2, <2>2, <2>7 DEF SlotTypes
    <3>2. PICK u \in Seq(Entries) : u = f[n + 1] /\ u = g \o <<P[n + 1]>>
      BY <2>3, <3>1
    <3>3. /\ Len(u) = k + 1 /\ \A i \in 1..k : u[i] = g[i]
          /\ u[k + 1] = P[n + 1]
      <4> DEFINE v == <<P[n + 1]>>
      <4>1. v \in Seq(Entries) /\ Len(v) = 1 /\ v[1] = P[n + 1]
        BY <3>1
      <4> HIDE DEF v
      <4>2. /\ Len(u) = k + Len(v)
            /\ \A i \in 1..(k + Len(v)) : u[i] = IF i <= k THEN g[i] ELSE v[i - k]
        BY <2>1, <3>2, <4>1, ConcatProperties DEF v
      <4> QED
        BY <4>1, <4>2
    <3>4. k + Wides(g, k) = n
      BY <2>4, <2>5, <2>7
    <3>5. Wides(u, k) = Wides(g, k) /\ \A i \in 1..(k + 1) : IndexOf(u, i) = IndexOf(g, i)
      BY <3>3, SameWides, SameIndex
    <3>6. IndexOf(u, k + 1) = n + 1
      <4>1. k + 1 \in Nat \ {0} /\ (k + 1) - 1 = k
        OBVIOUS
      <4>2. IndexOf(u, k + 1) = (k + 1) + Wides(u, k)
        BY <4>1, IndexCount
      <4>3. Wides(g, k) \in Nat
        BY WidesCount
      <4>4. IndexOf(u, k + 1) = (k + 1) + Wides(g, k)
        BY <3>5, <4>2, Zenon
      <4> DEFINE x == Wides(g, k)
      <4> HIDE DEF x
      <4>5. x \in Nat /\ k + x = n /\ IndexOf(u, k + 1) = (k + 1) + x
        BY <3>4, <4>3, <4>4 DEF x
      <4> QED
        BY <4>5
    <3>7. (k + 1) + Wides(u, k + 1) = IF P[n + 1] = Wide THEN (n + 1) + 1 ELSE n + 1
      <4>1. Wides(u, k + 1) = Wides(g, k) + (IF P[n + 1] = Wide THEN 1 ELSE 0) /\ Wides(g, k) \in Nat
        <5>1. Wides(u, k + 1) = Wides(u, k) + (IF u[k + 1] = Wide THEN 1 ELSE 0) /\ Wides(g, k) \in Nat
          BY WidesCount
        <5> QED
          BY <3>3, <3>5, <5>1
      <4>2. CASE P[n + 1] = Wide
        <5> DEFINE x == Wides(g, k)
                   y == Wides(u, k + 1)
        <5>1. x \in Nat /\ k + x = n /\ y = x + 1
          BY <3>4, <4>1, <4>2
        <5> HIDE DEF x, y
        <5>2. (k + 1) + y = (n + 1) + 1
          BY <5>1
        <5> QED
          BY <4>2, <5>2 DEF y
      <4>3. CASE P[n + 1] # Wide
        <5>1. Wides(u, k + 1) = Wides(g, k)
          BY <4>1, <4>3
        <5>2. (k + 1) + Wides(u, k + 1) = n + 1
          <6> DEFINE x == Wides(g, k)
                     y == Wides(u, k + 1)
          <6>1. x \in Nat /\ k + x = n /\ y = x
            BY <3>4, <4>1, <5>1
          <6> HIDE DEF x, y
          <6>2. (k + 1) + y = n + 1
            BY <6>1
          <6> QED
            BY <6>2 DEF y
        <5> QED
          BY <4>3, <5>2, Zenon
      <4> QED
        BY <4>2, <4>3
    <3>8. ASSUME NEW s \in 1..(n + 1), P[s] # Gap
          PROVE  \E i \in 1..(k + 1) : IndexOf(u, i) = s /\ u[i] = P[s]
      <4>1. CASE s \in 1..n
        <5>1. PICK i \in 1..k : IndexOf(g, i) = s /\ g[i] = P[s]
          BY <2>4, <3>8, <4>1
        <5> QED
          BY <3>3, <3>5, <5>1
      <4>2. CASE s = n + 1
        <5>1. k + 1 \in 1..(k + 1)
          OBVIOUS
        <5> QED
          BY <3>3, <3>6, <4>2, <5>1
      <4>3. s \in 1..n \/ s = n + 1
        OBVIOUS
      <4> QED
        BY <4>1, <4>2, <4>3
    <3>10. ASSUME NEW i \in 1..(k + 1)
           PROVE  IndexOf(u, i) \in 1..(n + 1) /\ P[IndexOf(u, i)] = u[i]
      <4>1. CASE i \in 1..k
        <5>1. IndexOf(g, i) \in 1..n /\ P[IndexOf(g, i)] = g[i]
          BY <2>4, <4>1
        <5>2. IndexOf(u, i) = IndexOf(g, i) /\ u[i] = g[i]
          BY <3>3, <3>5, <4>1
        <5>3. 1..n \subseteq 1..(n + 1)
          BY <2>2
        <5> QED
          BY <5>1, <5>2, <5>3
      <4>2. CASE i = k + 1
        BY <2>2, <3>3, <3>6, <4>2
      <4> QED
        BY <4>1, <4>2
    <3>11. HasFirst(u, n + 1)
      BY <2>2, <3>3, <3>7, <3>8, <3>10
    <3> HIDE DEF HasFirst
    <3> QED
      BY <3>2, <3>11
  <2> QED
    BY <2>6, <2>7
<1>8. Good(N)
  <2>1. 0 \in I
    BY <1>6
  <2>2. \A n \in 0..N : n + 1 \in 0..N /\ n \in I => n + 1 \in I
    <3> HIDE DEF Good
    <3> QED
      BY <1>7
  <2>3. N \in 0..N
    OBVIOUS
  <2> HIDE DEF I
  <2>4. N \in I
    BY <2>1, <2>2, <2>3, AllOfInterval
  <2> QED
    BY <2>4 DEF I
<1>9. f[N] \in Seq(Entries) /\ DOMAIN f[N] = 1..Len(f[N]) /\ Kept(P) = f[N]
  BY <1>4, <1>5, LenProperties
<1> DEFINE g == f[N]
<1>10. /\ \A s \in 1..N : P[s] # Gap => \E i \in 1..Len(g) : IndexOf(g, i) = s /\ g[i] = P[s]
       /\ \A i \in 1..Len(g) : IndexOf(g, i) \in 1..N /\ P[IndexOf(g, i)] = g[i]
  BY <1>8
<1>11. g \in Seq(Entries) /\ DOMAIN g = 1..Len(g) /\ Kept(P) = g
  BY <1>9
<1> HIDE DEF g
<1>12. \A s \in 1..N : P[s] # Gap => Denotes(g, s, P[s])
  BY <1>10, <1>11 DEF Denotes
<1> QED
  BY <1>1, <1>10, <1>11, <1>12, Zenon

\* and takes as many indexes as there were places.
LEMMA KeptIsCounted ==
  ASSUME NEW P \in Seq(SlotTypes), Gapped(P)
  PROVE  Taken(Kept(P)) = 1..Len(P)
<1> DEFINE K == Kept(P)
<1>1. DOMAIN P = 1..Len(P) /\ Len(P) \in Nat
  BY LenProperties
<1>2. /\ \A s \in DOMAIN P : P[s] # Gap => \E i \in DOMAIN K : IndexOf(K, i) = s /\ K[i] = P[s]
      /\ \A i \in DOMAIN K : IndexOf(K, i) \in DOMAIN P /\ P[IndexOf(K, i)] = K[i]
  BY KeptHolds DEF Denotes
<1> HIDE DEF K
<1>3. \A s : s \in Taken(K) <=>
        \E i \in DOMAIN K : s = IndexOf(K, i) \/ (K[i] = Wide /\ s = IndexOf(K, i) + 1)
  BY DEF Taken
<1>4. ASSUME NEW s \in Taken(K) PROVE s \in DOMAIN P
  <2>1. PICK i \in DOMAIN K : s = IndexOf(K, i) \/ (K[i] = Wide /\ s = IndexOf(K, i) + 1)
    BY <1>3
  <2> QED
    BY <1>2, <2>1 DEF Gapped
<1>5. ASSUME NEW s \in DOMAIN P PROVE s \in Taken(K)
  <2>1. CASE P[s] # Gap
    BY <1>2, <1>3, <2>1
  <2>2. CASE P[s] = Gap
    <3>1. s - 1 \in DOMAIN P /\ P[s - 1] = Wide
      BY <2>2 DEF Gapped
    <3>2. PICK i \in DOMAIN K : IndexOf(K, i) = s - 1 /\ K[i] = Wide
      BY <1>2, <3>1, GapIsNoEntry
    <3>3. s = IndexOf(K, i) + 1
      BY <1>1, <3>2
    <3> QED
      BY <1>3, <3>2, <3>3
  <2> QED
    BY <2>1, <2>2
<1> QED
  BY <1>1, <1>4, <1>5 DEF K

LEMMA DenotesIsNamed ==
  ASSUME NEW W \in Seq(Entries), NEW s, NEW text, Denotes(W, s, Utf8(text))
  PROVE  s \in Named(W, text)
<1>1. PICK N \in Nat : N = Len(W) /\ DOMAIN W = 1..N
  BY LenProperties
<1>2. PICK i \in 1..N : IndexOf(W, i) = s
  BY <1>1 DEF Denotes
<1>3. i \in Nat \ {0} /\ i <= N
  OBVIOUS
<1>4. s \in Nat /\ s >= i /\ s < 2 * i
  BY <1>2, <1>3, IndexCount
<1>5. s \in 1..(2 * N)
  BY <1>3, <1>4
<1> QED
  BY <1>1, <1>5 DEF Named

-----------------------------------------------------------------------------
\* The first place of what is looked for.
LEMMA FirstIsLeast ==
  ASSUME NEW n \in Nat, NEW I, I \subseteq 1..n, NEW at, at = IF I # {} THEN Min(I) ELSE 0
  PROVE  /\ at \in 0..n /\ (at = 0 <=> I = {})
         /\ at # 0 => at \in I /\ \A s \in I : at <= s
<1>1. CASE I = {}
  BY <1>1
<1>2. CASE I # {}
  <2>1. I \in SUBSET (0..n)
    OBVIOUS
  <2>2. \E m \in I : \A i \in I : m <= i
    BY <1>2, <2>1, LeastOfInterval
  <2>3. Min(I) \in I /\ \A i \in I : Min(I) <= i
    BY <2>2 DEF Min
  <2>4. Min(I) \in 1..n
    BY <2>3
  <2> QED
    BY <1>2, <2>3, <2>4
<1> QED
  BY <1>1, <1>2

\* A cast index, whatever it is, is one.
LEMMA FindIsNat ==
  ASSUME NEW S, NEW P \in Seq(S), NEW e
  PROVE  Find(P, e) \in Nat
<1> DEFINE I == {i \in 1..Len(P) : P[i] = e}
           at == IF I # {} THEN Min(I) ELSE 0
<1>1. Find(P, e) = at % PoolU2
  BY DEF Find, SelectInSeq
<1>2. at \in Nat
  <2>1. I \subseteq 1..Len(P) /\ Len(P) \in Nat
    BY LenProperties
  <2> HIDE DEF I
  <2>2. at \in 0..Len(P)
    BY <2>1, FirstIsLeast
  <2> QED
    BY <2>1, <2>2
<1> HIDE DEF at
<1> QED
  BY <1>1, <1>2, SizesAreNat

LEMMA FindIsFirst ==
  ASSUME NEW S, NEW P \in Seq(S), Len(P) < PoolU2, NEW e
  PROVE  /\ Find(P, e) \in 0..Len(P)
         /\ Find(P, e) = 0 => \A s \in DOMAIN P : P[s] # e
         /\ Find(P, e) # 0 => /\ Find(P, e) \in DOMAIN P /\ P[Find(P, e)] = e
                              /\ \A s \in DOMAIN P : P[s] = e => Find(P, e) <= s
<1> DEFINE I == {i \in 1..Len(P) : P[i] = e}
           at == IF I # {} THEN Min(I) ELSE 0
<1>2. DOMAIN P = 1..Len(P) /\ Len(P) \in Nat
  BY LenProperties
<1>1. Find(P, e) = at
  <2>1. Find(P, e) = at % PoolU2
    BY DEF Find, SelectInSeq
  <2>2. I \subseteq 1..Len(P)
    OBVIOUS
  <2>3. at \in 0..Len(P)
    <3> HIDE DEF I
    <3> QED
      BY <1>2, <2>2, FirstIsLeast
  <2>4. \A n \in Nat : n < PoolU2 => n % PoolU2 = n
    BY SizesAreNat
  <2> HIDE DEF at
  <2>5. at \in Nat /\ at < PoolU2
    BY <1>2, <2>3, SizesAreNat
  <2> QED
    BY <2>1, <2>4, <2>5
<1>3. /\ Find(P, e) \in 0..Len(P) /\ (Find(P, e) = 0 <=> I = {})
      /\ Find(P, e) # 0 => Find(P, e) \in I /\ \A s \in I : Find(P, e) <= s
  <2>1. I \subseteq 1..Len(P)
    OBVIOUS
  <2> HIDE DEF I
  <2> QED
    BY <1>1, <1>2, <2>1, FirstIsLeast
<1> QED
  BY <1>2, <1>3

Goes(P, Q) == \A s \in DOMAIN P : s \in DOMAIN Q /\ Q[s] = P[s]

GoodPool(P) == P \in Seq(SlotTypes) /\ Gapped(P)

\* An entry that is added moves nothing,
LEMMA AddedHolds ==
  ASSUME NEW P, GoodPool(P), NEW e \in Entries, e # Wide
  PROVE  GoodPool(Added(P, e)) /\ Goes(P, Added(P, e)) /\ Len(P) <= Len(Added(P, e))
<1>0. PICK N \in Nat : N = Len(P) /\ DOMAIN P = 1..N /\ P \in Seq(SlotTypes)
  BY LenProperties DEF GoodPool
<1>1. CASE Find(P, e) # 0
  <2>1. Added(P, e) = P
    BY <1>1 DEF Added
  <2> QED
    BY <1>0, <2>1 DEF Goes
<1>2. CASE Find(P, e) = 0
  <2>1. e \in SlotTypes /\ e # Gap
    BY GapIsNoEntry DEF SlotTypes
  <2>2. PICK Q \in Seq(SlotTypes) : Q = Added(P, e) /\ Q = Append(P, e)
    <3>1. Append(P, e) \in Seq(SlotTypes)
      BY <1>0, <2>1, AppendProperties
    <3>2. Added(P, e) = Append(P, e)
      BY <1>2 DEF Added
    <3> QED
      BY <3>1, <3>2
  <2>3. /\ Len(Q) = N + 1 /\ DOMAIN Q = 1..(N + 1) /\ Q[N + 1] = e
        /\ \A s \in 1..N : Q[s] = P[s]
    BY <1>0, <2>1, <2>2, AppendProperties
  <2>4. Gapped(Q)
    <3> SUFFICES ASSUME NEW s \in 1..(N + 1)
                 PROVE  /\ Q[s] = Wide => s + 1 \in 1..(N + 1) /\ Q[s + 1] = Gap
                        /\ Q[s] = Gap => s - 1 \in 1..(N + 1) /\ Q[s - 1] = Wide
      BY <2>3 DEF Gapped
    <3>1. CASE s \in 1..N
      <4>1. /\ P[s] = Wide => s + 1 \in 1..N /\ P[s + 1] = Gap
            /\ P[s] = Gap => s - 1 \in 1..N /\ P[s - 1] = Wide
        BY <1>0, <3>1 DEF GoodPool, Gapped
      <4> QED
        BY <2>3, <3>1, <4>1
    <3>2. CASE s = N + 1
      BY <2>1, <2>3, <3>2
    <3> QED
      BY <3>1, <3>2
  <2>5. GoodPool(Q) /\ Goes(P, Q)
    BY <1>0, <2>2, <2>3, <2>4 DEF GoodPool, Goes
  <2> QED
    BY <1>0, <2>2, <2>3, <2>5
<1> QED
  BY <1>1, <1>2

\* and is there, as long as the places are indexes.
LEMMA AddedIsFound ==
  ASSUME NEW P, GoodPool(P), NEW e \in Entries, e # Wide, NEW Q, Q = Added(P, e), Len(Q) < PoolU2
  PROVE  /\ Find(Q, e) \in DOMAIN Q /\ Q[Find(Q, e)] = e
         /\ \A x : Find(P, x) # 0 => Find(Q, x) = Find(P, x)
<1>0. PICK N \in Nat : N = Len(P) /\ DOMAIN P = 1..N /\ P \in Seq(SlotTypes)
  BY LenProperties DEF GoodPool
<1>1. Q \in Seq(SlotTypes) /\ N < PoolU2
  <2>1. GoodPool(Q) /\ N <= Len(Q)
    BY <1>0, AddedHolds
  <2>2. Q \in Seq(SlotTypes) /\ Len(Q) \in Nat
    BY <2>1, LenProperties DEF GoodPool
  <2> QED
    BY <2>1, <2>2, SizesAreNat
<1>2. CASE Find(P, e) # 0
  <2>1. Q = P
    BY <1>2 DEF Added
  <2> QED
    BY <1>0, <1>1, <1>2, <2>1, FindIsFirst
<1>3. CASE Find(P, e) = 0
  <2>1. Q = Append(P, e) /\ e \in SlotTypes
    BY <1>3 DEF Added, SlotTypes
  <2>2. /\ Len(Q) = N + 1 /\ DOMAIN Q = 1..(N + 1) /\ Q[N + 1] = e
        /\ \A s \in 1..N : Q[s] = P[s]
    BY <1>0, <2>1, AppendProperties
  <2>3. Find(Q, e) # 0
    BY <1>1, <2>2, FindIsFirst
  <2>4. Find(Q, e) \in DOMAIN Q /\ Q[Find(Q, e)] = e
    BY <1>1, <2>3, FindIsFirst
  <2>5. ASSUME NEW x, Find(P, x) # 0 PROVE Find(Q, x) = Find(P, x)
    <3>1. Find(P, x) \in 1..N /\ P[Find(P, x)] = x /\ \A s \in 1..N : P[s] = x => Find(P, x) <= s
      BY <1>0, <1>1, <2>5, FindIsFirst
    <3>2. Find(P, x) \in DOMAIN Q /\ Q[Find(P, x)] = x
      BY <2>2, <3>1
    <3>3. Find(Q, x) # 0
      BY <1>1, <3>2, FindIsFirst
    <3>4. Find(Q, x) \in DOMAIN Q /\ Q[Find(Q, x)] = x /\ Find(Q, x) <= Find(P, x)
      BY <1>1, <3>2, <3>3, FindIsFirst
    <3>5. Find(Q, x) \in 1..N
      BY <2>2, <3>1, <3>4
    <3>6. P[Find(Q, x)] = x
      BY <2>2, <3>4, <3>5
    <3>7. Find(P, x) <= Find(Q, x)
      BY <3>1, <3>5, <3>6
    <3> QED
      BY <3>1, <3>4, <3>5, <3>7
  <2> QED
    BY <2>4, <2>5
<1> QED
  BY <1>2, <1>3

\* A reference, and what it refers to, in a pool.
RefThere(P, at) ==
  \E c, m, o, n, t \in DOMAIN P :
    /\ at \in DOMAIN P /\ P[at] = MethodRef(c, m)
    /\ P[c] = Class(o) /\ P[o] = Utf8(Owner)
    /\ P[m] = NameAndType(n, t) /\ P[n] = Utf8(Callee) /\ P[t] = Utf8(CalleeType)

LEMMA RefFrom ==
  ASSUME NEW P, NEW at \in DOMAIN P, NEW c \in DOMAIN P, NEW m \in DOMAIN P,
         NEW o \in DOMAIN P, NEW n \in DOMAIN P, NEW t \in DOMAIN P,
         P[at] = MethodRef(c, m), P[c] = Class(o), P[o] = Utf8(Owner),
         P[m] = NameAndType(n, t), P[n] = Utf8(Callee), P[t] = Utf8(CalleeType)
  PROVE  RefThere(P, at)
BY DEF RefThere

LEMMA RefStays ==
  ASSUME NEW P, NEW Q, NEW at, RefThere(P, at), Goes(P, Q)
  PROVE  RefThere(Q, at)
<1>1. PICK c \in DOMAIN P, m \in DOMAIN P, o \in DOMAIN P, n \in DOMAIN P, t \in DOMAIN P :
        /\ at \in DOMAIN P /\ P[at] = MethodRef(c, m)
        /\ P[c] = Class(o) /\ P[o] = Utf8(Owner)
        /\ P[m] = NameAndType(n, t) /\ P[n] = Utf8(Callee) /\ P[t] = Utf8(CalleeType)
  BY DEF RefThere
<1>2. /\ at \in DOMAIN Q /\ Q[at] = MethodRef(c, m)
      /\ Q[c] = Class(o) /\ Q[o] = Utf8(Owner)
      /\ Q[m] = NameAndType(n, t) /\ Q[n] = Utf8(Callee) /\ Q[t] = Utf8(CalleeType)
  BY <1>1 DEF Goes
<1>3. c \in DOMAIN Q /\ m \in DOMAIN Q /\ o \in DOMAIN Q /\ n \in DOMAIN Q /\ t \in DOMAIN Q
  BY DEF Goes
<1> QED
  BY <1>2, <1>3 DEF RefThere

LEMMA GoesOn ==
  ASSUME NEW P, NEW Q, NEW R, Goes(P, Q), Goes(Q, R)
  PROVE  Goes(P, R)
BY DEF Goes

LEMMA EntryTypes ==
  /\ \A text \in STRING : Utf8(text) \in Entries /\ Utf8(text) # Wide
  /\ \A n \in Nat : Class(n) \in Entries /\ Class(n) # Wide
  /\ \A n, m \in Nat : /\ NameAndType(n, m) \in Entries /\ NameAndType(n, m) # Wide
                       /\ MethodRef(n, m) \in Entries /\ MethodRef(n, m) # Wide
<1>1. ASSUME NEW n \in Nat, NEW m \in Nat PROVE <<n>> \in Seq(Nat) /\ <<n, m>> \in Seq(Nat)
  OBVIOUS
<1> QED
  BY <1>1 DEF Entries, Wide, Utf8, Class, NameAndType, MethodRef

\* addMethodRef: the reference it returns is to the method that was asked for.
LEMMA MethodRefIsThere ==
  ASSUME NEW P, GoodPool(P), NEW Q, Q = WithMethodRef(P, Owner, Callee, CalleeType), Len(Q) < PoolU2
  PROVE  /\ GoodPool(Q) /\ Goes(P, Q)
         /\ RefThere(Q, Find(Q, RefOf(Q, Owner, Callee, CalleeType)))
<1>0. /\ \A X : GoodPool(X) => DOMAIN X \subseteq Nat \ {0} /\ Len(X) \in Nat
      /\ \A X, e : GoodPool(X) => Find(X, e) \in Nat
  BY LenProperties, FindIsNat DEF GoodPool
<1>1. Owner \in STRING /\ Callee \in STRING /\ CalleeType \in STRING
  BY NamesAreTexts
<1> DEFINE o == Utf8(Owner)
           n == Utf8(Callee)
           t == Utf8(CalleeType)
<1>2. o \in Entries /\ o # Wide /\ n \in Entries /\ n # Wide /\ t \in Entries /\ t # Wide
  BY <1>1, EntryTypes
<1> DEFINE P1 == Added(P, o)
           c == ClassOf(P1, Owner)
           P2 == Added(P1, c)
           P3 == Added(P2, n)
           P4 == Added(P3, t)
           m == MemberOf(P4, Callee, CalleeType)
           P5 == Added(P4, m)
           r == RefOf(P5, Owner, Callee, CalleeType)
<1>3. Q = Added(P5, r)
  BY DEF WithMethodRef, WithNameAndType, WithClass
<1>4. c = Class(Find(P1, o)) /\ m = NameAndType(Find(P4, n), Find(P4, t))
  BY DEF ClassOf, MemberOf
<1>5. r = MethodRef(Find(P5, Class(Find(P5, o))), Find(P5, NameAndType(Find(P5, n), Find(P5, t))))
  BY DEF RefOf, ClassOf, MemberOf
<1>6. RefOf(Q, Owner, Callee, CalleeType)
        = MethodRef(Find(Q, Class(Find(Q, o))), Find(Q, NameAndType(Find(Q, n), Find(Q, t))))
  BY DEF RefOf, ClassOf, MemberOf
<1> DEFINE Step(X, e, Y) ==
      /\ GoodPool(Y) /\ Goes(X, Y) /\ Find(Y, e) \in DOMAIN Y /\ Y[Find(Y, e)] = e
      /\ Find(Y, e) \in Nat \ {0} /\ \A x : Find(X, x) # 0 => Find(Y, x) = Find(X, x)
<1>7. ASSUME NEW X, GoodPool(X), NEW e \in Entries, e # Wide, NEW Y, Y = Added(X, e), Len(Y) < PoolU2
      PROVE  Step(X, e, Y)
  <2>1. GoodPool(Y) /\ Goes(X, Y)
    BY <1>7, AddedHolds
  <2>2. /\ Find(Y, e) \in DOMAIN Y /\ Y[Find(Y, e)] = e
        /\ \A x : Find(X, x) # 0 => Find(Y, x) = Find(X, x)
    BY <1>7, AddedIsFound
  <2> QED
    BY <1>0, <2>1, <2>2
<1>8. /\ GoodPool(P1) /\ GoodPool(P2) /\ GoodPool(P3) /\ GoodPool(P4) /\ GoodPool(P5)
      /\ Len(P1) < PoolU2 /\ Len(P2) < PoolU2 /\ Len(P3) < PoolU2 /\ Len(P4) < PoolU2 /\ Len(P5) < PoolU2
  <2>1. \A X : GoodPool(X) => \A e \in Entries : e # Wide => GoodPool(Added(X, e)) /\ Len(X) <= Len(Added(X, e))
    BY AddedHolds
  <2> HIDE DEF o, n, t
  <2>2. GoodPool(P1)
    BY <1>2, <2>1
  <2>3. c \in Entries /\ c # Wide
    <3> HIDE DEF P1
    <3> QED
      BY <1>0, <1>4, <2>2, EntryTypes
  <2>4. GoodPool(P2) /\ Len(P1) <= Len(P2)
    <3> HIDE DEF P1, c
    <3> QED
      BY <2>1, <2>2, <2>3
  <2>5. GoodPool(P3) /\ Len(P2) <= Len(P3)
    <3> HIDE DEF P2
    <3> QED
      BY <1>2, <2>1, <2>4
  <2>6. GoodPool(P4) /\ Len(P3) <= Len(P4)
    <3> HIDE DEF P3
    <3> QED
      BY <1>2, <2>1, <2>5
  <2>7. m \in Entries /\ m # Wide
    <3> HIDE DEF P4
    <3> QED
      BY <1>0, <1>4, <2>6, EntryTypes
  <2>8. GoodPool(P5) /\ Len(P4) <= Len(P5)
    <3> HIDE DEF P4, m
    <3> QED
      BY <2>1, <2>6, <2>7
  <2>9. r \in Entries /\ r # Wide
    <3> HIDE DEF P5
    <3> QED
      BY <1>0, <1>5, <2>8, EntryTypes
  <2>10. GoodPool(Q) /\ Len(P5) <= Len(Q)
    <3> HIDE DEF P5, r
    <3> QED
      BY <1>3, <2>1, <2>8, <2>9
  <2> HIDE DEF P1, P2, P3, P4, P5
  <2>11. Len(P1) \in Nat /\ Len(P2) \in Nat /\ Len(P3) \in Nat /\ Len(P4) \in Nat /\ Len(P5) \in Nat /\ Len(Q) \in Nat
    BY <1>0, <2>2, <2>4, <2>5, <2>6, <2>8, <2>10
  <2> QED
    BY <2>2, <2>4, <2>5, <2>6, <2>8, <2>10, <2>11, SizesAreNat
<1>10. ASSUME NEW X, NEW e, NEW Y, Step(X, e, Y)
       PROVE  /\ GoodPool(Y) /\ Goes(X, Y) /\ Find(Y, e) \in DOMAIN Y /\ Y[Find(Y, e)] = e
              /\ Find(Y, e) \in Nat \ {0}
              /\ \A x : Find(X, x) \in Nat \ {0} => Find(Y, x) = Find(X, x)
  BY <1>10
<1> HIDE DEF Step, o, n, t
<1>11. Step(P, o, P1)
  BY <1>2, <1>7, <1>8
<1> HIDE DEF P1
<1>12. Find(P1, o) \in Nat /\ c \in Entries /\ c # Wide
  BY <1>4, <1>10, <1>11, EntryTypes
<1> HIDE DEF c
<1>13. Step(P1, c, P2)
  BY <1>7, <1>8, <1>10, <1>11, <1>12
<1> HIDE DEF P2
<1>14. Step(P2, n, P3)
  BY <1>2, <1>7, <1>8, <1>10, <1>13
<1> HIDE DEF P3
<1>15. Step(P3, t, P4)
  BY <1>2, <1>7, <1>8, <1>10, <1>14
<1> HIDE DEF P4
<1>16. Find(P4, n) = Find(P3, n) /\ Find(P4, n) \in Nat \ {0} /\ Find(P4, t) \in Nat \ {0}
  BY <1>10, <1>14, <1>15
<1>17. m \in Entries /\ m # Wide
  BY <1>4, <1>16, EntryTypes
<1> HIDE DEF m
<1>18. Step(P4, m, P5)
  BY <1>7, <1>8, <1>10, <1>15, <1>17
<1> HIDE DEF P5
<1>19. /\ Find(P5, o) = Find(P1, o) /\ Find(P5, o) \in Nat \ {0}
       /\ Find(P5, c) = Find(P2, c) /\ Find(P5, c) \in Nat \ {0}
  <2>1. Find(P1, o) \in Nat \ {0} /\ Find(P2, o) = Find(P1, o) /\ Find(P2, c) \in Nat \ {0}
    BY <1>10, <1>11, <1>13
  <2>2. Find(P3, o) = Find(P1, o) /\ Find(P3, c) = Find(P2, c)
    BY <2>1, <1>10, <1>14
  <2>3. Find(P4, o) = Find(P1, o) /\ Find(P4, c) = Find(P2, c)
    BY <2>1, <2>2, <1>10, <1>15
  <2> QED
    BY <2>1, <2>3, <1>10, <1>18
<1>20. /\ Find(P5, n) = Find(P4, n) /\ Find(P5, n) \in Nat \ {0}
       /\ Find(P5, t) = Find(P4, t) /\ Find(P5, t) \in Nat \ {0}
       /\ Find(P5, m) \in Nat \ {0}
  BY <1>10, <1>16, <1>18
<1>21. r = MethodRef(Find(P5, c), Find(P5, m))
  BY <1>4, <1>5, <1>19, <1>20
<1>22. r \in Entries /\ r # Wide
  BY <1>19, <1>20, <1>21, EntryTypes
<1> HIDE DEF r
<1>23. Step(P5, r, Q)
  BY <1>3, <1>7, <1>10, <1>18, <1>22
<1>24. /\ Find(Q, o) = Find(P5, o) /\ Find(Q, c) = Find(P5, c) /\ Find(Q, m) = Find(P5, m)
       /\ Find(Q, n) = Find(P5, n) /\ Find(Q, t) = Find(P5, t)
  BY <1>10, <1>19, <1>20, <1>23
<1>25. RefOf(Q, Owner, Callee, CalleeType) = r
  BY <1>4, <1>6, <1>19, <1>20, <1>21, <1>24
<1>26. Goes(P1, Q) /\ Goes(P2, Q) /\ Goes(P3, Q) /\ Goes(P4, Q) /\ Goes(P5, Q) /\ Goes(P, Q)
  <2>1. Goes(P5, Q) /\ Goes(P4, P5) /\ Goes(P3, P4) /\ Goes(P2, P3) /\ Goes(P1, P2) /\ Goes(P, P1)
    BY <1>10, <1>11, <1>13, <1>14, <1>15, <1>18, <1>23
  <2> QED
    BY <2>1, GoesOn
<1>27. /\ Find(P1, o) \in DOMAIN Q /\ Q[Find(P1, o)] = o
       /\ Find(P2, c) \in DOMAIN Q /\ Q[Find(P2, c)] = c
       /\ Find(P4, n) \in DOMAIN Q /\ Q[Find(P4, n)] = n
       /\ Find(P4, t) \in DOMAIN Q /\ Q[Find(P4, t)] = t
       /\ Find(P5, m) \in DOMAIN Q /\ Q[Find(P5, m)] = m
       /\ Find(Q, r) \in DOMAIN Q /\ Q[Find(Q, r)] = r
  <2>1. /\ Find(P1, o) \in DOMAIN P1 /\ P1[Find(P1, o)] = o
        /\ Find(P2, c) \in DOMAIN P2 /\ P2[Find(P2, c)] = c
    BY <1>10, <1>11, <1>13
  <2>2. /\ Find(P3, n) \in DOMAIN P3 /\ P3[Find(P3, n)] = n
        /\ Find(P4, t) \in DOMAIN P4 /\ P4[Find(P4, t)] = t
    BY <1>10, <1>14, <1>15
  <2>3. /\ Find(P5, m) \in DOMAIN P5 /\ P5[Find(P5, m)] = m
        /\ Find(Q, r) \in DOMAIN Q /\ Q[Find(Q, r)] = r
    BY <1>10, <1>18, <1>23
  <2> QED
    BY <2>1, <2>2, <2>3, <1>16, <1>26 DEF Goes
<1>28. RefThere(Q, Find(Q, r))
  <2>1. /\ Q[Find(Q, r)] = MethodRef(Find(P2, c), Find(P5, m))
        /\ Q[Find(P2, c)] = Class(Find(P1, o)) /\ Q[Find(P1, o)] = Utf8(Owner)
        /\ Q[Find(P5, m)] = NameAndType(Find(P4, n), Find(P4, t))
        /\ Q[Find(P4, n)] = Utf8(Callee) /\ Q[Find(P4, t)] = Utf8(CalleeType)
    BY <1>4, <1>19, <1>21, <1>27 DEF o, n, t
  <2>2. /\ Find(Q, r) \in DOMAIN Q /\ Find(P1, o) \in DOMAIN Q /\ Find(P2, c) \in DOMAIN Q
        /\ Find(P4, n) \in DOMAIN Q /\ Find(P4, t) \in DOMAIN Q /\ Find(P5, m) \in DOMAIN Q
    BY <1>27
  <2> QED
    BY <2>1, <2>2, RefFrom, SMTT(30)
<1> QED
  BY <1>10, <1>23, <1>25, <1>26, <1>28

\* It returns a pool, whether the indexes in it are right or not.
LEMMA MethodRefIsPool ==
  ASSUME NEW P, GoodPool(P)
  PROVE  GoodPool(WithMethodRef(P, Owner, Callee, CalleeType))
<1>1. \A X : GoodPool(X) => \A e : Find(X, e) \in Nat
  BY FindIsNat DEF GoodPool
<1>2. ASSUME NEW X, GoodPool(X), NEW e \in Entries, e # Wide PROVE GoodPool(Added(X, e))
  BY <1>2, AddedHolds
<1>3. \A text \in {Owner, Callee, CalleeType} : Utf8(text) \in Entries /\ Utf8(text) # Wide
  BY NamesAreTexts, EntryTypes
<1>4. ASSUME NEW X, GoodPool(X) PROVE GoodPool(WithClass(X, Owner))
  <2> DEFINE Y == Added(X, Utf8(Owner))
  <2>1. GoodPool(Y)
    BY <1>2, <1>3, <1>4
  <2> HIDE DEF Y
  <2>2. ClassOf(Y, Owner) \in Entries /\ ClassOf(Y, Owner) # Wide
    BY <1>1, <2>1, EntryTypes DEF ClassOf
  <2>3. GoodPool(Added(Y, ClassOf(Y, Owner)))
    BY <1>2, <2>1, <2>2
  <2> QED
    BY <2>3 DEF WithClass, Y
<1>5. ASSUME NEW X, GoodPool(X) PROVE GoodPool(WithNameAndType(X, Callee, CalleeType))
  <2> DEFINE Z == Added(X, Utf8(Callee))
             Y == Added(Z, Utf8(CalleeType))
  <2>1. GoodPool(Z)
    BY <1>2, <1>3, <1>5
  <2> HIDE DEF Z
  <2>2. GoodPool(Y)
    BY <1>2, <1>3, <2>1
  <2> HIDE DEF Y
  <2>3. MemberOf(Y, Callee, CalleeType) \in Entries /\ MemberOf(Y, Callee, CalleeType) # Wide
    BY <1>1, <2>2, EntryTypes DEF MemberOf
  <2>4. GoodPool(Added(Y, MemberOf(Y, Callee, CalleeType)))
    BY <1>2, <2>2, <2>3
  <2> QED
    BY <2>4 DEF WithNameAndType, Y, Z
<1>6. ASSUME NEW X, GoodPool(X)
      PROVE  RefOf(X, Owner, Callee, CalleeType) \in Entries /\ RefOf(X, Owner, Callee, CalleeType) # Wide
  BY <1>1, <1>6, EntryTypes DEF RefOf
<1>7. GoodPool(WithNameAndType(WithClass(P, Owner), Callee, CalleeType))
  BY <1>4, <1>5
<1> QED
  BY <1>2, <1>6, <1>7 DEF WithMethodRef

-----------------------------------------------------------------------------
\* The pool of a file that is edited.
PoolOf(f, P) ==
  /\ GoodPool(P)
  /\ \A k \in DOMAIN f.entries : /\ IndexOf(f.entries, k) \in DOMAIN P
                                 /\ P[IndexOf(f.entries, k)] = f.entries[k]

LEMMA PoolParsed ==
  ASSUME NEW f \in Files
  PROVE  PoolOf(f, Slots(f.entries))
<1>1. f.entries \in Seq(Entries)
  BY FilesAreLoadable DEF Loadable
<1> QED
  BY <1>1, SlotsHold DEF PoolOf, GoodPool

LEMMA PoolGrows ==
  ASSUME NEW f, NEW P, NEW Q, PoolOf(f, P), GoodPool(Q), Goes(P, Q)
  PROVE  PoolOf(f, Q)
BY DEF PoolOf, Goes

\* The method that is edited.
IsTarget(f, i) ==
  /\ Denotes(f.entries, f.methods[i].name, Utf8(Target))
  /\ Denotes(f.entries, f.methods[i].type, Utf8(TargetType))

Result(f, i) ==
  IF IsTarget(f, i) /\ f.methods[i].code # NoCode THEN Edited(f.methods[i]) ELSE Unedited(f.methods[i])

\* An index that is found is of the text looked for.
LEMMA FoundIsNamed ==
  ASSUME NEW f, NEW P, PoolOf(f, P), Len(P) < PoolU2, NEW text, Find(P, Utf8(text)) # 0,
         \E k \in DOMAIN f.entries : IndexOf(f.entries, k) = Find(P, Utf8(text))
  PROVE  Denotes(f.entries, Find(P, Utf8(text)), Utf8(text))
<1>1. PICK k \in DOMAIN f.entries : IndexOf(f.entries, k) = Find(P, Utf8(text))
  OBVIOUS
<1>2. P[Find(P, Utf8(text))] = f.entries[k]
  BY <1>1 DEF PoolOf
<1>3. P[Find(P, Utf8(text))] = Utf8(text)
  BY FindIsFirst DEF PoolOf, GoodPool
<1> QED
  BY <1>1, <1>2, <1>3 DEF Denotes

\* What prependToMethodCode matches is the target.
LEMMA MatchIsTarget ==
  ASSUME NEW f \in Files, NEW P, PoolOf(f, P), Len(P) < PoolU2, NEW i \in DOMAIN f.methods,
         Find(P, Utf8(Target)) # 0, Find(P, Utf8(TargetType)) # 0,
         Matches(Unedited(f.methods[i]), Find(P, Utf8(Target)), Find(P, Utf8(TargetType)))
  PROVE  IsTarget(f, i)
<1>1. /\ \E k \in DOMAIN f.entries : IndexOf(f.entries, k) = f.methods[i].name
      /\ \E k \in DOMAIN f.entries : IndexOf(f.entries, k) = f.methods[i].type
  BY FilesAreLoadable DEF Loadable
<1>2. f.methods[i].name = Find(P, Utf8(Target)) /\ f.methods[i].type = Find(P, Utf8(TargetType))
  BY DEF Matches, Unedited
<1> QED
  BY <1>1, <1>2, FoundIsNamed DEF IsTarget

\* A class has one method of a name and a descriptor.
LEMMA TargetIsOne ==
  ASSUME NEW f \in Files, NEW i \in DOMAIN f.methods, NEW j \in DOMAIN f.methods,
         IsTarget(f, i), IsTarget(f, j)
  PROVE  i = j
<1>1. \A s, e : Denotes(f.entries, s, e) => e \in ToSet(f.entries)
  BY DEF Denotes, ToSet
<1>2. \A x, y \in DOMAIN f.methods :
        /\ \E e \in ToSet(f.entries) :
             Denotes(f.entries, f.methods[x].name, e) /\ Denotes(f.entries, f.methods[y].name, e)
        /\ \E e \in ToSet(f.entries) :
             Denotes(f.entries, f.methods[x].type, e) /\ Denotes(f.entries, f.methods[y].type, e)
        => x = y
  BY FilesAreLoadable DEF Loadable
<1> QED
  BY <1>1, <1>2 DEF IsTarget

-----------------------------------------------------------------------------
\* What holds while a class is edited, one step after the other.
WithPool == {"parsed", "referenced", "prepended", "written"}

ReadInv == step # "waiting" => file \in Files /\ built.state = "built" /\ asked.this = Owner
PoolInv ==
  /\ step \in WithPool => PoolOf(file, pool)
  /\ step \in WithPool \ {"parsed"} => Len(pool) < PoolU2
RefInv == step \in WithPool \ {"parsed"} => RefThere(pool, mref)
UneditedInv ==
  step \in {"parsed", "referenced"} => methods = [i \in DOMAIN file.methods |-> Unedited(file.methods[i])]
EditedInv ==
  step \in {"prepended", "written"} =>
    DOMAIN methods = DOMAIN file.methods /\ \A i \in DOMAIN methods : methods[i] = Result(file, i)
WrittenInv ==
  step = "written" => written = [entries |-> Kept(pool), methods |-> methods, count |-> Len(pool) + 1]

EditInv == ReadInv /\ PoolInv /\ RefInv /\ UneditedInv /\ EditedInv /\ WrittenInv

LEMMA UneditedParts ==
  \A method : /\ Unedited(method).name = method.name /\ Unedited(method).type = method.type
              /\ Unedited(method).code = method.code
BY DEF Unedited

LEMMA InitEdit == Init => EditInv
BY DEF Init, EditInv, ReadInv, PoolInv, RefInv, UneditedInv, EditedInv, WrittenInv, WithPool

LEMMA HookEdit == EditInv /\ ClassFileLoadHook /\ UNCHANGED builderVars => EditInv'
<1> SUFFICES ASSUME ClassFileLoadHook, UNCHANGED builderVars PROVE EditInv'
  OBVIOUS
<1>1. step' = "read" /\ file' \in Files /\ built'.state = "built" /\ asked'.this = Owner
  BY DEF ClassFileLoadHook, builderVars
<1> QED
  BY <1>1 DEF EditInv, ReadInv, PoolInv, RefInv, UneditedInv, EditedInv, WrittenInv, WithPool

LEMMA ParseEdit == EditInv /\ Parse /\ UNCHANGED builderVars => EditInv'
<1> SUFFICES ASSUME EditInv, Parse, UNCHANGED builderVars PROVE EditInv'
  OBVIOUS
<1>1. /\ step = "read" /\ step' = "parsed" /\ file' = file /\ pool' = Slots(file.entries)
      /\ methods' = [i \in DOMAIN file.methods |-> Unedited(file.methods[i])]
      /\ built' = built /\ asked' = asked
  BY DEF Parse, builderVars
<1>2. file \in Files /\ ReadInv'
  BY <1>1 DEF EditInv, ReadInv
<1>3. PoolInv'
  BY <1>1, <1>2, PoolParsed DEF PoolInv
<1>4. UneditedInv'
  BY <1>1 DEF UneditedInv
<1> QED
  BY <1>1, <1>2, <1>3, <1>4 DEF EditInv, RefInv, EditedInv, WrittenInv, WithPool

LEMMA AddMethodRefEdit == EditInv /\ AddMethodRef /\ UNCHANGED builderVars => EditInv'
<1> SUFFICES ASSUME EditInv, AddMethodRef, UNCHANGED builderVars PROVE EditInv'
  OBVIOUS
<1> DEFINE Q == WithMethodRef(pool, Owner, Callee, CalleeType)
<1>1. /\ step = "parsed" /\ file' = file /\ methods' = methods
      /\ built' = built /\ asked' = asked
      /\ \/ step' = "stuck"
         \/ /\ step' = "referenced" /\ ~Endless(Size(Q) - 1)
            /\ pool' = Q /\ mref' = Find(Q, RefOf(Q, Owner, Callee, CalleeType))
  BY DEF AddMethodRef, builderVars
<1>2. ReadInv'
  BY <1>1 DEF EditInv, ReadInv
<1>3. CASE step' = "stuck"
  BY <1>2, <1>3 DEF EditInv, PoolInv, RefInv, UneditedInv, EditedInv, WrittenInv, WithPool
<1>4. CASE /\ step' = "referenced" /\ ~Endless(Size(Q) - 1)
           /\ pool' = Q /\ mref' = Find(Q, RefOf(Q, Owner, Callee, CalleeType))
  <2>1. PoolOf(file, pool)
    BY <1>1 DEF EditInv, PoolInv, WithPool
  <2>2. Len(Q) < PoolU2
    <3>1. Q \in Seq(SlotTypes)
      BY <2>1, MethodRefIsPool DEF PoolOf, GoodPool
    <3> HIDE DEF Q
    <3>2. Len(Q) \in Nat
      BY <3>1, LenProperties
    <3> QED
      BY <1>4, <3>2, SizesAreNat DEF Endless, Size
  <2>3. GoodPool(Q) /\ Goes(pool, Q) /\ RefThere(Q, mref')
    BY <1>4, <2>1, <2>2, MethodRefIsThere DEF PoolOf
  <2> HIDE DEF Q
  <2>4. PoolInv'
    BY <1>1, <1>4, <2>1, <2>2, <2>3, PoolGrows DEF PoolInv
  <2>5. RefInv'
    BY <1>4, <2>3 DEF RefInv
  <2>6. UneditedInv'
    BY <1>1 DEF EditInv, UneditedInv
  <2> QED
    BY <1>2, <1>4, <2>4, <2>5, <2>6 DEF EditInv, EditedInv, WrittenInv
<1> QED
  BY <1>1, <1>3, <1>4

LEMMA PrependEdit == EditInv /\ Prepend /\ UNCHANGED builderVars => EditInv'
<1> SUFFICES ASSUME EditInv, Prepend, UNCHANGED builderVars PROVE EditInv'
  OBVIOUS
<1>1. /\ step = "referenced" /\ file' = file /\ mref' = mref /\ written' = written
      /\ built' = built /\ asked' = asked
  BY DEF Prepend, builderVars
<1>2. ReadInv' /\ file \in Files
  BY <1>1 DEF EditInv, ReadInv
<1> DEFINE name == Find(pool, Utf8(Target))
           type == Find(pool, Utf8(TargetType))
           I == {j \in 1..Len(methods) : Matches(methods[j], name, type)}
           i == IF I # {} THEN Min(I) ELSE 0
<1>3. \/ step' \in {"refused", "stuck"}
      \/ /\ name # 0 /\ type # 0 /\ i # 0 /\ step' = "prepended"
         /\ Endless(Size(pool)) => Find(pool, Utf8("Code")) # 0
         /\ pool' = Added(pool, Utf8("Code"))
         /\ methods' = IF methods[i].code = NoCode THEN methods ELSE [methods EXCEPT ![i] = Edited(@)]
  BY DEF Prepend, SelectInSeq
<1>4. CASE step' \in {"refused", "stuck"}
  BY <1>2, <1>4 DEF EditInv, PoolInv, RefInv, UneditedInv, EditedInv, WrittenInv, WithPool
<1>5. CASE /\ name # 0 /\ type # 0 /\ i # 0 /\ step' = "prepended"
           /\ Endless(Size(pool)) => Find(pool, Utf8("Code")) # 0
           /\ pool' = Added(pool, Utf8("Code"))
           /\ methods' = IF methods[i].code = NoCode THEN methods ELSE [methods EXCEPT ![i] = Edited(@)]
  <2>1. PoolOf(file, pool) /\ RefThere(pool, mref) /\ Len(pool) < PoolU2
    BY <1>1 DEF EditInv, PoolInv, RefInv, WithPool
  <2>2. GoodPool(pool') /\ Goes(pool, pool')
    <3>1. GoodPool(pool) /\ Utf8("Code") \in Entries /\ Utf8("Code") # Wide
      <4>1. Utf8("Code") \in Entries /\ Utf8("Code") # Wide
        BY CodeIsText, EntryTypes
      <4> QED
        BY <2>1, <4>1 DEF PoolOf
    <3>2. GoodPool(Added(pool, Utf8("Code"))) /\ Goes(pool, Added(pool, Utf8("Code")))
      BY <3>1, AddedHolds
    <3> QED
      BY <1>5, <3>2
  <2>3. PoolInv' /\ RefInv'
    <3>1. Len(Added(pool, Utf8("Code"))) < PoolU2
      <4>1. CASE Find(pool, Utf8("Code")) # 0
        BY <2>1, <4>1 DEF Added
      <4>2. CASE Find(pool, Utf8("Code")) = 0
        <5>1. pool \in Seq(SlotTypes) /\ Utf8("Code") \in SlotTypes
          BY <2>1, CodeIsText, EntryTypes DEF PoolOf, GoodPool, SlotTypes
        <5>2. Len(pool) \in Nat /\ Len(Added(pool, Utf8("Code"))) = Len(pool) + 1
          BY <4>2, <5>1, AppendProperties, LenProperties DEF Added
        <5> QED
          BY <1>5, <4>2, <5>2, SizesAreNat DEF Endless, Size
      <4> QED
        BY <4>1, <4>2
    <3> QED
      BY <1>1, <1>5, <2>1, <2>2, <3>1, PoolGrows, RefStays DEF PoolInv, RefInv
  <2>4. PICK n \in Nat : DOMAIN file.methods = 1..n
    <3>1. PICK S : file.methods \in Seq(S)
      BY <1>2, FilesAreLoadable DEF Loadable
    <3> QED
      BY <3>1, LenProperties
  <2>5. methods = [j \in 1..n |-> Unedited(file.methods[j])]
    BY <1>1, <2>4 DEF EditInv, UneditedInv
  <2>6. Len(methods) = n
    BY <2>5
  <2>7. i \in I /\ i \in 1..n
    <3>1. I \subseteq 1..n
      BY <2>6
    <3> HIDE DEF I
    <3>2. \A at : at = (IF I # {} THEN Min(I) ELSE 0) /\ at # 0 => at \in I
      BY <3>1, FirstIsLeast
    <3> QED
      BY <1>5, <3>1, <3>2
  <2>8. \A j \in 1..n : methods[j] = Unedited(file.methods[j])
    BY <2>5
  <2>9. Matches(methods[i], name, type) /\ methods[i] = Unedited(file.methods[i])
    BY <2>7, <2>8
  <2>10. IsTarget(file, i)
    BY <1>2, <1>5, <2>1, <2>4, <2>7, <2>9, MatchIsTarget
  <2>11. ASSUME NEW j \in 1..n, IsTarget(file, j) PROVE j = i
    BY <1>2, <2>4, <2>7, <2>10, <2>11, TargetIsOne
  <2> HIDE DEF i, I, name, type
  <2>12. Edited(Unedited(file.methods[i])) = Edited(file.methods[i]) /\ methods[i].code = file.methods[i].code
    <3>1. Edited(Unedited(file.methods[i])) = Edited(file.methods[i])
      BY DEF Edited, Unedited
    <3>2. \A x \in 1..n : methods[x].code = file.methods[x].code
      BY <2>8, UneditedParts
    <3> QED
      BY <2>7, <3>1, <3>2
  <2>13. DOMAIN methods' = 1..n
    BY <1>5, <2>5
  <2>14. ASSUME NEW j \in 1..n PROVE methods'[j] = Result(file, j)
    <3>1. CASE j = i
      <4>1. CASE file.methods[i].code = NoCode
        BY <1>5, <2>7, <2>8, <2>12, <3>1, <4>1 DEF Result
      <4>2. CASE file.methods[i].code # NoCode
        <5>1. methods'[i] = Edited(methods[i])
          BY <1>5, <2>5, <2>7, <2>12, <4>2
        <5> QED
          BY <2>7, <2>8, <2>10, <2>12, <3>1, <4>2, <5>1 DEF Result
      <4> QED
        BY <4>1, <4>2
    <3>2. CASE j # i
      <4>1. methods'[j] = methods[j]
        BY <1>5, <2>5, <3>2
      <4> QED
        BY <2>8, <2>11, <3>2, <4>1 DEF Result
    <3> QED
      BY <3>1, <3>2
  <2>15. EditedInv'
    BY <1>1, <2>4, <2>13, <2>14 DEF EditedInv
  <2> QED
    BY <1>2, <1>5, <2>3, <2>15 DEF EditInv, UneditedInv, WrittenInv
<1> QED
  BY <1>3, <1>4, <1>5

LEMMA SerializeEdit == EditInv /\ Serialize /\ UNCHANGED builderVars => EditInv'
<1> SUFFICES ASSUME EditInv, Serialize, UNCHANGED builderVars PROVE EditInv'
  OBVIOUS
<1>1. /\ step = "prepended" /\ file' = file /\ pool' = pool /\ methods' = methods /\ mref' = mref
      /\ built' = built /\ asked' = asked
      /\ \/ /\ step' = "written" /\ ~Endless(Size(pool))
            /\ written' = [entries |-> Kept(pool), methods |-> methods, count |-> Size(pool) % PoolU2]
         \/ step' = "refused"
  BY DEF Serialize, builderVars
<1>2. ReadInv' /\ PoolInv' /\ RefInv'
  BY <1>1 DEF EditInv, ReadInv, PoolInv, RefInv, WithPool
<1>3. UneditedInv' /\ EditedInv'
  BY <1>1 DEF EditInv, UneditedInv, EditedInv
<1>4. ~Endless(Size(pool)) => Size(pool) % PoolU2 = Len(pool) + 1
  <2>1. Len(pool) \in Nat
    BY <1>1, LenProperties DEF EditInv, PoolInv, PoolOf, GoodPool, WithPool
  <2>2. \A n \in Nat : n < PoolU2 => n % PoolU2 = n
    BY SizesAreNat
  <2> QED
    BY <2>1, <2>2, SizesAreNat DEF Endless, Size
<1>5. WrittenInv'
  BY <1>1, <1>4 DEF WrittenInv
<1> QED
  BY <1>2, <1>3, <1>5 DEF EditInv

\* A class that is built stays as it is, so the bridge does.
LEMMA BuilderEdit == EditInv /\ BuilderStep /\ UNCHANGED editVars => EditInv'
<1> SUFFICES ASSUME EditInv, BuilderStep, UNCHANGED editVars PROVE EditInv'
  OBVIOUS
<1>1. built = NotBuilt
  BY DEF BuilderStep, Call, Build
<1>2. step = "waiting"
  BY <1>1 DEF EditInv, ReadInv, NotBuilt
<1>3. step' = "waiting"
  BY <1>2 DEF editVars
<1> QED
  BY <1>3 DEF EditInv, ReadInv, PoolInv, RefInv, UneditedInv, EditedInv, WrittenInv, WithPool

LEMMA NextEdit == EditInv /\ [Next]_vars => EditInv'
<1> SUFFICES ASSUME EditInv, [Next]_vars PROVE EditInv'
  OBVIOUS
<1>1. CASE BuilderStep /\ UNCHANGED editVars
  BY <1>1, BuilderEdit
<1>2. CASE EditStep /\ UNCHANGED builderVars
  BY <1>2, HookEdit, ParseEdit, AddMethodRefEdit, PrependEdit, SerializeEdit DEF EditStep
<1>3. CASE UNCHANGED vars
  BY <1>3 DEF vars, editVars, builderVars, EditInv, ReadInv, PoolInv, RefInv, UneditedInv, EditedInv, WrittenInv
<1> QED
  BY <1>1, <1>2, <1>3 DEF Next

\* The edit keeps, step by step, what the next one needs: the pool, the
\* reference in it, and the methods as they were or edited as they should be
\* (class_edit.cpp:72-144, 168-235, 381-400, 514-521).
THEOREM EditInvHolds == Spec => []EditInv
<1>1. Init => EditInv
  BY InitEdit
<1>2. EditInv /\ [Next]_vars => EditInv'
  BY NextEdit
<1> QED
  BY <1>1, <1>2, PTL DEF Spec

-----------------------------------------------------------------------------
\* The part of IndexesKeepMeaning that is about the edited class.
EditKeepsMeaning ==
  step = "written" =>
    /\ RefersTo(written.entries, mref, MethodRef, Owner, Callee, CalleeType)
    /\ \A i \in DOMAIN file.entries :
         Denotes(written.entries, IndexOf(file.entries, i), file.entries[i])
    /\ Taken(written.entries) = 1..(written.count - 1)

LEMMA IndexesKept == EditInv => EditKeepsMeaning
<1> SUFFICES ASSUME EditInv, step = "written" PROVE EditKeepsMeaning
  BY DEF EditKeepsMeaning
<1> DEFINE P == pool
           W == written.entries
<1>1. W = Kept(P) /\ PoolOf(file, P) /\ RefThere(P, mref) /\ file \in Files
  BY DEF EditInv, ReadInv, PoolInv, RefInv, WrittenInv, WithPool
<1>2. W \in Seq(Entries) /\ \A s \in DOMAIN P : P[s] # Gap => Denotes(W, s, P[s])
  BY <1>1, KeptHolds DEF PoolOf, GoodPool
<1>5. Taken(W) = 1..(written.count - 1)
  <2>1. written.count - 1 = Len(P)
    <3>1. written.count = Len(P) + 1 /\ Len(P) \in Nat
      BY <1>1, LenProperties DEF EditInv, WrittenInv, PoolOf, GoodPool
    <3> QED
      BY <3>1
  <2> QED
    BY <1>1, <2>1, KeptIsCounted DEF PoolOf, GoodPool
<1> HIDE DEF P, W
<1>3. ASSUME NEW i \in DOMAIN file.entries PROVE Denotes(W, IndexOf(file.entries, i), file.entries[i])
  <2>1. IndexOf(file.entries, i) \in DOMAIN P /\ P[IndexOf(file.entries, i)] = file.entries[i]
    BY <1>1 DEF PoolOf
  <2>2. file.entries[i] # Gap
    <3>1. file.entries \in Seq(Entries)
      BY <1>1, FilesAreLoadable DEF Loadable
    <3>2. file.entries[i] \in Entries
      BY <3>1
    <3> QED
      BY <3>2, GapIsNoEntry
  <2> QED
    BY <1>2, <2>1, <2>2
<1>4. RefersTo(W, mref, MethodRef, Owner, Callee, CalleeType)
  <2>1. PICK c \in DOMAIN P, m \in DOMAIN P, o \in DOMAIN P, n \in DOMAIN P, t \in DOMAIN P :
          /\ mref \in DOMAIN P /\ P[mref] = MethodRef(c, m)
          /\ P[c] = Class(o) /\ P[o] = Utf8(Owner)
          /\ P[m] = NameAndType(n, t) /\ P[n] = Utf8(Callee) /\ P[t] = Utf8(CalleeType)
    BY <1>1 DEF RefThere
  <2>2. P[mref] # Gap /\ P[c] # Gap /\ P[o] # Gap /\ P[m] # Gap /\ P[n] # Gap /\ P[t] # Gap
    <3>1. \A x, y : MethodRef(x, y) # Gap /\ NameAndType(x, y) # Gap
      BY DEF Gap, MethodRef, NameAndType
    <3>2. \A x : Class(x) # Gap /\ Utf8(x) # Gap
      BY DEF Gap, Class, Utf8
    <3> QED
      BY <2>1, <3>1, <3>2
  <2>3. /\ Denotes(W, mref, MethodRef(c, m)) /\ Denotes(W, c, Class(o)) /\ Denotes(W, o, Utf8(Owner))
        /\ Denotes(W, m, NameAndType(n, t)) /\ Denotes(W, n, Utf8(Callee)) /\ Denotes(W, t, Utf8(CalleeType))
    BY <1>2, <2>1, <2>2
  <2>4. o \in Named(W, Owner) /\ n \in Named(W, Callee) /\ t \in Named(W, CalleeType)
    BY <1>2, <2>3, DenotesIsNamed
  <2>5. PICK i \in DOMAIN W : IndexOf(W, i) = mref /\ W[i] = MethodRef(c, m)
    BY <2>3 DEF Denotes
  <2>6. PICK j \in DOMAIN W : IndexOf(W, j) = c /\ W[j] = Class(o)
    BY <2>3 DEF Denotes
  <2>7. PICK k \in DOMAIN W : IndexOf(W, k) = m /\ W[k] = NameAndType(n, t)
    BY <2>3 DEF Denotes
  <2>8. W[i] = MethodRef(IndexOf(W, j), IndexOf(W, k))
    BY <2>5, <2>6, <2>7
  <2> QED
    BY <2>4, <2>5, <2>6, <2>7, <2>8 DEF RefersTo
<1> QED
  BY <1>3, <1>4, <1>5 DEF EditKeepsMeaning, W

-----------------------------------------------------------------------------
\* A position and what was inserted stay below the width of an offset.
LEMMA MovedFits ==
  ASSUME NEW pc \in Nat, pc + Delta < U2
  PROVE  Moved(pc) = pc + Delta
<1>1. pc + Delta \in Nat /\ U2 \in Nat \ {0}
  BY SizesAreNat
<1>2. \A n \in Nat : n < U2 => n % U2 = n
  BY <1>1
<1> QED
  BY <1>1, <1>2 DEF Moved

\* What is changed is the code of the target, which is now longer.
LEMMA ChangedIsRebuilt ==
  ASSUME EditInv, step = "written", NEW i \in Changed
  PROVE  /\ file \in Files /\ i \in DOMAIN file.methods /\ IsTarget(file, i)
         /\ file.methods[i].code \in CodeTypes
         /\ WellFormed(file.methods[i].code) /\ file.methods[i].code.len + Delta < U2
         /\ written.methods[i].code = Rebuilt(file.methods[i].code)
<1>1. /\ file \in Files /\ written.methods = methods /\ DOMAIN methods = DOMAIN file.methods
      /\ i \in DOMAIN methods /\ methods[i] = Result(file, i) /\ methods[i].inserted
  BY DEF EditInv, ReadInv, EditedInv, WrittenInv, Changed
<1>2. IsTarget(file, i) /\ file.methods[i].code # NoCode /\ methods[i].code = Rebuilt(file.methods[i].code)
  BY <1>1 DEF Result, Edited, Unedited
<1>3. /\ file.methods \in Seq([name : Nat, type : Nat, code : CodeTypes \cup {NoCode}])
      /\ file.methods[i].code # NoCode =>
           WellFormed(file.methods[i].code) /\ file.methods[i].code.len + Delta < U2
  BY <1>1, FilesAreLoadable DEF Loadable
<1>4. file.methods[i] \in [name : Nat, type : Nat, code : CodeTypes \cup {NoCode}]
  <2> DEFINE T == [name : Nat, type : Nat, code : CodeTypes \cup {NoCode}]
  <2> HIDE DEF T
  <2>1. file.methods \in Seq(T)
    BY <1>3 DEF T
  <2>2. file.methods[i] \in T
    BY <1>1, <2>1
  <2> QED
    BY <2>2 DEF T
<1> QED
  BY <1>1, <1>2, <1>3, <1>4

\* The first frame moves by the insertion, the others with it.
LEMMA FramesMoved ==
  ASSUME NEW code \in CodeTypes, WellFormed(code), code.len + Delta < U2,
         NEW new, new = ShiftStackMap(code.frames)
  PROVE  /\ DOMAIN new = DOMAIN code.frames
         /\ \A pcs \in [DOMAIN code.frames -> 0..(code.len - 1)] :
              Describe(code.frames, pcs) => Describe(new, [i \in DOMAIN pcs |-> pcs[i] + Delta])
         /\ \A i \in DOMAIN code.frames :
              /\ new[i].kind = code.frames[i].kind
              /\ ~new[i].ext => new[i].offset <= Narrow
<1> DEFINE old == code.frames
<1>1. PICK n \in Nat : DOMAIN old = 1..n /\ old \in [1..n -> FrameTypes]
  <2>1. old \in Seq(FrameTypes)
    BY DEF CodeTypes
  <2> HIDE DEF old
  <2> QED
    BY <2>1, LenProperties
<1>2. /\ code.len \in Nat /\ Delta \in Nat
      /\ \A i \in DOMAIN old : ~old[i].ext => old[i].offset <= Narrow
      /\ \E pcs \in [DOMAIN old -> 0..(code.len - 1)] : Describe(old, pcs)
  BY SizesAreNat DEF CodeTypes, WellFormed
<1>3. new = [i \in DOMAIN old |-> IF i = 1 THEN MoveFrame(old[i]) ELSE old[i]]
  BY DEF ShiftStackMap
<1> HIDE DEF old
<1>4. ASSUME NEW i \in 1..n
      PROVE  old[i].kind \in {"same", "one item", "other"} /\ old[i].ext \in BOOLEAN /\ old[i].offset \in Nat
  BY <1>1 DEF FrameTypes
<1>5. ASSUME 1 \in 1..n
      PROVE  /\ new[1].offset = old[1].offset + Delta /\ new[1].kind = old[1].kind
             /\ new[1].ext = (old[1].ext \/ old[1].offset + Delta > Narrow)
  <2>1. PICK pcs \in [1..n -> 0..(code.len - 1)] : Describe(old, pcs)
    BY <1>1, <1>2
  <2>2. pcs[1] = old[1].offset /\ pcs[1] \in 0..(code.len - 1)
    BY <1>1, <1>5, <2>1 DEF Describe
  <2>3. old[1].offset \in Nat /\ old[1].offset + Delta < U2
    BY <1>2, <2>2, SizesAreNat
  <2>4. Moved(old[1].offset) = old[1].offset + Delta
    BY <2>3, MovedFits
  <2>5. new[1] = MoveFrame(old[1]) /\ old[1] \in FrameTypes
    BY <1>1, <1>3, <1>5
  <2> QED
    BY <2>4, <2>5 DEF MoveFrame, FrameTypes
<1>6. \A i \in 1..n : i # 1 => new[i] = old[i]
  BY <1>1, <1>3
<1>7. DOMAIN new = 1..n
  BY <1>1, <1>3
<1>8. ASSUME NEW pcs \in [1..n -> 0..(code.len - 1)], Describe(old, pcs)
      PROVE  Describe(new, [i \in DOMAIN pcs |-> pcs[i] + Delta])
  <2> DEFINE q == [i \in DOMAIN pcs |-> pcs[i] + Delta]
  <2>1. \A i \in 1..n : q[i] = pcs[i] + Delta /\ pcs[i] \in Nat
    BY <1>2
  <2> HIDE DEF q
  <2>2. ASSUME NEW i \in 1..n
        PROVE  q[i] = IF i = 1 THEN new[i].offset ELSE q[i - 1] + new[i].offset + 1
    <3>1. pcs[i] = IF i = 1 THEN old[i].offset ELSE pcs[i - 1] + old[i].offset + 1
      BY <1>1, <1>8 DEF Describe
    <3>2. CASE i = 1
      BY <1>5, <2>1, <3>1, <3>2
    <3>3. CASE i # 1
      <4>1. i - 1 \in 1..n /\ new[i].offset = old[i].offset /\ old[i].offset \in Nat
        <5>1. i - 1 \in 1..n
          BY <3>3
        <5>2. new[i] = old[i]
          BY <1>6, <3>3
        <5>3. old[i].offset \in Nat
          BY <1>4
        <5> QED
          BY <5>1, <5>2, <5>3
      <4>2. q[i] = pcs[i] + Delta /\ q[i - 1] = pcs[i - 1] + Delta /\ pcs[i - 1] \in Nat /\ pcs[i] \in Nat
        BY <2>1, <4>1
      <4>3. \A a, b, d, o \in Nat : a = b + o + 1 => a + d = (b + d) + o + 1
        OBVIOUS
      <4>4. pcs[i] = pcs[i - 1] + old[i].offset + 1 /\ Delta \in Nat
        BY <3>1, <3>3, SizesAreNat
      <4>5. pcs[i] + Delta = (pcs[i - 1] + Delta) + old[i].offset + 1
        BY <4>1, <4>2, <4>3, <4>4
      <4> QED
        BY <3>3, <4>1, <4>2, <4>5
    <3> QED
      BY <3>2, <3>3
  <2> QED
    BY <1>7, <2>2 DEF Describe, q
<1>9. ASSUME NEW i \in 1..n
      PROVE  new[i].kind = old[i].kind /\ (~new[i].ext => new[i].offset <= Narrow)
  <2>1. CASE i = 1
    <3>1. old[1].offset \in Nat /\ Narrow \in Nat /\ Delta \in Nat
      BY <1>4, <2>1, SizesAreNat
    <3>2. /\ new[1].offset = old[1].offset + Delta /\ new[1].kind = old[1].kind
          /\ new[1].ext = (old[1].ext \/ old[1].offset + Delta > Narrow)
      BY <1>5, <2>1
    <3>3. ~new[1].ext => ~(old[1].offset + Delta > Narrow)
      BY <3>2
    <3>4. ~new[1].ext => new[1].offset <= Narrow
      BY <3>1, <3>2, <3>3
    <3> QED
      BY <2>1, <3>2, <3>4
  <2>2. CASE i # 1
    BY <1>1, <1>2, <1>6, <2>2
  <2> QED
    BY <2>1, <2>2
<1> QED
  BY <1>1, <1>7, <1>8, <1>9 DEF old

\* Every stack-map frame describes the instruction it described before, in a form
\* that can hold its offset (class_edit.cpp:237-339).
THEOREM FramesFollowCodeHolds == Spec => []FramesFollowCode
<1>1. EditInv => FramesFollowCode
  <2> SUFFICES ASSUME EditInv, step = "written", NEW i \in Changed,
                      NEW old, old = file.methods[i].code, NEW new, new = written.methods[i].code
               PROVE  /\ DOMAIN new.frames = DOMAIN old.frames
                      /\ \A pcs \in [DOMAIN old.frames -> 0..(old.len - 1)] :
                           Describe(old.frames, pcs) => Describe(new.frames, [j \in DOMAIN pcs |-> pcs[j] + Delta])
                      /\ \A j \in DOMAIN old.frames :
                           /\ new.frames[j].kind = old.frames[j].kind
                           /\ ~new.frames[j].ext => new.frames[j].offset <= Narrow
    BY DEF FramesFollowCode, EachEdit
  <2>1. old \in CodeTypes /\ WellFormed(old) /\ old.len + Delta < U2 /\ new = Rebuilt(old)
    BY ChangedIsRebuilt
  <2>2. new.frames = ShiftStackMap(old.frames)
    BY <2>1 DEF Rebuilt
  <2> QED
    BY <2>1, <2>2, FramesMoved
<1> QED
  BY <1>1, EditInvHolds, PTL

-----------------------------------------------------------------------------
\* A variable and a handler move with the code they speak of.
VarTypes == [start : Nat, length : Nat, slot : Nat]
HandlerTypes == [from : Nat, to : Nat, at : Nat]

LEMMA VarMoved ==
  ASSUME NEW v \in VarTypes, v.start + v.length + Delta < U2, NEW pc \in Nat
  PROVE  /\ MoveVar(v).slot = v.slot
         /\ pc + Delta \in MoveVar(v).start..(MoveVar(v).start + MoveVar(v).length - 1)
              <=> pc \in v.start..(v.start + v.length - 1)
<1>1. Delta \in Nat /\ v.start \in Nat /\ v.length \in Nat
  BY SizesAreNat DEF VarTypes
<1>2. v.start + Delta < U2 /\ v.length + Delta < U2
  BY <1>1, SizesAreNat
<1>3. Moved(v.start) = v.start + Delta /\ Moved(v.length) = v.length + Delta
  BY <1>1, <1>2, MovedFits
<1>4. CASE v.start = 0
  <2>1. MoveVar(v).start = 0 /\ MoveVar(v).length = v.length + Delta /\ MoveVar(v).slot = v.slot
    BY <1>3, <1>4 DEF MoveVar, VarTypes
  <2> QED
    BY <1>1, <1>4, <2>1
<1>5. CASE v.start # 0
  <2>1. MoveVar(v).start = v.start + Delta /\ MoveVar(v).length = v.length /\ MoveVar(v).slot = v.slot
    BY <1>3, <1>5 DEF MoveVar, VarTypes
  <2> QED
    BY <1>1, <2>1
<1> QED
  BY <1>4, <1>5

LEMMA HandlerMoved ==
  ASSUME NEW h \in HandlerTypes, h.from < h.to, h.to + Delta < U2, h.at + Delta < U2
  PROVE  /\ MoveHandler(h).at - Delta = h.at
         /\ \A pc \in Nat : pc + Delta \in MoveHandler(h).from..(MoveHandler(h).to - 1)
                              <=> pc \in h.from..(h.to - 1)
         /\ \A pc \in 0..(Delta - 1) : pc \notin MoveHandler(h).from..(MoveHandler(h).to - 1)
<1>1. Delta \in Nat /\ h.from \in Nat /\ h.to \in Nat /\ h.at \in Nat
  BY SizesAreNat DEF HandlerTypes
<1>2. h.from + Delta < U2
  BY <1>1, SizesAreNat
<1>3. Moved(h.from) = h.from + Delta /\ Moved(h.to) = h.to + Delta /\ Moved(h.at) = h.at + Delta
  BY <1>1, <1>2, MovedFits
<1>4. /\ MoveHandler(h).from = h.from + Delta /\ MoveHandler(h).to = h.to + Delta
      /\ MoveHandler(h).at = h.at + Delta
  BY <1>3 DEF MoveHandler, HandlerTypes
<1> QED
  BY <1>1, <1>4

LEMMA ScopesMoved ==
  ASSUME NEW old \in CodeTypes, WellFormed(old), old.len + Delta < U2, NEW new, new = Rebuilt(old)
  PROVE  /\ \A pc \in 0..(old.len - 1) :
              /\ {v.slot : v \in VisibleAt(new, pc + Delta)} = {v.slot : v \in VisibleAt(old, pc)}
              /\ {h.at - Delta : h \in GuardedAt(new, pc + Delta)} = {h.at : h \in GuardedAt(old, pc)}
              /\ pc + Delta \in ToSet(new.lines) <=> pc \in ToSet(old.lines)
         /\ \A pc \in 0..(Delta - 1) : GuardedAt(new, pc) = {}
         /\ new.stack >= ExtraStack /\ new.stack >= old.stack
<1>1. /\ Delta \in Nat /\ ExtraStack \in Nat /\ old.len \in Nat /\ old.stack \in Nat /\ U2 \in Nat
      /\ old.vars \in Seq(VarTypes) /\ old.handlers \in Seq(HandlerTypes) /\ old.lines \in Seq(Nat)
  BY SizesAreNat DEF CodeTypes, VarTypes, HandlerTypes
<1>2. /\ \A i \in DOMAIN old.vars : old.vars[i].start + old.vars[i].length <= old.len
      /\ \A i \in DOMAIN old.handlers :
           /\ old.handlers[i].from < old.handlers[i].to
           /\ old.handlers[i].to <= old.len /\ old.handlers[i].at < old.len
      /\ \A i \in DOMAIN old.lines : old.lines[i] < old.len
  BY DEF WellFormed
<1>3. /\ new.stack = (IF ExtraStack > old.stack THEN ExtraStack ELSE old.stack)
      /\ new.vars = [i \in DOMAIN old.vars |-> MoveVar(old.vars[i])]
      /\ new.handlers = [i \in DOMAIN old.handlers |-> MoveHandler(old.handlers[i])]
      /\ new.lines = [i \in DOMAIN old.lines |-> Moved(old.lines[i])]
  BY DEF Rebuilt, MoveHandlers, ShiftLineNumberTable, ShiftLocalVarTable
<1>4. new.stack >= ExtraStack /\ new.stack >= old.stack
  BY <1>1, <1>3
<1>5. PICK nv \in Nat : DOMAIN old.vars = 1..nv
  BY <1>1, LenProperties
<1>6. PICK nh \in Nat : DOMAIN old.handlers = 1..nh
  BY <1>1, LenProperties
<1>7. \A i \in 1..nv : /\ new.vars[i] = MoveVar(old.vars[i]) /\ old.vars[i] \in VarTypes
                       /\ old.vars[i].start + old.vars[i].length + Delta < U2
  <2> SUFFICES ASSUME NEW i \in 1..nv
               PROVE  /\ new.vars[i] = MoveVar(old.vars[i]) /\ old.vars[i] \in VarTypes
                      /\ old.vars[i].start + old.vars[i].length + Delta < U2
    OBVIOUS
  <2>1. new.vars[i] = MoveVar(old.vars[i]) /\ old.vars[i] \in VarTypes
    BY <1>1, <1>3, <1>5
  <2>2. old.vars[i].start \in Nat /\ old.vars[i].length \in Nat
    BY <2>1 DEF VarTypes
  <2>3. old.vars[i].start + old.vars[i].length <= old.len
    BY <1>2, <1>5
  <2>4. \A x, y \in Nat : x + y <= old.len => x + y + Delta < U2
    BY <1>1
  <2> QED
    BY <2>1, <2>2, <2>3, <2>4
<1>8. \A i \in 1..nh : /\ new.handlers[i] = MoveHandler(old.handlers[i]) /\ old.handlers[i] \in HandlerTypes
                       /\ old.handlers[i].from < old.handlers[i].to
                       /\ old.handlers[i].to + Delta < U2 /\ old.handlers[i].at + Delta < U2
  <2> SUFFICES ASSUME NEW i \in 1..nh
               PROVE  /\ new.handlers[i] = MoveHandler(old.handlers[i]) /\ old.handlers[i] \in HandlerTypes
                      /\ old.handlers[i].from < old.handlers[i].to
                      /\ old.handlers[i].to + Delta < U2 /\ old.handlers[i].at + Delta < U2
    OBVIOUS
  <2>1. new.handlers[i] = MoveHandler(old.handlers[i]) /\ old.handlers[i] \in HandlerTypes
    BY <1>1, <1>3, <1>6
  <2>2. old.handlers[i].to \in Nat /\ old.handlers[i].at \in Nat
    BY <2>1 DEF HandlerTypes
  <2>3. /\ old.handlers[i].from < old.handlers[i].to
        /\ old.handlers[i].to <= old.len /\ old.handlers[i].at < old.len
    BY <1>2, <1>6
  <2>4. \A x \in Nat : x <= old.len => x + Delta < U2
    BY <1>1
  <2>5. \A x \in Nat : x < old.len => x <= old.len
    BY <1>1
  <2> QED
    BY <2>1, <2>2, <2>3, <2>4, <2>5
<1>9. DOMAIN new.vars = 1..nv /\ DOMAIN new.handlers = 1..nh
  BY <1>3, <1>5, <1>6
<1>10. ASSUME NEW pc \in 0..(old.len - 1)
       PROVE  {v.slot : v \in VisibleAt(new, pc + Delta)} = {v.slot : v \in VisibleAt(old, pc)}
  <2> DEFINE There(i) == pc + Delta \in new.vars[i].start..(new.vars[i].start + new.vars[i].length - 1)
             Here(i) == pc \in old.vars[i].start..(old.vars[i].start + old.vars[i].length - 1)
             I == {i \in 1..nv : Here(i)}
  <2>1. pc \in Nat
    BY <1>1
  <2>2. \A i \in 1..nv : (There(i) <=> Here(i)) /\ new.vars[i].slot = old.vars[i].slot
    BY <1>7, <2>1, VarMoved
  <2>3. ToSet(new.vars) = {new.vars[i] : i \in 1..nv} /\ ToSet(old.vars) = {old.vars[i] : i \in 1..nv}
    BY <1>5, <1>9 DEF ToSet
  <2>4. VisibleAt(new, pc + Delta) = {new.vars[i] : i \in I}
    <3>1. VisibleAt(new, pc + Delta) = {new.vars[i] : i \in {j \in 1..nv : There(j)}}
      BY <2>3 DEF VisibleAt
    <3>2. {j \in 1..nv : There(j)} = I
      <4> HIDE DEF There, Here
      <4> QED
        BY <2>2
    <3> QED
      BY <3>1, <3>2, Zenon
  <2>5. VisibleAt(old, pc) = {old.vars[i] : i \in I}
    BY <2>3 DEF VisibleAt
  <2>6. \A i \in I : new.vars[i].slot = old.vars[i].slot
    BY <2>2
  <2> HIDE DEF I
  <2> QED
    BY <2>4, <2>5, <2>6
<1>11. ASSUME NEW pc \in 0..(old.len - 1)
       PROVE  {h.at - Delta : h \in GuardedAt(new, pc + Delta)} = {h.at : h \in GuardedAt(old, pc)}
  <2> DEFINE There(i) == pc + Delta \in new.handlers[i].from..(new.handlers[i].to - 1)
             Here(i) == pc \in old.handlers[i].from..(old.handlers[i].to - 1)
             I == {i \in 1..nh : Here(i)}
  <2>1. pc \in Nat
    BY <1>1
  <2>2. \A i \in 1..nh : (There(i) <=> Here(i)) /\ new.handlers[i].at - Delta = old.handlers[i].at
    BY <1>8, <2>1, HandlerMoved
  <2>3. ToSet(new.handlers) = {new.handlers[i] : i \in 1..nh} /\ ToSet(old.handlers) = {old.handlers[i] : i \in 1..nh}
    BY <1>6, <1>9 DEF ToSet
  <2>4. GuardedAt(new, pc + Delta) = {new.handlers[i] : i \in I}
    <3>1. GuardedAt(new, pc + Delta) = {new.handlers[i] : i \in {j \in 1..nh : There(j)}}
      BY <2>3 DEF GuardedAt
    <3>2. {j \in 1..nh : There(j)} = I
      <4> HIDE DEF There, Here
      <4> QED
        BY <2>2
    <3> QED
      BY <3>1, <3>2, Zenon
  <2>5. GuardedAt(old, pc) = {old.handlers[i] : i \in I}
    BY <2>3 DEF GuardedAt
  <2>6. \A i \in I : new.handlers[i].at - Delta = old.handlers[i].at
    BY <2>2
  <2> HIDE DEF I
  <2> QED
    BY <2>4, <2>5, <2>6
<1>12. ASSUME NEW pc \in 0..(old.len - 1)
       PROVE  pc + Delta \in ToSet(new.lines) <=> pc \in ToSet(old.lines)
  <2>1. pc \in Nat
    BY <1>1
  <2>2. \A i \in DOMAIN old.lines : new.lines[i] = old.lines[i] + Delta /\ old.lines[i] \in Nat
    <3> SUFFICES ASSUME NEW i \in DOMAIN old.lines
                 PROVE  new.lines[i] = old.lines[i] + Delta /\ old.lines[i] \in Nat
      OBVIOUS
    <3>1. old.lines[i] \in Nat /\ old.lines[i] < old.len
      BY <1>1, <1>2
    <3>2. old.lines[i] + Delta < U2
      <4>1. \A l, n \in Nat : l < n /\ n + Delta < U2 => l + Delta < U2
        BY SizesAreNat
      <4>2. old.len \in Nat /\ old.len + Delta < U2
        BY <1>1
      <4> QED
        BY <3>1, <4>1, <4>2
    <3> QED
      BY <1>3, <3>1, <3>2, MovedFits
  <2>3. ToSet(new.lines) = {new.lines[i] : i \in DOMAIN old.lines} /\ ToSet(old.lines) = {old.lines[i] : i \in DOMAIN old.lines}
    BY <1>3 DEF ToSet
  <2>4. ASSUME NEW i \in DOMAIN old.lines
        PROVE  pc + Delta = new.lines[i] <=> pc = old.lines[i]
    <3>1. PICK l \in Nat : l = old.lines[i] /\ new.lines[i] = l + Delta
      BY <2>2
    <3>2. pc + Delta = l + Delta <=> pc = l
      BY <2>1, SizesAreNat
    <3> QED
      BY <3>1, <3>2, Zenon
  <2> QED
    BY <2>3, <2>4
<1>13. ASSUME NEW pc \in 0..(Delta - 1) PROVE GuardedAt(new, pc) = {}
  <2>1. \A i \in 1..nh : pc \notin new.handlers[i].from..(new.handlers[i].to - 1)
    BY <1>8, HandlerMoved
  <2>2. ToSet(new.handlers) = {new.handlers[i] : i \in 1..nh}
    BY <1>9 DEF ToSet
  <2> QED
    BY <2>1, <2>2 DEF GuardedAt
<1> QED
  BY <1>4, <1>10, <1>11, <1>12, <1>13

\* At every old instruction the same variables are visible, the same handlers
\* guard it and the same lines begin, and what the inserted call throws is not
\* caught by the method (class_edit.cpp:341-379, 446, 475-487).
THEOREM ScopesFollowCodeHolds == Spec => []ScopesFollowCode
<1>1. EditInv => ScopesFollowCode
  <2> SUFFICES ASSUME EditInv, step = "written", NEW i \in Changed,
                      NEW old, old = file.methods[i].code, NEW new, new = written.methods[i].code
               PROVE  /\ \A pc \in 0..(old.len - 1) :
                           /\ {v.slot : v \in VisibleAt(new, pc + Delta)} = {v.slot : v \in VisibleAt(old, pc)}
                           /\ {h.at - Delta : h \in GuardedAt(new, pc + Delta)} = {h.at : h \in GuardedAt(old, pc)}
                           /\ pc + Delta \in ToSet(new.lines) <=> pc \in ToSet(old.lines)
                      /\ \A pc \in 0..(Delta - 1) : GuardedAt(new, pc) = {}
                      /\ new.stack >= ExtraStack /\ new.stack >= old.stack
    BY DEF ScopesFollowCode, EachEdit
  <2>1. old \in CodeTypes /\ WellFormed(old) /\ old.len + Delta < U2 /\ new = Rebuilt(old)
    BY ChangedIsRebuilt
  <2> QED
    BY <2>1, ScopesMoved
<1> QED
  BY <1>1, EditInvHolds, PTL

-----------------------------------------------------------------------------
\* The builder's pool: each key has an index, which has the entry the key says.
EntryOf(key) ==
  IF key[1] = "utf8" THEN Utf8(key[2])
  ELSE IF key[1] = "class" THEN Class(key[2])
  ELSE [tag |-> key[1], of |-> <<key[2], key[3]>>]

PoolOK(P) ==
  /\ P.cp \in Seq(Entries) /\ \A s \in DOMAIN P.cp : P.cp[s] # Wide
  /\ \A key \in DOMAIN P.index :
       P.index[key] \in DOMAIN P.cp /\ P.cp[P.index[key]] = EntryOf(key)

Grown(P, Q) ==
  /\ Goes(P.cp, Q.cp)
  /\ \A key \in DOMAIN P.index : key \in DOMAIN Q.index /\ Q.index[key] = P.index[key]

LEMMA GrownOn ==
  ASSUME NEW P, NEW Q, NEW R, Grown(P, Q), Grown(Q, R)
  PROVE  Grown(P, R)
BY DEF Grown, Goes

LEMMA PutHolds ==
  ASSUME NEW P, PoolOK(P), NEW key, NEW entry \in Entries, entry # Wide, entry = EntryOf(key)
  PROVE  PoolOK(Put(P, key, entry)) /\ Grown(P, Put(P, key, entry)) /\ key \in DOMAIN Put(P, key, entry).index
<1>1. CASE key \in DOMAIN P.index
  BY <1>1 DEF Put, Grown, Goes
<1>2. CASE key \notin DOMAIN P.index
  <2>1. PICK s \in Seq(Entries), n \in Nat : s = P.cp /\ n = Len(s) /\ DOMAIN s = 1..n
    BY LenProperties DEF PoolOK
  <2>2. PICK u \in Seq(Entries) : u = Append(s, entry)
    BY <2>1, AppendProperties
  <2>3. /\ DOMAIN u = 1..(n + 1) /\ u[n + 1] = entry /\ \A i \in 1..n : u[i] = s[i]
    BY <2>1, <2>2, AppendProperties
  <2> DEFINE x == [k \in DOMAIN P.index \cup {key} |-> IF k = key THEN n + 1 ELSE P.index[k]]
  <2>4. Put(P, key, entry) = [cp |-> u, index |-> x]
    BY <1>2, <2>1, <2>2 DEF Put
  <2>5. /\ DOMAIN x = DOMAIN P.index \cup {key} /\ x[key] = n + 1
        /\ \A k \in DOMAIN P.index : x[k] = P.index[k]
    BY <1>2
  <2> HIDE DEF x
  <2>6. n + 1 \in 1..(n + 1) /\ \A i \in 1..n : i \in 1..(n + 1)
    BY <2>1
  <2>7. \A i \in 1..(n + 1) : u[i] # Wide
    <3>1. \A i \in 1..n : u[i] # Wide
      BY <2>1, <2>3 DEF PoolOK
    <3> QED
      BY <2>3, <3>1
  <2>8. ASSUME NEW k \in DOMAIN x PROVE x[k] \in 1..(n + 1) /\ u[x[k]] = EntryOf(k)
    <3>1. CASE k = key
      BY <2>3, <2>5, <2>6, <3>1
    <3>2. CASE k \in DOMAIN P.index
      <4>1. P.index[k] \in 1..n /\ s[P.index[k]] = EntryOf(k)
        BY <2>1, <3>2 DEF PoolOK
      <4> QED
        BY <2>3, <2>5, <2>6, <3>2, <4>1
    <3> QED
      BY <2>5, <3>1, <3>2
  <2>9. PoolOK([cp |-> u, index |-> x])
    BY <2>3, <2>7, <2>8 DEF PoolOK
  <2>10. Grown(P, [cp |-> u, index |-> x])
    BY <2>1, <2>3, <2>5, <2>6 DEF Grown, Goes
  <2> QED
    BY <2>4, <2>5, <2>9, <2>10
<1> QED
  BY <1>1, <1>2

HasText(P, text) == <<"utf8", text>> \in DOMAIN P.index
HasClass(P, name) == HasText(P, name) /\ ClassKey(P, name) \in DOMAIN P.index
HasMember(P, name, type) ==
  HasText(P, name) /\ HasText(P, type) /\ MemberKey(P, name, type) \in DOMAIN P.index

LEMMA TextStays ==
  ASSUME NEW P, NEW Q, Grown(P, Q), NEW text, HasText(P, text)
  PROVE  HasText(Q, text) /\ TextAt(Q, text) = TextAt(P, text)
BY DEF Grown, HasText, TextAt

LEMMA ClassStays ==
  ASSUME NEW P, NEW Q, Grown(P, Q), NEW name, HasClass(P, name)
  PROVE  HasClass(Q, name) /\ ClassKey(Q, name) = ClassKey(P, name)
         /\ Q.index[ClassKey(Q, name)] = P.index[ClassKey(P, name)]
<1>1. HasText(Q, name) /\ TextAt(Q, name) = TextAt(P, name)
  BY TextStays DEF HasClass
<1>2. ClassKey(Q, name) = ClassKey(P, name)
  BY <1>1 DEF ClassKey
<1> QED
  BY <1>1, <1>2 DEF HasClass, Grown

LEMMA TextAsked ==
  ASSUME NEW P, PoolOK(P), NEW text \in STRING, NEW Q, Q = WithText(P, text)
  PROVE  PoolOK(Q) /\ Grown(P, Q) /\ HasText(Q, text)
<1>1. EntryOf(<<"utf8", text>>) = Utf8(text)
  BY DEF EntryOf
<1> QED
  BY <1>1, EntryTypes, PutHolds DEF WithText, HasText

LEMMA ClassAsked ==
  ASSUME NEW P, PoolOK(P), NEW name \in STRING, NEW Q, Q = WithClassRef(P, name)
  PROVE  PoolOK(Q) /\ Grown(P, Q) /\ HasClass(Q, name)
<1> DEFINE N == WithText(P, name)
<1>1. PoolOK(N) /\ Grown(P, N) /\ HasText(N, name)
  BY TextAsked
<1>2. Q = Put(N, ClassKey(N, name), Class(TextAt(N, name)))
  BY DEF WithClassRef
<1> HIDE DEF N
<1>3. TextAt(N, name) \in Nat
  BY <1>1, LenProperties DEF PoolOK, HasText, TextAt
<1>4. Class(TextAt(N, name)) \in Entries /\ Class(TextAt(N, name)) # Wide
  BY <1>3, EntryTypes
<1>5. EntryOf(ClassKey(N, name)) = Class(TextAt(N, name))
  BY DEF EntryOf, ClassKey
<1>6. PoolOK(Q) /\ Grown(N, Q) /\ ClassKey(N, name) \in DOMAIN Q.index
  BY <1>1, <1>2, <1>4, <1>5, PutHolds
<1>7. HasText(Q, name) /\ ClassKey(Q, name) = ClassKey(N, name)
  BY <1>1, <1>6, TextStays DEF ClassKey
<1> QED
  BY <1>1, <1>6, <1>7, GrownOn DEF HasClass

LEMMA MemberAsked ==
  ASSUME NEW P, PoolOK(P), NEW name \in STRING, NEW type \in STRING, NEW Q, Q = WithMember(P, name, type)
  PROVE  PoolOK(Q) /\ Grown(P, Q) /\ HasMember(Q, name, type)
<1> DEFINE M == WithText(P, name)
           N == WithText(M, type)
<1>1. PoolOK(M) /\ Grown(P, M) /\ HasText(M, name)
  BY TextAsked
<1> HIDE DEF M
<1>2. PoolOK(N) /\ Grown(M, N) /\ HasText(N, type)
  BY <1>1, TextAsked
<1>3. Q = Put(N, MemberKey(N, name, type), NameAndType(TextAt(N, name), TextAt(N, type)))
  BY DEF WithMember, M
<1> HIDE DEF N
<1>4. HasText(N, name)
  BY <1>1, <1>2, TextStays
<1>5. TextAt(N, name) \in Nat /\ TextAt(N, type) \in Nat
  BY <1>2, <1>4, LenProperties DEF PoolOK, HasText, TextAt
<1> DEFINE e == NameAndType(TextAt(N, name), TextAt(N, type))
<1>6. e \in Entries /\ e # Wide
  BY <1>5, EntryTypes
<1>7. EntryOf(MemberKey(N, name, type)) = e
  BY DEF EntryOf, MemberKey, NameAndType
<1> HIDE DEF e
<1>8. PoolOK(Q) /\ Grown(N, Q) /\ MemberKey(N, name, type) \in DOMAIN Q.index
  BY <1>2, <1>3, <1>6, <1>7, PutHolds DEF e
<1>9. HasText(Q, name) /\ HasText(Q, type) /\ MemberKey(Q, name, type) = MemberKey(N, name, type)
  <2>1. HasText(Q, name) /\ TextAt(Q, name) = TextAt(N, name)
    BY <1>4, <1>8, TextStays
  <2>2. HasText(Q, type) /\ TextAt(Q, type) = TextAt(N, type)
    BY <1>2, <1>8, TextStays
  <2> QED
    BY <2>1, <2>2 DEF MemberKey
<1>10. Grown(P, Q)
  BY <1>1, <1>2, <1>8, GrownOn
<1> QED
  BY <1>8, <1>9, <1>10 DEF HasMember

LEMMA MemberStays ==
  ASSUME NEW P, NEW Q, Grown(P, Q), NEW name, NEW type, HasMember(P, name, type)
  PROVE  HasMember(Q, name, type) /\ MemberKey(Q, name, type) = MemberKey(P, name, type)
         /\ Q.index[MemberKey(Q, name, type)] = P.index[MemberKey(P, name, type)]
<1>1. HasText(Q, name) /\ TextAt(Q, name) = TextAt(P, name)
  BY TextStays DEF HasMember
<1>2. HasText(Q, type) /\ TextAt(Q, type) = TextAt(P, type)
  BY TextStays DEF HasMember
<1>3. MemberKey(Q, name, type) = MemberKey(P, name, type)
  BY <1>1, <1>2 DEF MemberKey
<1> QED
  BY <1>1, <1>2, <1>3 DEF HasMember, Grown

-----------------------------------------------------------------------------
\* What an index denotes in a pool.
TextIn(S, at, text) == at \in DOMAIN S /\ S[at] = Utf8(text)
ClassIn(S, at, name) == at \in DOMAIN S /\ \E n \in DOMAIN S : S[at] = Class(n) /\ TextIn(S, n, name)
MemberIn(S, at, name, type) ==
  at \in DOMAIN S /\ \E n, t \in DOMAIN S : S[at] = NameAndType(n, t) /\ TextIn(S, n, name) /\ TextIn(S, t, type)
RefIn(S, at, tag, owner, name, type) ==
  at \in DOMAIN S /\ \E c, m \in DOMAIN S :
    S[at] = [tag |-> tag, of |-> <<c, m>>] /\ ClassIn(S, c, owner) /\ MemberIn(S, m, name, type)
StringIn(S, at, text) == at \in DOMAIN S /\ \E n \in DOMAIN S : S[at] = Text(n) /\ TextIn(S, n, text)

LEMMA TextGoes ==
  ASSUME NEW S, NEW T, Goes(S, T), NEW at, NEW text, TextIn(S, at, text)
  PROVE  TextIn(T, at, text)
BY DEF Goes, TextIn

LEMMA ClassGoes ==
  ASSUME NEW S, NEW T, Goes(S, T), NEW at, NEW name, ClassIn(S, at, name)
  PROVE  ClassIn(T, at, name)
BY DEF Goes, TextIn, ClassIn

LEMMA MemberGoes ==
  ASSUME NEW S, NEW T, Goes(S, T), NEW at, NEW name, NEW type, MemberIn(S, at, name, type)
  PROVE  MemberIn(T, at, name, type)
BY DEF Goes, TextIn, MemberIn

LEMMA RefGoes ==
  ASSUME NEW S, NEW T, Goes(S, T), NEW at, NEW tag, NEW owner, NEW name, NEW type,
         RefIn(S, at, tag, owner, name, type)
  PROVE  RefIn(T, at, tag, owner, name, type)
<1>1. PICK c \in DOMAIN S, m \in DOMAIN S :
        S[at] = [tag |-> tag, of |-> <<c, m>>] /\ ClassIn(S, c, owner) /\ MemberIn(S, m, name, type)
  BY DEF RefIn
<1>2. at \in DOMAIN T /\ c \in DOMAIN T /\ m \in DOMAIN T /\ T[at] = [tag |-> tag, of |-> <<c, m>>]
  BY <1>1 DEF RefIn, Goes
<1>3. ClassIn(T, c, owner) /\ MemberIn(T, m, name, type)
  BY <1>1, ClassGoes, MemberGoes
<1> QED
  BY <1>2, <1>3 DEF RefIn

LEMMA StringGoes ==
  ASSUME NEW S, NEW T, Goes(S, T), NEW at, NEW text, StringIn(S, at, text)
  PROVE  StringIn(T, at, text)
BY DEF Goes, TextIn, StringIn

LEMMA TextIsIn ==
  ASSUME NEW P, PoolOK(P), NEW text, HasText(P, text)
  PROVE  TextIn(P.cp, TextAt(P, text), text) /\ TextAt(P, text) \in Nat
<1>1. EntryOf(<<"utf8", text>>) = Utf8(text)
  BY DEF EntryOf
<1>2. TextAt(P, text) \in DOMAIN P.cp /\ P.cp[TextAt(P, text)] = Utf8(text)
  BY <1>1 DEF PoolOK, HasText, TextAt
<1> QED
  BY <1>2, LenProperties DEF TextIn, PoolOK

LEMMA ClassIsIn ==
  ASSUME NEW P, PoolOK(P), NEW name, HasClass(P, name)
  PROVE  ClassIn(P.cp, P.index[ClassKey(P, name)], name) /\ P.index[ClassKey(P, name)] \in Nat
<1>1. EntryOf(ClassKey(P, name)) = Class(TextAt(P, name))
  BY DEF EntryOf, ClassKey
<1>2. /\ P.index[ClassKey(P, name)] \in DOMAIN P.cp
      /\ P.cp[P.index[ClassKey(P, name)]] = Class(TextAt(P, name))
  BY <1>1 DEF PoolOK, HasClass
<1>3. TextIn(P.cp, TextAt(P, name), name)
  BY TextIsIn DEF HasClass
<1>4. TextAt(P, name) \in DOMAIN P.cp
  BY <1>3 DEF TextIn
<1> QED
  BY <1>2, <1>3, <1>4, LenProperties DEF ClassIn, PoolOK

LEMMA MemberIsIn ==
  ASSUME NEW P, PoolOK(P), NEW name, NEW type, HasMember(P, name, type)
  PROVE  /\ MemberIn(P.cp, P.index[MemberKey(P, name, type)], name, type)
         /\ P.index[MemberKey(P, name, type)] \in Nat
<1>1. EntryOf(MemberKey(P, name, type)) = NameAndType(TextAt(P, name), TextAt(P, type))
  BY DEF EntryOf, MemberKey, NameAndType
<1>2. /\ P.index[MemberKey(P, name, type)] \in DOMAIN P.cp
      /\ P.cp[P.index[MemberKey(P, name, type)]] = NameAndType(TextAt(P, name), TextAt(P, type))
  BY <1>1 DEF PoolOK, HasMember
<1>3. TextIn(P.cp, TextAt(P, name), name) /\ TextIn(P.cp, TextAt(P, type), type)
  BY TextIsIn DEF HasMember
<1>4. TextAt(P, name) \in DOMAIN P.cp /\ TextAt(P, type) \in DOMAIN P.cp
  BY <1>3 DEF TextIn
<1>5. P.index[MemberKey(P, name, type)] \in Nat
  BY <1>2, LenProperties DEF PoolOK
<1> QED
  BY <1>2, <1>3, <1>4, <1>5 DEF MemberIn

\* methodRef and fieldRef: the index is of a reference to what was asked for.
LEMMA RefAsked ==
  ASSUME NEW P, PoolOK(P), NEW ref, ref.op \in {"method", "field"},
         ref.owner \in STRING, ref.name \in STRING, ref.type \in STRING,
         NEW Q, Q = WithRef(P, ref), NEW at, at = Q.index[AskedRef(Q, ref)]
  PROVE  PoolOK(Q) /\ Grown(P, Q) /\ RefIn(Q.cp, at, ref.op, ref.owner, ref.name, ref.type) /\ at \in Nat
<1> DEFINE C == WithClassRef(P, ref.owner)
           M == WithMember(C, ref.name, ref.type)
           owner == M.index[ClassKey(M, ref.owner)]
           member == M.index[MemberKey(M, ref.name, ref.type)]
           entry == IF ref.op = "method" THEN MethodRef(owner, member) ELSE FieldRef(owner, member)
           key == AskedRef(M, ref)
<1>1. Q = Put(M, key, entry)
  BY DEF WithRef
<1>2. key = <<ref.op, owner, member>>
  BY DEF AskedRef, RefKey
<1>3. PoolOK(C) /\ Grown(P, C) /\ HasClass(C, ref.owner)
  BY ClassAsked
<1> HIDE DEF C
<1>4. PoolOK(M) /\ Grown(C, M) /\ HasMember(M, ref.name, ref.type)
  BY <1>3, MemberAsked
<1> HIDE DEF M, key
<1>5. HasClass(M, ref.owner)
  BY <1>3, <1>4, ClassStays
<1>6. owner \in Nat /\ ClassIn(M.cp, owner, ref.owner)
  BY <1>4, <1>5, ClassIsIn
<1>7. member \in Nat /\ MemberIn(M.cp, member, ref.name, ref.type)
  BY <1>4, MemberIsIn
<1>8. entry = [tag |-> ref.op, of |-> <<owner, member>>]
  BY DEF MethodRef, FieldRef
<1>9. Q.index[AskedRef(Q, ref)] = Q.index[AskedRef(M, ref)] \/ ~Grown(M, Q)
  <2> SUFFICES ASSUME Grown(M, Q) PROVE AskedRef(Q, ref) = AskedRef(M, ref)
    OBVIOUS
  <2>1. Q.index[ClassKey(Q, ref.owner)] = owner
    BY <1>5, ClassStays
  <2>2. Q.index[MemberKey(Q, ref.name, ref.type)] = member
    BY <1>4, MemberStays
  <2> QED
    BY <2>1, <2>2 DEF AskedRef
<1> HIDE DEF owner, member, entry
<1>10. entry \in Entries /\ entry # Wide
  <2>1. <<owner, member>> \in Seq(Nat)
    BY <1>6, <1>7
  <2> QED
    BY <1>8, <2>1 DEF Entries, Wide
<1>11. EntryOf(key) = entry
  BY <1>2, <1>8 DEF EntryOf
<1>12. PoolOK(Q) /\ Grown(M, Q) /\ key \in DOMAIN Q.index
  BY <1>1, <1>4, <1>10, <1>11, PutHolds
<1>13. at = Q.index[key]
  BY <1>9, <1>12 DEF key
<1>14. at \in DOMAIN Q.cp /\ Q.cp[at] = [tag |-> ref.op, of |-> <<owner, member>>]
  BY <1>8, <1>11, <1>12, <1>13 DEF PoolOK
<1>15. ClassIn(Q.cp, owner, ref.owner) /\ MemberIn(Q.cp, member, ref.name, ref.type)
  BY <1>6, <1>7, <1>12, ClassGoes, MemberGoes DEF Grown
<1>16. owner \in DOMAIN Q.cp /\ member \in DOMAIN Q.cp
  BY <1>15 DEF ClassIn, MemberIn
<1>17. Grown(P, Q)
  BY <1>3, <1>4, <1>12, GrownOn
<1>18. at \in Nat
  BY <1>12, <1>14, LenProperties DEF PoolOK
<1> QED
  BY <1>12, <1>14, <1>15, <1>16, <1>17, <1>18 DEF RefIn

-----------------------------------------------------------------------------
\* What a call was given is what it asked for.
MethodIn(S, m, call) ==
  /\ m.flags = call.flags \cup (IF call.op = "native" THEN {"native"} ELSE {})
  /\ TextIn(S, m.name, call.name) /\ TextIn(S, m.type, call.type)
  /\ IF call.op = "coded" THEN TextIn(S, m.code, "Code") ELSE m.code = 0

Answered(S, ms, call, at) ==
  /\ call.op \in {"method", "field"} => RefIn(S, at, call.op, call.owner, call.name, call.type)
  /\ call.op = "string" => StringIn(S, at, call.text)
  /\ call.op \in {"native", "coded"} => at \in DOMAIN ms /\ MethodIn(S, ms[at], call)

LEMMA AnswerStays ==
  ASSUME NEW S, NEW T, Goes(S, T), NEW ms, NEW ns, Goes(ms, ns), NEW call, NEW at, Answered(S, ms, call, at)
  PROVE  Answered(T, ns, call, at)
<1>1. call.op \in {"method", "field"} => RefIn(T, at, call.op, call.owner, call.name, call.type)
  BY RefGoes DEF Answered
<1>2. call.op = "string" => StringIn(T, at, call.text)
  BY StringGoes DEF Answered
<1>3. ASSUME call.op \in {"native", "coded"} PROVE at \in DOMAIN ns /\ MethodIn(T, ns[at], call)
  <2>1. at \in DOMAIN ms /\ MethodIn(S, ms[at], call)
    BY <1>3 DEF Answered
  <2>2. at \in DOMAIN ns /\ ns[at] = ms[at]
    BY <2>1 DEF Goes
  <2>3. MethodIn(T, ms[at], call)
    BY <2>1, TextGoes DEF MethodIn
  <2> QED
    BY <2>2, <2>3
<1> QED
  BY <1>1, <1>2, <1>3 DEF Answered

MemberTypes ==
  [flags : SUBSET (STRING \cup {"native"}), name : Nat, type : Nat, code : Nat]

\* The calls that were made are answered, in the pool as it is now and in the
\* class file that is built from it.
CallsInv ==
  /\ asked \in Builds /\ done \in Nat
  /\ PoolOK(Pool) /\ members \in Seq(MemberTypes)
  /\ given \in Seq(Nat) /\ Len(given) = done
  /\ \A i \in 1..done : Answered(cp, members, asked.calls[i], given[i])

BuiltInv ==
  built.state = "built" =>
    /\ done = Len(asked.calls) /\ built.entries = cp /\ built.methods = members
    /\ ClassIn(cp, built.this, asked.this) /\ ClassIn(cp, built.super, asked.super)

BuilderInv == CallsInv /\ BuiltInv

LEMMA InitBuilderInv == Init => BuilderInv
<1> SUFFICES ASSUME InitBuilder PROVE BuilderInv
  BY DEF Init
<1>1. cp = <<>> /\ index = <<>> /\ members = <<>> /\ given = <<>> /\ done = 0 /\ asked \in Builds
      /\ built.state # "built"
  BY DEF InitBuilder, NotBuilt
<1>2. PoolOK(Pool)
  <2>1. Pool.cp = <<>> /\ Pool.index = <<>>
    BY <1>1 DEF Pool
  <2>2. DOMAIN <<>> = {}
    OBVIOUS
  <2> QED
    BY <2>1, <2>2, EmptySeq DEF PoolOK
<1>3. <<>> \in Seq(MemberTypes) /\ <<>> \in Seq(Nat) /\ Len(<<>>) = 0
  BY EmptySeq
<1> QED
  BY <1>1, <1>2, <1>3 DEF BuilderInv, CallsInv, BuiltInv

\* What a call has to do.
Made(call) ==
  /\ PoolOK(Pool') /\ Grown(Pool, Pool')
  /\ \E at \in Nat : given' = Append(given, at) /\ Answered(cp', members', call, at)
  /\ members' \in Seq(MemberTypes) /\ Goes(members, members')

LEMMA AskIsPool ==
  ASSUME NEW P, Ask(P), PoolOK(P)
  PROVE  PoolOK(Pool') /\ cp' = P.cp /\ index' = P.index /\ (Grown(Pool, P) => Grown(Pool, Pool'))
<1>1. Pool'.cp = P.cp /\ Pool'.index = P.index /\ cp' = P.cp /\ index' = P.index
  BY DEF Ask, Pool
<1> QED
  BY <1>1 DEF PoolOK, Grown

LEMMA EntryMade ==
  ASSUME CallsInv, NEW call \in Calls, Entry(call)
  PROVE  Made(call)
<1>1. /\ call.op \in {"method", "field"} /\ call.owner \in STRING /\ call.name \in STRING /\ call.type \in STRING
  <2>1. call.op \in {"method", "field"}
    BY DEF Entry
  <2>2. call \in [op : {"method", "field"}, owner : STRING, name : STRING, type : STRING]
    BY <2>1 DEF Calls
  <2> QED
    BY <2>1, <2>2
<1> DEFINE Q == WithRef(Pool, call)
           at == Q.index[AskedRef(Q, call)]
<1>2. Ask(Q) /\ given' = Append(given, index'[AskedRef(Q, call)]) /\ members' = members
  BY DEF Entry
<1>3. PoolOK(Q) /\ Grown(Pool, Q) /\ RefIn(Q.cp, at, call.op, call.owner, call.name, call.type) /\ at \in Nat
  BY <1>1, RefAsked DEF CallsInv
<1> HIDE DEF Q
<1>4. PoolOK(Pool') /\ cp' = Q.cp /\ index' = Q.index /\ Grown(Pool, Pool')
  BY <1>2, <1>3, AskIsPool
<1>5. given' = Append(given, at)
  BY <1>2, <1>4
<1>6. Answered(cp', members', call, at)
  BY <1>1, <1>3, <1>4 DEF Answered
<1> QED
  BY <1>2, <1>3, <1>4, <1>5, <1>6 DEF Made, CallsInv, Goes

LEMMA StringMade ==
  ASSUME CallsInv, NEW call \in Calls, StringRef(call)
  PROVE  Made(call)
<1>1. call.op = "string" /\ call.text \in STRING
  <2>1. call.op = "string"
    BY DEF StringRef
  <2>2. call \in [op : {"string"}, text : STRING]
    BY <2>1 DEF Calls
  <2> QED
    BY <2>1, <2>2
<1> DEFINE N == WithText(Pool, call.text)
           e == Text(TextAt(N, call.text))
           Q == [N EXCEPT !.cp = Append(@, e)]
<1>2. Ask(Q) /\ given' = Append(given, Len(cp')) /\ members' = members
  BY DEF StringRef
<1>3. PoolOK(N) /\ Grown(Pool, N) /\ HasText(N, call.text)
  BY <1>1, TextAsked DEF CallsInv
<1>4. N = [cp |-> N.cp, index |-> N.index]
  BY DEF WithText, Put, Pool
<1> HIDE DEF N
<1>5. TextIn(N.cp, TextAt(N, call.text), call.text) /\ TextAt(N, call.text) \in Nat
  BY <1>3, TextIsIn
<1>6. e \in Entries /\ e # Wide
  <2>1. <<TextAt(N, call.text)>> \in Seq(Nat)
    BY <1>5
  <2> QED
    BY <2>1 DEF Entries, Wide, Text
<1>7. PICK s \in Seq(Entries), n \in Nat : s = N.cp /\ n = Len(s) /\ DOMAIN s = 1..n
  BY <1>3, LenProperties DEF PoolOK
<1>8. PICK u \in Seq(Entries) : u = Append(s, e)
  BY <1>6, <1>7, AppendProperties
<1>9. DOMAIN u = 1..(n + 1) /\ Len(u) = n + 1 /\ u[n + 1] = e /\ \A i \in 1..n : u[i] = s[i]
  BY <1>6, <1>7, <1>8, AppendProperties
<1>10. Q.cp = u /\ Q.index = N.index
  BY <1>4, <1>7, <1>8
<1> HIDE DEF Q
<1>11. Goes(s, u) /\ \A i \in 1..(n + 1) : u[i] # Wide
  <2>1. \A i \in 1..n : u[i] # Wide /\ i \in 1..(n + 1)
    BY <1>3, <1>7, <1>9 DEF PoolOK
  <2> QED
    BY <1>6, <1>7, <1>9, <2>1 DEF Goes
<1>12. PoolOK(Q) /\ Grown(Pool, Q)
  <2>1. PoolOK(Q)
    BY <1>3, <1>7, <1>9, <1>10, <1>11 DEF PoolOK, Goes
  <2>2. Grown(N, Q)
    BY <1>7, <1>10, <1>11 DEF Grown
  <2> QED
    BY <1>3, <2>1, <2>2, GrownOn
<1>13. PoolOK(Pool') /\ cp' = u /\ Grown(Pool, Pool')
  BY <1>2, <1>10, <1>12, AskIsPool
<1>14. StringIn(u, n + 1, call.text)
  <2>1. TextIn(u, TextAt(N, call.text), call.text)
    BY <1>5, <1>7, <1>11, TextGoes
  <2>2. n + 1 \in DOMAIN u /\ TextAt(N, call.text) \in DOMAIN u
    BY <1>9, <2>1 DEF TextIn
  <2> QED
    BY <1>9, <2>1, <2>2 DEF StringIn
<1>15. Answered(cp', members', call, n + 1)
  BY <1>1, <1>13, <1>14 DEF Answered
<1>16. given' = Append(given, n + 1) /\ n + 1 \in Nat
  BY <1>2, <1>9, <1>13
<1> QED
  BY <1>2, <1>13, <1>15, <1>16 DEF Made, CallsInv, Goes

LEMMA MethodMade ==
  ASSUME CallsInv, NEW call \in Calls, AddMethod(call)
  PROVE  Made(call)
<1>1. /\ call.op \in {"native", "coded"} /\ call.name \in STRING /\ call.type \in STRING
      /\ call.flags \in SUBSET STRING
  <2>1. call.op \in {"native", "coded"}
    BY DEF AddMethod
  <2>2. call \in [op : {"native", "coded"}, name : STRING, type : STRING, flags : SUBSET STRING]
    BY <2>1 DEF Calls
  <2> QED
    BY <2>1, <2>2
<1> DEFINE C == IF call.op = "coded" THEN WithText(Pool, "Code") ELSE Pool
           N == WithText(C, call.name)
           Q == WithText(N, call.type)
           flags == call.flags \cup (IF call.op = "native" THEN {"native"} ELSE {})
           m == [flags |-> flags, name |-> TextAt(Q, call.name), type |-> TextAt(Q, call.type),
                 code |-> IF call.op = "coded" THEN TextAt(Q, "Code") ELSE 0]
<1>2. Ask(Q) /\ members' = Append(members, m) /\ given' = Append(given, Len(members'))
  BY DEF AddMethod
<1>3. PoolOK(C) /\ Grown(Pool, C) /\ (call.op = "coded" => HasText(C, "Code"))
  <2>1. PoolOK(Pool)
    BY DEF CallsInv
  <2>2. Grown(Pool, Pool)
    BY DEF Grown, Goes
  <2> QED
    BY <2>1, <2>2, CodeIsText, TextAsked
<1> HIDE DEF C
<1>4. PoolOK(N) /\ Grown(C, N) /\ HasText(N, call.name)
  BY <1>1, <1>3, TextAsked
<1> HIDE DEF N
<1>5. PoolOK(Q) /\ Grown(N, Q) /\ HasText(Q, call.type)
  BY <1>1, <1>4, TextAsked
<1> HIDE DEF Q
<1>6. HasText(Q, call.name) /\ (call.op = "coded" => HasText(Q, "Code"))
  BY <1>3, <1>4, <1>5, TextStays
<1>7. /\ TextIn(Q.cp, TextAt(Q, call.name), call.name) /\ TextAt(Q, call.name) \in Nat
      /\ TextIn(Q.cp, TextAt(Q, call.type), call.type) /\ TextAt(Q, call.type) \in Nat
      /\ call.op = "coded" => TextIn(Q.cp, TextAt(Q, "Code"), "Code") /\ TextAt(Q, "Code") \in Nat
  BY <1>5, <1>6, TextIsIn
<1>8. /\ m.flags = flags /\ m.name = TextAt(Q, call.name) /\ m.type = TextAt(Q, call.type)
      /\ m.code = (IF call.op = "coded" THEN TextAt(Q, "Code") ELSE 0)
  OBVIOUS
<1>9. m \in MemberTypes
  <2>1. flags \in SUBSET (STRING \cup {"native"})
    BY <1>1
  <2>2. (IF call.op = "coded" THEN TextAt(Q, "Code") ELSE 0) \in Nat
    BY <1>7
  <2> HIDE DEF flags
  <2> QED
    BY <1>7, <2>1, <2>2 DEF MemberTypes
<1>10. MethodIn(Q.cp, m, call)
  <2> HIDE DEF m
  <2>1. m.flags = call.flags \cup (IF call.op = "native" THEN {"native"} ELSE {})
    BY <1>8
  <2>2. TextIn(Q.cp, m.name, call.name) /\ TextIn(Q.cp, m.type, call.type)
    BY <1>7, <1>8
  <2>3. IF call.op = "coded" THEN TextIn(Q.cp, m.code, "Code") ELSE m.code = 0
    BY <1>7, <1>8
  <2> QED
    BY <2>1, <2>2, <2>3 DEF MethodIn
<1> HIDE DEF m
<1>11. PoolOK(Pool') /\ cp' = Q.cp /\ Grown(Pool, Pool')
  BY <1>2, <1>3, <1>4, <1>5, AskIsPool, GrownOn
<1>12. PICK s \in Seq(MemberTypes), n \in Nat : s = members /\ n = Len(s) /\ DOMAIN s = 1..n
  BY LenProperties DEF CallsInv
<1>13. PICK u \in Seq(MemberTypes) : u = Append(s, m) /\ u = members'
  BY <1>2, <1>9, <1>12, AppendProperties
<1>14. DOMAIN u = 1..(n + 1) /\ Len(u) = n + 1 /\ u[n + 1] = m /\ \A i \in 1..n : u[i] = s[i]
  <2>1. u = Append(s, m) /\ m \in MemberTypes
    BY <1>9, <1>13
  <2>2. Len(s) = n
    BY <1>12
  <2> QED
    BY <1>12, <2>1, <2>2, AppendProperties
<1>15. Goes(members, members')
  BY <1>12, <1>13, <1>14 DEF Goes
<1>16. Answered(cp', members', call, n + 1)
  BY <1>1, <1>10, <1>11, <1>13, <1>14 DEF Answered
<1>17. given' = Append(given, n + 1) /\ n + 1 \in Nat
  BY <1>2, <1>13, <1>14
<1>18. members' \in Seq(MemberTypes)
  BY <1>13
<1> QED
  BY <1>11, <1>15, <1>16, <1>17, <1>18 DEF Made

LEMMA CallBuilder == BuilderInv /\ Call => BuilderInv'
<1> SUFFICES ASSUME BuilderInv, Call PROVE BuilderInv'
  OBVIOUS
<1> DEFINE call == asked.calls[done + 1]
<1>1. /\ done < Len(asked.calls) /\ done' = done + 1 /\ asked' = asked
      /\ Entry(call) \/ StringRef(call) \/ AddMethod(call)
      /\ built = NotBuilt /\ (built' = Thrown \/ built' = built)
  BY DEF Call, Overflow
<1>2. CallsInv
  BY DEF BuilderInv
<1>3. call \in Calls
  <2>1. asked.calls \in Seq(Calls) /\ done \in Nat
    BY <1>2, BuildsAreCalls DEF CallsInv
  <2>2. PICK s \in Seq(Calls) : s = asked.calls
    BY <2>1
  <2>3. done + 1 \in DOMAIN s
    BY <1>1, <2>1, <2>2, LenProperties
  <2>4. s[done + 1] \in Calls
    BY <2>2, <2>3
  <2> QED
    BY <2>2, <2>4
<1>4. Made(call)
  BY <1>1, <1>2, <1>3, EntryMade, StringMade, MethodMade
<1> HIDE DEF call
<1>5. PICK at \in Nat : given' = Append(given, at) /\ Answered(cp', members', call, at)
  BY <1>4 DEF Made
<1>6. PICK g \in Seq(Nat) : g = given /\ Len(g) = done /\ DOMAIN g = 1..done /\ done \in Nat
  BY <1>2, LenProperties DEF CallsInv
<1>7. given' \in Seq(Nat) /\ Len(given') = done + 1 /\ given'[done + 1] = at
      /\ \A i \in 1..done : given'[i] = given[i]
  BY <1>5, <1>6, AppendProperties
<1>8. Goes(cp, cp') /\ Goes(members, members')
  BY <1>4 DEF Made, Grown, Pool
<1>9. ASSUME NEW i \in 1..(done + 1) PROVE Answered(cp', members', asked.calls[i], given'[i])
  <2>1. CASE i \in 1..done
    <3>1. Answered(cp, members, asked.calls[i], given[i])
      BY <1>2, <2>1 DEF CallsInv
    <3>2. Answered(cp', members', asked.calls[i], given[i])
      BY <1>8, <3>1, AnswerStays
    <3> QED
      BY <1>7, <2>1, <3>2
  <2>2. CASE i = done + 1
    BY <1>5, <1>7, <2>2 DEF call
  <2> QED
    BY <1>6, <2>1, <2>2
<1>10. CallsInv'
  <2>1. asked' \in Builds /\ done' \in Nat
    BY <1>1, <1>2, <1>6 DEF CallsInv
  <2>2. PoolOK(Pool') /\ members' \in Seq(MemberTypes)
    BY <1>4 DEF Made
  <2> QED
    BY <1>1, <1>7, <1>9, <2>1, <2>2 DEF CallsInv
<1>11. built'.state # "built"
  BY <1>1 DEF NotBuilt, Thrown
<1> QED
  BY <1>10, <1>11 DEF BuilderInv, BuiltInv

LEMMA BuildBuilder == BuilderInv /\ Build => BuilderInv'
<1> SUFFICES ASSUME BuilderInv, Build PROVE BuilderInv'
  OBVIOUS
<1> DEFINE T == WithClassRef(Pool, asked.this)
           Q == WithClassRef(T, asked.super)
<1>1. /\ done = Len(asked.calls) /\ Ask(Q) /\ built = NotBuilt
      /\ asked' = asked /\ done' = done /\ given' = given /\ members' = members
      /\ \/ built' = Thrown
         \/ built' = [state |-> "built", entries |-> Q.cp, methods |-> members,
                      this |-> Q.index[ClassKey(Q, asked.this)],
                      super |-> Q.index[ClassKey(Q, asked.super)]]
  BY DEF Build
<1>2. CallsInv
  BY DEF BuilderInv
<1>3. asked.this \in STRING /\ asked.super \in STRING
  BY <1>2, BuildsAreCalls DEF CallsInv
<1>4. PoolOK(T) /\ Grown(Pool, T) /\ HasClass(T, asked.this)
  BY <1>2, <1>3, ClassAsked DEF CallsInv
<1> HIDE DEF T
<1>5. PoolOK(Q) /\ Grown(T, Q) /\ HasClass(Q, asked.super)
  BY <1>3, <1>4, ClassAsked
<1> HIDE DEF Q
<1>6. HasClass(Q, asked.this) /\ Grown(Pool, Q)
  BY <1>4, <1>5, ClassStays, GrownOn
<1>7. /\ ClassIn(Q.cp, Q.index[ClassKey(Q, asked.this)], asked.this)
      /\ ClassIn(Q.cp, Q.index[ClassKey(Q, asked.super)], asked.super)
  BY <1>5, <1>6, ClassIsIn
<1>8. PoolOK(Pool') /\ cp' = Q.cp
  BY <1>1, <1>5, AskIsPool
<1>9. Goes(cp, cp') /\ Goes(members, members')
  BY <1>1, <1>6, <1>8 DEF Grown, Goes, Pool
<1>10. \A i \in 1..done : Answered(cp', members', asked.calls[i], given[i])
  BY <1>2, <1>9, AnswerStays DEF CallsInv
<1>11. CallsInv'
  BY <1>1, <1>2, <1>8, <1>10 DEF CallsInv
<1>12. CASE built' = Thrown
  BY <1>11, <1>12 DEF BuilderInv, BuiltInv, Thrown
<1>13. CASE built' # Thrown
  <2>1. /\ built'.entries = Q.cp /\ built'.methods = members
        /\ built'.this = Q.index[ClassKey(Q, asked.this)]
        /\ built'.super = Q.index[ClassKey(Q, asked.super)]
    BY <1>1, <1>13
  <2>2. BuiltInv'
    BY <1>1, <1>7, <1>8, <2>1 DEF BuiltInv
  <2> QED
    BY <1>11, <2>2 DEF BuilderInv
<1> QED
  BY <1>12, <1>13

\* Every call is answered by the pool as it is now, and stays answered
\* (classfile.cpp:31-127, 159-200).
THEOREM BuilderInvHolds == Spec => []BuilderInv
<1>1. Init => BuilderInv
  BY InitBuilderInv
<1>2. BuilderInv /\ [Next]_vars => BuilderInv'
  <2> SUFFICES ASSUME BuilderInv, [Next]_vars PROVE BuilderInv'
    OBVIOUS
  <2>1. CASE BuilderStep
    BY <2>1, CallBuilder, BuildBuilder DEF BuilderStep
  <2>2. CASE UNCHANGED builderVars
    BY <2>2 DEF builderVars, BuilderInv, CallsInv, BuiltInv, Pool
  <2>3. CASE UNCHANGED vars
    BY <2>2, <2>3 DEF vars
  <2> QED
    BY <2>1, <2>2, <2>3 DEF Next
<1> QED
  BY <1>1, <1>2, PTL DEF Spec

-----------------------------------------------------------------------------
\* Without wide entries an index is a place.
LEMMA PlaceIsIndex ==
  ASSUME NEW S \in Seq(Entries), \A s \in DOMAIN S : S[s] # Wide, NEW i \in DOMAIN S
  PROVE  IndexOf(S, i) = i
<1>1. DOMAIN S = 1..Len(S) /\ Len(S) \in Nat
  BY LenProperties
<1>2. {j \in 1..(i - 1) : S[j] = Wide} = {}
  BY <1>1
<1>3. Cardinality({j \in 1..(i - 1) : S[j] = Wide}) = 0
  BY <1>2, FS_EmptySet
<1> QED
  BY <1>1, <1>3 DEF IndexOf

LEMMA InDenotes ==
  ASSUME NEW S \in Seq(Entries), \A s \in DOMAIN S : S[s] # Wide
  PROVE  /\ \A at \in DOMAIN S : Denotes(S, at, S[at])
         /\ \A at, text : TextIn(S, at, text) => at \in Named(S, text)
<1>1. ASSUME NEW at \in DOMAIN S PROVE Denotes(S, at, S[at])
  BY PlaceIsIndex DEF Denotes
<1>2. ASSUME NEW at, NEW text, TextIn(S, at, text) PROVE at \in Named(S, text)
  <2>1. Denotes(S, at, Utf8(text))
    BY <1>1, <1>2 DEF TextIn
  <2> QED
    BY <2>1, DenotesIsNamed
<1> QED
  BY <1>1, <1>2

LEMMA ClassDenotes ==
  ASSUME NEW S \in Seq(Entries), \A s \in DOMAIN S : S[s] # Wide, NEW at, NEW name, ClassIn(S, at, name)
  PROVE  IsClass(S, at, name)
<1>1. PICK n \in DOMAIN S : S[at] = Class(n) /\ TextIn(S, n, name)
  BY DEF ClassIn
<1>2. Denotes(S, at, Class(n))
  BY <1>1, InDenotes DEF ClassIn
<1>3. n \in Named(S, name)
  BY <1>1, InDenotes
<1> QED
  BY <1>2, <1>3 DEF IsClass

\* A reference that is in the pool is one the JVM reads.
LEMMA RefDenotes ==
  ASSUME NEW S \in Seq(Entries), \A s \in DOMAIN S : S[s] # Wide,
         NEW at, NEW tag, NEW owner, NEW name, NEW type, RefIn(S, at, tag, owner, name, type)
  PROVE  \E i, j, k \in DOMAIN S :
           /\ IndexOf(S, i) = at /\ S[i] = [tag |-> tag, of |-> <<IndexOf(S, j), IndexOf(S, k)>>]
           /\ \E n \in Named(S, owner) : S[j] = Class(n)
           /\ \E n \in Named(S, name), t \in Named(S, type) : S[k] = NameAndType(n, t)
<1>1. PICK c \in DOMAIN S, m \in DOMAIN S :
        S[at] = [tag |-> tag, of |-> <<c, m>>] /\ ClassIn(S, c, owner) /\ MemberIn(S, m, name, type)
  BY DEF RefIn
<1>2. at \in DOMAIN S /\ IndexOf(S, at) = at /\ IndexOf(S, c) = c /\ IndexOf(S, m) = m
  BY PlaceIsIndex DEF RefIn
<1>3. \E n \in Named(S, owner) : S[c] = Class(n)
  BY <1>1, InDenotes DEF ClassIn
<1>4. \E n \in Named(S, name), t \in Named(S, type) : S[m] = NameAndType(n, t)
  BY <1>1, InDenotes DEF MemberIn
<1>5. S[at] = [tag |-> tag, of |-> <<IndexOf(S, c), IndexOf(S, m)>>]
  BY <1>1, <1>2
<1> QED
  BY <1>2, <1>3, <1>4, <1>5

LEMMA AnsweredAnswers ==
  ASSUME NEW call \in Calls, NEW at, PoolOK(Pool), built.entries = cp, built.methods = members,
         Answered(cp, members, call, at)
  PROVE  Answers(call, at)
<1>1. cp \in Seq(Entries) /\ \A s \in DOMAIN cp : cp[s] # Wide
  BY DEF PoolOK, Pool
<1>2. CASE call.op \in {"method", "field"}
  <2>1. RefIn(cp, at, call.op, call.owner, call.name, call.type)
    BY <1>2 DEF Answered
  <2>2. PICK i \in DOMAIN cp, j \in DOMAIN cp, k \in DOMAIN cp :
          /\ IndexOf(cp, i) = at /\ cp[i] = [tag |-> call.op, of |-> <<IndexOf(cp, j), IndexOf(cp, k)>>]
          /\ \E n \in Named(cp, call.owner) : cp[j] = Class(n)
          /\ \E n \in Named(cp, call.name), t \in Named(cp, call.type) : cp[k] = NameAndType(n, t)
    BY <1>1, <2>1, RefDenotes
  <2>3. CASE call.op = "method"
    <3>1. cp[i] = MethodRef(IndexOf(cp, j), IndexOf(cp, k))
      BY <2>2, <2>3 DEF MethodRef
    <3>2. RefersTo(built.entries, at, MethodRef, call.owner, call.name, call.type)
      BY <2>2, <3>1 DEF RefersTo
    <3> QED
      BY <2>3, <3>2 DEF Answers
  <2>4. CASE call.op = "field"
    <3>1. cp[i] = FieldRef(IndexOf(cp, j), IndexOf(cp, k))
      BY <2>2, <2>4 DEF FieldRef
    <3>2. RefersTo(built.entries, at, FieldRef, call.owner, call.name, call.type)
      BY <2>2, <3>1 DEF RefersTo
    <3> QED
      BY <2>4, <3>2 DEF Answers
  <2> QED
    BY <1>2, <2>3, <2>4
<1>3. CASE call.op = "string"
  <2>1. StringIn(cp, at, call.text)
    BY <1>3 DEF Answered
  <2>2. PICK n \in DOMAIN cp : cp[at] = Text(n) /\ TextIn(cp, n, call.text)
    BY <2>1 DEF StringIn
  <2>3. n \in Named(cp, call.text) /\ Denotes(cp, at, Text(n))
    BY <1>1, <2>1, <2>2, InDenotes DEF StringIn
  <2> QED
    BY <1>3, <2>3 DEF Answers
<1>4. CASE call.op \in {"native", "coded"}
  <2>1. MethodIn(cp, members[at], call)
    BY <1>4 DEF Answered
  <2>2. /\ members[at].name \in Named(cp, call.name) /\ members[at].type \in Named(cp, call.type)
        /\ IF call.op = "coded" THEN members[at].code \in Named(cp, "Code") ELSE members[at].code = 0
    BY <1>1, <2>1, InDenotes DEF MethodIn
  <2>3. call.op # "method" /\ call.op # "field" /\ call.op # "string"
    BY <1>4
  <2> QED
    BY <2>2, <2>3 DEF Answers
<1>5. call.op \in {"method", "field", "string", "native", "coded"}
  BY DEF Calls
<1> QED
  BY <1>2, <1>3, <1>4, <1>5

\* Every index in a class file the proxy wrote denotes what it was asked for,
\* whatever else the class shares its entries with (classfile.cpp:31-127, 159-200).
THEOREM BuiltAsAskedHolds == Spec => []BuiltAsAsked
<1>1. BuilderInv => BuiltAsAsked
  <2> SUFFICES ASSUME BuilderInv, built.state = "built" PROVE BuiltAsAsked
    BY DEF BuiltAsAsked
  <2>1. /\ PoolOK(Pool) /\ done = Len(asked.calls) /\ built.entries = cp /\ built.methods = members
        /\ ClassIn(cp, built.this, asked.this) /\ ClassIn(cp, built.super, asked.super)
        /\ \A i \in 1..done : Answered(cp, members, asked.calls[i], given[i])
        /\ asked \in Builds
    BY DEF BuilderInv, CallsInv, BuiltInv
  <2>2. cp \in Seq(Entries) /\ \A s \in DOMAIN cp : cp[s] # Wide
    BY <2>1 DEF PoolOK, Pool
  <2>3. IsClass(cp, built.this, asked.this) /\ IsClass(cp, built.super, asked.super)
    BY <2>1, <2>2, ClassDenotes
  <2>4. PICK s \in Seq(Calls) : s = asked.calls
    BY <2>1, BuildsAreCalls
  <2>5. DOMAIN s = 1..done /\ \A i \in 1..done : s[i] \in Calls
    BY <2>1, <2>4, LenProperties
  <2>6. ASSUME NEW i \in 1..done PROVE Answers(asked.calls[i], given[i])
    BY <2>1, <2>4, <2>5, AnsweredAnswers
  <2> QED
    BY <2>1, <2>3, <2>4, <2>5, <2>6 DEF BuiltAsAsked
<1> QED
  BY <1>1, BuilderInvHolds, PTL

\* In a class the proxy wrote every index denotes what it was asked for.  In the
\* edited class the inserted call's index denotes the bridge's method, and every
\* index of the old file what it denoted before, wide entries or not
\* (classfile.cpp:31-127, 159-200, class_edit.cpp:82-95, 168-235, 514-521).
THEOREM IndexesKeepMeaningHolds == Spec => []IndexesKeepMeaning
<1>1. EditInv => EditKeepsMeaning
  BY IndexesKept
<1>2. BuiltAsAsked /\ EditKeepsMeaning => IndexesKeepMeaning
  BY DEF IndexesKeepMeaning, EditKeepsMeaning
<1> QED
  BY <1>1, <1>2, BuiltAsAskedHolds, EditInvHolds, PTL

\* What the new Connection does and the old did not is one thing: its
\* channelActive, whatever overloads there are, calls a static method that the
\* bridge class really has (classfile.cpp:129-138, class_edit.cpp:389-399, trampolines.cpp:73-77,
\* connection_hook.cpp:43-56).
THEOREM CallIsTheEditHolds == Spec => []CallIsTheEdit
<1>1. BuilderInv /\ EditInv => CallIsTheEdit
  <2> SUFFICES ASSUME BuilderInv, EditInv, step = "written" PROVE CallIsTheEdit
    BY DEF CallIsTheEdit
  <2>1. /\ asked.this = Owner /\ asked \in Builds
        /\ PoolOK(Pool) /\ done = Len(asked.calls) /\ built.entries = cp /\ built.methods = members
        /\ \A i \in 1..done : Answered(cp, members, asked.calls[i], given[i])
    BY DEF BuilderInv, CallsInv, BuiltInv, EditInv, ReadInv
  <2>2. /\ file \in Files /\ written.methods = methods /\ DOMAIN methods = DOMAIN file.methods
        /\ \A i \in DOMAIN methods : methods[i] = Result(file, i)
    BY DEF EditInv, ReadInv, EditedInv, WrittenInv
  <2>3. \E i \in DOMAIN built.methods : Bridged(built.methods[i])
    <3> DEFINE call == [op |-> "native", name |-> Callee, type |-> CalleeType, flags |-> {"static"}]
    <3>1. call \in ToSet(asked.calls)
      BY <2>1, BridgeHasCallee
    <3>2. PICK p \in DOMAIN asked.calls : asked.calls[p] = call
      BY <3>1 DEF ToSet
    <3>3. p \in 1..done
      BY <2>1, BuildsAreCalls, LenProperties
    <3>4. Answered(cp, members, call, given[p])
      BY <2>1, <3>2, <3>3
    <3>5. call.op = "native" /\ call.name = Callee /\ call.type = CalleeType /\ call.flags = {"static"}
      OBVIOUS
    <3> HIDE DEF call
    <3>6. given[p] \in DOMAIN members /\ MethodIn(cp, members[given[p]], call)
      BY <3>4, <3>5 DEF Answered
    <3>7. cp \in Seq(Entries) /\ \A s \in DOMAIN cp : cp[s] # Wide
      BY <2>1 DEF PoolOK, Pool
    <3>8. Bridged(members[given[p]])
      <4>1. members[given[p]].flags = {"static", "native"}
        BY <3>5, <3>6 DEF MethodIn
      <4>2. /\ members[given[p]].name \in Named(cp, Callee)
            /\ members[given[p]].type \in Named(cp, CalleeType)
        BY <3>5, <3>6, <3>7, InDenotes DEF MethodIn
      <4> QED
        BY <2>1, <4>1, <4>2 DEF Bridged
    <3> QED
      BY <2>1, <3>6, <3>8
  <2>4. ASSUME NEW i \in DOMAIN file.methods
        PROVE  IF IsTarget(file, i) /\ file.methods[i].code # NoCode THEN i \in Changed
               ELSE written.methods[i] = Unedited(file.methods[i])
    <3>1. CASE IsTarget(file, i) /\ file.methods[i].code # NoCode
      <4>1. written.methods[i].inserted
        <5>1. written.methods[i] = Edited(file.methods[i])
          BY <2>2, <3>1 DEF Result
        <5>2. Edited(file.methods[i]).inserted = TRUE
          BY DEF Edited
        <5> QED
          BY <5>1, <5>2
      <4> QED
        BY <2>2, <3>1, <4>1 DEF Changed
    <3>2. CASE ~(IsTarget(file, i) /\ file.methods[i].code # NoCode)
      BY <2>2, <3>2 DEF Result
    <3> QED
      BY <3>1, <3>2
  <2> QED
    BY <2>3, <2>4 DEF CallIsTheEdit, IsTarget
<1> QED
  BY <1>1, BuilderInvHolds, EditInvHolds, PTL

=============================================================================
