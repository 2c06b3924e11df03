----------------------------- MODULE DataProofs -----------------------------
(***************************************************************************)
(* What the proofs of several components need to know of their data: what  *)
(* the bounded FIFO of ids keeps, for every cache and every bound, how a   *)
(* sum over a finite set changes with its members, and that a fold of      *)
(* typed steps is typed.                                                   *)
(*                                                                         *)
(* MapThenSumSet and FoldLeft are recursive functions, so what they return *)
(* is shown by induction; since an induction theorem with an operator for  *)
(* a parameter cannot be cited, the induction is over sets of naturals and *)
(* of subsets, from the fact that < is well-founded.                       *)
(***************************************************************************)
EXTENDS SeenCache, FiniteSetsExt, FiniteSetTheorems, SequenceTheorems,
        WellFoundedInduction, TLAPS

-----------------------------------------------------------------------------
(* The cache *)

\* Trimming a cache to its newest ids leaves a sequence of ids, no longer than the
\* bound and with the same last id.
LEMMA NewestType ==
    ASSUME NEW S, NEW s \in Seq(S), NEW cap \in Nat
    PROVE  /\ Newest(s, cap) \in Seq(S)
           /\ Len(Newest(s, cap)) <= cap
           /\ \A i \in DOMAIN Newest(s, cap) :
                 \E j \in DOMAIN s : Newest(s, cap)[i] = s[j]
<1>1. Len(s) \in Nat /\ DOMAIN s = 1 .. Len(s)
  BY LenProperties
<1>2. CASE Len(s) > cap
  <2> DEFINE k == Len(s) - cap + 1
             t == SubSeq(s, k, Len(s))
  <2>1. k \in 1 .. Len(s) + 1 /\ Len(s) - k + 1 = cap
    BY <1>1, <1>2
  <2>2. \A i \in k .. Len(s) : s[i] \in S
    BY <1>1, <2>1, ElementOfSeq
  <2>3. /\ t \in Seq(S) /\ Len(t) = cap
        /\ \A i \in 1 .. cap : t[i] = s[k + i - 1]
    BY <1>1, <1>2, <2>1, <2>2, SubSeqProperties
  <2>4. Newest(s, cap) = t
    BY <1>2 DEF Newest
  <2> HIDE DEF t
  <2>5. DOMAIN t = 1 .. cap
    BY <2>3, LenProperties
  <2>6. \A i \in 1 .. cap : k + i - 1 \in DOMAIN s
    BY <1>1, <1>2
  <2> HIDE DEF k
  <2> QED
    BY <2>3, <2>4, <2>5, <2>6
<1>3. CASE ~(Len(s) > cap)
  BY <1>1, <1>3 DEF Newest
<1> QED
  BY <1>2, <1>3

\* Inserting an id leaves a cache of ids within the bound, and brings in no other id.
LEMMA AddType ==
    ASSUME NEW S, NEW s \in Seq(S), NEW id \in S, NEW cap \in Nat
    PROVE  /\ Add(s, id, cap) \in Seq(S)
           /\ Len(Add(s, id, cap)) <= cap
           /\ ToSet(Add(s, id, cap)) \subseteq ToSet(s) \cup {id}
<1> DEFINE t == IF id \in ToSet(s) THEN s ELSE Append(s, id)
<1>1. t \in Seq(S)
  BY AppendProperties
<1>2. \A j \in DOMAIN t : t[j] \in ToSet(s) \cup {id}
  <2>1. DOMAIN s = 1 .. Len(s) /\ Len(s) \in Nat
    BY LenProperties
  <2>2. DOMAIN Append(s, id) = 1 .. Len(s) + 1
    BY <2>1, AppendProperties, LenProperties
  <2>3. \A j \in 1 .. Len(s) : Append(s, id)[j] = s[j] /\ s[j] \in ToSet(s)
    BY <2>1, AppendProperties DEF ToSet
  <2>4. Append(s, id)[Len(s) + 1] = id
    BY AppendProperties
  <2> QED
    BY <2>1, <2>2, <2>3, <2>4
<1>3. Add(s, id, cap) = Newest(t, cap)
  BY DEF Add
<1> HIDE DEF t
<1>4. \A i \in DOMAIN Newest(t, cap) : Newest(t, cap)[i] \in ToSet(s) \cup {id}
  BY <1>1, <1>2, NewestType
<1>5. ToSet(Add(s, id, cap)) \subseteq ToSet(s) \cup {id}
  BY <1>3, <1>4 DEF ToSet
<1> QED
  BY <1>1, <1>3, <1>5, NewestType

\* A new id is in the cache it was put in: only older ids are dropped.
LEMMA AddHolds ==
    ASSUME NEW S, NEW s \in Seq(S), NEW id \in S, id \notin ToSet(s),
           NEW cap \in Nat \ {0}
    PROVE  id \in ToSet(Add(s, id, cap))
<1> DEFINE t == Append(s, id)
           k == Len(t) - cap + 1
<1>1. /\ t \in Seq(S) /\ Len(t) = Len(s) + 1
      /\ t[Len(s) + 1] = id
      /\ Len(s) \in Nat
  BY AppendProperties, LenProperties
<1>2. Add(s, id, cap) = Newest(t, cap)
  BY DEF Add
<1> HIDE DEF t
<1>3. CASE Len(t) > cap
  <2> DEFINE u == SubSeq(t, k, Len(t))
  <2>1. k \in 1 .. Len(t) /\ Len(t) - k + 1 = cap
    BY <1>1, <1>3
  <2>2. \A i \in k .. Len(t) : t[i] \in S
    BY <1>1, <2>1, LenProperties, ElementOfSeq
  <2>3. /\ u \in Seq(S) /\ Len(u) = cap
        /\ \A i \in 1 .. cap : u[i] = t[k + i - 1]
    BY <1>1, <2>1, <2>2, SubSeqProperties
  <2>4. u[cap] = id
    <3>1. k + cap - 1 = Len(t) /\ cap \in 1 .. cap
      BY <1>1
    <3> HIDE DEF u, k
    <3> QED
      BY <1>1, <2>3, <3>1
  <2>5. Newest(t, cap) = u
    BY <1>3 DEF Newest
  <2> HIDE DEF u
  <2>6. cap \in DOMAIN u
    BY <2>3, LenProperties
  <2> QED
    BY <1>2, <2>4, <2>5, <2>6 DEF ToSet
<1>4. CASE ~(Len(t) > cap)
  <2>1. Newest(t, cap) = t
    BY <1>4 DEF Newest
  <2>2. Len(s) + 1 \in DOMAIN t
    BY <1>1, LenProperties
  <2> QED
    BY <1>1, <1>2, <2>1, <2>2 DEF ToSet
<1> QED
  BY <1>3, <1>4

-----------------------------------------------------------------------------
(* Induction *)

\* Every set of naturals has a least one.
LEMMA LeastMember ==
    ASSUME NEW T \in SUBSET Nat, T # {}
    PROVE  \E i \in T : \A j \in T : i <= j
<1>1. PICK i \in T : \A j \in T : <<j, i>> \notin OpToRel(<, Nat)
  BY NatLessThanWellFounded, WFMin
<1>2. \A j \in T : ~(j < i)
  BY <1>1 DEF OpToRel
<1> QED
  BY <1>2

\* Induction over the naturals, for a set in the place of the formula.
LEMMA SetOfNaturals ==
    ASSUME NEW H \in SUBSET Nat, 0 \in H, \A n \in H : n + 1 \in H
    PROVE  H = Nat
<1> SUFFICES ASSUME Nat \ H # {} PROVE FALSE
  OBVIOUS
<1>1. PICK n \in Nat \ H : \A k \in Nat \ H : n <= k
  <2> Nat \ H \in SUBSET Nat
    OBVIOUS
  <2> QED
    BY LeastMember
<1>2. n # 0 /\ n - 1 \in Nat /\ n - 1 \in H
  BY <1>1
<1> QED
  BY <1>1, <1>2

\* Induction over the subsets of a finite set, likewise.
LEMMA SetOfSubsets ==
    ASSUME NEW S, IsFiniteSet(S), NEW G,
           \A T \in SUBSET S : (\A x \in T : T \ {x} \in G) => T \in G
    PROVE  \A T \in SUBSET S : T \in G
<1> DEFINE H == {n \in Nat : \A T \in SUBSET S : Cardinality(T) = n => T \in G}
<1>1. \A T \in SUBSET S : IsFiniteSet(T) /\ Cardinality(T) \in Nat
  BY FS_Subset, FS_CardinalityType
<1>2. 0 \in H
  <2>1. ASSUME NEW T \in SUBSET S, Cardinality(T) = 0 PROVE T \in G
    BY <1>1, <2>1, FS_EmptySet
  <2> QED
    BY <2>1
<1>3. ASSUME NEW n \in H PROVE n + 1 \in H
  <2>1. ASSUME NEW T \in SUBSET S, Cardinality(T) = n + 1 PROVE T \in G
    <3>1. ASSUME NEW x \in T PROVE T \ {x} \in G
      <4>1. T \ {x} \in SUBSET S /\ Cardinality(T \ {x}) = n
        BY <1>1, <2>1, FS_RemoveElement
      <4> QED
        BY <4>1
    <3> QED
      BY <3>1
  <2> QED
    BY <2>1
<1>4. H = Nat
  <2> HIDE DEF H
  <2>1. H \in SUBSET Nat
    BY DEF H
  <2> QED
    BY <1>2, <1>3, <2>1, SetOfNaturals
<1> QED
  BY <1>1, <1>4
-----------------------------------------------------------------------------
(* Sums *)

\* What MapThenSumSet sums up, for a function.
Part(f, s, iter) ==
    IF s = {} THEN 0 ELSE LET x == CHOOSE x \in s : TRUE IN f[x] + iter[s \ {x}]

Partial(f, S) == CHOOSE iter : iter = [s \in SUBSET S |-> Part(f, s, iter)]

SumOver(f, S) == Partial(f, S)[S]

\* MapThenSumSet sums up what f has at the members of S.
LEMMA SumIsMapped ==
    ASSUME NEW f, NEW S
    PROVE  MapThenSumSet(LAMBDA x : f[x], S) = SumOver(f, S)
BY DEF MapThenSumSet, MapThenFoldSet, SumOver, Partial, Part

\* The recursion in MapThenSumSet has a solution.
LEMMA PartialExists ==
    ASSUME NEW f, NEW S, IsFiniteSet(S)
    PROVE  Partial(f, S) = [s \in SUBSET S |-> Part(f, s, Partial(f, S))]
<1> DEFINE Upto(n, it) == \A s \in SUBSET S : Cardinality(s) <= n => it[s] = Part(f, s, it)
           H == {n \in Nat : \E it : Upto(n, it)}
<1>1. \A s \in SUBSET S : IsFiniteSet(s) /\ Cardinality(s) \in Nat
                          /\ Cardinality(s) <= Cardinality(S)
  BY FS_Subset, FS_CardinalityType
<1>2. 0 \in H
  <2> DEFINE it == [s \in SUBSET S |-> 0]
  <2>1. ASSUME NEW s \in SUBSET S, Cardinality(s) <= 0 PROVE it[s] = Part(f, s, it)
    <3>1. Cardinality(s) = 0
      BY <1>1, <2>1
    <3>2. s = {}
      BY <1>1, <3>1, FS_EmptySet
    <3> QED
      BY <3>2 DEF Part
  <2>2. Upto(0, it)
    BY <2>1
  <2> QED
    BY <2>2
<1>3. ASSUME NEW n \in H PROVE n + 1 \in H
  <2>1. PICK it : Upto(n, it)
    OBVIOUS
  <2> DEFINE next == [s \in SUBSET S |-> Part(f, s, it)]
  <2>2. ASSUME NEW s \in SUBSET S, Cardinality(s) <= n + 1 PROVE next[s] = Part(f, s, next)
    <3>1. CASE s = {}
      BY <3>1 DEF Part
    <3>2. CASE s # {}
      <4> DEFINE x == CHOOSE x \in s : TRUE
      <4>1. x \in s
        BY <3>2
      <4> HIDE DEF x
      <4>2. s \ {x} \in SUBSET S /\ Cardinality(s \ {x}) <= n
        BY <1>1, <2>2, <4>1, FS_RemoveElement
      <4>3. it[s \ {x}] = Part(f, s \ {x}, it)
        BY <2>1, <4>2
      <4>4. next[s \ {x}] = it[s \ {x}]
        BY <4>2, <4>3
      <4>5. Part(f, s, next) = f[x] + next[s \ {x}] /\ Part(f, s, it) = f[x] + it[s \ {x}]
        BY <3>2 DEF Part, x
      <4> QED
        BY <4>4, <4>5
    <3> QED
      BY <3>1, <3>2
  <2>3. Upto(n + 1, next)
    BY <2>2
  <2> HIDE DEF Upto, next
  <2>4. n + 1 \in Nat
    OBVIOUS
  <2> QED
    BY <2>3, <2>4
<1>4. Cardinality(S) \in H
  <2> HIDE DEF H
  <2>1. H \in SUBSET Nat
    BY DEF H
  <2> QED
    BY <1>1, <1>2, <1>3, <2>1, SetOfNaturals
<1>5. PICK it : Upto(Cardinality(S), it)
  BY <1>4
<1>6. \A s \in SUBSET S : it[s] = Part(f, s, it)
  BY <1>1, <1>5
<1> DEFINE whole == [s \in SUBSET S |-> it[s]]
<1>7. ASSUME NEW s \in SUBSET S PROVE Part(f, s, whole) = Part(f, s, it)
  <2>1. s # {} => s \ {CHOOSE x \in s : TRUE} \in SUBSET S
    OBVIOUS
  <2> QED
    BY <2>1 DEF Part
<1>8. whole = [s \in SUBSET S |-> Part(f, s, whole)]
  BY <1>6, <1>7
<1> HIDE DEF whole
<1> QED
  BY <1>8 DEF Partial

\* A partial sum does not depend on the set of which it is a part.
LEMMA PartialIsSum ==
    ASSUME NEW f, NEW S, IsFiniteSet(S)
    PROVE  \A s \in SUBSET S : Partial(f, S)[s] = SumOver(f, s)
<1> DEFINE G == {s \in SUBSET S : \A B \in SUBSET S : s \subseteq B =>
                                      Partial(f, B)[s] = SumOver(f, s)}
<1>1. ASSUME NEW s \in SUBSET S, \A x \in s : s \ {x} \in G PROVE s \in G
  <2>1. ASSUME NEW B \in SUBSET S, s \subseteq B PROVE Partial(f, B)[s] = SumOver(f, s)
    <3>1. IsFiniteSet(B) /\ IsFiniteSet(s)
      BY FS_Subset
    <3>2. /\ Partial(f, B)[s] = Part(f, s, Partial(f, B))
          /\ SumOver(f, s) = Part(f, s, Partial(f, s))
      <4>1. Partial(f, B) = [t \in SUBSET B |-> Part(f, t, Partial(f, B))]
        BY <3>1, PartialExists
      <4>2. Partial(f, s) = [t \in SUBSET s |-> Part(f, t, Partial(f, s))]
        BY <3>1, PartialExists
      <4>3. Partial(f, B)[s] = Part(f, s, Partial(f, B))
        BY <4>1, <2>1
      <4>4. Partial(f, s)[s] = Part(f, s, Partial(f, s))
        BY <4>2
      <4> QED
        BY <4>3, <4>4 DEF SumOver
    <3>3. CASE s = {}
      BY <3>2, <3>3 DEF Part
    <3>4. CASE s # {}
      <4> DEFINE x == CHOOSE x \in s : TRUE
      <4>1. x \in s
        BY <3>4
      <4>2. Part(f, s, Partial(f, B)) = f[x] + Partial(f, B)[s \ {x}]
        BY <3>4 DEF Part
      <4>3. Part(f, s, Partial(f, s)) = f[x] + Partial(f, s)[s \ {x}]
        BY <3>4 DEF Part
      <4> HIDE DEF x
      <4>4. s \ {x} \in G /\ s \ {x} \subseteq B /\ s \ {x} \subseteq s
        BY <1>1, <2>1, <4>1
      <4>5. Partial(f, B)[s \ {x}] = Partial(f, s)[s \ {x}]
        BY <4>4
      <4> QED
        BY <3>2, <4>2, <4>3, <4>5
    <3> QED
      BY <3>3, <3>4
  <2> QED
    BY <2>1
<1>2. \A s \in SUBSET S : s \in G
  <2> HIDE DEF G
  <2> QED
    BY <1>1, SetOfSubsets
<1> QED
  BY <1>2

\* Nothing sums up to zero.
LEMMA SumEmpty ==
    ASSUME NEW f
    PROVE  SumOver(f, {}) = 0
<1>1. Partial(f, {}) = [s \in SUBSET {} |-> Part(f, s, Partial(f, {}))]
  BY PartialExists, FS_EmptySet
<1>2. Partial(f, {})[{}] = Part(f, {}, Partial(f, {}))
  BY <1>1
<1> QED
  BY <1>2 DEF SumOver, Part

\* A sum is a member's value and the sum over the others.
LEMMA SumChoose ==
    ASSUME NEW f, NEW S, IsFiniteSet(S), S # {}
    PROVE  LET x == CHOOSE x \in S : TRUE
           IN  x \in S /\ SumOver(f, S) = f[x] + SumOver(f, S \ {x})
<1> DEFINE x == CHOOSE x \in S : TRUE
<1>1. x \in S /\ S \ {x} \in SUBSET S
  OBVIOUS
<1>2. Partial(f, S) = [s \in SUBSET S |-> Part(f, s, Partial(f, S))]
  BY PartialExists
<1>3. SumOver(f, S) = Part(f, S, Partial(f, S))
  BY <1>2 DEF SumOver
<1>4. Part(f, S, Partial(f, S)) = f[x] + Partial(f, S)[S \ {x}]
  BY DEF Part
<1> HIDE DEF x
<1>5. Partial(f, S)[S \ {x}] = SumOver(f, S \ {x})
  BY <1>1, PartialIsSum
<1>6. x \in S /\ SumOver(f, S) = f[x] + SumOver(f, S \ {x})
  BY <1>1, <1>3, <1>4, <1>5
<1> QED
  BY <1>6 DEF x

\* A sum of naturals is a natural.
LEMMA SumType ==
    ASSUME NEW f, NEW S, IsFiniteSet(S), \A x \in S : f[x] \in Nat
    PROVE  \A T \in SUBSET S : SumOver(f, T) \in Nat
<1> DEFINE G == {T \in SUBSET S : SumOver(f, T) \in Nat}
<1>1. ASSUME NEW T \in SUBSET S, \A x \in T : T \ {x} \in G PROVE T \in G
  <2>1. CASE T = {}
    BY <2>1, SumEmpty
  <2>2. CASE T # {}
    <3>1. PICK x \in T : SumOver(f, T) = f[x] + SumOver(f, T \ {x})
      <4>1. \E x \in T : SumOver(f, T) = f[x] + SumOver(f, T \ {x})
        BY <2>2, FS_Subset, SumChoose
      <4> QED
        BY <4>1
    <3>2. f[x] \in Nat /\ SumOver(f, T \ {x}) \in Nat
      BY <1>1
    <3> QED
      BY <3>1, <3>2
  <2> QED
    BY <2>1, <2>2
<1>2. \A T \in SUBSET S : T \in G
  <2> HIDE DEF G
  <2> QED
    BY <1>1, SetOfSubsets
<1> QED
  BY <1>2

\* Any member may be the one that is added last.
LEMMA SumRemove ==
    ASSUME NEW f, NEW S, IsFiniteSet(S), \A x \in S : f[x] \in Nat, NEW y \in S
    PROVE  SumOver(f, S) = f[y] + SumOver(f, S \ {y})
<1> DEFINE G == {T \in SUBSET S : \A z \in T : SumOver(f, T) = f[z] + SumOver(f, T \ {z})}
<1>1. ASSUME NEW T \in SUBSET S, \A x \in T : T \ {x} \in G PROVE T \in G
  <2>1. ASSUME NEW z \in T PROVE SumOver(f, T) = f[z] + SumOver(f, T \ {z})
    <3>1. PICK x \in T : SumOver(f, T) = f[x] + SumOver(f, T \ {x})
      <4>1. \E x \in T : SumOver(f, T) = f[x] + SumOver(f, T \ {x})
        BY FS_Subset, SumChoose
      <4> QED
        BY <4>1
    <3>2. CASE x = z
      BY <3>1, <3>2
    <3>3. CASE x # z
      <4>1. SumOver(f, T \ {x}) = f[z] + SumOver(f, (T \ {x}) \ {z})
        BY <1>1, <3>3
      <4>2. SumOver(f, T \ {z}) = f[x] + SumOver(f, (T \ {z}) \ {x})
        BY <1>1, <3>3
      <4>3. (T \ {x}) \ {z} = (T \ {z}) \ {x}
        OBVIOUS
      <4>4. f[x] \in Nat /\ f[z] \in Nat /\ SumOver(f, (T \ {x}) \ {z}) \in Nat
        <5>1. (T \ {x}) \ {z} \in SUBSET S
          OBVIOUS
        <5> QED
          BY <5>1, SumType
      <4> QED
        BY <3>1, <4>1, <4>2, <4>3, <4>4
    <3> QED
      BY <3>2, <3>3
  <2> QED
    BY <2>1
<1>2. \A T \in SUBSET S : T \in G
  <2> HIDE DEF G
  <2> QED
    BY <1>1, SetOfSubsets
<1> QED
  BY <1>2

\* A sum does not depend on what the function is elsewhere.
LEMMA SumSame ==
    ASSUME NEW f, NEW g, NEW S, IsFiniteSet(S), \A x \in S : f[x] = g[x]
    PROVE  SumOver(f, S) = SumOver(g, S)
<1> DEFINE G == {T \in SUBSET S : SumOver(f, T) = SumOver(g, T)}
<1>1. ASSUME NEW T \in SUBSET S, \A x \in T : T \ {x} \in G PROVE T \in G
  <2>1. CASE T = {}
    BY <2>1, SumEmpty
  <2>2. CASE T # {}
    <3> DEFINE x == CHOOSE x \in T : TRUE
    <3>1. IsFiniteSet(T)
      BY FS_Subset
    <3>2. /\ x \in T
          /\ SumOver(f, T) = f[x] + SumOver(f, T \ {x})
          /\ SumOver(g, T) = g[x] + SumOver(g, T \ {x})
      BY <2>2, <3>1, SumChoose
    <3> HIDE DEF x
    <3> QED
      BY <1>1, <3>1, <3>2
  <2> QED
    BY <2>1, <2>2
<1>2. \A T \in SUBSET S : T \in G
  <2> HIDE DEF G
  <2> QED
    BY <1>1, SetOfSubsets
<1> QED
  BY <1>2

\* What changes at one member.
LEMMA SumChange ==
    ASSUME NEW f, NEW g, NEW S, IsFiniteSet(S), NEW y \in S,
           \A x \in S : f[x] \in Nat /\ g[x] \in Nat,
           \A x \in S \ {y} : f[x] = g[x]
    PROVE  /\ SumOver(g, S) + f[y] = SumOver(f, S) + g[y]
           /\ SumOver(g, S) \in Nat /\ SumOver(f, S) \in Nat
<1>1. IsFiniteSet(S \ {y})
  BY FS_Subset
<1>2. SumOver(f, S \ {y}) = SumOver(g, S \ {y})
  BY <1>1, SumSame
<1>3. SumOver(f, S \ {y}) \in Nat
  BY SumType
<1>4. /\ SumOver(f, S) = f[y] + SumOver(f, S \ {y})
      /\ SumOver(g, S) = g[y] + SumOver(g, S \ {y})
  BY SumRemove
<1> QED
  BY <1>2, <1>3, <1>4

\* A sum over a sequence to which a member is prepended.
LEMMA SumShift ==
    ASSUME NEW n \in Nat, NEW f, NEW g,
           \A i \in 1 .. n : f[i] \in Nat /\ g[i + 1] = f[i], g[1] \in Nat
    PROVE  SumOver(g, 1 .. n + 1) = g[1] + SumOver(f, 1 .. n)
<1> DEFINE H == {k \in Nat : k <= n => SumOver(g, 1 .. k + 1) = g[1] + SumOver(f, 1 .. k)}
<1>0. \A k \in Nat : /\ IsFiniteSet(1 .. k)
                     /\ k <= n => \A i \in 1 .. k + 1 : g[i] \in Nat
                     /\ k <= n => \A i \in 1 .. k : f[i] \in Nat
  <2>1. \A k \in Nat : IsFiniteSet(1 .. k)
    BY FS_Interval
  <2>2. ASSUME NEW i \in 1 .. n + 1 PROVE g[i] \in Nat
    <3>1. CASE i = 1
      BY <3>1
    <3>2. CASE i # 1
      <4>1. i - 1 \in 1 .. n /\ (i - 1) + 1 = i
        BY <3>2
      <4> QED
        BY <4>1
    <3> QED
      BY <3>1, <3>2
  <2> QED
    BY <2>1, <2>2
<1>1. 0 \in H
  <2>1. 1 .. 0 = {} /\ 1 .. 0 + 1 = {1} /\ {1} \ {1} = {}
    OBVIOUS
  <2>2. SumOver(g, {1}) = g[1] + SumOver(g, {1} \ {1})
    <3>1. IsFiniteSet({1}) /\ 1 \in {1} /\ \A i \in {1} : g[i] \in Nat
      BY FS_Singleton
    <3> QED
      BY <3>1, SumRemove
  <2> QED
    BY <2>1, <2>2, SumEmpty
<1>2. ASSUME NEW k \in H PROVE k + 1 \in H
  <2> SUFFICES ASSUME k + 1 <= n
               PROVE  SumOver(g, 1 .. k + 1 + 1) = g[1] + SumOver(f, 1 .. k + 1)
    OBVIOUS
  <2>1. SumOver(g, 1 .. k + 1) = g[1] + SumOver(f, 1 .. k)
    OBVIOUS
  <2>2. /\ (1 .. k + 1 + 1) \ {k + 2} = 1 .. k + 1 /\ (1 .. k + 1) \ {k + 1} = 1 .. k
        /\ k + 2 \in 1 .. k + 1 + 1 /\ k + 1 \in 1 .. k + 1 /\ g[k + 2] = f[k + 1]
    <3>1. k + 1 \in 1 .. n /\ k + 2 = (k + 1) + 1
      OBVIOUS
    <3> QED
      BY <3>1
  <2>3. k + 1 \in Nat /\ IsFiniteSet(1 .. k + 1 + 1) /\ IsFiniteSet(1 .. k + 1)
        /\ \A i \in 1 .. k + 1 + 1 : g[i] \in Nat
    BY <1>0
  <2>4. SumOver(g, 1 .. k + 1 + 1) = g[k + 2] + SumOver(g, (1 .. k + 1 + 1) \ {k + 2})
    <3> DEFINE A == 1 .. k + 1 + 1
               y == k + 2
    <3>1. IsFiniteSet(A) /\ y \in A /\ \A i \in A : g[i] \in Nat
      BY <2>2, <2>3
    <3> HIDE DEF A, y
    <3>2. SumOver(g, A) = g[y] + SumOver(g, A \ {y})
      BY <3>1, SumRemove
    <3> QED
      BY <3>2 DEF A, y
  <2>5. SumOver(f, 1 .. k + 1) = f[k + 1] + SumOver(f, (1 .. k + 1) \ {k + 1})
    <3> DEFINE A == 1 .. k + 1
               y == k + 1
    <3>1. IsFiniteSet(A) /\ y \in A /\ \A i \in A : f[i] \in Nat
      BY <1>0, <2>2, <2>3
    <3> HIDE DEF A, y
    <3>2. SumOver(f, A) = f[y] + SumOver(f, A \ {y})
      BY <3>1, SumRemove
    <3> QED
      BY <3>2 DEF A, y
  <2>6. SumOver(f, 1 .. k) \in Nat /\ f[k + 1] \in Nat
    <3>1. IsFiniteSet(1 .. k) /\ \A i \in 1 .. k : f[i] \in Nat
      BY <1>0
    <3> QED
      BY <3>1, SumType
  <2>7. SumOver(g, 1 .. k + 1 + 1) = f[k + 1] + (g[1] + SumOver(f, 1 .. k))
    BY <2>1, <2>2, <2>4
  <2>8. SumOver(f, 1 .. k + 1) = f[k + 1] + SumOver(f, 1 .. k)
    BY <2>2, <2>5
  <2> HIDE DEF H
  <2> QED
    BY <2>6, <2>7, <2>8
<1>3. H = Nat
  <2> HIDE DEF H
  <2>1. H \in SUBSET Nat
    BY DEF H
  <2> QED
    BY <1>1, <1>2, <2>1, SetOfNaturals
<1> QED
  BY <1>3

-----------------------------------------------------------------------------
(* Folds *)

\* What FoldLeft(LAMBDA a, b : g[a, b], base, seq) computes of some places of seq: its
\* definition, with the folds of the library unfolded.  It is Folder(..)[DOMAIN seq].
Folding(g, base, seq, s, iter) ==
    IF s = {} THEN base ELSE LET i == Max(s) IN g[iter[s \ {i}], seq[i]]

Folder(g, base, seq) ==
    CHOOSE iter : iter = [s \in SUBSET DOMAIN seq |-> Folding(g, base, seq, s, iter)]

\* A set of places has a last one.
LEMMA LastPlace ==
    ASSUME NEW n \in Nat, NEW s \in SUBSET (1 .. n), s # {}
    PROVE  Max(s) \in s
<1> DEFINE T == {n - i : i \in s}
<1>1. T \in SUBSET Nat /\ T # {}
  <2>1. \A i \in s : n - i \in Nat
    OBVIOUS
  <2> QED
    BY <2>1
<1> HIDE DEF T
<1>2. PICK t \in T : \A u \in T : t <= u
  BY <1>1, LeastMember
<1>3. PICK i \in s : t = n - i
  BY <1>2 DEF T
<1>4. \A j \in s : n - i <= n - j
  BY <1>2, <1>3 DEF T
<1>5. \A j \in s : i >= j
  BY <1>4
<1> QED
  BY <1>3, <1>5 DEF Max

\* The recursion in FoldLeft has a solution.
LEMMA FolderExists ==
    ASSUME NEW g, NEW base, NEW seq, DOMAIN seq = 1 .. Len(seq), Len(seq) \in Nat
    PROVE  \A s \in SUBSET DOMAIN seq :
              Folder(g, base, seq)[s] = Folding(g, base, seq, s, Folder(g, base, seq))
<1> DEFINE D == DOMAIN seq
           F(s, it) == Folding(g, base, seq, s, it)
           Upto(n, it) == \A s \in SUBSET D : Cardinality(s) <= n => it[s] = F(s, it)
           H == {n \in Nat : \E it : Upto(n, it)}
<1>0. D = 1 .. Len(seq) /\ Len(seq) \in Nat /\ IsFiniteSet(D)
  BY FS_Interval
<1>1. \A s \in SUBSET D : /\ IsFiniteSet(s) /\ Cardinality(s) \in Nat
                          /\ Cardinality(s) <= Cardinality(D)
                          /\ s # {} => Max(s) \in s
  BY <1>0, FS_Subset, FS_CardinalityType, LastPlace
<1>1a. \A s, it : s = {} => F(s, it) = base
  BY DEF Folding
<1>1b. \A s, it : s # {} => F(s, it) = g[it[s \ {Max(s)}], seq[Max(s)]]
  BY DEF Folding
<1> HIDE DEF D, F
<1>2. 0 \in H
  <2> DEFINE it == [s \in SUBSET D |-> base]
  <2>1. ASSUME NEW s \in SUBSET D, Cardinality(s) <= 0 PROVE it[s] = F(s, it)
    <3>1. Cardinality(s) = 0
      BY <1>1, <2>1
    <3>2. s = {}
      BY <1>1, <3>1, FS_EmptySet
    <3> QED
      BY <1>1a, <3>2
  <2>2. Upto(0, it)
    BY <2>1
  <2> QED
    BY <2>2
<1>3. ASSUME NEW n \in H PROVE n + 1 \in H
  <2>1. PICK it : Upto(n, it)
    OBVIOUS
  <2> DEFINE next == [s \in SUBSET D |-> F(s, it)]
  <2>2. ASSUME NEW s \in SUBSET D, Cardinality(s) <= n + 1 PROVE next[s] = F(s, next)
    <3>1. CASE s = {}
      BY <1>1a, <3>1
    <3>2. CASE s # {}
      <4> DEFINE x == Max(s)
      <4>1. x \in s
        BY <1>1, <3>2
      <4> HIDE DEF x
      <4>2. s \ {x} \in SUBSET D /\ Cardinality(s \ {x}) <= n
        BY <1>1, <2>2, <4>1, FS_RemoveElement
      <4>3. it[s \ {x}] = F(s \ {x}, it)
        BY <2>1, <4>2
      <4>4. next[s \ {x}] = it[s \ {x}]
        BY <4>2, <4>3
      <4>5. F(s, next) = g[next[s \ {x}], seq[x]] /\ F(s, it) = g[it[s \ {x}], seq[x]]
        BY <1>1b, <3>2 DEF x
      <4> QED
        BY <4>4, <4>5
    <3> QED
      BY <3>1, <3>2
  <2>3. Upto(n + 1, next)
    BY <2>2
  <2> HIDE DEF Upto, next
  <2>4. n + 1 \in Nat
    OBVIOUS
  <2> QED
    BY <2>3, <2>4
<1>4. Cardinality(D) \in H
  <2> HIDE DEF H
  <2>1. H \in SUBSET Nat
    BY DEF H
  <2> QED
    BY <1>0, <1>2, <1>3, <2>1, SetOfNaturals, FS_CardinalityType
<1>5. PICK it : Upto(Cardinality(D), it)
  BY <1>4
<1>6. \A s \in SUBSET D : it[s] = F(s, it)
  BY <1>1, <1>5
<1> DEFINE whole == [s \in SUBSET D |-> it[s]]
<1>7. ASSUME NEW s \in SUBSET D PROVE F(s, whole) = F(s, it)
  <2>1. CASE s = {}
    BY <1>1a, <2>1
  <2>2. CASE s # {}
    <3>1. s \ {Max(s)} \in SUBSET D
      OBVIOUS
    <3>2. whole[s \ {Max(s)}] = it[s \ {Max(s)}]
      BY <3>1
    <3> HIDE DEF whole
    <3> QED
      BY <1>1b, <2>2, <3>2
  <2> QED
    BY <2>1, <2>2
<1>8. whole = [s \in SUBSET D |-> F(s, whole)]
  BY <1>6, <1>7
<1> HIDE DEF whole
<1>9. Folder(g, base, seq) = [s \in SUBSET D |-> F(s, Folder(g, base, seq))]
  BY <1>8 DEF Folder, D, F
<1>10. \A s \in SUBSET D : Folder(g, base, seq)[s] = F(s, Folder(g, base, seq))
  BY <1>9
<1> QED
  BY <1>10 DEF D, F

\* A fold of typed steps has the type of a step.
LEMMA FoldType ==
    ASSUME NEW T, NEW S, NEW g \in [T \X S -> T], NEW base \in T, NEW seq \in Seq(S)
    PROVE  Folder(g, base, seq)[DOMAIN seq] \in T
<1> DEFINE D == DOMAIN seq
           it == Folder(g, base, seq)
           G == {s \in SUBSET D : it[s] \in T}
<1>0. D = 1 .. Len(seq) /\ Len(seq) \in Nat /\ IsFiniteSet(D)
      /\ \A i \in D : seq[i] \in S
  BY LenProperties, FS_Interval, ElementOfSeq
<1>1. \A s \in SUBSET D : it[s] = Folding(g, base, seq, s, it)
  <2>1. DOMAIN seq = 1 .. Len(seq) /\ Len(seq) \in Nat
    BY LenProperties
  <2> QED
    BY <2>1, FolderExists
<1> HIDE DEF D, it
<1>2. ASSUME NEW s \in SUBSET D, \A x \in s : s \ {x} \in G PROVE s \in G
  <2>1. CASE s = {}
    <3>1. it[s] = base
      BY <1>1, <2>1 DEF Folding
    <3> QED
      BY <3>1
  <2>2. CASE s # {}
    <3>1. Max(s) \in s
      BY <1>0, <2>2, LastPlace
    <3>2. it[s] = g[it[s \ {Max(s)}], seq[Max(s)]]
      BY <1>1, <2>2 DEF Folding
    <3>3. it[s \ {Max(s)}] \in T /\ seq[Max(s)] \in S
      BY <1>0, <1>2, <3>1
    <3>4. it[s] \in T
      BY <3>2, <3>3
    <3> QED
      BY <3>4
  <2> QED
    BY <2>1, <2>2
<1>3. D \in G
  <2>1. \A s \in SUBSET D : (\A x \in s : s \ {x} \in G) => s \in G
    BY <1>2
  <2> HIDE DEF G
  <2>2. \A s \in SUBSET D : s \in G
    BY <1>0, <2>1, SetOfSubsets
  <2> QED
    BY <2>2
<1>4. it[D] \in T
  BY <1>3
<1> QED
  BY <1>4 DEF D, it
=============================================================================
