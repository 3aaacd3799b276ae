--------------------------- MODULE ChunkingProofs ---------------------------
(***************************************************************************)
(* Proofs about Chunking, for any diff over finitely many paths and any    *)
(* budgets: the plan loses no file and packs none twice, its chunks fit    *)
(* and its total is kept.                                                  *)
(*                                                                         *)
(* They rest on two facts about data, shown by induction on the size of a  *)
(* set: the weight of a set of files is the sum of theirs, in whichever    *)
(* order they are added, and a finite set can be sorted.                   *)
(***************************************************************************)
EXTENDS Chunking, FiniteSetTheorems, FunctionTheorems, WellFoundedInduction, TLAPS

\* The diff is a finite set of files, each of a kind and a size.
ChunkOf == [files : NonEmpty, oversized : BOOLEAN]
DiffOK ==
    /\ Changed \subseteq Nat /\ IsFiniteSet(Changed)
    /\ \A f \in Changed : diff[f].kind \in Kind /\ diff[f].lines \in Nat
    /\ total \in Nat

\* Where a file may be: still to be packed, in the chunk being filled, in a chunk that
\* is closed, or skipped.  While the loop runs, and after it, each reviewable file is in
\* exactly one place.
PlacesInv ==
    /\ IsInjective(todo) /\ IsInjective(current) /\ InOneChunkOnce(chunks)
    /\ Files(todo) \cap Packed = {} /\ Files(todo) \cap overflow = {}
    /\ Files(current) \cap FilesOf(chunks) = {} /\ overflow \cap Packed = {}
    /\ phase \in {"pack", "planned"} => Files(todo) \cup Packed \cup overflow = Reviewable
    /\ phase # "pack" => todo = <<>> /\ current = <<>>
    /\ phase = "route" => chunks = <<>> /\ overflow = {}

\* The chunk being filled fits as well.
FitInv == ChunksFit /\ Weight(Files(current)) <= ChunkBudget

PlanInv == DiffOK /\ TypeOK /\ PlacesInv /\ FitInv /\ BudgetKept

\* What ChunksFit says of a chunk.
Fitting(c) == IF c.oversized THEN Len(c.files) = 1 ELSE Weight(Files(c.files)) <= ChunkBudget

-----------------------------------------------------------------------------
\* A set of naturals with 0 and the successor of each member below a bound has them
\* all, for otherwise there would be a least one that it misses.
LEMMA CountingUp ==
    ASSUME NEW bound \in Nat, NEW S, 0 \in S,
           \A n \in 0..bound : n \in S /\ n + 1 <= bound => n + 1 \in S
    PROVE  bound \in S
<1> DEFINE Missed == {n \in 0..bound : n \notin S}
<1> SUFFICES ASSUME Missed # {} PROVE FALSE
  OBVIOUS
<1>1. Missed \in SUBSET Nat
  OBVIOUS
<1>2. \E m \in Missed : \A n \in Missed : <<n, m>> \notin OpToRel(<, Nat)
  <2> HIDE DEF Missed
  <2> QED
    BY <1>1, NatLessThanWellFounded, WFMin
<1>3. \A m, n \in Nat : <<n, m>> \notin OpToRel(<, Nat) => m <= n
  BY DEF OpToRel
<1>4. PICK m \in Missed : \A n \in Missed : m <= n
  BY <1>1, <1>2, <1>3
<1>5. m # 0 /\ m - 1 \in 0..bound /\ m - 1 \notin Missed
  BY <1>4
<1> QED
  BY <1>4, <1>5

-----------------------------------------------------------------------------
\* The fold behind a sum takes the members of a set one by one, as CHOOSE gives them.
Chosen(s) == CHOOSE x \in s : TRUE
Fold(w, S) ==
    CHOOSE iter :
      iter = [s \in SUBSET S |-> IF s = {} THEN 0 ELSE w[Chosen(s)] + iter[s \ {Chosen(s)}]]

LEMMA SumIsFold == \A w, S : SumFunctionOnSet(w, S) = Fold(w, S)[S]
BY DEF SumFunctionOnSet, FoldFunctionOnSet, MapThenFoldSet, Fold, Chosen

\* Without a member of it a finite set is smaller.
LEMMA OneLess ==
    ASSUME NEW S, IsFiniteSet(S)
    PROVE  /\ Cardinality(S) \in Nat
           /\ Cardinality(S) = 0 <=> S = {}
           /\ \A x \in S : IsFiniteSet(S \ {x}) /\ Cardinality(S \ {x}) = Cardinality(S) - 1
           /\ \A T \in SUBSET S : IsFiniteSet(T) /\ Cardinality(T) \in 0..Cardinality(S)
           /\ S # {} => Chosen(S) \in S
<1>1. Cardinality(S) \in Nat /\ (Cardinality(S) = 0 <=> S = {})
  BY FS_CardinalityType, FS_EmptySet
<1>2. ASSUME NEW T \in SUBSET S
      PROVE  IsFiniteSet(T) /\ Cardinality(T) \in 0..Cardinality(S)
  <2>1. IsFiniteSet(T) /\ Cardinality(T) <= Cardinality(S)
    BY FS_Subset
  <2> QED
    BY <1>1, <2>1, FS_CardinalityType
<1>3. \A x \in S : IsFiniteSet(S \ {x}) /\ Cardinality(S \ {x}) = Cardinality(S) - 1
  BY FS_RemoveElement
<1> QED
  BY <1>1, <1>2, <1>3 DEF Chosen

\* The recursive function exists, so it is what its definition says.
LEMMA FoldUnfolds ==
    ASSUME NEW S, IsFiniteSet(S), NEW w, \A x \in S : w[x] \in Nat
    PROVE  Fold(w, S) =
             [s \in SUBSET S |-> IF s = {} THEN 0 ELSE w[Chosen(s)] + Fold(w, S)[s \ {Chosen(s)}]]
<1> DEFINE Small(n) == {s \in SUBSET S : Cardinality(s) <= n}
           Folds(g, n) ==
             \A s \in Small(n) : g[s] = IF s = {} THEN 0 ELSE w[Chosen(s)] + g[s \ {Chosen(s)}]
           Folded == {n \in Nat : \E g : DOMAIN g = Small(n) /\ Folds(g, n) /\ g = [s \in Small(n) |-> g[s]]}
<1>0. /\ Cardinality(S) \in Nat
      /\ \A s \in SUBSET S : /\ Cardinality(s) \in 0..Cardinality(S)
                             /\ Cardinality(s) = 0 <=> s = {}
                             /\ s # {} => /\ Chosen(s) \in s
                                          /\ Cardinality(s \ {Chosen(s)}) = Cardinality(s) - 1
  BY OneLess
<1>1. 0 \in Folded
  <2> DEFINE g == [s \in Small(0) |-> 0]
  <2>1. Folds(g, 0) /\ DOMAIN g = Small(0) /\ g = [s \in Small(0) |-> g[s]]
    BY <1>0
  <2> HIDE DEF g, Folds, Small
  <2> QED
    BY <2>1
<1>2. ASSUME NEW n \in 0..Cardinality(S), n \in Folded
      PROVE  n + 1 \in Folded
  <2>1. PICK g : DOMAIN g = Small(n) /\ Folds(g, n) /\ g = [s \in Small(n) |-> g[s]]
    BY <1>2
  <2> DEFINE h == [s \in Small(n + 1) |-> IF s = {} THEN 0 ELSE w[Chosen(s)] + g[s \ {Chosen(s)}]]
  <2>2. ASSUME NEW s \in Small(n + 1)
        PROVE  h[s] = IF s = {} THEN 0 ELSE w[Chosen(s)] + h[s \ {Chosen(s)}]
    <3>1. CASE s = {}
      BY <3>1
    <3>2. CASE s # {}
      <4> DEFINE r == s \ {Chosen(s)}
      <4>1. r \in Small(n) /\ r \in Small(n + 1)
        BY <1>0, <3>2
      <4>2. h[r] = g[r]
        BY <2>1, <4>1
      <4> QED
        BY <3>2, <4>2
    <3> QED
      BY <3>1, <3>2
  <2>3. Folds(h, n + 1)
    BY <2>2
  <2>4. DOMAIN h = Small(n + 1) /\ h = [s \in Small(n + 1) |-> h[s]]
    OBVIOUS
  <2> HIDE DEF h, Folds, Small
  <2> QED
    BY <2>3, <2>4
<1>3. Cardinality(S) \in Folded
  <2> HIDE DEF Folded
  <2> QED
    BY <1>0, <1>1, <1>2, CountingUp
<1>4. PICK g : Folds(g, Cardinality(S)) /\ g = [s \in Small(Cardinality(S)) |-> g[s]]
  BY <1>3
<1>5. Small(Cardinality(S)) = SUBSET S
  <2>1. ASSUME NEW s \in SUBSET S
        PROVE  Cardinality(s) <= Cardinality(S)
    <3>1. Cardinality(s) \in 0..Cardinality(S)
      BY <1>0
    <3> QED
      BY <1>0, <3>1
  <2> QED
    BY <2>1
<1>6. g = [s \in SUBSET S |-> IF s = {} THEN 0 ELSE w[Chosen(s)] + g[s \ {Chosen(s)}]]
  BY <1>4, <1>5
<1> QED
  BY <1>6 DEF Fold

\* A part of a set is summed alike on its own.
LEMMA FoldOfPart ==
    ASSUME NEW S, IsFiniteSet(S), NEW w, \A x \in S : w[x] \in Nat, NEW T \in SUBSET S
    PROVE  Fold(w, S)[T] = Fold(w, T)[T]
<1> DEFINE Alike == {n \in Nat : \A U \in SUBSET T : Cardinality(U) = n => Fold(w, S)[U] = Fold(w, T)[U]}
<1>0. /\ IsFiniteSet(T) /\ Cardinality(T) \in Nat
      /\ \A U \in SUBSET T : /\ IsFiniteSet(U) /\ Cardinality(U) \in Nat
                             /\ Cardinality(U) = 0 <=> U = {}
                             /\ U # {} => /\ Chosen(U) \in U
                                          /\ Cardinality(U \ {Chosen(U)}) = Cardinality(U) - 1
  BY OneLess
<1>1. \A U \in SUBSET T :
        /\ Fold(w, S)[U] = IF U = {} THEN 0 ELSE w[Chosen(U)] + Fold(w, S)[U \ {Chosen(U)}]
        /\ Fold(w, T)[U] = IF U = {} THEN 0 ELSE w[Chosen(U)] + Fold(w, T)[U \ {Chosen(U)}]
  <2>1. Fold(w, S) = [s \in SUBSET S |-> IF s = {} THEN 0 ELSE w[Chosen(s)] + Fold(w, S)[s \ {Chosen(s)}]]
    BY FoldUnfolds
  <2>2. Fold(w, T) = [s \in SUBSET T |-> IF s = {} THEN 0 ELSE w[Chosen(s)] + Fold(w, T)[s \ {Chosen(s)}]]
    <3>1. IsFiniteSet(T) /\ \A x \in T : w[x] \in Nat
      BY <1>0
    <3> QED
      BY <3>1, FoldUnfolds
  <2> DEFINE a == Fold(w, S)
             b == Fold(w, T)
  <2> HIDE DEF a, b
  <2>3. /\ a = [s \in SUBSET S |-> IF s = {} THEN 0 ELSE w[Chosen(s)] + a[s \ {Chosen(s)}]]
        /\ b = [s \in SUBSET T |-> IF s = {} THEN 0 ELSE w[Chosen(s)] + b[s \ {Chosen(s)}]]
    BY <2>1, <2>2 DEF a, b
  <2>4. ASSUME NEW U \in SUBSET T
        PROVE  /\ a[U] = IF U = {} THEN 0 ELSE w[Chosen(U)] + a[U \ {Chosen(U)}]
               /\ b[U] = IF U = {} THEN 0 ELSE w[Chosen(U)] + b[U \ {Chosen(U)}]
    <3>1. U \in SUBSET S
      OBVIOUS
    <3> QED
      BY <2>3, <3>1
  <2> QED
    BY <2>4 DEF a, b
<1>2. 0 \in Alike
  BY <1>0, <1>1
<1>3. ASSUME NEW n \in 0..Cardinality(T), n \in Alike
      PROVE  n + 1 \in Alike
  <2> SUFFICES ASSUME NEW U \in SUBSET T, Cardinality(U) = n + 1
               PROVE  Fold(w, S)[U] = Fold(w, T)[U]
    OBVIOUS
  <2>1. U # {} /\ U \ {Chosen(U)} \in SUBSET T /\ Cardinality(U \ {Chosen(U)}) = n
    BY <1>0
  <2>2. Fold(w, S)[U \ {Chosen(U)}] = Fold(w, T)[U \ {Chosen(U)}]
    BY <1>3, <2>1
  <2> QED
    BY <1>1, <2>1, <2>2
<1>4. Cardinality(T) \in Alike
  <2> HIDE DEF Alike
  <2> QED
    BY <1>0, <1>2, <1>3, CountingUp
<1> QED
  BY <1>4

\* What the fold computes: nothing for nothing, and one member more than without it.
LEMMA SumStepsOnce ==
    ASSUME NEW S, IsFiniteSet(S), NEW w, \A x \in S : w[x] \in Nat
    PROVE  SumFunctionOnSet(w, S) =
             IF S = {} THEN 0 ELSE w[Chosen(S)] + SumFunctionOnSet(w, S \ {Chosen(S)})
<1> DEFINE R == S \ {Chosen(S)}
<1>1. Fold(w, S)[R] = Fold(w, R)[R]
  BY FoldOfPart
<1>2. Fold(w, S) = [s \in SUBSET S |-> IF s = {} THEN 0 ELSE w[Chosen(s)] + Fold(w, S)[s \ {Chosen(s)}]]
  BY FoldUnfolds
<1> DEFINE a == Fold(w, S)
<1>3. a = [s \in SUBSET S |-> IF s = {} THEN 0 ELSE w[Chosen(s)] + a[s \ {Chosen(s)}]]
  BY <1>2
<1>4. a[S] = IF S = {} THEN 0 ELSE w[Chosen(S)] + a[S \ {Chosen(S)}]
  <2> HIDE DEF a
  <2> QED
    BY <1>3
<1> QED
  BY <1>1, <1>4, SumIsFold

LEMMA SumIsNat ==
    ASSUME NEW S, IsFiniteSet(S), NEW w, \A x \in S : w[x] \in Nat
    PROVE  SumFunctionOnSet(w, S) \in Nat
<1> DEFINE Typed == {n \in Nat : \A T \in SUBSET S : Cardinality(T) = n => SumFunctionOnSet(w, T) \in Nat}
<1>0. \A T \in SUBSET S : /\ IsFiniteSet(T) /\ Cardinality(T) \in Nat
                          /\ Cardinality(T) = 0 <=> T = {}
                          /\ T # {} => /\ Chosen(T) \in T
                                       /\ Cardinality(T \ {Chosen(T)}) = Cardinality(T) - 1
  BY OneLess
<1>1. \A T \in SUBSET S :
        SumFunctionOnSet(w, T) =
          IF T = {} THEN 0 ELSE w[Chosen(T)] + SumFunctionOnSet(w, T \ {Chosen(T)})
  BY <1>0, SumStepsOnce
<1>2. 0 \in Typed
  BY <1>0, <1>1
<1>3. ASSUME NEW n \in 0..Cardinality(S), n \in Typed
      PROVE  n + 1 \in Typed
  <2> SUFFICES ASSUME NEW T \in SUBSET S, Cardinality(T) = n + 1
               PROVE  SumFunctionOnSet(w, T) \in Nat
    OBVIOUS
  <2>1. T # {} /\ T \ {Chosen(T)} \in SUBSET S /\ Cardinality(T \ {Chosen(T)}) = n
    <3>1. T # {}
      BY <1>0
    <3> QED
      BY <1>0, <3>1
  <2>2. SumFunctionOnSet(w, T \ {Chosen(T)}) \in Nat /\ w[Chosen(T)] \in Nat
    BY <1>0, <1>3, <2>1
  <2> QED
    BY <1>1, <2>1, <2>2
<1>4. Cardinality(S) \in Typed
  <2> HIDE DEF Typed
  <2> QED
    BY <1>0, <1>2, <1>3, CountingUp
<1> QED
  BY <1>4

\* A sum does not depend on the order: any member may be taken out first.
LEMMA SumTakesAnyMember ==
    ASSUME NEW S, IsFiniteSet(S), NEW w, \A x \in S : w[x] \in Nat, NEW m \in S
    PROVE  SumFunctionOnSet(w, S) = w[m] + SumFunctionOnSet(w, S \ {m})
<1> DEFINE Sum(T) == SumFunctionOnSet(w, T)
           Free == {n \in Nat : \A T \in SUBSET S : Cardinality(T) = n =>
                                   \A x \in T : Sum(T) = w[x] + Sum(T \ {x})}
<1>0. \A T \in SUBSET S : /\ IsFiniteSet(T) /\ Cardinality(T) \in Nat
                          /\ Cardinality(T) = 0 <=> T = {}
                          /\ T # {} => Chosen(T) \in T
                          /\ \A x \in T : Cardinality(T \ {x}) = Cardinality(T) - 1
                          /\ \A x \in T : w[x] \in Nat
  BY OneLess
<1>1. \A T \in SUBSET S : /\ T # {} => Sum(T) = w[Chosen(T)] + Sum(T \ {Chosen(T)})
                          /\ Sum(T) \in Nat
  BY <1>0, SumStepsOnce, SumIsNat
<1>2. 0 \in Free
  BY <1>0
<1>3. ASSUME NEW n \in 0..Cardinality(S), n \in Free
      PROVE  n + 1 \in Free
  <2> HIDE DEF Sum
  <2> SUFFICES ASSUME NEW T \in SUBSET S, Cardinality(T) = n + 1, NEW x \in T
               PROVE  Sum(T) = w[x] + Sum(T \ {x})
    OBVIOUS
  <2> DEFINE c == Chosen(T)
             R == (T \ {c}) \ {x}
  <2>1. c \in T /\ T # {} /\ Sum(T) = w[c] + Sum(T \ {c})
    BY <1>0, <1>1
  <2>2. CASE x = c
    BY <2>1, <2>2
  <2>3. CASE x # c
    <3>1. /\ T \ {c} \in SUBSET S /\ Cardinality(T \ {c}) = n /\ x \in T \ {c}
          /\ T \ {x} \in SUBSET S /\ Cardinality(T \ {x}) = n /\ c \in T \ {x}
          /\ R = (T \ {x}) \ {c} /\ R \in SUBSET S
      BY <1>0, <2>1, <2>3
    <3>2. Sum(T \ {c}) = w[x] + Sum(R) /\ Sum(T \ {x}) = w[c] + Sum(R)
      BY <1>3, <3>1
    <3>3. w[x] \in Nat /\ w[c] \in Nat /\ Sum(R) \in Nat
      BY <1>0, <1>1, <2>1, <3>1
    <3> HIDE DEF c, R
    <3> QED
      BY <2>1, <3>2, <3>3
  <2> QED
    BY <2>2, <2>3
<1>4. Cardinality(S) \in Free
  <2> HIDE DEF Free
  <2> QED
    BY <1>0, <1>2, <1>3, CountingUp
<1> QED
  BY <1>4

\* The weight of a set with one more member.
LEMMA SumAddsMember ==
    ASSUME NEW S, IsFiniteSet(S), NEW m, m \notin S, NEW w, \A x \in S \cup {m} : w[x] \in Nat
    PROVE  SumFunctionOnSet(w, S \cup {m}) = SumFunctionOnSet(w, S) + w[m]
<1>1. IsFiniteSet(S \cup {m}) /\ (S \cup {m}) \ {m} = S
  BY FS_AddElement
<1>2. SumFunctionOnSet(w, S \cup {m}) = w[m] + SumFunctionOnSet(w, (S \cup {m}) \ {m})
  <2> DEFINE T == S \cup {m}
  <2>1. IsFiniteSet(T) /\ m \in T /\ \A x \in T : w[x] \in Nat
    BY <1>1
  <2> HIDE DEF T
  <2>2. SumFunctionOnSet(w, T) = w[m] + SumFunctionOnSet(w, T \ {m})
    BY <2>1, SumTakesAnyMember
  <2> QED
    BY <2>2 DEF T
<1>3. SumFunctionOnSet(w, S) \in Nat /\ w[m] \in Nat
  BY SumIsNat
<1> QED
  BY <1>1, <1>2, <1>3

\* A finite set in which any two are ordered has a last member.
Linear(S, R) == /\ \A x, y \in S : x # y => <<x, y>> \in R \/ <<y, x>> \in R
                /\ \A x, y, z \in S : <<x, y>> \in R /\ <<y, z>> \in R => <<x, z>> \in R
IsLast(m, S, R) == m \in S /\ \A x \in S \ {m} : <<x, m>> \in R

LEMMA HasLast ==
    ASSUME NEW S, IsFiniteSet(S), S # {}, NEW R, Linear(S, R)
    PROVE  \E m : IsLast(m, S, R)
<1> DEFINE Led == {n \in Nat : \A T \in SUBSET S : Cardinality(T) = n /\ T # {} => \E m : IsLast(m, T, R)}
<1>0. \A T \in SUBSET S : /\ IsFiniteSet(T) /\ Cardinality(T) \in Nat
                          /\ Cardinality(T) = 0 <=> T = {}
                          /\ \A x \in T : Cardinality(T \ {x}) = Cardinality(T) - 1
  BY OneLess
<1>1. 0 \in Led
  BY <1>0
<1>2. ASSUME NEW n \in 0..Cardinality(S), n \in Led
      PROVE  n + 1 \in Led
  <2> SUFFICES ASSUME NEW T \in SUBSET S, Cardinality(T) = n + 1, T # {}
               PROVE  \E m : IsLast(m, T, R)
    OBVIOUS
  <2>1. PICK x \in T : TRUE
    OBVIOUS
  <2>2. CASE T \ {x} = {}
    <3>1. IsLast(x, T, R)
      BY <2>2 DEF IsLast
    <3> QED
      BY <3>1
  <2>3. CASE T \ {x} # {}
    <3>1. T \ {x} \in SUBSET S /\ Cardinality(T \ {x}) = n
      BY <1>0
    <3>2. PICK y : IsLast(y, T \ {x}, R)
      BY <1>2, <2>3, <3>1
    <3>3. CASE <<y, x>> \in R
      <4>1. \A z \in T \ {x} : <<z, x>> \in R
        BY <3>2, <3>3 DEF IsLast, Linear
      <4>2. IsLast(x, T, R)
        BY <4>1 DEF IsLast
      <4> QED
        BY <4>2
    <3>4. CASE <<y, x>> \notin R
      <4>1. y \in T /\ <<x, y>> \in R
        BY <3>2, <3>4 DEF IsLast, Linear
      <4>2. IsLast(y, T, R)
        BY <3>2, <4>1 DEF IsLast
      <4> QED
        BY <4>2
    <3> QED
      BY <3>3, <3>4
  <2> QED
    BY <2>2, <2>3
<1>3. Cardinality(S) \in Led
  <2> HIDE DEF Led
  <2>1. Cardinality(S) \in Nat
    BY <1>0
  <2> QED
    BY <1>1, <1>2, <2>1, CountingUp
<1> QED
  BY <1>3

\* The last one is put behind the others, sorted.
InOrder(s, R) == \A i, j \in DOMAIN s : i < j => <<s[i], s[j]>> \in R
LEMMA CanBeSorted ==
    ASSUME NEW S, IsFiniteSet(S), NEW R, Linear(S, R)
    PROVE  \E s \in SetToSeqs(S) : InOrder(s, R)
<1> DEFINE Done == {n \in Nat : \A T \in SUBSET S : Cardinality(T) = n => \E s \in SetToSeqs(T) : InOrder(s, R)}
<1>0. \A T \in SUBSET S : /\ IsFiniteSet(T) /\ Cardinality(T) \in Nat
                          /\ Cardinality(T) = 0 <=> T = {}
                          /\ \A x \in T : Cardinality(T \ {x}) = Cardinality(T) - 1
  BY OneLess
<1>1. 0 \in Done
  <2> SUFFICES \E s \in SetToSeqs({}) : InOrder(s, R)
    BY <1>0
  <2>1. Cardinality({}) = 0 /\ 1..0 = {}
    BY FS_EmptySet
  <2> DEFINE e == [i \in 1..0 |-> i]
  <2>2. e \in SetToSeqs({}) /\ InOrder(e, R)
    BY <2>1 DEF SetToSeqs, InOrder
  <2> QED
    BY <2>2
<1>2. ASSUME NEW n \in 0..Cardinality(S), n \in Done
      PROVE  n + 1 \in Done
  <2> SUFFICES ASSUME NEW T \in SUBSET S, Cardinality(T) = n + 1
               PROVE  \E s \in SetToSeqs(T) : InOrder(s, R)
    OBVIOUS
  <2>1. T # {} /\ IsFiniteSet(T) /\ n \in Nat /\ Linear(T, R)
    BY <1>0 DEF Linear
  <2>2. PICK m \in T : IsLast(m, T, R)
    BY <2>1, HasLast DEF IsLast
  <2>3. T \ {m} \in SUBSET S /\ Cardinality(T \ {m}) = n
    BY <1>0
  <2>4. PICK s \in SetToSeqs(T \ {m}) : InOrder(s, R)
    BY <1>2, <2>3
  <2>5. s \in [1..n -> T \ {m}] /\ \A i, j \in 1..n : i # j => s[i] # s[j]
    BY <2>3, <2>4 DEF SetToSeqs
  <2> DEFINE t == [i \in 1..(n + 1) |-> IF i = n + 1 THEN m ELSE s[i]]
  <2>6. t \in [1..(n + 1) -> T] /\ \A i, j \in 1..(n + 1) : i # j => t[i] # t[j]
    BY <2>1, <2>5
  <2>7. t \in SetToSeqs(T)
    BY <2>6 DEF SetToSeqs
  <2>8. InOrder(t, R)
    <3>1. \A i \in 1..n : <<s[i], m>> \in R
      BY <2>2, <2>5 DEF IsLast
    <3>2. \A i, j \in 1..n : i < j => <<s[i], s[j]>> \in R
      BY <2>4, <2>5 DEF InOrder
    <3> QED
      BY <2>1, <3>1, <3>2 DEF InOrder
  <2> QED
    BY <2>7, <2>8
<1>3. Cardinality(S) \in Done
  <2> HIDE DEF Done
  <2>1. Cardinality(S) \in Nat
    BY <1>0
  <2> QED
    BY <1>1, <1>2, <2>1, CountingUp
<1> QED
  BY <1>3

\* A sequence of all members of a set, each of them once, has them all.
LEMMA SeqsEnumerate ==
    ASSUME NEW S, IsFiniteSet(S), NEW s \in SetToSeqs(S)
    PROVE  /\ s \in Seq(S) /\ ToSet(s) = S
           /\ \A i, j \in DOMAIN s : s[i] = s[j] => i = j
<1> DEFINE n == Cardinality(S)
<1>1. n \in Nat
  BY FS_CardinalityType
<1>2. s \in [1..n -> S] /\ \A i, j \in 1..n : i # j => s[i] # s[j]
  BY DEF SetToSeqs
<1>3. IsFiniteSet(1..n) /\ Cardinality(1..n) = n
  BY <1>1, FS_Interval
<1>4. s \in Injection(1..n, S)
  BY <1>2 DEF Injection, IsInjective
<1>5. s \in Surjection(1..n, S)
  BY <1>3, <1>4, FS_Injection
<1>6. \A x \in S : \E i \in 1..n : s[i] = x
  BY <1>5 DEF Surjection
<1>7. s \in Seq(S)
  BY <1>1, <1>2
<1> QED
  BY <1>2, <1>6, <1>7 DEF ToSet

-----------------------------------------------------------------------------
\* Lists of files: what appending, taking the head and starting anew do to them.
LEMMA FilesOfLonger ==
    ASSUME NEW S, NEW s \in Seq(S), NEW x \in S
    PROVE  Files(Append(s, x)) = Files(s) \cup {x}
<1> DEFINE t == Append(s, x)
<1>1. /\ Len(s) \in Nat /\ DOMAIN t = 1..(Len(s) + 1) /\ DOMAIN s = 1..Len(s)
      /\ t[Len(s) + 1] = x /\ \A i \in 1..Len(s) : t[i] = s[i]
  OBVIOUS
<1> HIDE DEF t
<1>2. Files(t) = {t[i] : i \in 1..(Len(s) + 1)} /\ Files(s) = {s[i] : i \in 1..Len(s)}
  BY <1>1 DEF Files, ToSet
<1>3. Files(t) \subseteq Files(s) \cup {x}
  <2>1. \A i \in 1..(Len(s) + 1) : i = Len(s) + 1 \/ i \in 1..Len(s)
    BY <1>1
  <2> QED
    BY <1>1, <1>2, <2>1
<1>4. Files(s) \cup {x} \subseteq Files(t)
  <2>1. Len(s) + 1 \in 1..(Len(s) + 1) /\ \A i \in 1..Len(s) : i \in 1..(Len(s) + 1)
    BY <1>1
  <2> QED
    BY <1>1, <1>2, <2>1
<1>5. Files(t) = Files(s) \cup {x}
  BY <1>3, <1>4
<1> QED
  BY <1>5 DEF t

LEMMA ListsOfFiles ==
    ASSUME NEW S, NEW s \in Seq(S), NEW x \in S
    PROVE  /\ <<x>> \in Seq(S) /\ <<x>> # <<>> /\ Len(<<x>>) = 1
           /\ Files(<<x>>) = {x} /\ IsInjective(<<x>>)
           /\ Append(s, x) \in Seq(S)
           /\ IsInjective(s) /\ x \notin Files(s) => IsInjective(Append(s, x))
<1> USE DEF Files, ToSet, IsInjective
<1>1. /\ <<x>> \in Seq(S) /\ <<x>> # <<>> /\ Len(<<x>>) = 1
      /\ Files(<<x>>) = {x} /\ IsInjective(<<x>>)
  OBVIOUS
<1> DEFINE t == Append(s, x)
<1>2. /\ t \in Seq(S) /\ Len(s) \in Nat
      /\ DOMAIN t = 1..(Len(s) + 1) /\ DOMAIN s = 1..Len(s)
      /\ t[Len(s) + 1] = x /\ \A i \in 1..Len(s) : t[i] = s[i]
  OBVIOUS
<1> HIDE DEF t
<1>3. ASSUME IsInjective(s), x \notin Files(s)
      PROVE  IsInjective(t)
  BY <1>2, <1>3
<1> QED
  BY <1>1, <1>2, <1>3 DEF t

LEMMA HeadsOfLists ==
    ASSUME NEW S, NEW s \in Seq(S), s # <<>>
    PROVE  /\ Head(s) \in S /\ Tail(s) \in Seq(S)
           /\ Files(s) = Files(Tail(s)) \cup {Head(s)}
           /\ IsInjective(s) => IsInjective(Tail(s)) /\ Head(s) \notin Files(Tail(s))
<1> USE DEF Files, ToSet, IsInjective
<1> DEFINE t == Tail(s)
<1>1. /\ Head(s) \in S /\ Head(s) = s[1] /\ t \in Seq(S)
      /\ Len(s) \in Nat \ {0} /\ DOMAIN s = 1..Len(s) /\ DOMAIN t = 1..(Len(s) - 1)
      /\ \A i \in 1..(Len(s) - 1) : t[i] = s[i + 1]
  OBVIOUS
<1> HIDE DEF t
<1>2. Files(s) = Files(t) \cup {Head(s)}
  <2>1. \A i \in DOMAIN s : i = 1 \/ (i - 1 \in DOMAIN t /\ s[i] = t[i - 1])
    BY <1>1
  <2>2. \A i \in DOMAIN t : i + 1 \in DOMAIN s /\ t[i] = s[i + 1]
    BY <1>1
  <2>3. 1 \in DOMAIN s
    BY <1>1
  <2> QED
    BY <1>1, <2>1, <2>2, <2>3
<1>3. ASSUME IsInjective(s)
      PROVE  IsInjective(t) /\ Head(s) \notin Files(t)
  <2>1. \A i \in DOMAIN t : i \in Nat /\ i + 1 \in DOMAIN s /\ t[i] = s[i + 1] /\ i + 1 # 1
    BY <1>1
  <2>2. IsInjective(t)
    BY <1>3, <2>1
  <2>3. 1 \in DOMAIN s
    BY <1>1
  <2>4. \A i \in DOMAIN t : t[i] # s[1]
    BY <1>3, <2>1, <2>3
  <2> QED
    BY <1>1, <2>2, <2>4
<1> QED
  BY <1>1, <1>2, <1>3 DEF t

\* A chunk closed: its files join those of the others.
LEMMA OneMoreChunk ==
    ASSUME NEW C, NEW cs \in Seq(C), NEW c \in C
    PROVE  /\ Append(cs, c) \in Seq(C) /\ Append(cs, c) # <<>>
           /\ FilesOf(Append(cs, c)) = FilesOf(cs) \cup Files(c.files)
           /\ \A i \in DOMAIN Append(cs, c) : Append(cs, c)[i] = c \/ \E k \in DOMAIN cs : Append(cs, c)[i] = cs[k]
           /\ InOneChunkOnce(cs) /\ IsInjective(c.files) /\ FilesOf(cs) \cap Files(c.files) = {}
                => InOneChunkOnce(Append(cs, c))
<1> DEFINE ds == Append(cs, c)
           n == Len(cs)
<1>1. /\ ds \in Seq(C) /\ n \in Nat /\ DOMAIN ds = 1..(n + 1) /\ DOMAIN cs = 1..n
      /\ ds[n + 1] = c /\ \A i \in 1..n : ds[i] = cs[i]
  OBVIOUS
<1> HIDE DEF ds, n
<1>2. /\ ds # <<>>
      /\ \A i \in DOMAIN ds : i = n + 1 \/ i \in DOMAIN cs
      /\ n + 1 \in DOMAIN ds /\ \A i \in DOMAIN cs : i \in DOMAIN ds /\ i # n + 1
  BY <1>1
<1>3. FilesOf(ds) = FilesOf(cs) \cup Files(c.files)
  <2>1. ASSUME NEW x \in FilesOf(ds)
        PROVE  x \in FilesOf(cs) \cup Files(c.files)
    <3>1. PICK i \in DOMAIN ds : x \in Files(ds[i].files)
      BY DEF FilesOf
    <3> QED
      BY <1>1, <1>2, <3>1 DEF FilesOf
  <2>2. ASSUME NEW x \in FilesOf(cs)
        PROVE  x \in FilesOf(ds)
    <3>1. PICK i \in DOMAIN cs : x \in Files(cs[i].files)
      BY <2>2 DEF FilesOf
    <3>2. i \in DOMAIN ds /\ ds[i] = cs[i]
      BY <1>1, <1>2
    <3> QED
      BY <3>1, <3>2 DEF FilesOf
  <2>3. ASSUME NEW x \in Files(c.files)
        PROVE  x \in FilesOf(ds)
    BY <1>1, <1>2 DEF FilesOf
  <2> QED
    BY <2>1, <2>2, <2>3
<1>4. ASSUME InOneChunkOnce(cs), IsInjective(c.files), FilesOf(cs) \cap Files(c.files) = {}
      PROVE  InOneChunkOnce(ds)
  <2> SUFFICES ASSUME NEW i \in DOMAIN ds, NEW k \in DOMAIN ds,
                      NEW j \in DOMAIN ds[i].files, NEW l \in DOMAIN ds[k].files,
                      ds[i].files[j] = ds[k].files[l]
               PROVE  i = k /\ j = l
    BY DEF InOneChunkOnce
  <2>1. \A q \in DOMAIN cs : \A p \in DOMAIN cs[q].files : cs[q].files[p] \in FilesOf(cs)
    BY DEF FilesOf, Files, ToSet
  <2>2. \A p \in DOMAIN c.files : c.files[p] \in Files(c.files)
    BY DEF Files, ToSet
  <2>3. CASE i \in DOMAIN cs /\ k \in DOMAIN cs
    BY <1>1, <1>4, <2>3 DEF InOneChunkOnce
  <2>4. CASE i \in DOMAIN cs /\ k = n + 1
    BY <1>1, <1>4, <2>1, <2>2, <2>4
  <2>5. CASE i = n + 1 /\ k \in DOMAIN cs
    BY <1>1, <1>4, <2>1, <2>2, <2>5
  <2>6. CASE i = n + 1 /\ k = n + 1
    BY <1>1, <1>4, <2>6 DEF IsInjective
  <2> QED
    BY <1>2, <2>3, <2>4, <2>5, <2>6
<1>5. \A i \in DOMAIN ds : ds[i] = c \/ \E k \in DOMAIN cs : ds[i] = cs[k]
  BY <1>1, <1>2
<1> QED
  BY <1>1, <1>2, <1>3, <1>4, <1>5 DEF ds

-----------------------------------------------------------------------------
\* The weight of one file, and of a set of files with one more.
LEMMA Weights ==
    ASSUME DiffOK, NEW S \in SUBSET Changed
    PROVE  /\ IsFiniteSet(S) /\ Weight(S) \in Nat /\ (S = {} => Weight(S) = 0)
           /\ \A f \in Changed \ S : /\ Tokens(f) \in Nat
                                     /\ Weight(S \cup {f}) = Weight(S) + Tokens(f)
<1>1. \A f \in Changed : Tokens(f) \in Nat /\ Size[f] = Tokens(f)
  <2> SUFFICES ASSUME NEW f \in Changed PROVE Tokens(f) \in Nat
    BY DEF Size
  <2>1. diff[f].lines \in Nat
    BY DEF DiffOK
  <2>2. diff[f].lines * TokensPerLine \in Nat
    BY <2>1, ChunkingAssumption
  <2> QED
    BY <2>2, ChunkingAssumption DEF Tokens
<1>2. IsFiniteSet(S) /\ \A x \in S : Size[x] \in Nat
  BY <1>1, FS_Subset DEF DiffOK
<1>3. SumFunctionOnSet(Size, S) \in Nat
  BY <1>2, SumIsNat
<1>4. ASSUME NEW f \in Changed \ S
      PROVE  SumFunctionOnSet(Size, S \cup {f}) = SumFunctionOnSet(Size, S) + Size[f]
  <2>1. \A x \in S \cup {f} : Size[x] \in Nat
    BY <1>1
  <2> QED
    BY <1>2, <2>1, SumAddsMember
<1>5. S = {} => SumFunctionOnSet(Size, S) = 0
  BY <1>2, SumStepsOnce
<1> QED
  BY <1>1, <1>2, <1>3, <1>4, <1>5 DEF Weight

\* The key of the sort puts any two reviewable files in an order.
LEMMA SortingWorks == DiffOK => Sorted(Reviewable) \in SetToSeqs(Reviewable) /\ IsFiniteSet(Reviewable)
<1> SUFFICES ASSUME DiffOK
             PROVE  Sorted(Reviewable) \in SetToSeqs(Reviewable) /\ IsFiniteSet(Reviewable)
  OBVIOUS
<1> DEFINE R == {p \in Reviewable \X Reviewable : Before(p[1], p[2])}
<1>1. IsFiniteSet(Reviewable)
  BY FS_Difference DEF DiffOK, Reviewable
<1>2. \A f \in Reviewable : /\ f \in Nat /\ diff[f].lines \in Nat
                            /\ \E i \in DOMAIN Priority : Priority[i] = diff[f].kind
  BY DEF DiffOK, Reviewable, Excluded, Kind
<1>3. \A f \in Reviewable : Rank(f) \in Nat
  <2>1. DOMAIN Priority \subseteq Nat
    BY DEF Priority
  <2>2. \A f \in Reviewable : Rank(f) \in DOMAIN Priority
    BY <1>2 DEF Rank
  <2> QED
    BY <2>1, <2>2
<1>4. Linear(Reviewable, R)
  <2>1. \A f, g \in Reviewable : <<f, g>> \in R <=> Before(f, g)
    OBVIOUS
  <2>2. \A f, g \in Reviewable : f # g => Before(f, g) \/ Before(g, f)
    BY <1>2, <1>3 DEF Before
  <2>3. \A f, g, h \in Reviewable : Before(f, g) /\ Before(g, h) => Before(f, h)
    BY <1>2, <1>3 DEF Before
  <2> HIDE DEF R
  <2> QED
    BY <2>1, <2>2, <2>3 DEF Linear
<1>5. PICK s \in SetToSeqs(Reviewable) : InOrder(s, R)
  <2> HIDE DEF R
  <2> QED
    BY <1>1, <1>4, CanBeSorted
<1>6. \A i, j \in DOMAIN s : i < j => Before(s[i], s[j])
  BY <1>5 DEF InOrder
<1> QED
  BY <1>1, <1>6 DEF Sorted

\* As long as the diff stays, everything that is read off it does.
LEMMA DiffStays ==
    ASSUME diff' = diff
    PROVE  /\ Changed' = Changed /\ Reviewable' = Reviewable /\ Size' = Size
           /\ NonEmpty' = NonEmpty
BY DEF Changed, Reviewable, Excluded, Size, Tokens, NonEmpty

\* flush() loses nothing and closes only what fits.
LEMMA FlushKeeps ==
    ASSUME PlanInv
    PROVE  /\ Flushed \in Seq(ChunkOf) /\ FilesOf(Flushed) = Packed /\ InOneChunkOnce(Flushed)
           /\ \A i \in DOMAIN Flushed : Fitting(Flushed[i])
<1> USE DEF PlanInv, TypeOK, PlacesInv, FitInv
<1>1. /\ chunks \in Seq(ChunkOf) /\ \A i \in DOMAIN chunks : Fitting(chunks[i])
      /\ Packed = FilesOf(chunks) \cup Files(current)
  BY DEF ChunkOf, ChunksFit, Fitting, Packed
<1>2. CASE current = <<>>
  <2>1. Files(current) = {}
    BY <1>2 DEF Files, ToSet
  <2> QED
    BY <1>1, <1>2, <2>1 DEF Flushed
<1>3. CASE current # <<>>
  <2> DEFINE c == Chunk(current, FALSE)
  <2>1. c \in ChunkOf /\ c.files = current /\ Fitting(c)
    BY <1>3 DEF ChunkOf, NonEmpty, Chunk, Fitting
  <2>2. Flushed = Append(chunks, c)
    BY <1>3 DEF Flushed
  <2> HIDE DEF c
  <2>3. InOneChunkOnce(chunks) /\ IsInjective(c.files) /\ FilesOf(chunks) \cap Files(c.files) = {}
    BY <2>1
  <2> QED
    BY <1>1, <2>1, <2>2, <2>3, OneMoreChunk
<1> QED
  BY <1>2, <1>3

-----------------------------------------------------------------------------
LEMMA PlanInvInit == Init => PlanInv
<1> SUFFICES ASSUME Init PROVE PlanInv
  OBVIOUS
<1> USE DEF Init
<1>1. PICK S \in SUBSET Path : diff \in [S -> [kind : Kind, lines : Lines]]
  OBVIOUS
<1>2. DiffOK
  <2>1. Changed = S /\ IsFiniteSet(S)
    BY <1>1, FS_Subset, ChunkingAssumption DEF Changed
  <2>2. total \in Nat /\ S \subseteq Nat
    BY ChunkingAssumption
  <2>3. \A f \in S : diff[f].kind \in Kind /\ diff[f].lines \in Nat
    BY <1>1, ChunkingAssumption
  <2> QED
    BY <2>1, <2>2, <2>3 DEF DiffOK
<1>3. Files(current) = {} /\ Files(todo) = {} /\ FilesOf(chunks) = {} /\ Packed = {}
  BY DEF Files, ToSet, FilesOf, Packed
<1>4. Weight(Files(current)) = 0 /\ Weight(Packed) = 0
  BY <1>2, <1>3, Weights
<1>5. TypeOK
  BY DEF TypeOK
<1>6. PlacesInv
  BY <1>3 DEF PlacesInv, IsInjective, InOneChunkOnce
<1>7. FitInv /\ BudgetKept
  BY <1>2, <1>4, ChunkingAssumption DEF FitInv, ChunksFit, BudgetKept, DiffOK
<1> QED
  BY <1>2, <1>5, <1>6, <1>7 DEF PlanInv

\* Every way to pack a file: where it goes is one place more, within the budgets.
LEMMA PackingKeepsPlan ==
    ASSUME PlanInv, NextFile, ~OverBudget(File), overflow' = overflow,
           current' \in Seq(Changed), chunks' \in Seq(ChunkOf),
           IsInjective(current'), InOneChunkOnce(chunks'),
           Files(current') \cap FilesOf(chunks') = {},
           FilesOf(chunks') \cup Files(current') = Packed \cup {File},
           \A i \in DOMAIN chunks' : Fitting(chunks'[i]),
           Weight(Files(current')) <= ChunkBudget
    PROVE  PlanInv'
<1> USE DEF NextFile
<1>1. /\ Changed' = Changed /\ Reviewable' = Reviewable /\ Size' = Size /\ NonEmpty' = NonEmpty
      /\ \A S : SumFunctionOnSet(Size', S) = Weight(S)
  BY DiffStays DEF Weight
<1>2. /\ File \in Changed /\ Tail(todo) \in Seq(Changed) /\ IsInjective(Tail(todo))
      /\ Files(todo) = Files(Tail(todo)) \cup {File} /\ File \notin Files(Tail(todo))
  BY HeadsOfLists DEF PlanInv, TypeOK, PlacesInv, File
<1>3. Packed' = Packed \cup {File} /\ File \notin Packed /\ Packed \in SUBSET Changed
  <2>1. Packed' = FilesOf(chunks') \cup Files(current')
    BY DEF Packed
  <2>2. Packed \cap Files(todo) = {}
    BY DEF PlanInv, PlacesInv
  <2>3. Packed \subseteq Reviewable
    BY DEF PlanInv, PlacesInv
  <2> QED
    BY <1>2, <2>1, <2>2, <2>3 DEF Reviewable
<1>4. DiffOK'
  BY <1>1 DEF PlanInv, DiffOK
<1>5. TypeOK'
  BY <1>1, <1>2 DEF PlanInv, TypeOK, ChunkOf
<1>6. PlacesInv'
  BY <1>1, <1>2, <1>3 DEF PlanInv, PlacesInv
<1>7. FitInv'
  BY <1>1 DEF FitInv, ChunksFit, Fitting, Weight
<1>8. BudgetKept'
  <2>1. /\ Weight(Packed \cup {File}) = Weight(Packed) + Tokens(File)
        /\ Weight(Packed) \in Nat /\ Tokens(File) \in Nat /\ total \in Nat
    BY <1>2, <1>3, Weights DEF PlanInv, DiffOK
  <2>2. Packed = {} => Cardinality(Packed \cup {File}) = 1
    <3>1. Packed = {} => Packed \cup {File} = {File}
      OBVIOUS
    <3>2. Cardinality({File}) = 1
      BY FS_Singleton
    <3> QED
      BY <3>1, <3>2, Zenon
  <2>3. total # 0 => Weight(Packed) + Tokens(File) <= total \/ Packed = {}
    BY <2>1 DEF OverBudget
  <2>4. total # 0 => Weight(Packed \cup {File}) <= total \/ Cardinality(Packed \cup {File}) = 1
    BY <2>1, <2>2, <2>3
  <2> QED
    BY <1>1, <1>3, <2>4 DEF BudgetKept, Weight
<1> QED
  BY <1>4, <1>5, <1>6, <1>7, <1>8 DEF PlanInv

LEMMA PackAloneKeepsPlan == PlanInv /\ PackAlone => PlanInv'
<1> SUFFICES ASSUME PlanInv, PackAlone PROVE PlanInv'
  OBVIOUS
<1> USE DEF PackAlone
<1>1. /\ File \in Changed /\ File \notin Packed
  BY HeadsOfLists DEF NextFile, PlanInv, TypeOK, PlacesInv, File
<1> DEFINE f == File
           c == Chunk(<<f>>, TRUE)
<1>2. Files(<<>>) = {} /\ IsInjective(<<>>) /\ <<>> \in Seq(Changed)
  BY DEF Files, ToSet, IsInjective
<1>3. /\ <<f>> \in Seq(Changed) /\ <<f>> # <<>> /\ Len(<<f>>) = 1
      /\ Files(<<f>>) = {f} /\ IsInjective(<<f>>)
  BY <1>1, <1>2, ListsOfFiles
<1>4. c \in ChunkOf /\ c.files = <<f>> /\ Fitting(c)
  BY <1>3 DEF ChunkOf, NonEmpty, Chunk, Fitting
<1>5. /\ Flushed \in Seq(ChunkOf) /\ FilesOf(Flushed) = Packed /\ InOneChunkOnce(Flushed)
      /\ \A i \in DOMAIN Flushed : Fitting(Flushed[i])
  BY FlushKeeps
<1>6. chunks' = Append(Flushed, c) /\ current' = <<>>
  BY DEF Alone
<1> HIDE DEF c, f
<1>7. FilesOf(Flushed) \cap Files(c.files) = {} /\ IsInjective(c.files)
  BY <1>1, <1>3, <1>4, <1>5 DEF f
<1>8. /\ chunks' \in Seq(ChunkOf) /\ FilesOf(chunks') = Packed \cup {f}
      /\ InOneChunkOnce(chunks') /\ \A i \in DOMAIN chunks' : Fitting(chunks'[i])
  BY <1>3, <1>4, <1>5, <1>6, <1>7, OneMoreChunk
<1>9. Weight(Files(current')) <= ChunkBudget
  <2>1. Files(current') = {}
    BY <1>2, <1>6
  <2>2. Weight(Files(current')) = 0
    BY <2>1, Weights DEF PlanInv
  <2> QED
    BY <2>2, ChunkingAssumption
<1>10. /\ NextFile /\ ~OverBudget(File) /\ overflow' = overflow
       /\ current' \in Seq(Changed) /\ IsInjective(current')
       /\ Files(current') \cap FilesOf(chunks') = {}
       /\ FilesOf(chunks') \cup Files(current') = Packed \cup {File}
  BY <1>2, <1>6, <1>8 DEF f
<1> QED
  BY <1>8, <1>9, <1>10, PackingKeepsPlan

LEMMA PackKeepsPlan == PlanInv /\ Pack => PlanInv'
<1> SUFFICES ASSUME PlanInv, Pack PROVE PlanInv'
  OBVIOUS
<1> USE DEF Pack
<1> DEFINE f == File
<1>1. f \in Changed /\ f \notin Packed
  BY HeadsOfLists DEF NextFile, PlanInv, TypeOK, PlacesInv, File
<1>2. /\ current \in Seq(Changed) /\ IsInjective(current) /\ Files(current) \in SUBSET Changed
      /\ Files(current) \subseteq Packed /\ FilesOf(chunks) \subseteq Packed
      /\ Packed = FilesOf(chunks) \cup Files(current)
  BY DEF PlanInv, TypeOK, PlacesInv, Files, ToSet, Packed
<1>a. CASE current' = Append(current, f) /\ chunks' = chunks /\ Fits(f)
  <2>1. /\ current' \in Seq(Changed) /\ Files(current') = Files(current) \cup {f}
        /\ IsInjective(current')
    <3>1. f \notin Files(current)
      BY <1>1, <1>2
    <3> HIDE DEF f
    <3>2. /\ Append(current, f) \in Seq(Changed) /\ Files(Append(current, f)) = Files(current) \cup {f}
          /\ IsInjective(Append(current, f))
      <4>1. current \in Seq(Changed) /\ f \in Changed /\ IsInjective(current)
        BY <1>1, <1>2
      <4>2. Append(current, f) \in Seq(Changed) /\ IsInjective(Append(current, f))
        BY <3>1, <4>1, ListsOfFiles
      <4>3. Files(Append(current, f)) = Files(current) \cup {f}
        BY <4>1, FilesOfLonger
      <4> QED
        BY <4>2, <4>3
    <3> QED
      BY <1>a, <3>2
  <2>2. Weight(Files(current')) <= ChunkBudget
    BY <1>1, <1>2, <1>a, <2>1, Weights DEF PlanInv, Fits
  <2>3. /\ chunks' \in Seq(ChunkOf) /\ InOneChunkOnce(chunks')
        /\ \A i \in DOMAIN chunks' : Fitting(chunks'[i])
    BY <1>a DEF PlanInv, TypeOK, PlacesInv, FitInv, ChunksFit, Fitting, ChunkOf
  <2>4. /\ Files(current') \cap FilesOf(chunks') = {}
        /\ FilesOf(chunks') \cup Files(current') = Packed \cup {File}
    BY <1>1, <1>2, <1>a, <2>1 DEF PlanInv, PlacesInv
  <2> QED
    BY <2>1, <2>2, <2>3, <2>4, PackingKeepsPlan
<1>b. CASE current' = <<f>> /\ chunks' = Flushed
  <2>1. /\ <<f>> \in Seq(Changed) /\ Files(<<f>>) = {f} /\ IsInjective(<<f>>)
    <3> HIDE DEF f
    <3> QED
      BY <1>1, <1>2, ListsOfFiles
  <2>2. Weight(Files(current')) <= ChunkBudget
    <3> DEFINE none == {}
    <3>1. f \in Changed \ none /\ none \in SUBSET Changed /\ Files(current') = none \cup {f} /\ none = {}
      BY <1>1, <1>b, <2>1
    <3> HIDE DEF none
    <3>2. Weight(none \cup {f}) = Weight(none) + Tokens(f) /\ Weight(none) = 0 /\ Tokens(f) \in Nat
      BY <3>1, Weights DEF PlanInv
    <3>3. Weight(none \cup {f}) <= ChunkBudget
      BY <3>2, ChunkingAssumption DEF Oversized
    <3> QED
      BY <3>1, <3>3, Zenon
  <2>3. /\ Flushed \in Seq(ChunkOf) /\ FilesOf(Flushed) = Packed /\ InOneChunkOnce(Flushed)
        /\ \A i \in DOMAIN Flushed : Fitting(Flushed[i])
    BY FlushKeeps
  <2>4. /\ Files(current') \cap FilesOf(chunks') = {}
        /\ FilesOf(chunks') \cup Files(current') = Packed \cup {File}
    BY <1>1, <1>b, <2>1, <2>3
  <2> QED
    BY <1>b, <2>1, <2>2, <2>3, <2>4, PackingKeepsPlan
<1> QED
  BY <1>a, <1>b

LEMMA SkipKeepsPlan == PlanInv /\ Skip => PlanInv'
<1> SUFFICES ASSUME PlanInv, Skip PROVE PlanInv'
  OBVIOUS
<1> USE DEF Skip, NextFile
<1>1. /\ Changed' = Changed /\ Reviewable' = Reviewable /\ Size' = Size /\ NonEmpty' = NonEmpty
      /\ \A S : SumFunctionOnSet(Size', S) = Weight(S)
  BY DiffStays DEF Weight
<1>2. /\ File \in Changed /\ Tail(todo) \in Seq(Changed) /\ IsInjective(Tail(todo))
      /\ Files(todo) = Files(Tail(todo)) \cup {File} /\ File \notin Files(Tail(todo))
  BY HeadsOfLists DEF PlanInv, TypeOK, PlacesInv, File
<1>3. Packed' = Packed
  BY DEF Packed
<1>4. DiffOK'
  BY <1>1 DEF PlanInv, DiffOK
<1>5. TypeOK'
  BY <1>1, <1>2 DEF PlanInv, TypeOK
<1>6. PlacesInv'
  BY <1>1, <1>2, <1>3 DEF PlanInv, PlacesInv
<1>7. FitInv' /\ BudgetKept'
  BY <1>1, <1>3 DEF PlanInv, FitInv, ChunksFit, BudgetKept, Weight
<1> QED
  BY <1>4, <1>5, <1>6, <1>7 DEF PlanInv

LEMMA RouteKeepsPlan == PlanInv /\ Route => PlanInv'
<1> SUFFICES ASSUME PlanInv, Route PROVE PlanInv'
  OBVIOUS
<1> USE DEF Route
<1>1. /\ Changed' = Changed /\ Reviewable' = Reviewable /\ Size' = Size /\ NonEmpty' = NonEmpty
      /\ \A S : SumFunctionOnSet(Size', S) = Weight(S)
  BY DiffStays DEF Weight
<1>2. /\ todo = <<>> /\ current = <<>> /\ chunks = <<>> /\ overflow = {} /\ Packed = {} /\ Packed' = {}
      /\ Files(current) = {}
  BY DEF PlanInv, PlacesInv, Packed, Files, ToSet, FilesOf
<1>3. /\ todo' \in Seq(Changed) /\ IsInjective(todo')
      /\ phase' = "pack" => Files(todo') = Reviewable
      /\ phase' # "pack" => todo' = <<>>
      /\ phase' \in {"pack", "single"}
  <2>1. CASE Large
    <3>1. Sorted(Reviewable) \in SetToSeqs(Reviewable) /\ IsFiniteSet(Reviewable)
      BY SortingWorks DEF PlanInv
    <3> DEFINE s == Sorted(Reviewable)
    <3>2. s \in Seq(Reviewable) /\ Files(s) = Reviewable /\ IsInjective(s)
      <4> HIDE DEF s
      <4>1. s \in SetToSeqs(Reviewable) /\ IsFiniteSet(Reviewable)
        BY <3>1 DEF s
      <4> QED
        BY <4>1, SeqsEnumerate DEF Files, IsInjective
    <3>3. s \in Seq(Changed)
      BY <3>2 DEF Reviewable
    <3> QED
      BY <2>1, <3>2, <3>3
  <2>2. CASE ~Large
    BY <1>2, <2>2 DEF PlanInv, TypeOK, PlacesInv
  <2> QED
    BY <2>1, <2>2
<1>4. DiffOK'
  BY <1>1 DEF PlanInv, DiffOK
<1>5. TypeOK'
  BY <1>1, <1>3 DEF PlanInv, TypeOK
<1>6. PlacesInv'
  BY <1>1, <1>2, <1>3 DEF PlanInv, PlacesInv
<1>7. FitInv' /\ BudgetKept'
  BY <1>1, <1>2 DEF PlanInv, FitInv, ChunksFit, BudgetKept, Weight
<1> QED
  BY <1>4, <1>5, <1>6, <1>7 DEF PlanInv

LEMMA FinishKeepsPlan == PlanInv /\ Finish => PlanInv'
<1> SUFFICES ASSUME PlanInv, Finish PROVE PlanInv'
  OBVIOUS
<1> USE DEF Finish
<1>1. /\ Changed' = Changed /\ Reviewable' = Reviewable /\ Size' = Size /\ NonEmpty' = NonEmpty
      /\ \A S : SumFunctionOnSet(Size', S) = Weight(S)
  BY DiffStays DEF Weight
<1>2. /\ Flushed \in Seq(ChunkOf) /\ FilesOf(Flushed) = Packed /\ InOneChunkOnce(Flushed)
      /\ \A i \in DOMAIN Flushed : Fitting(Flushed[i])
  BY FlushKeeps
<1>3. Files(<<>>) = {} /\ IsInjective(<<>>) /\ Weight(Files(<<>>)) = 0
  <2>1. Files(<<>>) = {} /\ IsInjective(<<>>)
    BY DEF Files, ToSet, IsInjective
  <2> QED
    BY <2>1, Weights DEF PlanInv
<1>4. Packed' = Packed
  BY <1>2, <1>3 DEF Packed
<1>5. DiffOK'
  BY <1>1 DEF PlanInv, DiffOK
<1>6. TypeOK'
  BY <1>1, <1>2 DEF PlanInv, TypeOK, ChunkOf
<1>7. PlacesInv'
  BY <1>1, <1>2, <1>3, <1>4 DEF PlanInv, PlacesInv
<1>8. FitInv' /\ BudgetKept'
  BY <1>1, <1>2, <1>3, <1>4, ChunkingAssumption DEF PlanInv, FitInv, ChunksFit, Fitting, BudgetKept, Weight
<1> QED
  BY <1>5, <1>6, <1>7, <1>8 DEF PlanInv

LEMMA PlanInvariant == Spec => []PlanInv
<1>1. PlanInv /\ UNCHANGED vars => PlanInv'
  <2> SUFFICES ASSUME PlanInv, UNCHANGED vars PROVE PlanInv'
    OBVIOUS
  <2>1. /\ Changed' = Changed /\ Reviewable' = Reviewable /\ Size' = Size /\ NonEmpty' = NonEmpty
    BY DiffStays DEF vars
  <2> QED
    BY <2>1 DEF vars, PlanInv, DiffOK, TypeOK, PlacesInv, FitInv, ChunksFit, BudgetKept, Packed, Weight
<1>2. PlanInv /\ [Next]_vars => PlanInv'
  BY <1>1, RouteKeepsPlan, SkipKeepsPlan, PackAloneKeepsPlan, PackKeepsPlan, FinishKeepsPlan DEF Next
<1> QED
  BY <1>2, PlanInvInit, PTL DEF Spec

-----------------------------------------------------------------------------
(***************************************************************************)
(* The plan keeps its types and never holds a chunk without files, which   *)
(* would be a paid call of the model about nothing (chunking.py:99-105).   *)
(***************************************************************************)
THEOREM TypeCorrect == Spec => []TypeOK
<1>1. PlanInv => TypeOK
  BY DEF PlanInv
<1> QED
  BY <1>1, PlanInvariant, PTL

(***************************************************************************)
(* НФТ-APRP-6: whatever the diff and the budgets, a plan puts each         *)
(* reviewable file into one chunk, once, or lists it as overflow, and a    *)
(* generated one nowhere (chunking.py:75-125).                             *)
(***************************************************************************)
THEOREM NoFileIsLost == Spec => []EveryFileAccounted
<1>1. PlanInv => EveryFileAccounted
  <2> SUFFICES ASSUME PlanInv, phase = "planned"
               PROVE  /\ InOneChunkOnce(chunks) /\ FilesOf(chunks) \cap overflow = {}
                      /\ FilesOf(chunks) \cup overflow = Reviewable
    BY DEF EveryFileAccounted
  <2>1. Files(todo) = {} /\ Packed = FilesOf(chunks)
    BY DEF PlanInv, PlacesInv, Packed, Files, ToSet
  <2> QED
    BY <2>1 DEF PlanInv, PlacesInv
<1> QED
  BY <1>1, PlanInvariant, PTL

(***************************************************************************)
(* ФТ-APRP-7: a chunk of several files weighs no more than one call of the *)
(* model takes (chunking.py:113-123).                                      *)
(***************************************************************************)
THEOREM ChunksAreCalls == Spec => []ChunksFit
<1>1. PlanInv => ChunksFit
  BY DEF PlanInv, FitInv
<1> QED
  BY <1>1, PlanInvariant, PTL

(***************************************************************************)
(* What a plan spends stays within the total budget, except when its only  *)
(* file exceeds it (chunking.py:109-112).                                  *)
(***************************************************************************)
THEOREM TotalIsKept == Spec => []BudgetKept
<1>1. PlanInv => BudgetKept
  BY DEF PlanInv
<1> QED
  BY <1>1, PlanInvariant, PTL
=============================================================================
