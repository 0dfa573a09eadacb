----------------------------- MODULE SumTheorems -----------------------------
(***************************************************************************)
(* Facts about SumFunctionOnSet, the sum of f[x] over the elements x of a  *)
(* finite set.                                                             *)
(*                                                                         *)
(* It is defined by recursion over sets, so everything about it needs an   *)
(* induction.  The induction theorems of the library are about an operator *)
(* P(_); instead, SmallestSet says that a set of finite sets that is not   *)
(* empty has a member with no smaller one, and every proof is about the    *)
(* smallest counterexample.                                                *)
(***************************************************************************)
EXTENDS Functions, FiniteSetTheorems, TLAPS

Chosen(T) == CHOOSE x \in T : TRUE

(* g gives the sum of f over every subset of S. *)
Sums(g, f, S) ==
    g = [T \in SUBSET S |-> IF T = {} THEN 0 ELSE f[Chosen(T)] + g[T \ {Chosen(T)}]]

Recursive(f, S) == CHOOSE g : Sums(g, f, S)

LEMMA SumIsRecursive ==
    ASSUME NEW f, NEW S
    PROVE  SumFunctionOnSet(f, S) = Recursive(f, S)[S]
BY DEF SumFunctionOnSet, FoldFunctionOnSet, MapThenFoldSet, Recursive, Sums, Chosen

LEMMA SmallestSet ==
    ASSUME NEW S, IsFiniteSet(S), NEW B, B \subseteq SUBSET S, B # {}
    PROVE  \E T \in B : /\ IsFiniteSet(T) /\ T \subseteq S
                        /\ \A U \in SUBSET T : U # T => U \notin B
<1>1. FiniteSubsetsOf(S) = SUBSET S
  BY FS_FiniteSubsetsOfFinite
<1>2. PICK T \in B : \A U \in B : ~ (<<U, T>> \in StrictSubsetOrdering(S))
  BY <1>1, FS_StrictSubsetOrderingWellFounded, WFMin
<1>3. T \subseteq S /\ IsFiniteSet(T)
  BY <1>2, FS_Subset
<1>4. ASSUME NEW U \in SUBSET T, U # T, U \in B PROVE FALSE
  BY <1>2, <1>3, <1>4 DEF StrictSubsetOrdering
<1> QED
  BY <1>2, <1>3, <1>4

LEMMA ChosenIn == ASSUME NEW T, T # {} PROVE Chosen(T) \in T
BY DEF Chosen

(* Two functions that are sums agree where both are defined. *)
LEMMA SumsAgree ==
    ASSUME NEW f, NEW S, NEW V, NEW g, NEW h, Sums(g, f, S), Sums(h, f, V),
           NEW U, U \subseteq S, U \subseteq V, IsFiniteSet(U)
    PROVE  g[U] = h[U]
<1> DEFINE B == {T \in SUBSET U : g[T] # h[T]}
<1>1. SUFFICES ASSUME B # {} PROVE FALSE
  OBVIOUS
<1>2. PICK T \in B : T \subseteq U /\ \A W \in SUBSET T : W # T => W \notin B
  <2>1. B \subseteq SUBSET U
    OBVIOUS
  <2> HIDE DEF B
  <2> QED
    BY <1>1, <2>1, SmallestSet
<1>3. /\ g[T] = IF T = {} THEN 0 ELSE f[Chosen(T)] + g[T \ {Chosen(T)}]
      /\ h[T] = IF T = {} THEN 0 ELSE f[Chosen(T)] + h[T \ {Chosen(T)}]
  <2>1. T \in SUBSET S /\ T \in SUBSET V
    BY <1>2
  <2> HIDE DEF B
  <2> QED
    BY <2>1 DEF Sums
<1>4. T # {}
  BY <1>2, <1>3
<1>5. T \ {Chosen(T)} \in SUBSET T /\ T \ {Chosen(T)} # T
  BY <1>4, ChosenIn
<1>6. g[T \ {Chosen(T)}] = h[T \ {Chosen(T)}]
  BY <1>2, <1>5
<1> QED
  BY <1>2, <1>3, <1>6

HasSums(f, S) == \E g : Sums(g, f, S)

LEMMA RecursiveStep ==
    ASSUME NEW f, NEW S, IsFiniteSet(S), \A U \in SUBSET S : HasSums(f, U)
    PROVE  Recursive(f, S)[S] = IF S = {} THEN 0
                                ELSE f[Chosen(S)] + Recursive(f, S \ {Chosen(S)})[S \ {Chosen(S)}]
<1>1. Sums(Recursive(f, S), f, S)
  BY DEF HasSums, Recursive
<1>2. Recursive(f, S)[S] = IF S = {} THEN 0 ELSE f[Chosen(S)] + Recursive(f, S)[S \ {Chosen(S)}]
  <2> DEFINE g == Recursive(f, S)
  <2>1. Sums(g, f, S)
    BY <1>1
  <2> HIDE DEF g
  <2>2. S \in SUBSET S
    OBVIOUS
  <2>3. g[S] = IF S = {} THEN 0 ELSE f[Chosen(S)] + g[S \ {Chosen(S)}]
    BY <2>1, <2>2 DEF Sums
  <2> QED
    BY <2>3 DEF g
<1>3. Sums(Recursive(f, S \ {Chosen(S)}), f, S \ {Chosen(S)})
  BY DEF HasSums, Recursive
<1>4. IsFiniteSet(S \ {Chosen(S)})
  BY FS_Subset
<1>5. Recursive(f, S)[S \ {Chosen(S)}] = Recursive(f, S \ {Chosen(S)})[S \ {Chosen(S)}]
  BY <1>1, <1>3, <1>4, SumsAgree
<1> QED
  BY <1>2, <1>5

LEMMA SumsExist == ASSUME NEW f, NEW S, IsFiniteSet(S) PROVE HasSums(f, S)
<1> DEFINE B == {T \in SUBSET S : ~ HasSums(f, T)}
<1>1. SUFFICES ASSUME B # {} PROVE FALSE
  OBVIOUS
<1>2. PICK T \in B : /\ T \subseteq S /\ IsFiniteSet(T)
                     /\ \A U \in SUBSET T : U # T => U \notin B
  <2>1. B \subseteq SUBSET S
    OBVIOUS
  <2> HIDE DEF B
  <2> QED
    BY <1>1, <2>1, SmallestSet
<1>3. \A U \in SUBSET T : U # T => HasSums(f, U)
  <2>1. ASSUME NEW U \in SUBSET T, U # T PROVE HasSums(f, U)
    BY <1>2, <2>1
  <2> QED
    BY <2>1
<1>4. ~ HasSums(f, T)
  BY <1>2
<1> HIDE DEF B
<1> DEFINE total(U) == Recursive(f, U)[U]
           g == [U \in SUBSET T |-> IF U = {} THEN 0 ELSE f[Chosen(U)] + total(U \ {Chosen(U)})]
<1>5. ASSUME NEW U \in SUBSET T, U # T
      PROVE  total(U) = IF U = {} THEN 0 ELSE f[Chosen(U)] + total(U \ {Chosen(U)})
  <2>1. IsFiniteSet(U) /\ \A W \in SUBSET U : HasSums(f, W)
    BY <1>2, <1>3, <1>5, FS_Subset
  <2> QED
    BY <2>1, RecursiveStep
<1> HIDE DEF total
<1>6. \A U \in SUBSET T : g[U] = IF U = {} THEN 0 ELSE f[Chosen(U)] + total(U \ {Chosen(U)})
  BY DEF g
<1>7. ASSUME NEW U \in SUBSET T, U # {} PROVE g[U \ {Chosen(U)}] = total(U \ {Chosen(U)})
  <2>1. U \ {Chosen(U)} \in SUBSET T /\ U \ {Chosen(U)} # T
    BY <1>7, ChosenIn
  <2> QED
    BY <1>5, <1>6, <2>1
<1>8. g = [U \in SUBSET T |-> IF U = {} THEN 0 ELSE f[Chosen(U)] + g[U \ {Chosen(U)}]]
  <2>1. \A U \in SUBSET T : g[U] = IF U = {} THEN 0 ELSE f[Chosen(U)] + g[U \ {Chosen(U)}]
    BY <1>6, <1>7
  <2>2. DOMAIN g = SUBSET T /\ g = [U \in SUBSET T |-> g[U]]
    BY DEF g
  <2> HIDE DEF g
  <2> QED
    BY <2>1, <2>2
<1>9. Sums(g, f, T)
  <2> HIDE DEF g
  <2> QED
    BY <1>8 DEF Sums
<1> QED
  BY <1>4, <1>9 DEF HasSums

(* A sum by one of its terms and the rest: the definition. *)
LEMMA SumStep ==
    ASSUME NEW f, NEW S, IsFiniteSet(S)
    PROVE  SumFunctionOnSet(f, S) =
              IF S = {} THEN 0 ELSE f[Chosen(S)] + SumFunctionOnSet(f, S \ {Chosen(S)})
<1>1. \A U \in SUBSET S : HasSums(f, U)
  BY SumsExist, FS_Subset
<1> QED
  BY <1>1, RecursiveStep, SumIsRecursive

LEMMA SumEmpty == ASSUME NEW f PROVE SumFunctionOnSet(f, {}) = 0
BY SumStep, FS_EmptySet

(* A set that holds 0 and all the terms, and where one can add, holds the  *)
(* sum.                                                                    *)
LEMMA SumType ==
    ASSUME NEW C, 0 \in C, \A a, b \in C : a + b \in C,
           NEW f, NEW S, IsFiniteSet(S), \A x \in S : f[x] \in C
    PROVE  SumFunctionOnSet(f, S) \in C
<1> DEFINE B == {T \in SUBSET S : SumFunctionOnSet(f, T) \notin C}
<1>1. SUFFICES ASSUME B # {} PROVE FALSE
  OBVIOUS
<1>2. PICK T \in B : IsFiniteSet(T) /\ T \subseteq S /\ \A U \in SUBSET T : U # T => U \notin B
  <2>1. B \subseteq SUBSET S
    OBVIOUS
  <2> HIDE DEF B
  <2> QED
    BY <1>1, <2>1, SmallestSet
<1>3. SumFunctionOnSet(f, T) \notin C
  BY <1>2
<1>4. T # {}
  BY <1>3, SumEmpty
<1> DEFINE x == Chosen(T)
<1>5. x \in S /\ T \ {x} \in SUBSET T /\ T \ {x} # T
  BY <1>2, <1>4, ChosenIn
<1>6. SumFunctionOnSet(f, T \ {x}) \in C
  <2>1. T \ {x} \notin B /\ T \ {x} \in SUBSET S
    <3> HIDE DEF B, x
    <3> QED
      BY <1>2, <1>5
  <2> QED
    BY <2>1
<1>7. SumFunctionOnSet(f, T) = f[x] + SumFunctionOnSet(f, T \ {x})
  BY <1>2, <1>4, SumStep
<1> HIDE DEF B, x
<1> QED
  BY <1>3, <1>5, <1>6, <1>7

LEMMA SumNat ==
    ASSUME NEW f, NEW S, IsFiniteSet(S), \A x \in S : f[x] \in Nat
    PROVE  SumFunctionOnSet(f, S) \in Nat
<1>1. 0 \in Nat /\ \A a, b \in Nat : a + b \in Nat
  OBVIOUS
<1> QED
  BY <1>1, SumType

LEMMA SumInt ==
    ASSUME NEW f, NEW S, IsFiniteSet(S), \A x \in S : f[x] \in Int
    PROVE  SumFunctionOnSet(f, S) \in Int
<1>1. 0 \in Int /\ \A a, b \in Int : a + b \in Int
  OBVIOUS
<1> QED
  BY <1>1, SumType

(* Any term can be taken out: the order of the terms does not matter. *)
LEMMA SumRemove ==
    ASSUME NEW f, NEW S, IsFiniteSet(S), \A x \in S : f[x] \in Int, NEW y \in S
    PROVE  SumFunctionOnSet(f, S) = f[y] + SumFunctionOnSet(f, S \ {y})
<1> DEFINE OK(T, z) == SumFunctionOnSet(f, T) = f[z] + SumFunctionOnSet(f, T \ {z})
           B == {T \in SUBSET S : \E z \in T : ~ OK(T, z)}
<1>1. SUFFICES ASSUME B # {} PROVE FALSE
  <2>1. B = {} => OK(S, y)
    <3> HIDE DEF OK
    <3> QED
      OBVIOUS
  <2> QED
    BY <2>1
<1>2. PICK T \in B : IsFiniteSet(T) /\ T \subseteq S /\ \A U \in SUBSET T : U # T => U \notin B
  <2>1. B \subseteq SUBSET S
    OBVIOUS
  <2> HIDE DEF B
  <2> QED
    BY <1>1, <2>1, SmallestSet
<1>3. PICK z \in T : ~ OK(T, z)
  BY <1>2
<1>4. \A U \in SUBSET T : U # T => \A u \in U : OK(U, u)
  <2>1. ASSUME NEW U \in SUBSET T, U # T, NEW u \in U PROVE OK(U, u)
    <3>1. U \notin B /\ U \in SUBSET S
      <4> HIDE DEF B
      <4> QED
        BY <1>2, <2>1
    <3> HIDE DEF OK
    <3> QED
      BY <3>1
  <2> HIDE DEF B, OK
  <2> QED
    BY <2>1
<1> HIDE DEF B
<1>5. PICK x : x = Chosen(T)
  OBVIOUS
<1>6. x \in T /\ x \in S /\ z \in S
  BY <1>2, <1>3, <1>5, ChosenIn
<1>7. SumFunctionOnSet(f, T) = f[x] + SumFunctionOnSet(f, T \ {x})
  BY <1>2, <1>5, <1>6, SumStep
<1>8. x # z
  BY <1>3, <1>7
<1>9. OK(T \ {x}, z) /\ OK(T \ {z}, x)
  <2>1. T \ {x} \in SUBSET T /\ T \ {x} # T /\ z \in T \ {x}
    BY <1>3, <1>6, <1>8
  <2>2. T \ {z} \in SUBSET T /\ T \ {z} # T /\ x \in T \ {z}
    BY <1>3, <1>6, <1>8
  <2> HIDE DEF OK
  <2> QED
    BY <1>4, <2>1, <2>2
<1>10. (T \ {x}) \ {z} = (T \ {z}) \ {x}
  OBVIOUS
<1>11. SumFunctionOnSet(f, (T \ {x}) \ {z}) \in Int
  <2>1. (T \ {x}) \ {z} \in SUBSET T /\ \A w \in (T \ {x}) \ {z} : f[w] \in Int
    BY <1>2
  <2> QED
    BY <1>2, <2>1, SumInt, FS_Subset
<1>12. OK(T, z)
  <2>1. /\ SumFunctionOnSet(f, T \ {x}) = f[z] + SumFunctionOnSet(f, (T \ {x}) \ {z})
        /\ SumFunctionOnSet(f, T \ {z}) = f[x] + SumFunctionOnSet(f, (T \ {x}) \ {z})
    BY <1>9, <1>10
  <2>2. f[x] \in Int /\ f[z] \in Int
    BY <1>6
  <2>3. f[x] + (f[z] + SumFunctionOnSet(f, (T \ {x}) \ {z})) = f[z] + (f[x] + SumFunctionOnSet(f, (T \ {x}) \ {z}))
    BY <1>11, <2>2
  <2> QED
    BY <1>7, <2>1, <2>3
<1> QED
  BY <1>3, <1>12

(* And added. *)
LEMMA SumAdd ==
    ASSUME NEW f, NEW S, IsFiniteSet(S), NEW y, y \notin S, \A x \in S \cup {y} : f[x] \in Int
    PROVE  SumFunctionOnSet(f, S \cup {y}) = SumFunctionOnSet(f, S) + f[y]
<1>1. (S \cup {y}) \ {y} = S /\ y \in S \cup {y} /\ IsFiniteSet(S \cup {y})
  BY FS_AddElement
<1>2. SumFunctionOnSet(f, S \cup {y}) = f[y] + SumFunctionOnSet(f, S)
  <2> DEFINE A == S \cup {y}
  <2>1. A \ {y} = S /\ y \in A /\ IsFiniteSet(A) /\ \A x \in A : f[x] \in Int
    BY <1>1
  <2> HIDE DEF A
  <2>2. SumFunctionOnSet(f, A) = f[y] + SumFunctionOnSet(f, S)
    BY <2>1, SumRemove
  <2> QED
    BY <2>2 DEF A
<1>3. SumFunctionOnSet(f, S) \in Int /\ f[y] \in Int
  BY SumInt
<1> QED
  BY <1>2, <1>3

(* Only the terms count. *)
LEMMA SumSame ==
    ASSUME NEW f, NEW g, NEW S, IsFiniteSet(S), \A x \in S : f[x] = g[x]
    PROVE  SumFunctionOnSet(f, S) = SumFunctionOnSet(g, S)
<1> DEFINE B == {T \in SUBSET S : SumFunctionOnSet(f, T) # SumFunctionOnSet(g, T)}
<1>1. SUFFICES ASSUME B # {} PROVE FALSE
  OBVIOUS
<1>2. PICK T \in B : IsFiniteSet(T) /\ T \subseteq S /\ \A U \in SUBSET T : U # T => U \notin B
  <2>1. B \subseteq SUBSET S
    OBVIOUS
  <2> HIDE DEF B
  <2> QED
    BY <1>1, <2>1, SmallestSet
<1>3. SumFunctionOnSet(f, T) # SumFunctionOnSet(g, T)
  BY <1>2
<1>4. T # {}
  BY <1>3, SumEmpty
<1> DEFINE x == Chosen(T)
<1>5. x \in S /\ T \ {x} \in SUBSET T /\ T \ {x} # T
  BY <1>2, <1>4, ChosenIn
<1>6. SumFunctionOnSet(f, T \ {x}) = SumFunctionOnSet(g, T \ {x})
  <2>1. T \ {x} \notin B /\ T \ {x} \in SUBSET S
    <3> HIDE DEF B, x
    <3> QED
      BY <1>2, <1>5
  <2> QED
    BY <2>1
<1>7. /\ SumFunctionOnSet(f, T) = f[x] + SumFunctionOnSet(f, T \ {x})
      /\ SumFunctionOnSet(g, T) = g[x] + SumFunctionOnSet(g, T \ {x})
  BY <1>2, <1>4, SumStep
<1> HIDE DEF B, x
<1> QED
  BY <1>3, <1>5, <1>6, <1>7

(* Terms that are 0 may be left out. *)
LEMMA SumZeros ==
    ASSUME NEW f, NEW S, IsFiniteSet(S), NEW T, T \subseteq S,
           \A x \in S : f[x] \in Int, \A x \in S \ T : f[x] = 0
    PROVE  SumFunctionOnSet(f, S) = SumFunctionOnSet(f, T)
<1> DEFINE B == {V \in SUBSET S : SumFunctionOnSet(f, V) # SumFunctionOnSet(f, V \cap T)}
<1>1. SUFFICES ASSUME B # {} PROVE FALSE
  <2>1. S \cap T = T /\ S \in SUBSET S
    OBVIOUS
  <2>2. B = {} => SumFunctionOnSet(f, S) = SumFunctionOnSet(f, S \cap T)
    BY <2>1
  <2> QED
    BY <2>1, <2>2
<1>2. PICK V \in B : IsFiniteSet(V) /\ V \subseteq S /\ \A U \in SUBSET V : U # V => U \notin B
  <2>1. B \subseteq SUBSET S
    OBVIOUS
  <2> HIDE DEF B
  <2> QED
    BY <1>1, <2>1, SmallestSet
<1>3. SumFunctionOnSet(f, V) # SumFunctionOnSet(f, V \cap T)
  BY <1>2
<1>4. PICK x \in V : x \notin T
  <2>1. V \cap T # V
    BY <1>3
  <2> QED
    BY <2>1
<1>5. SumFunctionOnSet(f, V \ {x}) = SumFunctionOnSet(f, (V \ {x}) \cap T)
  <2>1. V \ {x} \in SUBSET V /\ V \ {x} # V
    BY <1>4
  <2>2. V \ {x} \notin B /\ V \ {x} \in SUBSET S
    <3> HIDE DEF B
    <3> QED
      BY <1>2, <2>1
  <2> QED
    BY <2>2
<1> HIDE DEF B
<1>6. (V \ {x}) \cap T = V \cap T
  BY <1>4
<1>7. SumFunctionOnSet(f, V) = f[x] + SumFunctionOnSet(f, V \ {x})
  BY <1>2, <1>4, SumRemove
<1>8. f[x] = 0 /\ SumFunctionOnSet(f, V \ {x}) \in Int
  <2>1. f[x] = 0
    BY <1>2, <1>4
  <2>2. IsFiniteSet(V \ {x}) /\ \A y \in V \ {x} : f[y] \in Int
    BY <1>2, FS_RemoveElement
  <2> QED
    BY <2>1, <2>2, SumInt
<1>9. SumFunctionOnSet(f, V) = SumFunctionOnSet(f, V \ {x})
  BY <1>7, <1>8
<1>10. SumFunctionOnSet(f, V \ {x}) = SumFunctionOnSet(f, V \cap T)
  BY <1>5, <1>6
<1> QED
  BY <1>3, <1>9, <1>10

(* The sizes of the parts of a set sum up to its size. *)
LEMMA SumOfPartition ==
    ASSUME NEW F, NEW f, NEW S, IsFiniteSet(S), NEW All,
           \A x \in S : IsFiniteSet(F[x]) /\ f[x] = Cardinality(F[x]),
           \A x, y \in S : F[x] \cap F[y] # {} => x = y,
           \A x \in S : F[x] \subseteq All, \A e \in All : \E x \in S : e \in F[x]
    PROVE  SumFunctionOnSet(f, S) = Cardinality(All)
<1> DEFINE Of(T) == UNION {F[x] : x \in T}
           OK(T) == IsFiniteSet(Of(T)) /\ SumFunctionOnSet(f, T) = Cardinality(Of(T))
           B == {T \in SUBSET S : ~ OK(T)}
<1>1. SUFFICES ASSUME B # {} PROVE FALSE
  <2>1. B = {} => OK(S)
    <3> HIDE DEF OK
    <3> QED
      OBVIOUS
  <2>2. Of(S) = All
    OBVIOUS
  <2> QED
    BY <2>1, <2>2
<1>2. PICK T \in B : IsFiniteSet(T) /\ T \subseteq S /\ \A U \in SUBSET T : U # T => U \notin B
  <2>1. B \subseteq SUBSET S
    OBVIOUS
  <2> HIDE DEF B
  <2> QED
    BY <1>1, <2>1, SmallestSet
<1>3. ~ OK(T)
  BY <1>2
<1>4. ASSUME NEW U \in SUBSET T, U # T PROVE OK(U)
  <2>1. U \notin B /\ U \in SUBSET S
    <3> HIDE DEF B
    <3> QED
      BY <1>2, <1>4
  <2> HIDE DEF OK
  <2> QED
    BY <2>1
<1> HIDE DEF B
<1>5. T # {}
  <2>1. Of({}) = {}
    OBVIOUS
  <2>2. OK({})
    <3> HIDE DEF Of
    <3> QED
      BY <2>1, SumEmpty, FS_EmptySet
  <2> HIDE DEF OK
  <2> QED
    BY <1>3, <2>2
<1>6. PICK x : x = Chosen(T)
  OBVIOUS
<1>7. x \in T /\ x \in S
  BY <1>2, <1>5, <1>6, ChosenIn
<1>8. SumFunctionOnSet(f, T) = f[x] + SumFunctionOnSet(f, T \ {x})
  BY <1>2, <1>5, <1>6, SumStep
<1>9. OK(T \ {x})
  <2>1. T \ {x} \in SUBSET T /\ T \ {x} # T
    BY <1>7
  <2> HIDE DEF OK
  <2> QED
    BY <1>4, <2>1
<1>10. Of(T) = Of(T \ {x}) \cup F[x] /\ Of(T \ {x}) \cap F[x] = {}
  <2>1. Of(T) = Of(T \ {x}) \cup F[x]
    BY <1>7
  <2>2. ASSUME NEW e \in Of(T \ {x}), e \in F[x] PROVE FALSE
    <3>1. PICK y \in T \ {x} : e \in F[y]
      OBVIOUS
    <3>2. y \in S /\ F[x] \cap F[y] # {}
      BY <1>2, <2>2, <3>1
    <3> QED
      BY <1>7, <3>1, <3>2
  <2> HIDE DEF Of
  <2> QED
    BY <2>1, <2>2
<1> HIDE DEF Of
<1>11. /\ IsFiniteSet(Of(T \ {x})) /\ IsFiniteSet(F[x])
       /\ SumFunctionOnSet(f, T \ {x}) = Cardinality(Of(T \ {x})) /\ f[x] = Cardinality(F[x])
  BY <1>7, <1>9
<1>12. /\ IsFiniteSet(Of(T))
       /\ Cardinality(Of(T)) = Cardinality(Of(T \ {x})) + Cardinality(F[x])
  <2>1. Cardinality(Of(T \ {x})) \in Nat /\ Cardinality(F[x]) \in Nat
    BY <1>11, FS_CardinalityType
  <2>2. Cardinality(Of(T \ {x}) \cap F[x]) = 0
    BY <1>10, FS_EmptySet
  <2>3. /\ IsFiniteSet(Of(T \ {x}) \cup F[x])
        /\ Cardinality(Of(T \ {x}) \cup F[x])
              = Cardinality(Of(T \ {x})) + Cardinality(F[x]) - Cardinality(Of(T \ {x}) \cap F[x])
    BY <1>11, FS_Union
  <2> QED
    BY <1>10, <2>1, <2>2, <2>3
<1>13. Cardinality(Of(T \ {x})) \in Nat /\ Cardinality(F[x]) \in Nat
  BY <1>11, FS_CardinalityType
<1> QED
  BY <1>3, <1>8, <1>11, <1>12, <1>13
=============================================================================
