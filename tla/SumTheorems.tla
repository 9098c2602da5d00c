---------------------------- MODULE SumTheorems -----------------------------
(***************************************************************************)
(* Sums of a function over a finite set, as the community modules define   *)
(* them: the sum exists, does not depend on the order of its terms, and    *)
(* follows one term that comes, goes or changes.  Induction is by a least  *)
(* counterexample: a smallest set for which the claim fails.  The last     *)
(* section says the same of a loop over rows in a given order: what each   *)
(* of its steps keeps, the loop keeps.                                     *)
(***************************************************************************)
EXTENDS Integers, Folds, Functions, FiniteSets, FiniteSetTheorems, WellFoundedInduction,
        NaturalsInduction, TLAPS

Pick(T) == CHOOSE x \in T : TRUE

\* g adds f up over every subset of S.
Adds(g, f, S) ==
    g = [T \in SUBSET S |-> IF T = {} THEN 0 ELSE f[Pick(T)] + g[T \ {Pick(T)}]]

\* A nonempty set of numbers has a least one.
LEMMA LeastNumber ==
    ASSUME NEW S \in SUBSET Nat, S # {}
    PROVE  \E m \in S : \A k \in S : m <= k
<1>1. IsWellFoundedOn(OpToRel(<, Nat), Nat) BY NatLessThanWellFounded
<1>2. PICK m \in S : \A k \in S : ~ (<<k, m>> \in OpToRel(<, Nat))
  BY <1>1, WFMin
<1>3. \A k \in S : ~ (k < m) BY <1>2 DEF OpToRel
<1>4. QED BY <1>3

\* A nonempty set of finite sets has one of the least size.
LEMMA SmallestSet ==
    ASSUME NEW C, C # {}, \A A \in C : IsFiniteSet(A)
    PROVE  \E A \in C : \A B \in C : Cardinality(A) <= Cardinality(B)
<1> DEFINE N == {Cardinality(A) : A \in C}
<1>1. N \in SUBSET Nat /\ N # {}
  BY FS_CardinalityType
<1> HIDE DEF N
<1>2. PICK m \in N : \A k \in N : m <= k
  BY <1>1, LeastNumber
<1>3. QED BY <1>2 DEF N

LEMMA PickIn ==
    ASSUME NEW T, T # {}
    PROVE  Pick(T) \in T
  BY DEF Pick

\* Taking one element away makes a finite set smaller.
LEMMA OneLess ==
    ASSUME NEW T, IsFiniteSet(T), NEW x \in T
    PROVE  /\ IsFiniteSet(T \ {x})
           /\ Cardinality(T \ {x}) < Cardinality(T)
<1>1. IsFiniteSet(T \ {x}) /\ Cardinality(T \ {x}) = Cardinality(T) - 1
  BY FS_RemoveElement
<1>2. Cardinality(T) \in Nat
  BY FS_CardinalityType
<1>3. QED BY <1>1, <1>2

\* Two of them agree wherever both are defined.
LEMMA AddsUnique ==
    ASSUME NEW f, NEW A, NEW B, NEW g, NEW h, Adds(g, f, A), Adds(h, f, B),
           NEW T, IsFiniteSet(T), T \subseteq A, T \subseteq B
    PROVE  g[T] = h[T]
<1> DEFINE C == {U \in SUBSET T : g[U] # h[U]}
<1>1. SUFFICES ASSUME C # {} PROVE FALSE
  OBVIOUS
<1>2. \A U \in C : IsFiniteSet(U)
  BY FS_Subset
<1> HIDE DEF C
<1>3. PICK U \in C : \A V \in C : Cardinality(U) <= Cardinality(V)
  BY <1>1, <1>2, SmallestSet
<1>4. U \subseteq T /\ g[U] # h[U] /\ IsFiniteSet(U)
  BY <1>2, <1>3 DEF C
<1>5. g[U] = IF U = {} THEN 0 ELSE f[Pick(U)] + g[U \ {Pick(U)}]
  BY <1>4 DEF Adds
<1>6. h[U] = IF U = {} THEN 0 ELSE f[Pick(U)] + h[U \ {Pick(U)}]
  BY <1>4 DEF Adds
<1>7. U # {}
  BY <1>4, <1>5, <1>6
<1>8. Pick(U) \in U /\ IsFiniteSet(U \ {Pick(U)}) /\ Cardinality(U \ {Pick(U)}) < Cardinality(U)
  BY <1>4, <1>7, PickIn, OneLess
<1>9. U \ {Pick(U)} \notin C
  <2>1. Cardinality(U) \in Nat /\ Cardinality(U \ {Pick(U)}) \in Nat
    BY <1>4, <1>8, FS_CardinalityType
  <2>2. QED BY <1>3, <1>8, <2>1
<1>10. g[U \ {Pick(U)}] = h[U \ {Pick(U)}]
  BY <1>4, <1>9 DEF C
<1>11. QED BY <1>4, <1>5, <1>6, <1>7, <1>10

\* Every finite set has one.
LEMMA AddsExists ==
    ASSUME NEW f, NEW S, IsFiniteSet(S)
    PROVE  \E g : Adds(g, f, S)
<1> DEFINE C == {A \in SUBSET S : ~ \E g : Adds(g, f, A)}
<1>1. SUFFICES ASSUME C # {} PROVE FALSE
  OBVIOUS
<1>2. \A A \in C : IsFiniteSet(A)
  BY FS_Subset
<1> HIDE DEF C
<1>3. PICK A \in C : \A B \in C : Cardinality(A) <= Cardinality(B)
  BY <1>1, <1>2, SmallestSet
<1>4. A \subseteq S /\ IsFiniteSet(A) /\ ~ \E g : Adds(g, f, A)
  BY <1>2, <1>3 DEF C
<1> DEFINE G(U) == CHOOSE g : Adds(g, f, U)
<1>5. ASSUME NEW U, U \subseteq A, U # A PROVE Adds(G(U), f, U)
  <2>1. IsFiniteSet(U) /\ Cardinality(U) < Cardinality(A)
    <3>1. PICK x \in A : x \notin U BY <1>5
    <3>2. U \subseteq A \ {x} BY <1>5, <3>1
    <3>3. IsFiniteSet(U) BY <1>4, <1>5, FS_Subset
    <3>4. Cardinality(U) <= Cardinality(A \ {x}) /\ Cardinality(A \ {x}) < Cardinality(A)
          /\ IsFiniteSet(A \ {x})
      BY <1>4, <3>1, <3>2, OneLess, FS_Subset
    <3>5. Cardinality(U) \in Nat /\ Cardinality(A \ {x}) \in Nat /\ Cardinality(A) \in Nat
      BY <1>4, <3>3, <3>4, FS_CardinalityType
    <3>6. QED BY <3>3, <3>4, <3>5
  <2>2. Cardinality(U) \in Nat /\ Cardinality(A) \in Nat
    BY <1>4, <2>1, FS_CardinalityType
  <2>3. U \notin C BY <1>3, <2>1, <2>2
  <2>4. \E g : Adds(g, f, U) BY <1>4, <1>5, <2>3 DEF C
  <2>5. QED BY <2>4
<1> HIDE DEF G
<1> DEFINE g == [T \in SUBSET A |-> IF T = {} THEN 0
                                    ELSE f[Pick(T)] + G(T \ {Pick(T)})[T \ {Pick(T)}]]
<1>6. ASSUME NEW U, U \subseteq A, U # A PROVE g[U] = G(U)[U]
  <2>1. G(U)[U] = IF U = {} THEN 0 ELSE f[Pick(U)] + G(U)[U \ {Pick(U)}]
    BY <1>5, <1>6 DEF Adds
  <2>2. CASE U = {}
    BY <2>1, <2>2
  <2>3. CASE U # {}
    <3> DEFINE V == U \ {Pick(U)}
    <3>1. V \subseteq U /\ V \subseteq A /\ V # A /\ IsFiniteSet(V)
      BY <1>4, <1>6, <2>3, PickIn, FS_Subset
    <3>2. G(U)[V] = G(V)[V]
      BY <1>5, <1>6, <3>1, AddsUnique
    <3>3. g[U] = f[Pick(U)] + G(V)[V]
      BY <1>6, <2>3
    <3>4. QED BY <2>1, <2>3, <3>2, <3>3
  <2>4. QED BY <2>2, <2>3
<1>7. ASSUME NEW T \in SUBSET A, T # {} PROVE g[T \ {Pick(T)}] = G(T \ {Pick(T)})[T \ {Pick(T)}]
  <2>1. Pick(T) \in T BY <1>7, PickIn
  <2>2. T \ {Pick(T)} \subseteq A /\ T \ {Pick(T)} # A BY <2>1
  <2>3. QED BY <1>6, <2>2
<1>8. Adds(g, f, A)
  <2>1. \A T \in SUBSET A : (IF T = {} THEN 0 ELSE f[Pick(T)] + G(T \ {Pick(T)})[T \ {Pick(T)}])
                          = (IF T = {} THEN 0 ELSE f[Pick(T)] + g[T \ {Pick(T)}])
    BY <1>7
  <2>2. g = [T \in SUBSET A |-> IF T = {} THEN 0 ELSE f[Pick(T)] + g[T \ {Pick(T)}]]
    BY <2>1
  <2>3. QED BY <2>2 DEF Adds
<1>9. QED BY <1>4, <1>8

\* The community module's sum, as the value of such a function.
LEMMA SumDef ==
    ASSUME NEW f, NEW S
    PROVE  SumFunctionOnSet(f, S) = (CHOOSE g : Adds(g, f, S))[S]
  BY DEF SumFunctionOnSet, FoldFunctionOnSet, MapThenFoldSet, Adds, Pick

LEMMA SumIs ==
    ASSUME NEW f, NEW S, IsFiniteSet(S), NEW g, Adds(g, f, S), NEW T, T \subseteq S
    PROVE  SumFunctionOnSet(f, T) = g[T]
<1>1. IsFiniteSet(T) BY FS_Subset
<1>2. Adds(CHOOSE h : Adds(h, f, T), f, T) BY <1>1, AddsExists
<1>3. QED BY <1>1, <1>2, SumDef, AddsUnique

LEMMA SumEmpty ==
    ASSUME NEW f
    PROVE  SumFunctionOnSet(f, {}) = 0
<1>1. PICK g : Adds(g, f, {}) BY AddsExists, FS_EmptySet
<1>2. SumFunctionOnSet(f, {}) = g[{}] BY <1>1, SumIs, FS_EmptySet
<1>3. QED BY <1>1, <1>2 DEF Adds

LEMMA SumPick ==
    ASSUME NEW f, NEW S, IsFiniteSet(S), S # {}
    PROVE  SumFunctionOnSet(f, S) = f[Pick(S)] + SumFunctionOnSet(f, S \ {Pick(S)})
<1>1. PICK g : Adds(g, f, S) BY AddsExists
<1>2. SumFunctionOnSet(f, S) = g[S] /\ SumFunctionOnSet(f, S \ {Pick(S)}) = g[S \ {Pick(S)}]
  BY <1>1, SumIs
<1>3. g[S] = f[Pick(S)] + g[S \ {Pick(S)}] BY <1>1 DEF Adds
<1>4. QED BY <1>2, <1>3

\* The sum depends on the values over the set only.
LEMMA SumSame ==
    ASSUME NEW f, NEW h, NEW S, IsFiniteSet(S), \A x \in S : f[x] = h[x]
    PROVE  SumFunctionOnSet(f, S) = SumFunctionOnSet(h, S)
<1>1. PICK g : Adds(g, f, S) BY AddsExists
<1>2. \A T \in SUBSET S : (IF T = {} THEN 0 ELSE f[Pick(T)] + g[T \ {Pick(T)}])
                        = (IF T = {} THEN 0 ELSE h[Pick(T)] + g[T \ {Pick(T)}])
  BY PickIn
<1>3. g = [T \in SUBSET S |-> IF T = {} THEN 0 ELSE h[Pick(T)] + g[T \ {Pick(T)}]]
  <2>1. g = [T \in SUBSET S |-> IF T = {} THEN 0 ELSE f[Pick(T)] + g[T \ {Pick(T)}]]
    BY <1>1 DEF Adds
  <2>2. QED BY <1>2, <2>1
<1>4. Adds(g, h, S) BY <1>3 DEF Adds
<1>5. QED BY <1>1, <1>4, SumIs

\* The sum of integers is one.
LEMMA SumType ==
    ASSUME NEW f, NEW S, IsFiniteSet(S), \A x \in S : f[x] \in Int
    PROVE  SumFunctionOnSet(f, S) \in Int
<1> DEFINE C == {U \in SUBSET S : SumFunctionOnSet(f, U) \notin Int}
<1>1. SUFFICES ASSUME C # {} PROVE FALSE
  OBVIOUS
<1>2. \A U \in C : IsFiniteSet(U)
  BY FS_Subset
<1> HIDE DEF C
<1>3. PICK U \in C : \A V \in C : Cardinality(U) <= Cardinality(V)
  BY <1>1, <1>2, SmallestSet
<1>4. U \subseteq S /\ SumFunctionOnSet(f, U) \notin Int /\ IsFiniteSet(U)
  BY <1>2, <1>3 DEF C
<1>5. U # {} BY <1>4, SumEmpty
<1>6. Pick(U) \in U /\ IsFiniteSet(U \ {Pick(U)}) /\ Cardinality(U \ {Pick(U)}) < Cardinality(U)
  BY <1>4, <1>5, PickIn, OneLess
<1>7. U \ {Pick(U)} \notin C
  <2>1. Cardinality(U) \in Nat /\ Cardinality(U \ {Pick(U)}) \in Nat
    BY <1>4, <1>6, FS_CardinalityType
  <2>2. QED BY <1>3, <1>6, <2>1
<1>8. SumFunctionOnSet(f, U \ {Pick(U)}) \in Int BY <1>4, <1>7 DEF C
<1>9. f[Pick(U)] \in Int BY <1>4, <1>6
<1>10. SumFunctionOnSet(f, U) = f[Pick(U)] + SumFunctionOnSet(f, U \ {Pick(U)})
  BY <1>4, <1>5, SumPick
<1>11. QED BY <1>4, <1>8, <1>9, <1>10

\* A sum of natural numbers is one.
LEMMA SumNat ==
    ASSUME NEW f, NEW S, IsFiniteSet(S), \A x \in S : f[x] \in Nat
    PROVE  SumFunctionOnSet(f, S) \in Nat
<1> DEFINE C == {U \in SUBSET S : SumFunctionOnSet(f, U) \notin Nat}
<1>1. SUFFICES ASSUME C # {} PROVE FALSE
  OBVIOUS
<1>2. \A U \in C : IsFiniteSet(U)
  BY FS_Subset
<1> HIDE DEF C
<1>3. PICK U \in C : \A V \in C : Cardinality(U) <= Cardinality(V)
  BY <1>1, <1>2, SmallestSet
<1>4. U \subseteq S /\ SumFunctionOnSet(f, U) \notin Nat /\ IsFiniteSet(U)
  BY <1>2, <1>3 DEF C
<1>5. U # {} BY <1>4, SumEmpty
<1>6. Pick(U) \in U /\ IsFiniteSet(U \ {Pick(U)}) /\ Cardinality(U \ {Pick(U)}) < Cardinality(U)
  BY <1>4, <1>5, PickIn, OneLess
<1>7. U \ {Pick(U)} \notin C
  <2>1. Cardinality(U) \in Nat /\ Cardinality(U \ {Pick(U)}) \in Nat
    BY <1>4, <1>6, FS_CardinalityType
  <2>2. QED BY <1>3, <1>6, <2>1
<1>8. SumFunctionOnSet(f, U \ {Pick(U)}) \in Nat BY <1>4, <1>7 DEF C
<1>9. f[Pick(U)] \in Nat BY <1>4, <1>6
<1>10. SumFunctionOnSet(f, U) = f[Pick(U)] + SumFunctionOnSet(f, U \ {Pick(U)})
  BY <1>4, <1>5, SumPick
<1>11. QED BY <1>4, <1>8, <1>9, <1>10

\* Any element can be taken out first.
LEMMA SumRemove ==
    ASSUME NEW f, NEW S, IsFiniteSet(S), \A y \in S : f[y] \in Int, NEW x \in S
    PROVE  SumFunctionOnSet(f, S) = f[x] + SumFunctionOnSet(f, S \ {x})
<1> DEFINE Splits(U) == \A y \in U : SumFunctionOnSet(f, U) = f[y] + SumFunctionOnSet(f, U \ {y})
           C == {U \in SUBSET S : ~Splits(U)}
<1>1. SUFFICES ASSUME C # {} PROVE FALSE
  <2>1. Splits(S) BY <1>1
  <2>2. QED BY <2>1
<1>2. \A U \in C : IsFiniteSet(U)
  BY FS_Subset
<1> HIDE DEF C
<1>3. PICK U \in C : \A V \in C : Cardinality(U) <= Cardinality(V)
  BY <1>1, <1>2, SmallestSet
<1>4. U \subseteq S /\ ~Splits(U) /\ IsFiniteSet(U)
  BY <1>2, <1>3 DEF C
<1>5. PICK y \in U : SumFunctionOnSet(f, U) # f[y] + SumFunctionOnSet(f, U \ {y})
  BY <1>4
<1> DEFINE p == Pick(U)
<1>6. p \in U /\ SumFunctionOnSet(f, U) = f[p] + SumFunctionOnSet(f, U \ {p})
  BY <1>4, <1>5, PickIn, SumPick
<1> HIDE DEF p
<1>7. y # p BY <1>5, <1>6
<1>8. ASSUME NEW z \in U PROVE Splits(U \ {z})
  <2>1. IsFiniteSet(U \ {z}) /\ Cardinality(U \ {z}) < Cardinality(U)
    BY <1>4, OneLess
  <2>2. Cardinality(U) \in Nat /\ Cardinality(U \ {z}) \in Nat
    BY <1>4, <2>1, FS_CardinalityType
  <2>3. U \ {z} \notin C BY <1>3, <2>1, <2>2
  <2>4. U \ {z} \in SUBSET S BY <1>4
  <2>5. QED BY <2>3, <2>4 DEF C
<1>9. SumFunctionOnSet(f, U \ {p}) = f[y] + SumFunctionOnSet(f, (U \ {p}) \ {y})
  BY <1>6, <1>7, <1>8
<1>10. SumFunctionOnSet(f, U \ {y}) = f[p] + SumFunctionOnSet(f, (U \ {y}) \ {p})
  BY <1>6, <1>7, <1>8
<1>11. (U \ {y}) \ {p} = (U \ {p}) \ {y}
  OBVIOUS
<1>12. f[y] \in Int /\ f[p] \in Int /\ SumFunctionOnSet(f, (U \ {p}) \ {y}) \in Int
  <2>1. IsFiniteSet((U \ {p}) \ {y})
    BY <1>4, FS_Subset
  <2>2. \A z \in (U \ {p}) \ {y} : f[z] \in Int
    BY <1>4
  <2>3. SumFunctionOnSet(f, (U \ {p}) \ {y}) \in Int
    BY <2>1, <2>2, SumType
  <2>4. QED BY <1>4, <1>5, <1>6, <2>3
<1> DEFINE rest == SumFunctionOnSet(f, (U \ {p}) \ {y})
<1>13. /\ SumFunctionOnSet(f, U) = f[p] + (f[y] + rest)
       /\ SumFunctionOnSet(f, U \ {y}) = f[p] + rest
  BY <1>6, <1>9, <1>10, <1>11
<1>14. f[y] \in Int /\ f[p] \in Int /\ rest \in Int
  BY <1>12
<1> HIDE DEF rest
<1>15. f[p] + (f[y] + rest) = f[y] + (f[p] + rest)
  BY <1>14
<1>16. QED BY <1>5, <1>13, <1>15

\* One more element.
LEMMA SumAdd ==
    ASSUME NEW f, NEW S, IsFiniteSet(S), NEW x, x \notin S, \A y \in S \cup {x} : f[y] \in Int
    PROVE  SumFunctionOnSet(f, S \cup {x}) = SumFunctionOnSet(f, S) + f[x]
<1>1. IsFiniteSet(S \cup {x}) /\ (S \cup {x}) \ {x} = S
  BY FS_AddElement
<1>2. SumFunctionOnSet(f, S \cup {x}) = f[x] + SumFunctionOnSet(f, S)
  BY <1>1, SumRemove
<1>3. SumFunctionOnSet(f, S) \in Int /\ f[x] \in Int
  BY SumType
<1>4. QED BY <1>2, <1>3

\* One element's value changes.
LEMMA SumChange ==
    ASSUME NEW f, NEW h, NEW S, IsFiniteSet(S), NEW x \in S,
           \A y \in S : f[y] \in Int /\ h[y] \in Int /\ (y # x => h[y] = f[y])
    PROVE  SumFunctionOnSet(h, S) = SumFunctionOnSet(f, S) + h[x] - f[x]
<1>1. IsFiniteSet(S \ {x}) BY FS_Subset
<1>2. SumFunctionOnSet(f, S \ {x}) = SumFunctionOnSet(h, S \ {x}) BY <1>1, SumSame
<1>3. SumFunctionOnSet(f, S) = f[x] + SumFunctionOnSet(f, S \ {x})
  BY SumRemove
<1>4. SumFunctionOnSet(h, S) = h[x] + SumFunctionOnSet(h, S \ {x})
  BY SumRemove
<1>5. SumFunctionOnSet(f, S \ {x}) \in Int /\ f[x] \in Int /\ h[x] \in Int BY <1>1, SumType
<1>6. QED BY <1>2, <1>3, <1>4, <1>5

\* The sum of a function over its whole domain.
LEMMA SumWhole ==
    ASSUME NEW S, NEW f, f = [x \in S |-> f[x]]
    PROVE  SumFunction(f) = SumFunctionOnSet(f, S)
  BY DEF SumFunction

-----------------------------------------------------------------------------
(***************************************************************************)
(* Loops over a finite set in a chosen order: c[T] is the element of T     *)
(* that comes last, h[<<x, y>>] what the step of x makes of the result y   *)
(* so far.                                                                 *)
(***************************************************************************)
Loops(g, h, c, base, S) ==
    g = [T \in SUBSET S |-> IF T = {} THEN base ELSE h[<<c[T], g[T \ {c[T]}]>>]]

\* Two loops agree wherever both are defined.
LEMMA LoopsUnique ==
    ASSUME NEW h, NEW c, NEW base, NEW A, NEW B, NEW g, NEW k,
           Loops(g, h, c, base, A), Loops(k, h, c, base, B),
           NEW T, IsFiniteSet(T), T \subseteq A, T \subseteq B,
           \A U \in SUBSET T : U # {} => c[U] \in U
    PROVE  g[T] = k[T]
<1> DEFINE C == {U \in SUBSET T : g[U] # k[U]}
<1>1. SUFFICES ASSUME C # {} PROVE FALSE
  OBVIOUS
<1>2. \A U \in C : IsFiniteSet(U)
  BY FS_Subset
<1> HIDE DEF C
<1>3. PICK U \in C : \A V \in C : Cardinality(U) <= Cardinality(V)
  BY <1>1, <1>2, SmallestSet
<1>4. U \subseteq T /\ g[U] # k[U] /\ IsFiniteSet(U)
  BY <1>2, <1>3 DEF C
<1>5. g[U] = IF U = {} THEN base ELSE h[<<c[U], g[U \ {c[U]}]>>]
  BY <1>4 DEF Loops
<1>6. k[U] = IF U = {} THEN base ELSE h[<<c[U], k[U \ {c[U]}]>>]
  BY <1>4 DEF Loops
<1>7. U # {}
  BY <1>4, <1>5, <1>6
<1>8. c[U] \in U /\ IsFiniteSet(U \ {c[U]}) /\ Cardinality(U \ {c[U]}) < Cardinality(U)
  BY <1>4, <1>7, OneLess
<1>9. U \ {c[U]} \notin C
  <2>1. Cardinality(U) \in Nat /\ Cardinality(U \ {c[U]}) \in Nat
    BY <1>4, <1>8, FS_CardinalityType
  <2>2. QED BY <1>3, <1>8, <2>1
<1>10. g[U \ {c[U]}] = k[U \ {c[U]}]
  BY <1>4, <1>9 DEF C
<1>11. QED BY <1>4, <1>5, <1>6, <1>7, <1>10

\* Every finite set has one.
LEMMA LoopsExists ==
    ASSUME NEW h, NEW c, NEW base, NEW S, IsFiniteSet(S),
           \A U \in SUBSET S : U # {} => c[U] \in U
    PROVE  \E g : Loops(g, h, c, base, S)
<1> DEFINE C == {A \in SUBSET S : ~ \E g : Loops(g, h, c, base, A)}
<1>1. SUFFICES ASSUME C # {} PROVE FALSE
  OBVIOUS
<1>2. \A A \in C : IsFiniteSet(A)
  BY FS_Subset
<1> HIDE DEF C
<1>3. PICK A \in C : \A B \in C : Cardinality(A) <= Cardinality(B)
  BY <1>1, <1>2, SmallestSet
<1>4. A \subseteq S /\ IsFiniteSet(A) /\ ~ \E g : Loops(g, h, c, base, A)
  BY <1>2, <1>3 DEF C
<1> DEFINE G(U) == CHOOSE g : Loops(g, h, c, base, U)
<1>5. ASSUME NEW U, U \subseteq A, U # A PROVE Loops(G(U), h, c, base, U)
  <2>1. IsFiniteSet(U) /\ Cardinality(U) < Cardinality(A)
    <3>1. PICK x \in A : x \notin U BY <1>5
    <3>2. U \subseteq A \ {x} BY <1>5, <3>1
    <3>3. IsFiniteSet(U) BY <1>4, <1>5, FS_Subset
    <3>4. Cardinality(U) <= Cardinality(A \ {x}) /\ Cardinality(A \ {x}) < Cardinality(A)
          /\ IsFiniteSet(A \ {x})
      BY <1>4, <3>1, <3>2, OneLess, FS_Subset
    <3>5. Cardinality(U) \in Nat /\ Cardinality(A \ {x}) \in Nat /\ Cardinality(A) \in Nat
      BY <1>4, <3>3, <3>4, FS_CardinalityType
    <3>6. QED BY <3>3, <3>4, <3>5
  <2>2. Cardinality(U) \in Nat /\ Cardinality(A) \in Nat
    BY <1>4, <2>1, FS_CardinalityType
  <2>3. U \notin C BY <1>3, <2>1, <2>2
  <2>4. \E g : Loops(g, h, c, base, U) BY <1>4, <1>5, <2>3 DEF C
  <2>5. QED BY <2>4
<1> HIDE DEF G
<1> DEFINE g == [T \in SUBSET A |-> IF T = {} THEN base
                                    ELSE h[<<c[T], G(T \ {c[T]})[T \ {c[T]}]>>]]
<1>6. ASSUME NEW U, U \subseteq A, U # A PROVE g[U] = G(U)[U]
  <2>1. G(U)[U] = IF U = {} THEN base ELSE h[<<c[U], G(U)[U \ {c[U]}]>>]
    <3>1. PICK k : k = G(U) OBVIOUS
    <3>2. Loops(k, h, c, base, U) BY <1>5, <1>6, <3>1
    <3>3. k[U] = IF U = {} THEN base ELSE h[<<c[U], k[U \ {c[U]}]>>] BY <3>2 DEF Loops
    <3>4. QED BY <3>1, <3>3
  <2>2. CASE U = {}
    BY <2>1, <2>2
  <2>3. CASE U # {}
    <3> DEFINE V == U \ {c[U]}
    <3>1. V \subseteq U /\ V \subseteq A /\ V # A /\ IsFiniteSet(V)
      BY <1>4, <1>6, <2>3, FS_Subset
    <3>2. \A W \in SUBSET V : W # {} => c[W] \in W BY <1>4, <3>1
    <3>3. G(U)[V] = G(V)[V]
      BY <1>5, <1>6, <3>1, <3>2, LoopsUnique, SMTT(30)
    <3>4. g[U] = h[<<c[U], G(V)[V]>>]
      BY <1>6, <2>3
    <3>5. QED BY <2>1, <2>3, <3>3, <3>4
  <2>4. QED BY <2>2, <2>3
<1>7. ASSUME NEW T \in SUBSET A, T # {} PROVE g[T \ {c[T]}] = G(T \ {c[T]})[T \ {c[T]}]
  <2>1. c[T] \in T BY <1>4, <1>7
  <2>2. T \ {c[T]} \subseteq A /\ T \ {c[T]} # A BY <2>1
  <2>3. QED BY <1>6, <2>2
<1>8. Loops(g, h, c, base, A)
  <2>1. \A T \in SUBSET A :
          (IF T = {} THEN base ELSE h[<<c[T], G(T \ {c[T]})[T \ {c[T]}]>>])
            = (IF T = {} THEN base ELSE h[<<c[T], g[T \ {c[T]}]>>])
    BY <1>7
  <2>2. g = [T \in SUBSET A |-> IF T = {} THEN base ELSE h[<<c[T], g[T \ {c[T]}]>>]]
    BY <2>1
  <2>3. QED BY <2>2 DEF Loops
<1>9. QED BY <1>4, <1>8

\* What holds before the loop and is kept by every step holds after it.
LEMMA LoopKeeps ==
    ASSUME NEW S, IsFiniteSet(S), NEW c, NEW g, NEW Good, g[{}] \in Good,
           \A U \in SUBSET S : U # {} => c[U] \in U,
           \A U \in SUBSET S : U # {} /\ g[U \ {c[U]}] \in Good => g[U] \in Good
    PROVE  \A U \in SUBSET S : g[U] \in Good
<1> DEFINE C == {U \in SUBSET S : g[U] \notin Good}
<1>1. SUFFICES ASSUME C # {} PROVE FALSE
  OBVIOUS
<1>2. \A U \in C : IsFiniteSet(U)
  BY FS_Subset
<1> HIDE DEF C
<1>3. PICK U \in C : \A V \in C : Cardinality(U) <= Cardinality(V)
  BY <1>1, <1>2, SmallestSet
<1>4. U \subseteq S /\ g[U] \notin Good /\ IsFiniteSet(U) /\ U # {}
  BY <1>2, <1>3 DEF C
<1>5. c[U] \in U /\ IsFiniteSet(U \ {c[U]}) /\ Cardinality(U \ {c[U]}) < Cardinality(U)
  BY <1>4, OneLess
<1>6. U \ {c[U]} \notin C
  <2>1. Cardinality(U) \in Nat /\ Cardinality(U \ {c[U]}) \in Nat
    BY <1>4, <1>5, FS_CardinalityType
  <2>2. QED BY <1>3, <1>5, <2>1
<1>7. g[U \ {c[U]}] \in Good
  BY <1>4, <1>6 DEF C
<1>8. QED BY <1>4, <1>7

=============================================================================
