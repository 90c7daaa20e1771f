------------------------------ MODULE SumTheorems ------------------------------
(***************************************************************************)
(* Sums of a function over a finite set (SumFunctionOnSet): what SUM(...)   *)
(* in a query returns when one row is added, removed or left alone.         *)
(*                                                                          *)
(* The sum is defined by recursion on the set, element by element in an     *)
(* order that CHOOSE fixes.  The lemmas first show that this recursion      *)
(* defines a function, by a smallest set on which it would not, and then    *)
(* that any element may be taken out first.                                 *)
(***************************************************************************)
EXTENDS Functions, Integers, FiniteSets, FiniteSetTheorems, WellFoundedInduction, TLAPS

\* The element that the recursion takes out of a set first.
First(s) == CHOOSE x \in s : TRUE

\* g is the table of the sums of f over the subsets of S.
Sums(f, S, g) ==
    g = [s \in SUBSET S |-> IF s = {} THEN 0 ELSE f[First(s)] + g[s \ {First(s)}]]

LEMMA FirstIn ==
  ASSUME NEW s, s # {}
  PROVE  First(s) \in s
  BY DEF First

\* A family of subsets of a finite set has a member that contains no other.
LEMMA SmallestMember ==
  ASSUME NEW S, IsFiniteSet(S), NEW F \in SUBSET (SUBSET S), F # {}
  PROVE  \E T \in F : \A U \in SUBSET T : U # T => U \notin F
<1> DEFINE R == StrictSubsetOrdering(S)
<1>1. IsWellFoundedOn(R, FiniteSubsetsOf(S))
  BY FS_StrictSubsetOrderingWellFounded
<1>2. ASSUME NEW T \in F  PROVE T \in FiniteSubsetsOf(S)
  <2>1. T \in SUBSET S
    OBVIOUS
  <2>2. IsFiniteSet(T)
    BY <2>1, FS_Subset
  <2> QED  BY <2>1, <2>2 DEF FiniteSubsetsOf
<1>3. \E T \in F : \A U \in F : ~ (<<U, T>> \in R)
  <2> HIDE DEF R
  <2>1. F \subseteq FiniteSubsetsOf(S)
    BY <1>2
  <2> QED  BY <1>1, <2>1, WFMin
<1>4. PICK T \in F : \A U \in F : ~ (<<U, T>> \in R)
  BY <1>3
<1>5. ASSUME NEW U \in SUBSET T, U # T, U \in F  PROVE FALSE
  <2>1. <<U, T>> \in R
    BY <1>5 DEF StrictSubsetOrdering
  <2> QED  BY <1>4, <1>5, <2>1
<1> QED  BY <1>5

-----------------------------------------------------------------------------
(* The recursion defines a function                                          *)

\* Tables of sums agree on the sets they share.
LEMMA SumsAgree ==
  ASSUME NEW f, NEW S, IsFiniteSet(S), NEW T \in SUBSET S,
         NEW g, Sums(f, S, g), NEW h, Sums(f, T, h)
  PROVE  \A s \in SUBSET T : g[s] = h[s]
<1> DEFINE Differ == {s \in SUBSET T : g[s] # h[s]}
<1>1. SUFFICES ASSUME Differ # {}  PROVE FALSE
  OBVIOUS
<1>2. PICK s \in Differ : \A u \in SUBSET s : u # s => u \notin Differ
  <2>1. Differ \in SUBSET (SUBSET S)
    OBVIOUS
  <2> HIDE DEF Differ
  <2> QED  BY <1>1, <2>1, SmallestMember
<1>3. s \in SUBSET T /\ s \in SUBSET S /\ g[s] # h[s]
  OBVIOUS
<1>4. CASE s = {}
  BY <1>3, <1>4 DEF Sums
<1>5. CASE s # {}
  <2> DEFINE u == s \ {First(s)}
  <2>1. u \in SUBSET s /\ u # s
    BY <1>5, FirstIn
  <2>2. g[u] = h[u]
    BY <1>2, <1>3, <2>1
  <2>3. g[s] = f[First(s)] + g[u]
    BY <1>3, <1>5 DEF Sums
  <2>4. h[s] = f[First(s)] + h[u]
    BY <1>3, <1>5 DEF Sums
  <2> QED  BY <1>3, <2>2, <2>3, <2>4
<1> QED  BY <1>4, <1>5

\* Every finite set has its table of sums.
LEMMA SumsExist ==
  ASSUME NEW f, NEW S, IsFiniteSet(S)
  PROVE  \E g : Sums(f, S, g)
<1> DEFINE Without == {T \in SUBSET S : ~ \E g : Sums(f, T, g)}
<1>1. SUFFICES ASSUME Without # {}  PROVE FALSE
  OBVIOUS
<1>2. PICK T \in Without : \A U \in SUBSET T : U # T => U \notin Without
  <2>1. Without \in SUBSET (SUBSET S)
    OBVIOUS
  <2> HIDE DEF Without
  <2> QED  BY <1>1, <2>1, SmallestMember
<1>3. T \in SUBSET S
  OBVIOUS
<1> DEFINE Table(U) == CHOOSE g : Sums(f, U, g)
<1>4. ASSUME NEW U \in SUBSET T, U # T  PROVE Sums(f, U, Table(U)) /\ IsFiniteSet(U)
  <2>1. \E g : Sums(f, U, g)
    BY <1>2, <1>3, <1>4
  <2>2. IsFiniteSet(U)
    BY <1>3, FS_Subset
  <2> QED  BY <2>1, <2>2
<1> HIDE DEF Table
<1> DEFINE g == [s \in SUBSET T |->
                    IF s = {} THEN 0
                    ELSE f[First(s)] + Table(s \ {First(s)})[s \ {First(s)}]]
<1>5. ASSUME NEW s \in SUBSET T, s # {}
      PROVE  Table(s \ {First(s)})[s \ {First(s)}] = g[s \ {First(s)}]
  <2> DEFINE U == s \ {First(s)}
  <2>1. U \in SUBSET T /\ U # T
    BY <1>5, FirstIn
  <2>2. Sums(f, U, Table(U)) /\ IsFiniteSet(U)
    BY <1>4, <2>1
  <2>3. CASE U = {}
    BY <2>2, <2>3 DEF Sums
  <2>4. CASE U # {}
    <3> DEFINE V == U \ {First(U)}
    <3>1. V \in SUBSET U /\ V \in SUBSET T /\ V # T
      BY <2>1, <2>4, FirstIn
    <3>2. Sums(f, V, Table(V))
      BY <1>4, <3>1
    <3>3. Table(U)[V] = Table(V)[V]
      <4>1. V \in SUBSET V
        OBVIOUS
      <4> HIDE DEF U, V
      <4> QED  BY <2>2, <3>1, <3>2, <4>1, SumsAgree
    <3>4. Table(U)[U] = f[First(U)] + Table(U)[V]
      BY <2>2, <2>4 DEF Sums
    <3>5. g[U] = f[First(U)] + Table(V)[V]
      BY <2>1, <2>4
    <3> QED  BY <3>3, <3>4, <3>5
  <2> QED  BY <2>3, <2>4
<1>6. g = [s \in SUBSET T |-> IF s = {} THEN 0 ELSE f[First(s)] + g[s \ {First(s)}]]
  <2> DEFINE h == [s \in SUBSET T |-> IF s = {} THEN 0 ELSE f[First(s)] + g[s \ {First(s)}]]
  <2>1. ASSUME NEW s \in SUBSET T  PROVE g[s] = h[s]
    BY <1>5
  <2> QED  BY <2>1
<1>7. Sums(f, T, g)
  <2> HIDE DEF g
  <2> QED  BY <1>6 DEF Sums
<1> QED  BY <1>2, <1>7

\* The sum over a finite set is the entry of its table.
LEMMA SumInTable ==
  ASSUME NEW f, NEW S, IsFiniteSet(S), NEW g, Sums(f, S, g), NEW T \in SUBSET S
  PROVE  SumFunctionOnSet(f, T) = g[T]
<1> DEFINE Table == CHOOSE h : Sums(f, T, h)
<1>1. IsFiniteSet(T)
  BY FS_Subset
<1>2. Sums(f, T, Table)
  BY <1>1, SumsExist
<1>3. SumFunctionOnSet(f, T) = Table[T]
  BY DEF SumFunctionOnSet, FoldFunctionOnSet, MapThenFoldSet, Sums, First
<1> HIDE DEF Table
<1> QED  BY <1>2, <1>3, SumsAgree

-----------------------------------------------------------------------------
(* The laws of sums                                                          *)

\* The sum over no rows is zero.
LEMMA SumEmpty ==
  ASSUME NEW f
  PROVE  SumFunctionOnSet(f, {}) = 0
<1>1. IsFiniteSet({})
  BY FS_EmptySet
<1>2. PICK g : Sums(f, {}, g)
  BY <1>1, SumsExist
<1>3. g[{}] = 0
  BY <1>2 DEF Sums
<1> QED  BY <1>1, <1>2, <1>3, SumInTable

LEMMA SumFirst ==
  ASSUME NEW f, NEW S, IsFiniteSet(S), S # {}
  PROVE  SumFunctionOnSet(f, S) = f[First(S)] + SumFunctionOnSet(f, S \ {First(S)})
<1>1. PICK g : Sums(f, S, g)
  BY SumsExist
<1>2. g[S] = f[First(S)] + g[S \ {First(S)}]
  BY <1>1 DEF Sums
<1>3. S \in SUBSET S /\ S \ {First(S)} \in SUBSET S
  OBVIOUS
<1>4. SumFunctionOnSet(f, S) = g[S]
  BY <1>1, <1>3, SumInTable
<1>5. SumFunctionOnSet(f, S \ {First(S)}) = g[S \ {First(S)}]
  BY <1>1, <1>3, SumInTable
<1> QED  BY <1>2, <1>4, <1>5

\* A sum of integers is an integer.
LEMMA SumInt ==
  ASSUME NEW f, NEW S, IsFiniteSet(S), \A x \in S : f[x] \in Int
  PROVE  SumFunctionOnSet(f, S) \in Int
<1> DEFINE Bad == {T \in SUBSET S : SumFunctionOnSet(f, T) \notin Int}
<1>1. SUFFICES ASSUME Bad # {}  PROVE FALSE
  OBVIOUS
<1>2. PICK T \in Bad : \A U \in SUBSET T : U # T => U \notin Bad
  <2>1. Bad \in SUBSET (SUBSET S)
    OBVIOUS
  <2> HIDE DEF Bad
  <2> QED  BY <1>1, <2>1, SmallestMember
<1>3. T \in SUBSET S /\ SumFunctionOnSet(f, T) \notin Int /\ IsFiniteSet(T)
  BY FS_Subset
<1>4. T # {}
  BY <1>3, SumEmpty
<1>5. First(T) \in T
  BY <1>4, FirstIn
<1>6. SumFunctionOnSet(f, T \ {First(T)}) \in Int
  BY <1>2, <1>3, <1>5
<1>7. SumFunctionOnSet(f, T) = f[First(T)] + SumFunctionOnSet(f, T \ {First(T)})
  BY <1>3, <1>4, SumFirst
<1> QED  BY <1>3, <1>5, <1>6, <1>7

\* A sum of natural numbers is one, and not less than any of them.
LEMMA SumNat ==
  ASSUME NEW f, NEW S, IsFiniteSet(S), \A x \in S : f[x] \in Nat
  PROVE  SumFunctionOnSet(f, S) \in Nat
<1> DEFINE Bad == {T \in SUBSET S : SumFunctionOnSet(f, T) \notin Nat}
<1>1. SUFFICES ASSUME Bad # {}  PROVE FALSE
  OBVIOUS
<1>2. PICK T \in Bad : \A U \in SUBSET T : U # T => U \notin Bad
  <2>1. Bad \in SUBSET (SUBSET S)
    OBVIOUS
  <2> HIDE DEF Bad
  <2> QED  BY <1>1, <2>1, SmallestMember
<1>3. T \in SUBSET S /\ SumFunctionOnSet(f, T) \notin Nat /\ IsFiniteSet(T)
  BY FS_Subset
<1>4. T # {}
  BY <1>3, SumEmpty
<1>5. First(T) \in T
  BY <1>4, FirstIn
<1>6. SumFunctionOnSet(f, T \ {First(T)}) \in Nat
  BY <1>2, <1>3, <1>5
<1>7. SumFunctionOnSet(f, T) = f[First(T)] + SumFunctionOnSet(f, T \ {First(T)})
  BY <1>3, <1>4, SumFirst
<1> QED  BY <1>3, <1>5, <1>6, <1>7

\* Any element may be taken out of the sum first.
LEMMA SumRemove ==
  ASSUME NEW f, NEW S, IsFiniteSet(S), \A x \in S : f[x] \in Int, NEW x \in S
  PROVE  SumFunctionOnSet(f, S) = f[x] + SumFunctionOnSet(f, S \ {x})
<1> DEFINE Sum(T) == SumFunctionOnSet(f, T)
           Bad == {T \in SUBSET S : \E y \in T : Sum(T) # f[y] + Sum(T \ {y})}
<1>1. SUFFICES ASSUME Bad # {}  PROVE FALSE
  OBVIOUS
<1>2. PICK T \in Bad : \A U \in SUBSET T : U # T => U \notin Bad
  <2>1. Bad \in SUBSET (SUBSET S)
    OBVIOUS
  <2> HIDE DEF Bad
  <2> QED  BY <1>1, <2>1, SmallestMember
<1>3. PICK y \in T : Sum(T) # f[y] + Sum(T \ {y})
  BY <1>2
<1> DEFINE p == First(T)
<1>4. T \in SUBSET S /\ IsFiniteSet(T) /\ p \in T
  BY <1>2, FS_Subset, FirstIn
<1> HIDE DEF p
<1>5. Sum(T) = f[p] + Sum(T \ {p})
  BY <1>4, SumFirst DEF p
<1>6. p # y
  BY <1>3, <1>5
<1>7. Sum(T \ {p}) = f[y] + Sum((T \ {p}) \ {y})
  BY <1>2, <1>4, <1>6
<1>8. Sum(T \ {y}) = f[p] + Sum((T \ {y}) \ {p})
  BY <1>2, <1>4, <1>6
<1>9. (T \ {p}) \ {y} = (T \ {y}) \ {p}
  OBVIOUS
<1>10. Sum((T \ {y}) \ {p}) \in Int
  <2>1. (T \ {y}) \ {p} \in SUBSET S
    BY <1>4
  <2>2. IsFiniteSet((T \ {y}) \ {p})
    BY <2>1, FS_Subset
  <2> QED  BY <2>1, <2>2, SumInt
<1>11. f[p] \in Int /\ f[y] \in Int
  BY <1>4
<1> HIDE DEF Sum
<1>12. f[p] + (f[y] + Sum((T \ {y}) \ {p})) = f[y] + (f[p] + Sum((T \ {y}) \ {p}))
  BY <1>10, <1>11
<1> QED  BY <1>3, <1>5, <1>7, <1>8, <1>9, <1>12

\* A new row adds its value.
LEMMA SumAdd ==
  ASSUME NEW f, NEW S, IsFiniteSet(S), NEW x, x \notin S, \A y \in S \cup {x} : f[y] \in Int
  PROVE  SumFunctionOnSet(f, S \cup {x}) = SumFunctionOnSet(f, S) + f[x]
<1>1. IsFiniteSet(S \cup {x}) /\ (S \cup {x}) \ {x} = S
  BY FS_AddElement
<1>2. SumFunctionOnSet(f, S \cup {x}) = f[x] + SumFunctionOnSet(f, S)
  BY <1>1, SumRemove
<1>3. SumFunctionOnSet(f, S) \in Int /\ f[x] \in Int
  BY SumInt
<1> QED  BY <1>2, <1>3

\* The sum depends on the rows it is taken over only.
LEMMA SumSame ==
  ASSUME NEW f, NEW g, NEW S, IsFiniteSet(S), \A x \in S : f[x] = g[x]
  PROVE  SumFunctionOnSet(f, S) = SumFunctionOnSet(g, S)
<1> DEFINE Bad == {T \in SUBSET S : SumFunctionOnSet(f, T) # SumFunctionOnSet(g, T)}
<1>1. SUFFICES ASSUME Bad # {}  PROVE FALSE
  OBVIOUS
<1>2. PICK T \in Bad : \A U \in SUBSET T : U # T => U \notin Bad
  <2>1. Bad \in SUBSET (SUBSET S)
    OBVIOUS
  <2> HIDE DEF Bad
  <2> QED  BY <1>1, <2>1, SmallestMember
<1>3. T \in SUBSET S /\ SumFunctionOnSet(f, T) # SumFunctionOnSet(g, T) /\ IsFiniteSet(T)
  BY FS_Subset
<1>4. T # {}
  BY <1>3, SumEmpty
<1>5. First(T) \in T
  BY <1>4, FirstIn
<1>6. SumFunctionOnSet(f, T \ {First(T)}) = SumFunctionOnSet(g, T \ {First(T)})
  BY <1>2, <1>3, <1>5
<1>7. /\ SumFunctionOnSet(f, T) = f[First(T)] + SumFunctionOnSet(f, T \ {First(T)})
      /\ SumFunctionOnSet(g, T) = g[First(T)] + SumFunctionOnSet(g, T \ {First(T)})
  BY <1>3, <1>4, SumFirst
<1> QED  BY <1>3, <1>5, <1>6, <1>7

\* Fewer rows, each with no more than before, have no larger sum.
LEMMA SumMonotone ==
  ASSUME NEW f, NEW g, NEW S, IsFiniteSet(S), NEW T \in SUBSET S,
         \A x \in S : f[x] \in Nat, \A x \in T : g[x] \in Nat /\ g[x] <= f[x]
  PROVE  SumFunctionOnSet(g, T) <= SumFunctionOnSet(f, S)
<1> DEFINE More(U) == SumFunctionOnSet(g, U \cap T) <= SumFunctionOnSet(f, U)
           Bad == {U \in SUBSET S : ~More(U)}
<1>1. SUFFICES ASSUME Bad # {}  PROVE FALSE
  <2>1. S \in Bad \/ More(S)
    OBVIOUS
  <2>2. S \cap T = T
    OBVIOUS
  <2> QED  BY <1>1, <2>1, <2>2
<1>2. PICK U \in Bad : \A V \in SUBSET U : V # U => V \notin Bad
  <2>1. Bad \in SUBSET (SUBSET S)
    OBVIOUS
  <2> HIDE DEF Bad
  <2> QED  BY <1>1, <2>1, SmallestMember
<1>3. U \in SUBSET S /\ ~More(U) /\ IsFiniteSet(U) /\ IsFiniteSet(U \cap T)
  BY FS_Subset
<1>4. PICK p : p \in U
  <2>1. CASE U = {}
    <3>1. U \cap T = {}
      BY <2>1
    <3> QED  BY <1>3, <2>1, <3>1, SumEmpty
  <2> QED  BY <2>1
<1>5. More(U \ {p})
  BY <1>2, <1>3, <1>4
<1>6. SumFunctionOnSet(f, U) = f[p] + SumFunctionOnSet(f, U \ {p})
  BY <1>3, <1>4, SumRemove
<1>7. SumFunctionOnSet(f, U \ {p}) \in Nat /\ SumFunctionOnSet(g, (U \ {p}) \cap T) \in Nat
  <2>1. IsFiniteSet(U \ {p}) /\ IsFiniteSet((U \ {p}) \cap T)
    BY <1>3, FS_Subset
  <2> QED  BY <1>3, <2>1, SumNat
<1>8. CASE p \in T
  <2>1. SumFunctionOnSet(g, U \cap T) = g[p] + SumFunctionOnSet(g, (U \cap T) \ {p})
    BY <1>3, <1>4, <1>8, SumRemove
  <2>2. (U \cap T) \ {p} = (U \ {p}) \cap T
    OBVIOUS
  <2>3. f[p] \in Nat /\ g[p] \in Nat /\ g[p] <= f[p]
    BY <1>3, <1>4, <1>8
  <2> QED  BY <1>3, <1>5, <1>6, <1>7, <2>1, <2>2, <2>3
<1>9. CASE p \notin T
  <2>1. (U \ {p}) \cap T = U \cap T /\ f[p] \in Nat
    BY <1>3, <1>4, <1>9
  <2> QED  BY <1>3, <1>5, <1>6, <1>7, <2>1
<1> QED  BY <1>8, <1>9

\* When one row alone may grow, by k at most, so may the sum.
LEMMA SumShift ==
  ASSUME NEW f, NEW g, NEW S, IsFiniteSet(S), NEW T \in SUBSET S, NEW x \in T, NEW k \in Int,
         \A y \in S : f[y] \in Nat, \A y \in T : g[y] \in Nat,
         \A y \in T \ {x} : g[y] <= f[y], g[x] <= f[x] + k
  PROVE  SumFunctionOnSet(g, T) <= SumFunctionOnSet(f, S) + k
<1>1. IsFiniteSet(T) /\ IsFiniteSet(S \ {x}) /\ IsFiniteSet(T \ {x})
  BY FS_Subset
<1>2. /\ SumFunctionOnSet(f, S) = f[x] + SumFunctionOnSet(f, S \ {x})
      /\ SumFunctionOnSet(g, T) = g[x] + SumFunctionOnSet(g, T \ {x})
  BY <1>1, SumRemove
<1>3. SumFunctionOnSet(g, T \ {x}) <= SumFunctionOnSet(f, S \ {x})
  <2>1. T \ {x} \in SUBSET (S \ {x})
    OBVIOUS
  <2> QED  BY <1>1, <2>1, SumMonotone
<1>4. SumFunctionOnSet(g, T \ {x}) \in Nat /\ SumFunctionOnSet(f, S \ {x}) \in Nat
  BY <1>1, SumNat
<1>5. f[x] \in Nat /\ g[x] \in Nat
  OBVIOUS
<1> QED  BY <1>2, <1>3, <1>4, <1>5
===============================================================================
