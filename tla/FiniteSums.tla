----------------------------- MODULE FiniteSums -----------------------------
(***************************************************************************)
(* What SumFunctionOnSet of the community modules adds up to, for every    *)
(* finite set of indices: the laws of sums that the accounting of the      *)
(* allocators rests on.  The fold of the library is a function defined by  *)
(* recursion over the subsets of its set; that there is such a function,   *)
(* and what it returns, is proved here by taking a smallest counterexample.*)
(***************************************************************************)
EXTENDS Integers, Functions, FiniteSetTheorems, WellFoundedInduction, TLAPS

(* Every nonempty set of natural numbers has a least element: induction    *)
(* over naturals, as used for the sets of counterexamples below.           *)
LEMMA LeastElement ==
  ASSUME NEW S \in SUBSET Nat, S # {}
  PROVE  \E m \in S : \A n \in S : m <= n
<1>1. PICK m \in S : \A n \in S : ~(<<n, m>> \in OpToRel(<, Nat))
  BY WFMin, NatLessThanWellFounded, Zenon
<1>2. ASSUME NEW n \in S PROVE m <= n
  <2>1. m \in Nat /\ n \in Nat
    OBVIOUS
  <2>2. ~(n < m)
    BY <1>1, <2>1 DEF OpToRel
  <2> QED
    BY <2>1, <2>2
<1> QED
  BY <1>2

(* Of a nonempty set of finite sets, one has no proper subset in it.       *)
LEMMA SmallestSet ==
  ASSUME NEW Bad, Bad # {}, \A T \in Bad : IsFiniteSet(T)
  PROVE  \E T \in Bad : \A U \in Bad : ~(U \subseteq T /\ U # T)
<1> DEFINE sizes == {Cardinality(T) : T \in Bad}
<1>1. sizes \in SUBSET Nat /\ sizes # {}
  BY FS_CardinalityType
<1>2. PICK n \in sizes : \A k \in sizes : n <= k
  BY <1>1, LeastElement
<1>3. PICK T \in Bad : Cardinality(T) = n
  OBVIOUS
<1>4. ASSUME NEW U \in Bad, U \subseteq T, U # T
      PROVE  FALSE
  <2>1. Cardinality(U) \in Nat /\ Cardinality(T) \in Nat /\ n <= Cardinality(U)
    BY <1>2, FS_CardinalityType
  <2>2. Cardinality(U) <= Cardinality(T) /\ Cardinality(T) # Cardinality(U)
    <3>1. IsFiniteSet(T) /\ U \in SUBSET T
      BY <1>4
    <3> QED
      BY <1>4, <3>1, FS_Subset
  <2> QED
    BY <1>3, <2>1, <2>2
<1> QED
  BY <1>4

-----------------------------------------------------------------------------
(* Functions defined by recursion over the subsets of a finite set: the    *)
(* value of a set from one of its elements and the value of the others.    *)

FoldsUp(h, base, pick, step, S) ==
  h = [s \in SUBSET S |->
         IF s = {} THEN base ELSE step[<<pick[s], h[s \ {pick[s]}]>>]]

Picks(pick, S) == \A s \in SUBSET S : s # {} => pick[s] \in s

LEMMA FoldsAgree ==
  ASSUME NEW base, NEW pick, NEW step, NEW S, NEW T, IsFiniteSet(T), T \subseteq S,
         Picks(pick, S),
         NEW h, FoldsUp(h, base, pick, step, S), NEW k, FoldsUp(k, base, pick, step, T)
  PROVE  \A s \in SUBSET T : h[s] = k[s]
<1> DEFINE Bad == {s \in SUBSET T : h[s] # k[s]}
<1> SUFFICES ASSUME Bad # {} PROVE FALSE
  OBVIOUS
<1>1. \A s \in Bad : IsFiniteSet(s)
  BY FS_Subset
<1>2. PICK s \in Bad : \A u \in Bad : ~(u \subseteq s /\ u # s)
  <2> HIDE DEF Bad
  <2> QED
    BY <1>1, SmallestSet
<1>3. s \in SUBSET S /\ s \in SUBSET T /\ h[s] # k[s]
  OBVIOUS
<1>4. h[s] = IF s = {} THEN base ELSE step[<<pick[s], h[s \ {pick[s]}]>>]
  BY <1>3 DEF FoldsUp
<1>5. k[s] = IF s = {} THEN base ELSE step[<<pick[s], k[s \ {pick[s]}]>>]
  BY <1>3 DEF FoldsUp
<1>6. CASE s # {}
  <2> DEFINE r == s \ {pick[s]}
  <2>1. r \subseteq s /\ r # s /\ r \in SUBSET T
    BY <1>3, <1>6 DEF Picks
  <2>2. h[r] = k[r]
    BY <1>2, <2>1
  <2> QED
    BY <1>3, <1>4, <1>5, <1>6, <2>2
<1> QED
  BY <1>3, <1>4, <1>5, <1>6

LEMMA FoldsExist ==
  ASSUME NEW base, NEW pick, NEW step, NEW S, IsFiniteSet(S), Picks(pick, S)
  PROVE  \E h : FoldsUp(h, base, pick, step, S)
<1> DEFINE Bad == {T \in SUBSET S : ~\E h : FoldsUp(h, base, pick, step, T)}
<1> SUFFICES ASSUME Bad # {} PROVE FALSE
  OBVIOUS
<1>1. \A T \in Bad : IsFiniteSet(T)
  BY FS_Subset
<1>2. PICK T \in Bad : \A U \in Bad : ~(U \subseteq T /\ U # T)
  <2> HIDE DEF Bad
  <2> QED
    BY <1>1, SmallestSet
<1>3. T \in SUBSET S /\ IsFiniteSet(T) /\ ~\E h : FoldsUp(h, base, pick, step, T)
  BY <1>1
<1> DEFINE part(U) == CHOOSE h : FoldsUp(h, base, pick, step, U)
           others(U) == U \ {pick[U]}
           h == [s \in SUBSET T |->
                   IF s = {} THEN base ELSE step[<<pick[s], part(others(s))[others(s)]>>]]
<1>4. ASSUME NEW U \in SUBSET T, U # T
      PROVE  FoldsUp(part(U), base, pick, step, U) /\ IsFiniteSet(U)
  BY <1>2, <1>3, <1>4, FS_Subset
<1>5. ASSUME NEW U \in SUBSET T, U # {}
      PROVE  others(U) \subseteq U /\ others(U) \in SUBSET T /\ others(U) # U /\ others(U) # T
  BY <1>3, <1>5 DEF Picks
<1>6. ASSUME NEW U \in SUBSET T, U # T
      PROVE  h[U] = part(U)[U]
  <2>1. U \in SUBSET U /\ FoldsUp(part(U), base, pick, step, U)
    BY <1>4, <1>6
  <2>2. part(U)[U] = IF U = {} THEN base ELSE step[<<pick[U], part(U)[others(U)]>>]
    BY <2>1 DEF FoldsUp
  <2>3. CASE U # {}
    <3>1. others(U) \subseteq U /\ others(U) \in SUBSET T /\ others(U) # T
      BY <1>5, <2>3
    <3>2. FoldsUp(part(others(U)), base, pick, step, others(U)) /\ IsFiniteSet(others(U))
      BY <1>4, <3>1
    <3>3. Picks(pick, U)
      BY <1>3 DEF Picks
    <3> HIDE DEF part, others
    <3>4. part(U)[others(U)] = part(others(U))[others(U)]
      BY <2>1, <3>1, <3>2, <3>3, FoldsAgree
    <3> QED
      BY <2>2, <2>3, <3>4
  <2> HIDE DEF part, others
  <2> QED
    BY <2>2, <2>3
<1>7. h = [s \in SUBSET T |-> IF s = {} THEN base ELSE step[<<pick[s], h[others(s)]>>]]
  <2>1. \A s \in SUBSET T :
          (IF s = {} THEN base ELSE step[<<pick[s], part(others(s))[others(s)]>>])
            = (IF s = {} THEN base ELSE step[<<pick[s], h[others(s)]>>])
    <3> SUFFICES ASSUME NEW s \in SUBSET T, s # {}
                 PROVE  part(others(s))[others(s)] = h[others(s)]
      <4> HIDE DEF h, part, others
      <4> QED
        OBVIOUS
    <3>1. others(s) \in SUBSET T /\ others(s) # T
      BY <1>5
    <3> HIDE DEF h, part, others
    <3> QED
      BY <1>6, <3>1
  <2>2. h = [s \in SUBSET T |->
               IF s = {} THEN base ELSE step[<<pick[s], part(others(s))[others(s)]>>]]
    OBVIOUS
  <2> HIDE DEF h, part, others
  <2> QED
    BY <2>1, <2>2
<1> QED
  BY <1>3, <1>7 DEF FoldsUp

(* Its values are of one type when its base and its step are.              *)
LEMMA FoldsHaveType ==
  ASSUME NEW V, NEW S, IsFiniteSet(S), NEW base \in V, NEW pick, Picks(pick, S),
         NEW step \in [S \X V -> V], NEW h, FoldsUp(h, base, pick, step, S)
  PROVE  h \in [SUBSET S -> V]
<1> DEFINE Bad == {s \in SUBSET S : h[s] \notin V}
<1>1. SUFFICES ASSUME Bad # {} PROVE FALSE
  BY DEF FoldsUp
<1>2. \A s \in Bad : IsFiniteSet(s)
  BY FS_Subset
<1>3. PICK s \in Bad : \A u \in Bad : ~(u \subseteq s /\ u # s)
  <2> HIDE DEF Bad
  <2> QED
    BY <1>1, <1>2, SmallestSet
<1>4. s \in SUBSET S /\ h[s] \notin V
  OBVIOUS
<1>5. h[s] = IF s = {} THEN base ELSE step[<<pick[s], h[s \ {pick[s]}]>>]
  BY <1>4 DEF FoldsUp
<1>6. CASE s # {}
  <2> DEFINE r == s \ {pick[s]}
  <2>1. r \subseteq s /\ r # s /\ r \in SUBSET S /\ pick[s] \in S
    BY <1>4, <1>6 DEF Picks
  <2>2. h[r] \in V
    BY <1>3, <2>1
  <2> HIDE DEF r
  <2>3. step[<<pick[s], h[r]>>] \in V
    BY <2>1, <2>2
  <2> QED
    BY <1>4, <1>5, <1>6, <2>3 DEF r
<1> QED
  BY <1>4, <1>5, <1>6

-----------------------------------------------------------------------------
(* The recursion of a sum.                                                 *)

Pick(s) == CHOOSE x \in s : TRUE
Rest(s) == s \ {Pick(s)}

SumsUp(h, f, S) ==
  h = [s \in SUBSET S |-> IF s = {} THEN 0 ELSE f[Pick(s)] + h[Rest(s)]]

LEMMA PickIn ==
  ASSUME NEW s, s # {}
  PROVE  Pick(s) \in s /\ Rest(s) \subseteq s /\ Rest(s) # s
BY DEF Pick, Rest

(* Two solutions agree wherever both are defined.                          *)
LEMMA SumsAgree ==
  ASSUME NEW f, NEW S, NEW T, IsFiniteSet(T), T \subseteq S,
         NEW h, SumsUp(h, f, S), NEW k, SumsUp(k, f, T)
  PROVE  \A s \in SUBSET T : h[s] = k[s]
<1> DEFINE Bad == {s \in SUBSET T : h[s] # k[s]}
<1> SUFFICES ASSUME Bad # {} PROVE FALSE
  OBVIOUS
<1>1. \A s \in Bad : IsFiniteSet(s)
  BY FS_Subset
<1>2. PICK s \in Bad : \A u \in Bad : ~(u \subseteq s /\ u # s)
  <2> HIDE DEF Bad
  <2> QED
    BY <1>1, SmallestSet
<1>3. s \in SUBSET S /\ s \in SUBSET T /\ h[s] # k[s]
  OBVIOUS
<1>4. h[s] = IF s = {} THEN 0 ELSE f[Pick(s)] + h[Rest(s)]
  BY <1>3 DEF SumsUp
<1>5. k[s] = IF s = {} THEN 0 ELSE f[Pick(s)] + k[Rest(s)]
  BY <1>3 DEF SumsUp
<1>6. CASE s # {}
  <2>1. Rest(s) \subseteq s /\ Rest(s) # s /\ Rest(s) \in SUBSET T
    BY <1>3, <1>6, PickIn
  <2>2. h[Rest(s)] = k[Rest(s)]
    BY <1>2, <2>1
  <2> QED
    BY <1>3, <1>4, <1>5, <1>6, <2>2
<1> QED
  BY <1>3, <1>4, <1>5, <1>6

(* There is one for every finite set.                                      *)
LEMMA SumsExist ==
  ASSUME NEW f, NEW S, IsFiniteSet(S)
  PROVE  \E h : SumsUp(h, f, S)
<1> DEFINE Bad == {T \in SUBSET S : ~\E h : SumsUp(h, f, T)}
<1> SUFFICES ASSUME Bad # {} PROVE FALSE
  OBVIOUS
<1>1. \A T \in Bad : IsFiniteSet(T)
  BY FS_Subset
<1>2. PICK T \in Bad : \A U \in Bad : ~(U \subseteq T /\ U # T)
  <2> HIDE DEF Bad
  <2> QED
    BY <1>1, SmallestSet
<1>3. T \in SUBSET S /\ IsFiniteSet(T) /\ ~\E h : SumsUp(h, f, T)
  BY <1>1
<1> DEFINE part(U) == CHOOSE h : SumsUp(h, f, U)
           h == [s \in SUBSET T |->
                   IF s = {} THEN 0 ELSE f[Pick(s)] + part(Rest(s))[Rest(s)]]
<1>4. ASSUME NEW U \in SUBSET T, U # T
      PROVE  SumsUp(part(U), f, U) /\ IsFiniteSet(U)
  BY <1>2, <1>3, <1>4, FS_Subset
<1>5. ASSUME NEW U \in SUBSET T, U # T
      PROVE  h[U] = part(U)[U]
  <2>1. U \in SUBSET U /\ SumsUp(part(U), f, U)
    BY <1>4, <1>5
  <2>2. part(U)[U] = IF U = {} THEN 0 ELSE f[Pick(U)] + part(U)[Rest(U)]
    BY <2>1 DEF SumsUp
  <2>3. CASE U # {}
    <3>1. Rest(U) \subseteq U /\ Rest(U) \in SUBSET T /\ Rest(U) # T
      BY <1>5, <2>3, PickIn
    <3>2. SumsUp(part(Rest(U)), f, Rest(U)) /\ IsFiniteSet(Rest(U))
      BY <1>4, <3>1
    <3> HIDE DEF part
    <3>3. part(U)[Rest(U)] = part(Rest(U))[Rest(U)]
      BY <2>1, <3>1, <3>2, SumsAgree
    <3> QED
      BY <2>2, <2>3, <3>3
  <2> HIDE DEF part
  <2> QED
    BY <2>2, <2>3
<1>6. ASSUME NEW s \in SUBSET T, s # {}
      PROVE  part(Rest(s))[Rest(s)] = h[Rest(s)]
  <2>1. Rest(s) \in SUBSET T /\ Rest(s) # T
    BY <1>6, PickIn
  <2> QED
    BY <1>5, <2>1
<1>7. h = [s \in SUBSET T |-> IF s = {} THEN 0 ELSE f[Pick(s)] + h[Rest(s)]]
  <2>1. \A s \in SUBSET T :
          (IF s = {} THEN 0 ELSE f[Pick(s)] + part(Rest(s))[Rest(s)])
            = (IF s = {} THEN 0 ELSE f[Pick(s)] + h[Rest(s)])
    <3> SUFFICES ASSUME NEW s \in SUBSET T, s # {}
                 PROVE  part(Rest(s))[Rest(s)] = h[Rest(s)]
      <4> HIDE DEF h, part
      <4> QED
        OBVIOUS
    <3> QED
      BY <1>6
  <2>2. h = [s \in SUBSET T |->
               IF s = {} THEN 0 ELSE f[Pick(s)] + part(Rest(s))[Rest(s)]]
    OBVIOUS
  <2> HIDE DEF h, part
  <2> QED
    BY <2>1, <2>2
<1> QED
  BY <1>3, <1>7 DEF SumsUp

(* What the library computes.                                              *)
LEMMA SumIsRecursive ==
  ASSUME NEW f, NEW S
  PROVE  SumFunctionOnSet(f, S) = (CHOOSE h : SumsUp(h, f, S))[S]
BY DEF SumFunctionOnSet, FoldFunctionOnSet, MapThenFoldSet, SumsUp, Pick, Rest

(* The sum of nothing is 0, and another is one term more than the sum of   *)
(* the rest.                                                               *)
LEMMA SumRecursion ==
  ASSUME NEW f, NEW S, IsFiniteSet(S)
  PROVE  SumFunctionOnSet(f, S)
           = IF S = {} THEN 0 ELSE f[Pick(S)] + SumFunctionOnSet(f, Rest(S))
<1> DEFINE sum(T) == CHOOSE h : SumsUp(h, f, T)
<1>1. SumFunctionOnSet(f, S) = sum(S)[S] /\ SumFunctionOnSet(f, Rest(S)) = sum(Rest(S))[Rest(S)]
  BY SumIsRecursive
<1>2. SumsUp(sum(S), f, S)
  BY SumsExist
<1> HIDE DEF sum
<1>3. sum(S)[S] = IF S = {} THEN 0 ELSE f[Pick(S)] + sum(S)[Rest(S)]
  <2>1. S \in SUBSET S
    OBVIOUS
  <2> QED
    BY <1>2, <2>1 DEF SumsUp
<1>4. CASE S # {}
  <2>1. Rest(S) \subseteq S /\ IsFiniteSet(Rest(S))
    BY <1>4, PickIn, FS_Subset
  <2>2. SumsUp(sum(Rest(S)), f, Rest(S))
    BY <2>1, SumsExist DEF sum
  <2>3. sum(S)[Rest(S)] = sum(Rest(S))[Rest(S)]
    <3>1. Rest(S) \in SUBSET Rest(S)
      OBVIOUS
    <3> QED
      BY <1>2, <2>1, <2>2, <3>1, SumsAgree
  <2> QED
    BY <1>1, <1>3, <1>4, <2>3
<1> QED
  BY <1>1, <1>3, <1>4

-----------------------------------------------------------------------------
(* The laws.                                                               *)

LEMMA SumOfNothing ==
  ASSUME NEW f
  PROVE  SumFunctionOnSet(f, {}) = 0
BY SumRecursion, FS_EmptySet

LEMMA SumIsNat ==
  ASSUME NEW f, NEW S, IsFiniteSet(S), \A x \in S : f[x] \in Nat
  PROVE  SumFunctionOnSet(f, S) \in Nat
<1> DEFINE Bad == {T \in SUBSET S : SumFunctionOnSet(f, T) \notin Nat}
<1> SUFFICES ASSUME Bad # {} PROVE FALSE
  <2>1. S \in SUBSET S
    OBVIOUS
  <2> QED
    BY <2>1
<1>1. \A T \in Bad : IsFiniteSet(T)
  BY FS_Subset
<1>2. PICK T \in Bad : \A U \in Bad : ~(U \subseteq T /\ U # T)
  <2> HIDE DEF Bad
  <2> QED
    BY <1>1, SmallestSet
<1>3. T \in SUBSET S /\ IsFiniteSet(T) /\ SumFunctionOnSet(f, T) \notin Nat
  BY <1>1
<1>4. T # {}
  BY <1>3, SumOfNothing
<1>5. Pick(T) \in T /\ Rest(T) \in SUBSET S /\ Rest(T) \subseteq T /\ Rest(T) # T
  BY <1>3, <1>4, PickIn
<1>6. SumFunctionOnSet(f, Rest(T)) \in Nat
  BY <1>2, <1>5
<1>7. SumFunctionOnSet(f, T) = f[Pick(T)] + SumFunctionOnSet(f, Rest(T))
  BY <1>3, <1>4, SumRecursion
<1>8. f[Pick(T)] \in Nat
  BY <1>3, <1>5
<1> QED
  BY <1>3, <1>6, <1>7, <1>8

(* Only the values on the indices matter.                                  *)
LEMMA SumOfSame ==
  ASSUME NEW f, NEW g, NEW S, IsFiniteSet(S), \A x \in S : f[x] = g[x]
  PROVE  SumFunctionOnSet(f, S) = SumFunctionOnSet(g, S)
<1> DEFINE Bad == {T \in SUBSET S : SumFunctionOnSet(f, T) # SumFunctionOnSet(g, T)}
<1> SUFFICES ASSUME Bad # {} PROVE FALSE
  <2>1. S \in SUBSET S
    OBVIOUS
  <2> QED
    BY <2>1
<1>1. \A T \in Bad : IsFiniteSet(T)
  BY FS_Subset
<1>2. PICK T \in Bad : \A U \in Bad : ~(U \subseteq T /\ U # T)
  <2> HIDE DEF Bad
  <2> QED
    BY <1>1, SmallestSet
<1>3. T \in SUBSET S /\ IsFiniteSet(T) /\ SumFunctionOnSet(f, T) # SumFunctionOnSet(g, T)
  BY <1>1
<1>4. T # {}
  BY <1>3, SumOfNothing
<1>5. Pick(T) \in T /\ Rest(T) \in SUBSET S /\ Rest(T) \subseteq T /\ Rest(T) # T
  BY <1>3, <1>4, PickIn
<1>6. SumFunctionOnSet(f, Rest(T)) = SumFunctionOnSet(g, Rest(T))
  BY <1>2, <1>5
<1>7. f[Pick(T)] = g[Pick(T)]
  BY <1>3, <1>5
<1> QED
  BY <1>3, <1>4, <1>6, <1>7, SumRecursion

(* Any term may be taken out, not just the one the library picks.          *)
LEMMA SumWithout ==
  ASSUME NEW f, NEW S, IsFiniteSet(S), \A x \in S : f[x] \in Nat, NEW a \in S
  PROVE  SumFunctionOnSet(f, S) = f[a] + SumFunctionOnSet(f, S \ {a})
<1> DEFINE Bad == {T \in SUBSET S :
                     \E b \in T : SumFunctionOnSet(f, T)
                                    # f[b] + SumFunctionOnSet(f, T \ {b})}
<1> SUFFICES ASSUME Bad # {} PROVE FALSE
  <2>1. S \in SUBSET S
    OBVIOUS
  <2> QED
    BY <2>1
<1>1. \A T \in Bad : IsFiniteSet(T)
  BY FS_Subset
<1>2. PICK T \in Bad : \A U \in Bad : ~(U \subseteq T /\ U # T)
  <2> HIDE DEF Bad
  <2> QED
    BY <1>1, SmallestSet
<1>3. T \in SUBSET S /\ IsFiniteSet(T)
  BY <1>1
<1>4. PICK b \in T : SumFunctionOnSet(f, T) # f[b] + SumFunctionOnSet(f, T \ {b})
  OBVIOUS
<1> DEFINE p == Pick(T)
<1>5. p \in T /\ Rest(T) = T \ {p}
  BY <1>4, PickIn DEF Rest
<1>6. SumFunctionOnSet(f, T) = f[p] + SumFunctionOnSet(f, T \ {p})
  BY <1>3, <1>4, <1>5, SumRecursion
<1> HIDE DEF p
<1>7. p # b
  BY <1>4, <1>6
<1>8. ASSUME NEW U \in SUBSET T, U # T, NEW c \in U
      PROVE  SumFunctionOnSet(f, U) = f[c] + SumFunctionOnSet(f, U \ {c})
  BY <1>2, <1>3, <1>8
<1>9. SumFunctionOnSet(f, T \ {p}) = f[b] + SumFunctionOnSet(f, (T \ {p}) \ {b})
  BY <1>5, <1>7, <1>8
<1>10. SumFunctionOnSet(f, T \ {b}) = f[p] + SumFunctionOnSet(f, (T \ {b}) \ {p})
  BY <1>4, <1>5, <1>7, <1>8
<1>11. (T \ {b}) \ {p} = (T \ {p}) \ {b}
  OBVIOUS
<1>12. SumFunctionOnSet(f, (T \ {p}) \ {b}) \in Nat
  <2> DEFINE U == (T \ {p}) \ {b}
  <2>1. U \in SUBSET S /\ IsFiniteSet(U)
    BY <1>3, FS_Subset
  <2> HIDE DEF U
  <2>2. SumFunctionOnSet(f, U) \in Nat
    BY <2>1, SumIsNat
  <2> QED
    BY <2>2 DEF U
<1>13. f[b] \in Nat /\ f[p] \in Nat
  BY <1>3, <1>5
<1> QED
  BY <1>4, <1>6, <1>9, <1>10, <1>11, <1>12, <1>13

LEMMA SumWith ==
  ASSUME NEW f, NEW S, IsFiniteSet(S), \A x \in S : f[x] \in Nat,
         NEW a, a \notin S, f[a] \in Nat
  PROVE  SumFunctionOnSet(f, S \cup {a}) = SumFunctionOnSet(f, S) + f[a]
<1> DEFINE T == S \cup {a}
<1>1. IsFiniteSet(T) /\ a \in T /\ T \ {a} = S /\ \A x \in T : f[x] \in Nat
  BY FS_AddElement
<1> HIDE DEF T
<1>2. SumFunctionOnSet(f, T) = f[a] + SumFunctionOnSet(f, S)
  BY <1>1, SumWithout
<1>3. SumFunctionOnSet(f, S) \in Nat
  BY SumIsNat
<1> QED
  BY <1>2, <1>3 DEF T

(* The terms of a subset and the others.                                   *)
LEMMA SumOfParts ==
  ASSUME NEW f, NEW S, IsFiniteSet(S), \A x \in S : f[x] \in Nat, NEW T \in SUBSET S
  PROVE  SumFunctionOnSet(f, S) = SumFunctionOnSet(f, T) + SumFunctionOnSet(f, S \ T)
<1> DEFINE Bad == {U \in SUBSET S : SumFunctionOnSet(f, S) #
                     SumFunctionOnSet(f, U) + SumFunctionOnSet(f, S \ U)}
<1> SUFFICES ASSUME Bad # {} PROVE FALSE
  OBVIOUS
<1>0. \A U \in SUBSET S : IsFiniteSet(U) /\ SumFunctionOnSet(f, U) \in Nat
  <2> SUFFICES ASSUME NEW U \in SUBSET S
               PROVE  IsFiniteSet(U) /\ SumFunctionOnSet(f, U) \in Nat
    OBVIOUS
  <2>1. IsFiniteSet(U)
    BY FS_Subset
  <2> QED
    BY <2>1, SumIsNat
<1>1. \A U \in Bad : IsFiniteSet(U)
  BY <1>0
<1>2. PICK U \in Bad : \A V \in Bad : ~(V \subseteq U /\ V # U)
  <2> HIDE DEF Bad
  <2> QED
    BY <1>1, SmallestSet
<1>3. /\ U \in SUBSET S /\ IsFiniteSet(U)
      /\ SumFunctionOnSet(f, S) # SumFunctionOnSet(f, U) + SumFunctionOnSet(f, S \ U)
  BY <1>1
<1>4. SumFunctionOnSet(f, S) \in Nat
  BY SumIsNat
<1>5. U # {}
  <2>1. S \ {} = S
    OBVIOUS
  <2> QED
    BY <1>3, <1>4, <2>1, SumOfNothing
<1>6. PICK a \in U : TRUE
  BY <1>5
<1> DEFINE V == U \ {a}
<1>7. /\ V \in SUBSET S /\ V \subseteq U /\ V # U /\ a \in S \ V /\ (S \ V) \ {a} = S \ U
      /\ S \ V \in SUBSET S /\ S \ U \in SUBSET S
  BY <1>3
<1>8. SumFunctionOnSet(f, S) = SumFunctionOnSet(f, V) + SumFunctionOnSet(f, S \ V)
  BY <1>2, <1>7
<1>9. SumFunctionOnSet(f, U) = f[a] + SumFunctionOnSet(f, V)
  BY <1>3, SumWithout
<1> HIDE DEF V
<1>10. SumFunctionOnSet(f, S \ V) = f[a] + SumFunctionOnSet(f, S \ U)
  <2> DEFINE W == S \ V
  <2>1. IsFiniteSet(W) /\ W \in SUBSET S /\ a \in W /\ W \ {a} = S \ U
    BY <1>0, <1>7
  <2> HIDE DEF W
  <2>2. SumFunctionOnSet(f, W) = f[a] + SumFunctionOnSet(f, W \ {a})
    BY <2>1, SumWithout
  <2> QED
    BY <2>1, <2>2 DEF W
<1>11. /\ f[a] \in Nat /\ SumFunctionOnSet(f, V) \in Nat
       /\ SumFunctionOnSet(f, S \ U) \in Nat
  BY <1>0, <1>3, <1>7
<1> QED
  BY <1>3, <1>8, <1>9, <1>10, <1>11

(* A term no larger than the whole.                                        *)
LEMMA SumBoundsTerm ==
  ASSUME NEW f, NEW S, IsFiniteSet(S), \A x \in S : f[x] \in Nat, NEW a \in S
  PROVE  f[a] <= SumFunctionOnSet(f, S)
<1>1. IsFiniteSet(S \ {a})
  BY FS_Subset
<1>2. SumFunctionOnSet(f, S \ {a}) \in Nat
  BY <1>1, SumIsNat
<1> QED
  BY <1>2, SumWithout

(* One term is changed.                                                    *)
LEMMA SumUpdated ==
  ASSUME NEW f, NEW g, NEW S, IsFiniteSet(S), NEW a \in S,
         \A x \in S : f[x] \in Nat /\ g[x] \in Nat, \A x \in S : x # a => g[x] = f[x]
  PROVE  SumFunctionOnSet(g, S) = (SumFunctionOnSet(f, S) - f[a]) + g[a]
<1> DEFINE T == S \ {a}
<1>1. IsFiniteSet(T) /\ \A x \in T : g[x] = f[x] /\ f[x] \in Nat
  BY FS_Subset
<1>2. /\ SumFunctionOnSet(f, S) = f[a] + SumFunctionOnSet(f, T)
      /\ SumFunctionOnSet(g, S) = g[a] + SumFunctionOnSet(g, T)
  BY SumWithout
<1> HIDE DEF T
<1>3. SumFunctionOnSet(g, T) = SumFunctionOnSet(f, T) /\ SumFunctionOnSet(f, T) \in Nat
  BY <1>1, SumOfSame, SumIsNat
<1> QED
  BY <1>2, <1>3

(* Nothing but zeros.                                                      *)
LEMMA SumOfZeros ==
  ASSUME NEW f, NEW S, IsFiniteSet(S), \A x \in S : f[x] = 0
  PROVE  SumFunctionOnSet(f, S) = 0
<1> DEFINE Bad == {T \in SUBSET S : SumFunctionOnSet(f, T) # 0}
<1> SUFFICES ASSUME Bad # {} PROVE FALSE
  <2>1. S \in SUBSET S
    OBVIOUS
  <2> QED
    BY <2>1
<1>1. \A T \in Bad : IsFiniteSet(T)
  BY FS_Subset
<1>2. PICK T \in Bad : \A U \in Bad : ~(U \subseteq T /\ U # T)
  <2> HIDE DEF Bad
  <2> QED
    BY <1>1, SmallestSet
<1>3. T \in SUBSET S /\ IsFiniteSet(T) /\ SumFunctionOnSet(f, T) # 0
  BY <1>1
<1>4. T # {}
  BY <1>3, SumOfNothing
<1>5. Pick(T) \in T /\ Rest(T) \in SUBSET S /\ Rest(T) \subseteq T /\ Rest(T) # T
  BY <1>3, <1>4, PickIn
<1>6. SumFunctionOnSet(f, Rest(T)) = 0 /\ f[Pick(T)] = 0
  BY <1>2, <1>3, <1>5
<1> QED
  BY <1>3, <1>4, <1>6, SumRecursion

-----------------------------------------------------------------------------
(* The same of all values of a function.                                   *)

LEMMA TotalIsNat ==
  ASSUME NEW S, IsFiniteSet(S), NEW f \in [S -> Nat]
  PROVE  SumFunction(f) \in Nat
BY SumIsNat DEF SumFunction

LEMMA TotalOfNothing ==
  ASSUME NEW f, DOMAIN f = {}
  PROVE  SumFunction(f) = 0
BY SumOfNothing DEF SumFunction

(* An index more.                                                          *)
LEMMA TotalWith ==
  ASSUME NEW S, IsFiniteSet(S), NEW a, a \notin S,
         NEW f \in [S -> Nat], NEW g \in [S \cup {a} -> Nat], \A x \in S : g[x] = f[x]
  PROVE  SumFunction(g) = SumFunction(f) + g[a]
<1>1. SumFunctionOnSet(g, S) = SumFunctionOnSet(f, S)
  BY SumOfSame
<1>2. SumFunctionOnSet(g, S \cup {a}) = SumFunctionOnSet(g, S) + g[a]
  BY SumWith
<1>3. DOMAIN f = S /\ DOMAIN g = S \cup {a}
  OBVIOUS
<1> QED
  BY <1>1, <1>2, <1>3 DEF SumFunction

(* Another value at one index.                                             *)
LEMMA TotalUpdated ==
  ASSUME NEW S, IsFiniteSet(S), NEW a \in S, NEW f \in [S -> Nat], NEW n \in Nat
  PROVE  SumFunction([f EXCEPT ![a] = n]) = (SumFunction(f) - f[a]) + n
<1> DEFINE g == [f EXCEPT ![a] = n]
<1>1. g \in [S -> Nat] /\ g[a] = n /\ \A x \in S : x # a => g[x] = f[x]
  OBVIOUS
<1> HIDE DEF g
<1>2. SumFunctionOnSet(g, S) = (SumFunctionOnSet(f, S) - f[a]) + g[a]
  BY <1>1, SumUpdated
<1> QED
  BY <1>1, <1>2 DEF SumFunction, g

(* Nothing at some indices.                                                *)
LEMMA TotalCleared ==
  ASSUME NEW S, IsFiniteSet(S), NEW T \in SUBSET S, NEW f \in [S -> Nat]
  PROVE  SumFunction([x \in S |-> IF x \in T THEN 0 ELSE f[x]])
           = SumFunction(f) - SumFunctionOnSet(f, T)
<1> DEFINE g == [x \in S |-> IF x \in T THEN 0 ELSE f[x]]
<1>1. /\ g \in [S -> Nat] /\ \A x \in T : g[x] = 0
      /\ \A x \in S \ T : g[x] = f[x]
  OBVIOUS
<1> HIDE DEF g
<1>2. IsFiniteSet(T) /\ IsFiniteSet(S \ T)
  BY FS_Subset
<1>3. SumFunctionOnSet(g, T) = 0 /\ SumFunctionOnSet(g, S \ T) = SumFunctionOnSet(f, S \ T)
  BY <1>1, <1>2, SumOfZeros, SumOfSame
<1>4. SumFunctionOnSet(g, S) = SumFunctionOnSet(g, T) + SumFunctionOnSet(g, S \ T)
  BY <1>1, SumOfParts
<1>5. SumFunctionOnSet(f, S) = SumFunctionOnSet(f, T) + SumFunctionOnSet(f, S \ T)
  BY SumOfParts
<1>6. SumFunctionOnSet(f, T) \in Nat /\ SumFunctionOnSet(f, S \ T) \in Nat
  BY <1>2, SumIsNat
<1> QED
  BY <1>1, <1>3, <1>4, <1>5, <1>6 DEF SumFunction, g

(* Terms no larger add up to no more.                                      *)
LEMMA SumMonotone ==
  ASSUME NEW f, NEW g, NEW S, IsFiniteSet(S),
         \A x \in S : f[x] \in Nat /\ g[x] \in Nat /\ f[x] <= g[x]
  PROVE  SumFunctionOnSet(f, S) <= SumFunctionOnSet(g, S)
<1> DEFINE Bad == {T \in SUBSET S : ~(SumFunctionOnSet(f, T) <= SumFunctionOnSet(g, T))}
<1> SUFFICES ASSUME Bad # {} PROVE FALSE
  <2>1. S \in SUBSET S
    OBVIOUS
  <2> QED
    BY <2>1
<1>1. \A T \in Bad : IsFiniteSet(T)
  BY FS_Subset
<1>2. PICK T \in Bad : \A U \in Bad : ~(U \subseteq T /\ U # T)
  <2> HIDE DEF Bad
  <2> QED
    BY <1>1, SmallestSet
<1>3. /\ T \in SUBSET S /\ IsFiniteSet(T)
      /\ ~(SumFunctionOnSet(f, T) <= SumFunctionOnSet(g, T))
  BY <1>1
<1>4. T # {}
  BY <1>3, SumOfNothing
<1>5. Pick(T) \in T /\ Rest(T) \in SUBSET S /\ Rest(T) \subseteq T /\ Rest(T) # T
  BY <1>3, <1>4, PickIn
<1>6. SumFunctionOnSet(f, Rest(T)) <= SumFunctionOnSet(g, Rest(T))
  BY <1>2, <1>5
<1>7. /\ SumFunctionOnSet(f, T) = f[Pick(T)] + SumFunctionOnSet(f, Rest(T))
      /\ SumFunctionOnSet(g, T) = g[Pick(T)] + SumFunctionOnSet(g, Rest(T))
  BY <1>3, <1>4, SumRecursion
<1>8. IsFiniteSet(Rest(T)) /\ \A x \in Rest(T) : f[x] \in Nat /\ g[x] \in Nat
  BY <1>5, FS_Subset
<1>9. SumFunctionOnSet(f, Rest(T)) \in Nat /\ SumFunctionOnSet(g, Rest(T)) \in Nat
  BY <1>8, SumIsNat
<1>10. /\ f[Pick(T)] \in Nat /\ g[Pick(T)] \in Nat
       /\ f[Pick(T)] <= g[Pick(T)]
  BY <1>3, <1>5
<1> QED
  BY <1>3, <1>6, <1>7, <1>9, <1>10

(* The indices may be renamed.                                             *)
LEMMA SumRenamed ==
  ASSUME NEW f, NEW g, NEW m, NEW S, IsFiniteSet(S),
         \A x \in S : f[x] \in Nat /\ g[m[x]] = f[x],
         \A x, y \in S : m[x] = m[y] => x = y
  PROVE  SumFunctionOnSet(g, {m[x] : x \in S}) = SumFunctionOnSet(f, S)
<1> DEFINE image(T) == {m[x] : x \in T}
           Bad == {T \in SUBSET S : SumFunctionOnSet(g, image(T)) # SumFunctionOnSet(f, T)}
<1> SUFFICES ASSUME Bad # {} PROVE FALSE
  <2>1. S \in SUBSET S
    OBVIOUS
  <2> QED
    BY <2>1
<1>1. \A T \in Bad : IsFiniteSet(T)
  BY FS_Subset
<1>2. PICK T \in Bad : \A U \in Bad : ~(U \subseteq T /\ U # T)
  <2> HIDE DEF Bad
  <2> QED
    BY <1>1, SmallestSet
<1>3. /\ T \in SUBSET S /\ IsFiniteSet(T)
      /\ SumFunctionOnSet(g, image(T)) # SumFunctionOnSet(f, T)
  BY <1>1
<1>4. T # {}
  <2>1. image({}) = {}
    OBVIOUS
  <2> HIDE DEF image
  <2> QED
    BY <1>3, <2>1, SumOfNothing
<1>5. PICK a \in T : TRUE
  BY <1>4
<1> DEFINE U == T \ {a}
<1>6. U \in SUBSET S /\ U \subseteq T /\ U # T /\ IsFiniteSet(U)
  BY <1>3, FS_Subset
<1>7. SumFunctionOnSet(g, image(U)) = SumFunctionOnSet(f, U)
  BY <1>2, <1>6
<1>8. SumFunctionOnSet(f, T) = f[a] + SumFunctionOnSet(f, U)
  BY <1>3, SumWithout
<1>9. /\ image(T) = image(U) \cup {m[a]} /\ m[a] \notin image(U)
      /\ g[m[a]] = f[a] /\ f[a] \in Nat /\ \A y \in image(U) : g[y] \in Nat
  BY <1>3
<1>10. IsFiniteSet(image(U))
  <2> DEFINE h == [x \in U |-> m[x]]
  <2>1. h \in Surjection(U, image(U))
    BY DEF Surjection
  <2> HIDE DEF h, image, U
  <2> QED
    BY <1>6, <2>1, FS_Surjection
<1>11. SumFunctionOnSet(f, U) \in Nat
  BY <1>3, <1>6, SumIsNat
<1> DEFINE V == image(U)
<1>12. SumFunctionOnSet(g, V \cup {m[a]}) = SumFunctionOnSet(g, V) + g[m[a]]
  <2>1. IsFiniteSet(V) /\ (\A y \in V : g[y] \in Nat) /\ m[a] \notin V /\ g[m[a]] \in Nat
    BY <1>9, <1>10
  <2> HIDE DEF V
  <2> QED
    BY <2>1, SumWith
<1> HIDE DEF image, U
<1> QED
  BY <1>3, <1>7, <1>8, <1>9, <1>11, <1>12

-----------------------------------------------------------------------------
(* The bytes of a set of blocks, and the bytes that were requested by a    *)
(* set of handles.                                                         *)

BytesIn(blocks) == SumFunction([b \in blocks |-> b.bytes])
RequestedOf(handles) == SumFunction([a \in handles |-> a.requested])

LEMMA BytesOfSome ==
  ASSUME NEW S, IsFiniteSet(S), \A b \in S : b.bytes \in Nat
  PROVE  /\ BytesIn(S) \in Nat
         /\ \A a \in S : BytesIn(S \ {a}) = BytesIn(S) - a.bytes
         /\ \A a : a \notin S /\ a.bytes \in Nat => BytesIn(S \cup {a}) = BytesIn(S) + a.bytes
<1>1. ASSUME NEW T, IsFiniteSet(T), \A b \in T : b.bytes \in Nat
      PROVE  BytesIn(T) \in Nat
  BY <1>1, TotalIsNat, [b \in T |-> b.bytes] \in [T -> Nat] DEF BytesIn
<1>2. ASSUME NEW T, IsFiniteSet(T), \A b \in T : b.bytes \in Nat,
             NEW a, a \notin T, a.bytes \in Nat
      PROVE  BytesIn(T \cup {a}) = BytesIn(T) + a.bytes
  <2> DEFINE f == [b \in T |-> b.bytes]
             g == [b \in T \cup {a} |-> b.bytes]
  <2>1. /\ f \in [T -> Nat] /\ g \in [T \cup {a} -> Nat] /\ g[a] = a.bytes
        /\ \A x \in T : g[x] = f[x]
    BY <1>2
  <2>2. BytesIn(T) = SumFunction(f) /\ BytesIn(T \cup {a}) = SumFunction(g)
    BY DEF BytesIn
  <2> HIDE DEF f, g
  <2>3. \A h \in [T -> Nat], k \in [T \cup {a} -> Nat] :
          (\A x \in T : k[x] = h[x]) => SumFunction(k) = SumFunction(h) + k[a]
    BY <1>2, TotalWith
  <2> QED
    BY <2>1, <2>2, <2>3
<1>3. ASSUME NEW a \in S
      PROVE  BytesIn(S \ {a}) = BytesIn(S) - a.bytes
  <2>1. IsFiniteSet(S \ {a}) /\ (S \ {a}) \cup {a} = S /\ a \notin S \ {a} /\ a.bytes \in Nat
    BY FS_RemoveElement
  <2>2. BytesIn((S \ {a}) \cup {a}) = BytesIn(S \ {a}) + a.bytes
    BY <1>2, <2>1
  <2>3. BytesIn(S \ {a}) \in Nat
    BY <1>1, <2>1
  <2>4. BytesIn(S) = BytesIn(S \ {a}) + a.bytes
    BY <2>1, <2>2, Zenon
  <2> QED
    BY <2>1, <2>3, <2>4
<1> QED
  BY <1>1, <1>2, <1>3

LEMMA RequestedOfSome ==
  ASSUME NEW S, IsFiniteSet(S), \A b \in S : b.requested \in Nat
  PROVE  /\ RequestedOf(S) \in Nat
         /\ \A a \in S : RequestedOf(S \ {a}) = RequestedOf(S) - a.requested
         /\ \A a : a \notin S /\ a.requested \in Nat =>
              RequestedOf(S \cup {a}) = RequestedOf(S) + a.requested
<1>1. ASSUME NEW T, IsFiniteSet(T), \A b \in T : b.requested \in Nat
      PROVE  RequestedOf(T) \in Nat
  BY <1>1, TotalIsNat, [b \in T |-> b.requested] \in [T -> Nat] DEF RequestedOf
<1>2. ASSUME NEW T, IsFiniteSet(T), \A b \in T : b.requested \in Nat,
             NEW a, a \notin T, a.requested \in Nat
      PROVE  RequestedOf(T \cup {a}) = RequestedOf(T) + a.requested
  <2> DEFINE f == [b \in T |-> b.requested]
             g == [b \in T \cup {a} |-> b.requested]
  <2>1. /\ f \in [T -> Nat] /\ g \in [T \cup {a} -> Nat] /\ g[a] = a.requested
        /\ \A x \in T : g[x] = f[x]
    BY <1>2
  <2>2. RequestedOf(T) = SumFunction(f) /\ RequestedOf(T \cup {a}) = SumFunction(g)
    BY DEF RequestedOf
  <2> HIDE DEF f, g
  <2>3. \A h \in [T -> Nat], k \in [T \cup {a} -> Nat] :
          (\A x \in T : k[x] = h[x]) => SumFunction(k) = SumFunction(h) + k[a]
    BY <1>2, TotalWith
  <2> QED
    BY <2>1, <2>2, <2>3
<1>3. ASSUME NEW a \in S
      PROVE  RequestedOf(S \ {a}) = RequestedOf(S) - a.requested
  <2>1. /\ IsFiniteSet(S \ {a}) /\ (S \ {a}) \cup {a} = S
        /\ a \notin S \ {a} /\ a.requested \in Nat
    BY FS_RemoveElement
  <2>2. RequestedOf((S \ {a}) \cup {a}) = RequestedOf(S \ {a}) + a.requested
    BY <1>2, <2>1
  <2>3. RequestedOf(S \ {a}) \in Nat
    BY <1>1, <2>1
  <2>4. RequestedOf(S) = RequestedOf(S \ {a}) + a.requested
    BY <2>1, <2>2, Zenon
  <2> QED
    BY <2>1, <2>3, <2>4
<1> QED
  BY <1>1, <1>2, <1>3
=============================================================================
