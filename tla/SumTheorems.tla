----------------------------- MODULE SumTheorems -----------------------------
(* What the sum over a finite set of keys, SumFunctionOnSet, returns.       *)
EXTENDS FiniteSetsExt, FiniteSetTheorems, TLAPS

(* The key the fold takes next, and the recursion it is defined by. *)
Pick(s) == CHOOSE x \in s : TRUE

IsFold(iter, f, S) ==
    iter = [s \in SUBSET S |-> IF s = {} THEN 0 ELSE f[Pick(s)] + iter[s \ {Pick(s)}]]

LEMMA SumIsFold ==
    ASSUME NEW f, NEW S
    PROVE  SumFunctionOnSet(f, S) = (CHOOSE iter : IsFold(iter, f, S))[S]
BY DEF SumFunctionOnSet, FoldFunctionOnSet, MapThenFoldSet, IsFold, Pick

(* Induction over the subsets of a finite set, in the form the provers can  *)
(* use: a set of bad subsets that is not empty has a smallest member.       *)
LEMMA SmallestSubset ==
    ASSUME NEW S, IsFiniteSet(S), NEW Bad \in SUBSET SUBSET S, Bad # {}
    PROVE  \E T \in Bad : \A U \in SUBSET T : U # T => U \notin Bad
<1>1. IsWellFoundedOn(StrictSubsetOrdering(S), SUBSET S)
  BY FS_StrictSubsetOrderingWellFounded, FS_FiniteSubsetsOfFinite
<1>2. PICK T \in Bad : \A U \in Bad : ~(<<U, T>> \in StrictSubsetOrdering(S))
  BY <1>1, WFMin
<1>3. ASSUME NEW U \in SUBSET T, U # T, U \in Bad
      PROVE  FALSE
  BY <1>2, <1>3 DEF StrictSubsetOrdering
<1>4. QED
  BY <1>2, <1>3

(* The recursion determines its values, and has a solution. *)
LEMMA FoldsAgree ==
    ASSUME NEW f, NEW T, NEW U, IsFiniteSet(T), NEW g, NEW h,
           IsFold(g, f, T), IsFold(h, f, U), NEW s \in SUBSET (T \cap U)
    PROVE  g[s] = h[s]
<1> DEFINE Bad == {r \in SUBSET (T \cap U) : g[r] # h[r]}
<1>1. SUFFICES ASSUME Bad # {} PROVE FALSE
  OBVIOUS
<1>2. IsFiniteSet(T \cap U)
  BY FS_Intersection
<1>3. PICK r \in Bad : \A q \in SUBSET r : q # r => q \notin Bad
  <2> HIDE DEF Bad
  <2>1. Bad \in SUBSET SUBSET (T \cap U)
    BY DEF Bad
  <2>2. QED
    BY <1>1, <1>2, <2>1, SmallestSubset
<1>4. CASE r = {}
  BY <1>3, <1>4 DEF IsFold
<1>5. CASE r # {}
  <2> DEFINE q == r \ {Pick(r)}
  <2>1. Pick(r) \in r
    BY <1>5 DEF Pick
  <2>2. q \in SUBSET r /\ q # r
    BY <2>1
  <2>3. g[q] = h[q]
    BY <1>3, <2>2
  <2>4. r \in SUBSET T /\ r \in SUBSET U
    BY <1>3
  <2>5. g[r] = f[Pick(r)] + g[q] /\ h[r] = f[Pick(r)] + h[q]
    BY <1>5, <2>4 DEF IsFold
  <2>6. QED
    BY <1>3, <2>3, <2>5
<1>6. QED
  BY <1>4, <1>5

LEMMA FoldExists ==
    ASSUME NEW f, NEW S, IsFiniteSet(S)
    PROVE  \E iter : IsFold(iter, f, S)
<1> DEFINE Bad == {T \in SUBSET S : ~\E iter : IsFold(iter, f, T)}
<1>1. SUFFICES ASSUME Bad # {} PROVE FALSE
  OBVIOUS
<1>2. PICK T \in Bad : \A U \in SUBSET T : U # T => U \notin Bad
  <2> HIDE DEF Bad
  <2>1. Bad \in SUBSET SUBSET S
    BY DEF Bad
  <2>2. QED
    BY <1>1, <2>1, SmallestSubset
<1> DEFINE of(U) == CHOOSE iter : IsFold(iter, f, U)
           less(s) == s \ {Pick(s)}
           iter == [s \in SUBSET T |->
                       IF s = {} THEN 0 ELSE f[Pick(s)] + of(less(s))[less(s)]]
<1>3. ASSUME NEW s \in SUBSET T, s # {}
      PROVE  less(s) \in SUBSET T /\ less(s) \in SUBSET s /\ less(s) # s /\ less(s) # T
  <2>1. Pick(s) \in s
    BY <1>3 DEF Pick
  <2>2. QED
    BY <2>1
<1>4. ASSUME NEW U \in SUBSET T, U # T
      PROVE  IsFold(of(U), f, U) /\ IsFiniteSet(U)
  <2>1. U \in SUBSET S /\ U \notin Bad
    BY <1>2, <1>4
  <2>2. \E it : IsFold(it, f, U)
    BY <2>1
  <2>3. QED
    BY <2>1, <2>2, FS_Subset
<1>5. ASSUME NEW U \in SUBSET T, U # T
      PROVE  iter[U] = of(U)[U]
  <2>1. IsFold(of(U), f, U) /\ IsFiniteSet(U)
    BY <1>4, <1>5
  <2> HIDE DEF of
  <2>2. CASE U = {}
    BY <2>1, <2>2 DEF IsFold
  <2>3. CASE U # {}
    <3>1. less(U) \in SUBSET T /\ less(U) \in SUBSET U /\ less(U) # T
      BY <1>3, <2>3
    <3>2. IsFold(of(less(U)), f, less(U))
      BY <1>4, <3>1
    <3>3. of(U)[U] = f[Pick(U)] + of(U)[less(U)]
      BY <2>1, <2>3 DEF IsFold
    <3>4. of(U)[less(U)] = of(less(U))[less(U)]
      <4> DEFINE L == less(U)
      <4>1. L \in SUBSET (U \cap L)
        BY <3>1
      <4> HIDE DEF L
      <4>2. of(U)[L] = of(L)[L]
        BY <2>1, <3>2, <4>1, FoldsAgree DEF L
      <4>3. QED
        BY <4>2 DEF L
    <3>5. QED
      BY <2>3, <3>3, <3>4
  <2>4. QED
    BY <2>2, <2>3
<1>6. ASSUME NEW s \in SUBSET T
      PROVE  iter[s] = IF s = {} THEN 0 ELSE f[Pick(s)] + iter[less(s)]
  <2>1. s # {} => iter[less(s)] = of(less(s))[less(s)]
    BY <1>3, <1>5
  <2> HIDE DEF of
  <2>2. QED
    BY <2>1
<1>7. IsFold(iter, f, T)
  <2>1. iter = [s \in SUBSET T |-> iter[s]]
    OBVIOUS
  <2> HIDE DEF iter
  <2>2. iter = [s \in SUBSET T |-> IF s = {} THEN 0 ELSE f[Pick(s)] + iter[less(s)]]
    BY <1>6, <2>1
  <2>3. QED
    BY <2>2 DEF IsFold
<1>8. QED
  BY <1>2, <1>7

LEMMA SumStep ==
    ASSUME NEW f, NEW S, IsFiniteSet(S)
    PROVE  SumFunctionOnSet(f, S) =
               IF S = {} THEN 0 ELSE f[Pick(S)] + SumFunctionOnSet(f, S \ {Pick(S)})
<1> DEFINE of(U) == CHOOSE iter : IsFold(iter, f, U)
           L == S \ {Pick(S)}
<1>1. IsFiniteSet(L) /\ L \in SUBSET (S \cap L)
  BY FS_Subset
<1>2. IsFold(of(S), f, S) /\ IsFold(of(L), f, L)
  BY <1>1, FoldExists
<1>3. SumFunctionOnSet(f, S) = of(S)[S] /\ SumFunctionOnSet(f, L) = of(L)[L]
  BY SumIsFold
<1> HIDE DEF of
<1>4. of(S)[S] = IF S = {} THEN 0 ELSE f[Pick(S)] + of(S)[L]
  BY <1>2 DEF IsFold
<1>5. of(S)[L] = of(L)[L]
  <2> HIDE DEF L
  <2>1. QED
    BY <1>1, <1>2, FoldsAgree
<1>6. QED
  BY <1>3, <1>4, <1>5

-----------------------------------------------------------------------------
(* The empty sum; a sum of integers, of naturals; a term taken out; terms   *)
(* that agree; one term that changed.                                       *)
THEOREM SumEmpty == \A f : SumFunctionOnSet(f, {}) = 0
BY FS_EmptySet, SumStep

THEOREM SumType ==
    ASSUME NEW f, NEW S, IsFiniteSet(S), \A x \in S : f[x] \in Int
    PROVE  SumFunctionOnSet(f, S) \in Int
<1> DEFINE Bad == {T \in SUBSET S : SumFunctionOnSet(f, T) \notin Int}
<1>1. SUFFICES ASSUME Bad # {} PROVE FALSE
  OBVIOUS
<1>2. PICK T \in Bad : \A U \in SUBSET T : U # T => U \notin Bad
  <2> HIDE DEF Bad
  <2>1. Bad \in SUBSET SUBSET S
    BY DEF Bad
  <2>2. QED
    BY <1>1, <2>1, SmallestSubset
<1>3. T # {}
  BY <1>2, SumEmpty
<1>4. Pick(T) \in T
  BY <1>3 DEF Pick
<1>5. SumFunctionOnSet(f, T \ {Pick(T)}) \in Int
  BY <1>2, <1>4
<1>6. SumFunctionOnSet(f, T) = f[Pick(T)] + SumFunctionOnSet(f, T \ {Pick(T)})
  BY <1>2, <1>3, SumStep, FS_Subset
<1>7. QED
  BY <1>2, <1>4, <1>5, <1>6

THEOREM SumIsNat ==
    ASSUME NEW f, NEW S, IsFiniteSet(S), \A x \in S : f[x] \in Nat
    PROVE  SumFunctionOnSet(f, S) \in Nat
<1> DEFINE Bad == {T \in SUBSET S : SumFunctionOnSet(f, T) \notin Nat}
<1>1. SUFFICES ASSUME Bad # {} PROVE FALSE
  OBVIOUS
<1>2. PICK T \in Bad : \A U \in SUBSET T : U # T => U \notin Bad
  <2> HIDE DEF Bad
  <2>1. Bad \in SUBSET SUBSET S
    BY DEF Bad
  <2>2. QED
    BY <1>1, <2>1, SmallestSubset
<1>3. T # {}
  <2>1. SumFunctionOnSet(f, {}) \in Nat
    BY SumEmpty
  <2>2. QED
    BY <1>2, <2>1
<1>4. Pick(T) \in T
  BY <1>3 DEF Pick
<1>5. SumFunctionOnSet(f, T \ {Pick(T)}) \in Nat
  BY <1>2, <1>4
<1>6. SumFunctionOnSet(f, T) = f[Pick(T)] + SumFunctionOnSet(f, T \ {Pick(T)})
  BY <1>2, <1>3, SumStep, FS_Subset
<1>7. QED
  BY <1>2, <1>4, <1>5, <1>6

THEOREM SumWithout ==
    ASSUME NEW f, NEW S, IsFiniteSet(S), \A y \in S : f[y] \in Int, NEW x \in S
    PROVE  SumFunctionOnSet(f, S) = f[x] + SumFunctionOnSet(f, S \ {x})
<1> DEFINE Bad == {T \in SUBSET S :
               \E z \in T : SumFunctionOnSet(f, T) # f[z] + SumFunctionOnSet(f, T \ {z})}
<1>1. SUFFICES Bad = {}
  <2>1. S \in SUBSET S
    OBVIOUS
  <2>2. QED
    BY <2>1
<1>2. SUFFICES ASSUME Bad # {} PROVE FALSE
  OBVIOUS
<1>3. PICK T \in Bad : \A U \in SUBSET T : U # T => U \notin Bad
  <2> HIDE DEF Bad
  <2>1. Bad \in SUBSET SUBSET S
    BY DEF Bad
  <2>2. QED
    BY <1>2, <2>1, SmallestSubset
<1>4. PICK z \in T : SumFunctionOnSet(f, T) # f[z] + SumFunctionOnSet(f, T \ {z})
  BY <1>3
<1> DEFINE c == Pick(T)
           rest == T \ {z, c}
<1>5. T \in SUBSET S /\ z \in T /\ c \in T
  BY <1>3, <1>4 DEF Pick
<1>6. IsFiniteSet(T) /\ IsFiniteSet(rest)
  BY <1>5, FS_Subset
<1>7. SumFunctionOnSet(f, T) = f[c] + SumFunctionOnSet(f, T \ {c})
  BY <1>5, <1>6, SumStep
<1>8. c # z
  BY <1>4, <1>7
<1> HIDE DEF c
<1>9. SumFunctionOnSet(f, T \ {c}) = f[z] + SumFunctionOnSet(f, rest)
  <2>1. T \ {c} \notin Bad /\ T \ {c} \in SUBSET S /\ z \in T \ {c}
    BY <1>3, <1>5, <1>8
  <2>2. (T \ {c}) \ {z} = rest
    OBVIOUS
  <2>3. SumFunctionOnSet(f, T \ {c}) = f[z] + SumFunctionOnSet(f, (T \ {c}) \ {z})
    BY <2>1
  <2>4. QED
    BY <2>2, <2>3
<1>10. SumFunctionOnSet(f, T \ {z}) = f[c] + SumFunctionOnSet(f, rest)
  <2>1. T \ {z} \notin Bad /\ T \ {z} \in SUBSET S /\ c \in T \ {z}
    BY <1>3, <1>5, <1>8
  <2>2. (T \ {z}) \ {c} = rest
    OBVIOUS
  <2>3. SumFunctionOnSet(f, T \ {z}) = f[c] + SumFunctionOnSet(f, (T \ {z}) \ {c})
    BY <2>1
  <2>4. QED
    BY <2>2, <2>3
<1>11. SumFunctionOnSet(f, rest) \in Int /\ f[c] \in Int /\ f[z] \in Int
  <2>1. \A y \in rest : f[y] \in Int
    BY <1>5
  <2>2. QED
    BY <1>5, <1>6, <2>1, SumType
<1> HIDE DEF rest
<1>12. QED
  BY <1>4, <1>7, <1>9, <1>10, <1>11

THEOREM SumAgrees ==
    ASSUME NEW f, NEW g, NEW S, IsFiniteSet(S), \A x \in S : f[x] = g[x]
    PROVE  SumFunctionOnSet(f, S) = SumFunctionOnSet(g, S)
<1> DEFINE Bad == {T \in SUBSET S : SumFunctionOnSet(f, T) # SumFunctionOnSet(g, T)}
<1>1. SUFFICES ASSUME Bad # {} PROVE FALSE
  OBVIOUS
<1>2. PICK T \in Bad : \A U \in SUBSET T : U # T => U \notin Bad
  <2> HIDE DEF Bad
  <2>1. Bad \in SUBSET SUBSET S
    BY DEF Bad
  <2>2. QED
    BY <1>1, <2>1, SmallestSubset
<1>3. T # {}
  BY <1>2, SumEmpty
<1>4. Pick(T) \in T
  BY <1>3 DEF Pick
<1>5. SumFunctionOnSet(f, T \ {Pick(T)}) = SumFunctionOnSet(g, T \ {Pick(T)})
  BY <1>2, <1>4
<1>6. IsFiniteSet(T)
  BY <1>2, FS_Subset
<1>7. /\ SumFunctionOnSet(f, T) = f[Pick(T)] + SumFunctionOnSet(f, T \ {Pick(T)})
      /\ SumFunctionOnSet(g, T) = g[Pick(T)] + SumFunctionOnSet(g, T \ {Pick(T)})
  BY <1>3, <1>6, SumStep
<1>8. QED
  BY <1>2, <1>4, <1>5, <1>7

(* What a step does to a sum: a term joins, a term leaves, a term changes.  *)
THEOREM SumJoined ==
    ASSUME NEW f, NEW g, NEW S, IsFiniteSet(S), NEW x, x \notin S, g[x] \in Int,
           \A y \in S : f[y] \in Int /\ g[y] = f[y]
    PROVE  SumFunctionOnSet(g, S \cup {x}) = SumFunctionOnSet(f, S) + g[x]
<1> DEFINE T == S \cup {x}
<1>1. IsFiniteSet(T) /\ x \in T /\ T \ {x} = S /\ \A y \in T : g[y] \in Int
  BY FS_AddElement
<1> HIDE DEF T
<1>2. SumFunctionOnSet(g, T) = g[x] + SumFunctionOnSet(g, S)
  BY <1>1, SumWithout
<1>3. SumFunctionOnSet(g, S) = SumFunctionOnSet(f, S)
  BY SumAgrees
<1>4. SumFunctionOnSet(f, S) \in Int
  BY SumType
<1>5. QED
  BY <1>2, <1>3, <1>4 DEF T

THEOREM SumLeft ==
    ASSUME NEW f, NEW g, NEW S, IsFiniteSet(S), NEW x \in S, NEW T, T = S \ {x},
           \A y \in S : f[y] \in Int,
           \A y \in T : g[y] = f[y]
    PROVE  SumFunctionOnSet(g, T) = SumFunctionOnSet(f, S) - f[x]
<1>1. SumFunctionOnSet(f, S) = f[x] + SumFunctionOnSet(f, S \ {x})
  BY SumWithout
<1>2. IsFiniteSet(T)
  BY FS_RemoveElement
<1>3. SumFunctionOnSet(g, T) = SumFunctionOnSet(f, T)
  BY <1>2, SumAgrees
<1>4. SumFunctionOnSet(f, T) \in Int
  BY <1>2, SumType
<1>5. QED
  BY <1>1, <1>3, <1>4

THEOREM SumChanged ==
    ASSUME NEW f, NEW g, NEW S, IsFiniteSet(S), NEW x \in S,
           \A y \in S : f[y] \in Int, g[x] \in Int,
           \A y \in S : y # x => g[y] = f[y]
    PROVE  SumFunctionOnSet(g, S) = SumFunctionOnSet(f, S) - f[x] + g[x]
<1>1. IsFiniteSet(S \ {x})
  BY FS_RemoveElement
<1>2. SumFunctionOnSet(g, S \ {x}) = SumFunctionOnSet(f, S \ {x})
  BY <1>1, SumAgrees
<1>3. \A y \in S : g[y] \in Int
  OBVIOUS
<1>4. SumFunctionOnSet(g, S) = g[x] + SumFunctionOnSet(g, S \ {x})
  BY <1>3, SumWithout
<1>5. SumFunctionOnSet(f, S) = f[x] + SumFunctionOnSet(f, S \ {x})
  BY SumWithout
<1>6. SumFunctionOnSet(f, S \ {x}) \in Int
  BY <1>1, SumType
<1>7. QED
  BY <1>2, <1>4, <1>5, <1>6

THEOREM SumWritten ==
    ASSUME NEW f, NEW g, NEW S, IsFiniteSet(S), NEW x, g[x] \in Int,
           \A y \in S : f[y] \in Int,
           \A y \in S : y # x => g[y] = f[y]
    PROVE  SumFunctionOnSet(g, S \cup {x})
               = SumFunctionOnSet(f, S) - (IF x \in S THEN f[x] ELSE 0) + g[x]
<1>1. SumFunctionOnSet(f, S) \in Int
  BY SumType
<1>2. CASE x \in S
  <2>1. S \cup {x} = S
    BY <1>2
  <2>2. SumFunctionOnSet(g, S) = SumFunctionOnSet(f, S) - f[x] + g[x]
    BY <1>2, SumChanged
  <2>3. QED
    BY <1>2, <2>1, <2>2
<1>3. CASE x \notin S
  <2>1. SumFunctionOnSet(g, S \cup {x}) = SumFunctionOnSet(f, S) + g[x]
    BY <1>3, SumJoined
  <2>2. QED
    BY <1>1, <1>3, <2>1
<1>4. QED
  BY <1>2, <1>3

THEOREM SumOfZeros ==
    ASSUME NEW f, NEW S, IsFiniteSet(S), \A x \in S : f[x] = 0
    PROVE  SumFunctionOnSet(f, S) = 0
<1> DEFINE Bad == {T \in SUBSET S : SumFunctionOnSet(f, T) # 0}
<1>1. SUFFICES ASSUME Bad # {} PROVE FALSE
  OBVIOUS
<1>2. PICK T \in Bad : \A U \in SUBSET T : U # T => U \notin Bad
  <2> HIDE DEF Bad
  <2>1. Bad \in SUBSET SUBSET S
    BY DEF Bad
  <2>2. QED
    BY <1>1, <2>1, SmallestSubset
<1>3. T # {}
  BY <1>2, SumEmpty
<1>4. Pick(T) \in T
  BY <1>3 DEF Pick
<1>5. SumFunctionOnSet(f, T \ {Pick(T)}) = 0 /\ f[Pick(T)] = 0
  BY <1>2, <1>4
<1>6. SumFunctionOnSet(f, T) = f[Pick(T)] + SumFunctionOnSet(f, T \ {Pick(T)})
  BY <1>2, <1>3, SumStep, FS_Subset
<1>7. QED
  BY <1>2, <1>5, <1>6

THEOREM SumAtMost ==
    ASSUME NEW f, NEW g, NEW S, IsFiniteSet(S),
           \A x \in S : f[x] \in Int /\ g[x] \in Int /\ f[x] <= g[x]
    PROVE  SumFunctionOnSet(f, S) <= SumFunctionOnSet(g, S)
<1> DEFINE Bad == {T \in SUBSET S :
               ~(SumFunctionOnSet(f, T) <= SumFunctionOnSet(g, T))}
<1>1. SUFFICES ASSUME Bad # {} PROVE FALSE
  OBVIOUS
<1>2. PICK T \in Bad : \A U \in SUBSET T : U # T => U \notin Bad
  <2> HIDE DEF Bad
  <2>1. Bad \in SUBSET SUBSET S
    BY DEF Bad
  <2>2. QED
    BY <1>1, <2>1, SmallestSubset
<1>3. T # {}
  <2>1. SumFunctionOnSet(f, {}) <= SumFunctionOnSet(g, {})
    BY SumEmpty
  <2>2. QED
    BY <1>2, <2>1
<1>4. Pick(T) \in T
  BY <1>3 DEF Pick
<1> DEFINE rest == T \ {Pick(T)}
<1>5. SumFunctionOnSet(f, rest) <= SumFunctionOnSet(g, rest)
  BY <1>2, <1>4
<1>6. IsFiniteSet(T) /\ IsFiniteSet(rest)
  BY <1>2, FS_Subset
<1>7. /\ SumFunctionOnSet(f, T) = f[Pick(T)] + SumFunctionOnSet(f, rest)
      /\ SumFunctionOnSet(g, T) = g[Pick(T)] + SumFunctionOnSet(g, rest)
  BY <1>3, <1>6, SumStep
<1>8. /\ SumFunctionOnSet(f, rest) \in Int /\ SumFunctionOnSet(g, rest) \in Int
      /\ f[Pick(T)] \in Int /\ g[Pick(T)] \in Int /\ f[Pick(T)] <= g[Pick(T)]
  <2>1. \A y \in rest : f[y] \in Int /\ g[y] \in Int
    BY <1>2
  <2> HIDE DEF rest
  <2>2. QED
    BY <1>2, <1>4, <1>6, <2>1, SumType
<1> HIDE DEF rest
<1>9. QED
  BY <1>2, <1>5, <1>7, <1>8

THEOREM SumPlus ==
    ASSUME NEW f, NEW g, NEW h, NEW S, IsFiniteSet(S),
           \A x \in S : f[x] \in Int /\ g[x] \in Int /\ h[x] = f[x] + g[x]
    PROVE  SumFunctionOnSet(h, S) = SumFunctionOnSet(f, S) + SumFunctionOnSet(g, S)
<1> DEFINE Bad == {T \in SUBSET S :
               SumFunctionOnSet(h, T) # SumFunctionOnSet(f, T) + SumFunctionOnSet(g, T)}
<1>1. SUFFICES ASSUME Bad # {} PROVE FALSE
  OBVIOUS
<1>2. PICK T \in Bad : \A U \in SUBSET T : U # T => U \notin Bad
  <2> HIDE DEF Bad
  <2>1. Bad \in SUBSET SUBSET S
    BY DEF Bad
  <2>2. QED
    BY <1>1, <2>1, SmallestSubset
<1>3. T # {}
  <2>1. SumFunctionOnSet(h, {}) = SumFunctionOnSet(f, {}) + SumFunctionOnSet(g, {})
    BY SumEmpty
  <2>2. QED
    BY <1>2, <2>1
<1>4. Pick(T) \in T
  BY <1>3 DEF Pick
<1> DEFINE rest == T \ {Pick(T)}
<1>5. SumFunctionOnSet(h, rest) = SumFunctionOnSet(f, rest) + SumFunctionOnSet(g, rest)
  BY <1>2, <1>4
<1>6. IsFiniteSet(T) /\ IsFiniteSet(rest)
  BY <1>2, FS_Subset
<1>7. /\ SumFunctionOnSet(f, T) = f[Pick(T)] + SumFunctionOnSet(f, rest)
      /\ SumFunctionOnSet(g, T) = g[Pick(T)] + SumFunctionOnSet(g, rest)
      /\ SumFunctionOnSet(h, T) = h[Pick(T)] + SumFunctionOnSet(h, rest)
  BY <1>3, <1>6, SumStep
<1>8. /\ SumFunctionOnSet(f, rest) \in Int /\ SumFunctionOnSet(g, rest) \in Int
      /\ f[Pick(T)] \in Int /\ g[Pick(T)] \in Int /\ h[Pick(T)] = f[Pick(T)] + g[Pick(T)]
  <2>1. \A y \in rest : f[y] \in Int /\ g[y] \in Int
    BY <1>2
  <2> HIDE DEF rest
  <2>2. QED
    BY <1>2, <1>4, <1>6, <2>1, SumType
<1> HIDE DEF rest
<1>9. QED
  BY <1>2, <1>5, <1>7, <1>8

THEOREM SumAtLeastTerm ==
    ASSUME NEW f, NEW S, IsFiniteSet(S), \A y \in S : f[y] \in Nat, NEW x \in S
    PROVE  f[x] <= SumFunctionOnSet(f, S)
<1>1. SumFunctionOnSet(f, S) = f[x] + SumFunctionOnSet(f, S \ {x})
  BY SumWithout
<1>2. SumFunctionOnSet(f, S \ {x}) \in Nat
  <2>1. IsFiniteSet(S \ {x})
    BY FS_RemoveElement
  <2>2. QED
    BY <2>1, SumIsNat
<1>3. QED
  BY <1>1, <1>2
=============================================================================
