-------------------------- MODULE CollectionLemmas --------------------------
(***************************************************************************)
(* Facts that the proofs of the components share: about sums over finite   *)
(* functions (the counters of the session), about sequences whose elements *)
(* are linked once (ngx_queue_t), and about parts picked out of sequences. *)
(***************************************************************************)
EXTENDS Integers, Sequences, FiniteSets, Functions, SequencesExt, Selection, TLAPS,
        FiniteSetTheorems, SequenceTheorems, WellFoundedInduction

(* A nonempty set of natural numbers has a least element.                  *)
LEMMA LeastNumber ==
    ASSUME NEW T \in SUBSET Nat, T # {}
    PROVE  \E n \in T : \A m \in T : n <= m
  <1>1. PICK n \in T : \A m \in T : ~ (<<m, n>> \in OpToRel(<, Nat))
    BY NatLessThanWellFounded, WFMin
  <1>2. \A m \in T : ~ (m < n)
    BY <1>1 DEF OpToRel
  <1> QED
    BY <1>2
-----------------------------------------------------------------------------
Chosen(U) == CHOOSE x \in U : TRUE

\* The partial sums of f, by the recursion of SumFunction.
Partial(f) ==
    CHOOSE g : g = [U \in SUBSET DOMAIN f |->
                      IF U = {} THEN 0 ELSE f[Chosen(U)] + g[U \ {Chosen(U)}]]

LEMMA SumIsPartial ==
    ASSUME NEW f
    PROVE  SumFunction(f) = Partial(f)[DOMAIN f]
  BY DEF SumFunction, SumFunctionOnSet, FoldFunctionOnSet, MapThenFoldSet, Partial, Chosen

(* The sets of at most n elements of S, on which a partial sum is defined  *)
(* by n steps of its recursion.                                            *)
Small(S, n) == {U \in SUBSET S : Cardinality(U) <= n}

SumsUpTo(f, S, n) ==
    {g \in [Small(S, n) -> Int] :
        \A U \in Small(S, n) :
            g[U] = IF U = {} THEN 0 ELSE f[Chosen(U)] + g[U \ {Chosen(U)}]}

(* Taking the chosen element out of a finite set.                          *)
LEMMA ChosenOut ==
    ASSUME NEW S, IsFiniteSet(S), NEW U \in SUBSET S, U # {}
    PROVE  /\ Chosen(U) \in U /\ IsFiniteSet(U) /\ Cardinality(U) \in Nat
           /\ Cardinality(U \ {Chosen(U)}) = Cardinality(U) - 1
           /\ Cardinality(U) > 0
           /\ U \ {Chosen(U)} \in SUBSET S
  <1>1. Chosen(U) \in U
    BY DEF Chosen
  <1>2. IsFiniteSet(U)
    BY FS_Subset
  <1>3. Cardinality(U) \in Nat /\ Cardinality(U \ {Chosen(U)}) = Cardinality(U) - 1
    BY <1>1, <1>2, FS_CardinalityType, FS_RemoveElement
  <1>4. Cardinality(U) # 0
    BY <1>2, FS_EmptySet
  <1> QED
    BY <1>1, <1>2, <1>3, <1>4

(* One more step of the recursion.                                         *)
LEMMA SumsGrow ==
    ASSUME NEW S, IsFiniteSet(S), NEW f \in [S -> Int], NEW n \in Nat, SumsUpTo(f, S, n) # {}
    PROVE  SumsUpTo(f, S, n + 1) # {}
  <1>1. PICK g : g \in SumsUpTo(f, S, n)
    OBVIOUS
  <1>2. g \in [Small(S, n) -> Int]
        /\ \A U \in Small(S, n) :
              g[U] = IF U = {} THEN 0 ELSE f[Chosen(U)] + g[U \ {Chosen(U)}]
    BY <1>1 DEF SumsUpTo
  <1> DEFINE Value(U) == IF U = {} THEN 0 ELSE f[Chosen(U)] + g[U \ {Chosen(U)}]
             h == [U \in Small(S, n + 1) |-> Value(U)]
  <1>3. ASSUME NEW U \in Small(S, n + 1), U # {}
        PROVE  /\ U \ {Chosen(U)} \in Small(S, n) /\ U \ {Chosen(U)} \in Small(S, n + 1)
               /\ Chosen(U) \in S
    <2>1. U \in SUBSET S /\ Cardinality(U) <= n + 1
      BY DEF Small
    <2>2. /\ Chosen(U) \in U /\ Cardinality(U) \in Nat
          /\ Cardinality(U \ {Chosen(U)}) = Cardinality(U) - 1
          /\ U \ {Chosen(U)} \in SUBSET S
      BY <1>3, <2>1, ChosenOut
    <2> QED
      BY <2>1, <2>2 DEF Small
  <1>4. ASSUME NEW U \in Small(S, n + 1) PROVE Value(U) \in Int
    BY <1>2, <1>3
  <1>5. h \in [Small(S, n + 1) -> Int]
    BY <1>4
  <1>6. ASSUME NEW U \in Small(S, n) PROVE U \in Small(S, n + 1) /\ h[U] = g[U]
    <2>1. U \in SUBSET S /\ Cardinality(U) <= n /\ Cardinality(U) \in Nat
      BY FS_Subset, FS_CardinalityType DEF Small
    <2>2. U \in Small(S, n + 1)
      BY <2>1 DEF Small
    <2> QED
      BY <1>2, <2>2
  <1>7. ASSUME NEW U \in Small(S, n + 1)
        PROVE  h[U] = IF U = {} THEN 0 ELSE f[Chosen(U)] + h[U \ {Chosen(U)}]
    BY <1>3, <1>6
  <1>8. h \in SumsUpTo(f, S, n + 1)
    <2> HIDE DEF h
    <2> QED  BY <1>5, <1>7 DEF SumsUpTo
  <1> QED
    BY <1>8

(* The recursion is defined on all subsets of a finite set.                *)
LEMMA SumsExist ==
    ASSUME NEW S, IsFiniteSet(S), NEW f \in [S -> Int]
    PROVE  \A n \in Nat : SumsUpTo(f, S, n) # {}
  <1> DEFINE T == {n \in Nat : SumsUpTo(f, S, n) = {}}
  <1> SUFFICES ASSUME T # {} PROVE FALSE
    OBVIOUS
  <1>1. PICK n \in T : \A k \in T : n <= k
    BY LeastNumber
  <1>2. n # 0
    <2> SUFFICES SumsUpTo(f, S, 0) # {}
      BY <1>1
    <2>1. \A U \in Small(S, 0) : U = {}
      <3> SUFFICES ASSUME NEW U \in Small(S, 0), U # {} PROVE FALSE
        OBVIOUS
      <3>1. U \in SUBSET S /\ Cardinality(U) <= 0
        BY DEF Small
      <3>2. Cardinality(U) > 0 /\ Cardinality(U) \in Nat
        BY <3>1, ChosenOut
      <3> QED  BY <3>1, <3>2
    <2>2. [U \in Small(S, 0) |-> 0] \in SumsUpTo(f, S, 0)
      BY <2>1 DEF SumsUpTo
    <2> QED  BY <2>2
  <1>3. n - 1 \in Nat /\ SumsUpTo(f, S, n - 1) # {} /\ (n - 1) + 1 = n
    BY <1>1, <1>2
  <1> HIDE DEF T
  <1>4. SumsUpTo(f, S, (n - 1) + 1) # {}
    BY <1>3, SumsGrow
  <1> QED
    BY <1>1, <1>3, <1>4 DEF T

(* The equation that SumFunction is defined by.                            *)
LEMMA PartialSums ==
    ASSUME NEW S, IsFiniteSet(S), NEW f \in [S -> Int]
    PROVE  /\ SumFunction(f) = Partial(f)[S]
           /\ \A U \in SUBSET S :
                 /\ Partial(f)[U] \in Int
                 /\ Partial(f)[U] = IF U = {} THEN 0
                                    ELSE f[Chosen(U)] + Partial(f)[U \ {Chosen(U)}]
  <1>1. Cardinality(S) \in Nat
    BY FS_CardinalityType
  <1>2. PICK g : g \in SumsUpTo(f, S, Cardinality(S))
    BY <1>1, SumsExist
  <1>3. Small(S, Cardinality(S)) = SUBSET S
    BY FS_Subset DEF Small
  <1>4. g \in [SUBSET S -> Int]
        /\ \A U \in SUBSET S : g[U] = IF U = {} THEN 0 ELSE f[Chosen(U)] + g[U \ {Chosen(U)}]
    BY <1>2, <1>3 DEF SumsUpTo
  <1>5. DOMAIN f = S
    OBVIOUS
  <1>6. Partial(f) = [U \in SUBSET S |-> IF U = {} THEN 0
                                         ELSE f[Chosen(U)] + Partial(f)[U \ {Chosen(U)}]]
    <2>1. g = [U \in SUBSET S |-> IF U = {} THEN 0 ELSE f[Chosen(U)] + g[U \ {Chosen(U)}]]
      BY <1>4
    <2> QED
      BY <1>5, <2>1 DEF Partial
  <1>7. \A U \in SUBSET S :
           Partial(f)[U] = IF U = {} THEN 0 ELSE f[Chosen(U)] + Partial(f)[U \ {Chosen(U)}]
    BY <1>6
  <1> DEFINE P == Partial(f)
  <1>70. \A U \in SUBSET S : P[U] = IF U = {} THEN 0 ELSE f[Chosen(U)] + P[U \ {Chosen(U)}]
    BY <1>7
  <1>71. P[{}] = 0
    BY <1>7
  <1> HIDE DEF P
  <1>8. \A U \in SUBSET S : P[U] \in Int
    <2> DEFINE T == {n \in Nat : \E U \in SUBSET S : Cardinality(U) = n /\ P[U] \notin Int}
    <2> SUFFICES ASSUME NEW U0 \in SUBSET S, P[U0] \notin Int PROVE FALSE
      OBVIOUS
    <2>1. Cardinality(U0) \in Nat
      BY FS_Subset, FS_CardinalityType
    <2>2. T # {} /\ T \in SUBSET Nat
      BY <2>1
    <2>3. PICK n \in T : \A k \in T : n <= k
      BY <2>2, LeastNumber
    <2>4. PICK U \in SUBSET S : Cardinality(U) = n /\ P[U] \notin Int
      OBVIOUS
    <2>5. U # {}
      <3> HIDE DEF T
      <3> QED  BY <1>71, <2>4
    <2>6. /\ Chosen(U) \in S /\ Cardinality(U) \in Nat /\ Cardinality(U) > 0
          /\ Cardinality(U \ {Chosen(U)}) = Cardinality(U) - 1
          /\ U \ {Chosen(U)} \in SUBSET S
      BY <2>5, ChosenOut
    <2>7. P[U \ {Chosen(U)}] \in Int
      BY <2>3, <2>4, <2>6
    <2>8. P[U] = f[Chosen(U)] + P[U \ {Chosen(U)}] /\ f[Chosen(U)] \in Int
      BY <1>70, <2>5, <2>6
    <2> HIDE DEF T
    <2> QED
      BY <2>4, <2>7, <2>8
  <1> QED
    BY <1>5, <1>7, <1>8, SumIsPartial DEF P
-----------------------------------------------------------------------------
(* The sum of a function that is zero everywhere.                          *)
LEMMA SumOfZero ==
    ASSUME NEW S, IsFiniteSet(S), NEW f \in [S -> Int], \A s \in S : f[s] = 0
    PROVE  SumFunction(f) = 0
  <1> DEFINE P == Partial(f)
             T == {n \in Nat : \E U \in SUBSET S : Cardinality(U) = n /\ P[U] # 0}
  <1>0. \A U \in SUBSET S : P[U] \in Int
            /\ P[U] = IF U = {} THEN 0 ELSE f[Chosen(U)] + P[U \ {Chosen(U)}]
    BY PartialSums
  <1>2. SumFunction(f) = P[S]
    BY PartialSums
  <1>1. \A U \in SUBSET S : P[U] = IF U = {} THEN 0 ELSE f[Chosen(U)] + P[U \ {Chosen(U)}]
    BY <1>0
  <1> HIDE DEF P
  <1> SUFFICES ASSUME P[S] # 0 PROVE FALSE
    BY <1>2
  <1>3. T # {} /\ T \in SUBSET Nat
    BY FS_CardinalityType
  <1>4. PICK n \in T : \A k \in T : n <= k
    BY <1>3, LeastNumber
  <1>5. PICK U \in SUBSET S : Cardinality(U) = n /\ P[U] # 0
    OBVIOUS
  <1>6. U # {}
    BY <1>1, <1>5
  <1>7. /\ Chosen(U) \in S /\ Cardinality(U) \in Nat /\ Cardinality(U) > 0
        /\ Cardinality(U \ {Chosen(U)}) = Cardinality(U) - 1
        /\ U \ {Chosen(U)} \in SUBSET S
    BY <1>6, ChosenOut
  <1>8. P[U \ {Chosen(U)}] = 0
    BY <1>4, <1>5, <1>7
  <1> QED
    BY <1>1, <1>5, <1>6, <1>7, <1>8

\* f and h differ at a at most.
SameBut(S, f, h, a) == \A s \in S : s # a => h[s] = f[s]

(* Changing one value of a function changes its sum by the difference.     *)
LEMMA SumOfUpdate ==
    ASSUME NEW S, IsFiniteSet(S), NEW f \in [S -> Int], NEW h \in [S -> Int],
           NEW a \in S, SameBut(S, f, h, a)
    PROVE  /\ SumFunction(f) \in Int /\ SumFunction(h) \in Int
           /\ SumFunction(h) = SumFunction(f) + h[a] - f[a]
  <1> DEFINE P == Partial(f)
             Q == Partial(h)
             Moved(U) == IF a \in U THEN h[a] - f[a] ELSE 0
             T == {n \in Nat : \E U \in SUBSET S : Cardinality(U) = n /\ Q[U] # P[U] + Moved(U)}
  <1>1. \A U \in SUBSET S : P[U] \in Int
            /\ P[U] = IF U = {} THEN 0 ELSE f[Chosen(U)] + P[U \ {Chosen(U)}]
    BY PartialSums
  <1>2. \A U \in SUBSET S : Q[U] \in Int
            /\ Q[U] = IF U = {} THEN 0 ELSE h[Chosen(U)] + Q[U \ {Chosen(U)}]
    BY PartialSums
  <1>3. SumFunction(f) = P[S] /\ SumFunction(h) = Q[S]
    BY PartialSums
  <1> HIDE DEF P, Q
  <1>4. Q[S] = P[S] + Moved(S)
    <2> SUFFICES ASSUME Q[S] # P[S] + Moved(S) PROVE FALSE
      OBVIOUS
    <2>1. T # {} /\ T \in SUBSET Nat
      BY FS_CardinalityType
    <2>2. PICK n \in T : \A k \in T : n <= k
      BY <2>1, LeastNumber
    <2>3. PICK U \in SUBSET S : Cardinality(U) = n /\ Q[U] # P[U] + Moved(U)
      OBVIOUS
    <2>4. U # {}
      <3>1. P[{}] = 0 /\ Q[{}] = 0 /\ Moved({}) = 0
        BY <1>1, <1>2
      <3>2. P[{}] + Moved({}) = 0
        BY <3>1
      <3> HIDE DEF T, Moved
      <3>3. Q[{}] = P[{}] + Moved({})
        BY <3>1, <3>2
      <3> QED  BY <2>3, <3>3
    <2>5. /\ Chosen(U) \in S /\ Chosen(U) \in U /\ Cardinality(U) \in Nat /\ Cardinality(U) > 0
          /\ Cardinality(U \ {Chosen(U)}) = Cardinality(U) - 1
          /\ U \ {Chosen(U)} \in SUBSET S
      BY <2>4, ChosenOut
    <2> DEFINE V == U \ {Chosen(U)}
    <2>6. Q[V] = P[V] + Moved(V)
      BY <2>2, <2>3, <2>5
    <2>7. P[U] = f[Chosen(U)] + P[V] /\ Q[U] = h[Chosen(U)] + Q[V]
      BY <1>1, <1>2, <2>4
    <2>8. P[V] \in Int /\ Q[V] \in Int /\ f[a] \in Int /\ h[a] \in Int
          /\ f[Chosen(U)] \in Int /\ h[Chosen(U)] \in Int
      BY <1>1, <1>2, <2>5
    <2>9. CASE Chosen(U) = a
      <3>1. Moved(V) = 0 /\ Moved(U) = h[a] - f[a]
        BY <2>5, <2>9
      <3> QED
        BY <2>3, <2>6, <2>7, <2>8, <2>9, <3>1
    <2>10. CASE Chosen(U) # a
      <3>1. Moved(V) = Moved(U) /\ Moved(U) \in Int /\ h[Chosen(U)] = f[Chosen(U)]
        BY <2>5, <2>8, <2>10 DEF SameBut
      <3> HIDE DEF Moved
      <3> QED
        BY <2>3, <2>6, <2>7, <2>8, <2>10, <3>1
    <2> QED
      BY <2>9, <2>10
  <1>5. P[S] \in Int /\ Q[S] \in Int /\ f[a] \in Int /\ h[a] \in Int
    BY <1>1, <1>2
  <1> QED
    BY <1>3, <1>4, <1>5

(* The sum of natural numbers is one, and no less than any of them.        *)
LEMMA SumOfNaturals ==
    ASSUME NEW S, IsFiniteSet(S), NEW f \in [S -> Nat]
    PROVE  SumFunction(f) \in Nat /\ \A a \in S : f[a] <= SumFunction(f)
  <1>1. f \in [S -> Int]
    OBVIOUS
  <1> DEFINE P == Partial(f)
             T == {n \in Nat : \E U \in SUBSET S : Cardinality(U) = n
                                   /\ ~(P[U] >= 0 /\ \A x \in U : f[x] <= P[U])}
  <1>2. \A U \in SUBSET S : P[U] \in Int
            /\ P[U] = IF U = {} THEN 0 ELSE f[Chosen(U)] + P[U \ {Chosen(U)}]
    BY <1>1, PartialSums
  <1>3. SumFunction(f) = P[S]
    BY <1>1, PartialSums
  <1> HIDE DEF P
  <1>4. P[S] >= 0 /\ \A x \in S : f[x] <= P[S]
    <2> SUFFICES ASSUME ~(P[S] >= 0 /\ \A x \in S : f[x] <= P[S]) PROVE FALSE
      OBVIOUS
    <2>1. T # {} /\ T \in SUBSET Nat
      BY FS_CardinalityType
    <2>2. PICK n \in T : \A k \in T : n <= k
      BY <2>1, LeastNumber
    <2>3. PICK U \in SUBSET S : Cardinality(U) = n /\ ~(P[U] >= 0 /\ \A x \in U : f[x] <= P[U])
      OBVIOUS
    <2>4. U # {}
      <3>1. P[{}] = 0
        BY <1>2
      <3> QED  BY <2>3, <3>1
    <2>5. /\ Chosen(U) \in S /\ Chosen(U) \in U /\ Cardinality(U) \in Nat /\ Cardinality(U) > 0
          /\ Cardinality(U \ {Chosen(U)}) = Cardinality(U) - 1
          /\ U \ {Chosen(U)} \in SUBSET S
      BY <2>4, ChosenOut
    <2> DEFINE V == U \ {Chosen(U)}
    <2>6. P[V] >= 0 /\ \A x \in V : f[x] <= P[V]
      <3>1. Cardinality(V) \in Nat /\ Cardinality(V) < n /\ V \in SUBSET S
        BY <2>3, <2>5
      <3>2. Cardinality(V) \notin T
        <4> HIDE DEF T, V
        <4> QED  BY <2>2, <2>3, <2>5, <3>1
      <3> QED  BY <3>1, <3>2
    <2>7. P[U] = f[Chosen(U)] + P[V] /\ P[V] \in Int /\ f[Chosen(U)] \in Nat
      BY <1>2, <2>4, <2>5
    <2>8. \A x \in U : f[x] \in Nat /\ (x = Chosen(U) \/ x \in V)
      BY <2>3
    <2> QED
      BY <2>3, <2>6, <2>7, <2>8
  <1>5. P[S] \in Int
    BY <1>2
  <1> HIDE DEF T
  <1> QED
    BY <1>3, <1>4, <1>5

(* Any element may be the first that is added.                             *)
Summand(f, S, U, b) == IsFiniteSet(S) /\ f \in [S -> Int] /\ U \in SUBSET S /\ b \in U

LEMMA AnyFirst ==
    ASSUME NEW f, NEW S, NEW V0, NEW b, Summand(f, S, V0, b)
    PROVE  Partial(f)[V0] = f[b] + Partial(f)[V0 \ {b}]
  <1>0. IsFiniteSet(S) /\ f \in [S -> Int] /\ V0 \in SUBSET S /\ b \in V0
    BY DEF Summand
  <1> DEFINE P == Partial(f)
             Odd(U) == \E a \in U : P[U] # f[a] + P[U \ {a}]
             T == {n \in Nat : \E U \in SUBSET S : Cardinality(U) = n /\ Odd(U)}
  <1>1. \A U \in SUBSET S : P[U] \in Int
            /\ P[U] = IF U = {} THEN 0 ELSE f[Chosen(U)] + P[U \ {Chosen(U)}]
    BY <1>0, PartialSums
  <1> HIDE DEF P
  <1> SUFFICES ASSUME Odd(V0) PROVE FALSE
    BY <1>0 DEF P
  <1>2. T # {} /\ T \in SUBSET Nat
    <2>1. Cardinality(V0) \in Nat
      BY <1>0, FS_Subset, FS_CardinalityType
    <2> QED  BY <2>1, <1>0
  <1>3. PICK n \in T : \A k \in T : n <= k
    BY <1>2, LeastNumber
  <1>4. PICK U \in SUBSET S : Cardinality(U) = n /\ Odd(U)
    OBVIOUS
  <1>5. ASSUME NEW V \in SUBSET S, Cardinality(V) \in Nat, Cardinality(V) < Cardinality(U)
        PROVE  \A a \in V : P[V] = f[a] + P[V \ {a}]
    <2>1. n \in Nat
      OBVIOUS
    <2>2. Cardinality(V) \notin T
      <3> HIDE DEF T
      <3> QED  BY <2>1, <1>3, <1>4, <1>5
    <2> QED  BY <2>2, <1>5
  <1>6. PICK a \in U : P[U] # f[a] + P[U \ {a}]
    BY <1>4
  <1> HIDE DEF T, Odd
  <1> DEFINE c == Chosen(U)
  <1>7. /\ c \in U /\ IsFiniteSet(U) /\ Cardinality(U) \in Nat
        /\ Cardinality(U \ {c}) = Cardinality(U) - 1 /\ Cardinality(U) > 0
        /\ U \ {c} \in SUBSET S
    BY <1>0, <1>6, ChosenOut
  <1>8. P[U] = f[c] + P[U \ {c}]
    BY <1>1, <1>7
  <1> HIDE DEF c
  <1>9. a # c
    BY <1>6, <1>8
  <1>10. P[U \ {c}] = f[a] + P[(U \ {c}) \ {a}]
    <2>1. a \in U \ {c} /\ Cardinality(U \ {c}) \in Nat /\ Cardinality(U \ {c}) < Cardinality(U)
      BY <1>6, <1>7, <1>9
    <2> QED  BY <2>1, <1>5, <1>7
  <1>11. P[U \ {a}] = f[c] + P[(U \ {a}) \ {c}]
    <2>1. Cardinality(U \ {a}) = Cardinality(U) - 1
      BY <1>6, <1>7, FS_RemoveElement
    <2>2. c \in U \ {a} /\ Cardinality(U \ {a}) \in Nat /\ Cardinality(U \ {a}) < Cardinality(U)
          /\ U \ {a} \in SUBSET S
      BY <2>1, <1>7, <1>9
    <2> QED  BY <2>2, <1>5
  <1> DEFINE W == (U \ {a}) \ {c}
  <1>12. (U \ {c}) \ {a} = W /\ W \in SUBSET S
    BY <1>7
  <1>13. f[a] \in Int /\ f[c] \in Int /\ P[W] \in Int
    BY <1>0, <1>1, <1>6, <1>7, <1>12
  <1>14. P[U \ {c}] = f[a] + P[W] /\ P[U \ {a}] = f[c] + P[W]
    BY ONLY <1>10, <1>11, <1>12
  <1> HIDE DEF W
  <1> QED  BY ONLY <1>6, <1>8, <1>13, <1>14

(* Functions that agree on a set have the same sum over it.                *)
LEMMA SameSums ==
    ASSUME NEW S, IsFiniteSet(S), NEW f \in [S -> Int],
           NEW R, IsFiniteSet(R), NEW h \in [R -> Int],
           NEW A \in SUBSET S, A \in SUBSET R, \A a \in A : f[a] = h[a]
    PROVE  Partial(f)[A] = Partial(h)[A]
  <1> DEFINE P == Partial(f)
             Q == Partial(h)
             T == {n \in Nat : \E U \in SUBSET A : Cardinality(U) = n /\ P[U] # Q[U]}
  <1>1. \A U \in SUBSET S : P[U] \in Int
            /\ P[U] = IF U = {} THEN 0 ELSE f[Chosen(U)] + P[U \ {Chosen(U)}]
    BY PartialSums
  <1>2. \A U \in SUBSET R : Q[U] \in Int
            /\ Q[U] = IF U = {} THEN 0 ELSE h[Chosen(U)] + Q[U \ {Chosen(U)}]
    BY PartialSums
  <1> HIDE DEF P, Q
  <1> SUFFICES ASSUME P[A] # Q[A] PROVE FALSE
    BY DEF P, Q
  <1>3. IsFiniteSet(A)
    BY FS_Subset
  <1>4. T # {} /\ T \in SUBSET Nat
    BY <1>3, FS_CardinalityType
  <1>5. PICK n \in T : \A k \in T : n <= k
    BY <1>4, LeastNumber
  <1>6. PICK U \in SUBSET A : Cardinality(U) = n /\ P[U] # Q[U]
    OBVIOUS
  <1>7. U # {}
    BY <1>1, <1>2, <1>6
  <1>8. /\ Chosen(U) \in A /\ Cardinality(U) \in Nat /\ Cardinality(U) > 0
        /\ Cardinality(U \ {Chosen(U)}) = Cardinality(U) - 1
        /\ U \ {Chosen(U)} \in SUBSET A
    BY <1>3, <1>7, ChosenOut
  <1>9. P[U \ {Chosen(U)}] = Q[U \ {Chosen(U)}]
    BY <1>5, <1>6, <1>8
  <1>10. U \in SUBSET S /\ U \in SUBSET R
    OBVIOUS
  <1> HIDE DEF T
  <1> QED  BY <1>1, <1>2, <1>6, <1>7, <1>8, <1>9, <1>10

(* The sum over two sequences, one behind the other.                       *)
LEMMA SumOfConcat ==
    ASSUME NEW f \in Seq(Int), NEW h \in Seq(Int), NEW r, r = f \o h
    PROVE  SumFunction(r) = SumFunction(f) + SumFunction(h)
  <1> DEFINE a == Len(f)
             b == Len(h)
             P == Partial(f)
             Q == Partial(h)
             R == Partial(r)
  <1>1. /\ a \in Nat /\ b \in Nat /\ f \in [1 .. a -> Int] /\ h \in [1 .. b -> Int]
        /\ r \in [1 .. a + b -> Int]
        /\ \A k \in 1 .. a : r[k] = f[k]
        /\ \A k \in 1 .. b : r[a + k] = h[k]
    <2>1. a \in Nat /\ b \in Nat /\ f \in [1 .. a -> Int] /\ h \in [1 .. b -> Int]
      OBVIOUS
    <2>2. f \o h \in Seq(Int) /\ Len(f \o h) = a + b
      OBVIOUS
    <2>3. \A k \in 1 .. a : (f \o h)[k] = f[k]
      OBVIOUS
    <2>4. \A k \in 1 .. b : (f \o h)[a + k] = h[k]
      OBVIOUS
    <2>5. r \in [1 .. a + b -> Int]
      <3>1. r \in Seq(Int) /\ Len(r) = a + b
        BY <2>2
      <3> HIDE DEF a, b
      <3> QED  BY ONLY <3>1
    <2> QED  BY <2>1, <2>3, <2>4, <2>5
  <1> HIDE DEF a, b
  <1>2. IsFiniteSet(1 .. a) /\ IsFiniteSet(1 .. b) /\ IsFiniteSet(1 .. a + b)
    BY <1>1, FS_Interval
  <1>3. SumFunction(f) = P[1 .. a] /\ SumFunction(h) = Q[1 .. b] /\ SumFunction(r) = R[1 .. a + b]
    BY <1>1, <1>2, PartialSums
  <1>4. P[1 .. a] \in Int /\ \A U \in SUBSET (1 .. b) : Q[U] \in Int
    BY <1>1, <1>2, PartialSums
  <1> DEFINE A == 1 .. a
             B == 1 .. b
             C == 1 .. a + b
  <1>5. /\ f \in [A -> Int] /\ h \in [B -> Int] /\ r \in [C -> Int]
        /\ IsFiniteSet(A) /\ IsFiniteSet(B) /\ IsFiniteSet(C)
        /\ A \in SUBSET A /\ A \in SUBSET C /\ \A k \in A : r[k] = f[k]
    BY <1>1, <1>2
  <1>6. /\ R[A] = P[A]
        /\ \A U \in SUBSET B : \A k \in U : Q[U] = h[k] + Q[U \ {k}]
        /\ \A U \in SUBSET C : \A k \in U : R[U] = r[k] + R[U \ {k}]
    <2> HIDE DEF A, B, C
    <2>1. R[A] = P[A]
      BY ONLY <1>5, SameSums
    <2>2. ASSUME NEW U \in SUBSET B, NEW k \in U PROVE Q[U] = h[k] + Q[U \ {k}]
      <3>1. Summand(h, B, U, k)
        BY <1>5 DEF Summand
      <3>2. Partial(h)[U] = h[k] + Partial(h)[U \ {k}]
        BY ONLY <3>1, AnyFirst
      <3> QED  BY <3>2
    <2>3. ASSUME NEW U \in SUBSET C, NEW k \in U PROVE R[U] = r[k] + R[U \ {k}]
      <3>1. Summand(r, C, U, k)
        BY <1>5 DEF Summand
      <3>2. Partial(r)[U] = r[k] + Partial(r)[U \ {k}]
        BY ONLY <3>1, AnyFirst
      <3> QED  BY <3>2
    <2> QED  BY <2>1, <2>2, <2>3
  <1>7. R[1 .. a] = P[1 .. a]
    BY <1>6
  <1>8. Q[{}] = 0
    BY <1>1, <1>2, PartialSums
  <1> HIDE DEF P, Q, R
  <1> DEFINE T == {n \in Nat : n <= b /\ R[1 .. a + n] # P[1 .. a] + Q[1 .. n]}
  <1>9. T = {}
    <2> SUFFICES ASSUME T # {} PROVE FALSE
      OBVIOUS
    <2>1. PICK n \in T : \A k \in T : n <= k
      BY LeastNumber
    <2>2. n \in Nat /\ n <= b /\ R[1 .. a + n] # P[1 .. a] + Q[1 .. n]
      BY <2>1
    <2>3. n # 0
      <3>1. 1 .. 0 = {} /\ a + 0 = a
        BY <1>1
      <3>2. R[1 .. a + 0] = P[1 .. a] + Q[1 .. 0]
        BY ONLY <3>1, <1>4, <1>7, <1>8
      <3> QED  BY ONLY <3>2, <2>2
    <2>4. R[1 .. a + (n - 1)] = P[1 .. a] + Q[1 .. n - 1]
      <3>1. n - 1 \notin T /\ n - 1 \in Nat /\ n - 1 <= b
        BY <1>1, <2>1, <2>2, <2>3
      <3> QED  BY <3>1
    <2> HIDE DEF T
    <2>5. Q[1 .. n] = h[n] + Q[1 .. n - 1]
      <3>1. 1 .. n \in SUBSET (1 .. b) /\ n \in 1 .. n /\ (1 .. n) \ {n} = 1 .. n - 1
        BY <1>1, <2>2, <2>3
      <3>2. Q[1 .. n] = h[n] + Q[(1 .. n) \ {n}]
        BY ONLY <3>1, <1>6
      <3> QED  BY ONLY <3>1, <3>2
    <2>6. R[1 .. a + n] = r[a + n] + R[1 .. a + (n - 1)]
      <3>1. /\ 1 .. a + n \in SUBSET (1 .. a + b) /\ a + n \in 1 .. a + n
            /\ (1 .. a + n) \ {a + n} = 1 .. a + (n - 1)
        <4>1. n \in Int /\ n > 0 /\ n <= b
          BY <1>1, <2>2, <2>3
        <4>2. a \in Int /\ b \in Int /\ a >= 0
          BY <1>1
        <4> QED  BY ONLY <4>1, <4>2
      <3>2. R[1 .. a + n] = r[a + n] + R[(1 .. a + n) \ {a + n}]
        BY ONLY <3>1, <1>6
      <3> QED  BY ONLY <3>1, <3>2
    <2>7. r[a + n] = h[n] /\ h[n] \in Int /\ Q[1 .. n - 1] \in Int
      <3>1. n \in 1 .. b /\ 1 .. n - 1 \in SUBSET (1 .. b)
        BY <1>1, <2>2, <2>3
      <3> QED  BY <3>1, <1>1, <1>4
    <2> QED  BY ONLY <2>2, <2>4, <2>5, <2>6, <2>7, <1>4
  <1>10. R[1 .. a + b] = P[1 .. a] + Q[1 .. b]
    <2>1. b \in Nat /\ b <= b /\ b \notin T
      BY <1>1, <1>9
    <2> QED  BY ONLY <2>1 DEF T
  <1> QED  BY <1>3, <1>10
-----------------------------------------------------------------------------
(* Queues of elements that are linked once: sequences without repetition.  *)

LEMMA MembersOfSeq ==
    ASSUME NEW X, NEW q \in Seq(X)
    PROVE  /\ DOMAIN q = 1 .. Len(q) /\ Len(q) \in Nat
           /\ Range(q) = {q[k] : k \in 1 .. Len(q)} /\ Range(q) \subseteq X
  BY DEF Range

LEMMA EmptyQueue == IsInjective(<<>>) /\ Range(<<>>) = {}
  BY DEF IsInjective, Range

(* An element joins the queue at its tail.                                 *)
LEMMA QueueAppend ==
    ASSUME NEW X, NEW q \in Seq(X), NEW e \in X, IsInjective(q), e \notin Range(q)
    PROVE  /\ Append(q, e) \in Seq(X) /\ IsInjective(Append(q, e))
           /\ Range(Append(q, e)) = Range(q) \cup {e}
  <1> DEFINE r == Append(q, e)
             n == Len(q)
  <1>1. n \in Nat /\ DOMAIN q = 1 .. n /\ Range(q) = {q[k] : k \in 1 .. n}
    BY MembersOfSeq
  <1>2. r \in Seq(X) /\ Len(r) = n + 1 /\ DOMAIN r = 1 .. n + 1
        /\ r[n + 1] = e /\ \A k \in 1 .. n : r[k] = q[k]
    OBVIOUS
  <1>3. Range(r) = {r[k] : k \in 1 .. n + 1}
    BY <1>2 DEF Range
  <1> HIDE DEF r, n
  <1>4. \A k \in 1 .. n + 1 : k \in 1 .. n \/ k = n + 1
    BY <1>1
  <1>5. \A k \in 1 .. n : k \in 1 .. n + 1
    BY <1>1
  <1>51. n + 1 \in 1 .. n + 1
    BY <1>1
  <1>6. Range(r) = Range(q) \cup {e}
    BY <1>1, <1>2, <1>3, <1>4, <1>5, <1>51, Zenon
  <1>7. \A j, k \in 1 .. n : q[j] = q[k] => j = k
    BY <1>1 DEF IsInjective
  <1>8. \A j \in 1 .. n : q[j] # e
    BY <1>1
  <1>9. \A j, k \in 1 .. n + 1 : r[j] = r[k] => j = k
    BY <1>2, <1>4, <1>7, <1>8
  <1>10. IsInjective(r)
    BY <1>2, <1>9 DEF IsInjective
  <1> QED
    BY <1>2, <1>6, <1>10 DEF r

(* The head leaves the queue.                                              *)
LEMMA QueueTail ==
    ASSUME NEW X, NEW q \in Seq(X), IsInjective(q), q # <<>>
    PROVE  /\ Head(q) \in Range(q) /\ Head(q) \in X
           /\ Tail(q) \in Seq(X) /\ IsInjective(Tail(q))
           /\ Range(Tail(q)) = Range(q) \ {Head(q)}
  <1> DEFINE r == Tail(q)
             n == Len(q)
  <1>1. n \in Nat /\ n > 0 /\ DOMAIN q = 1 .. n /\ Range(q) = {q[k] : k \in 1 .. n}
    BY MembersOfSeq
  <1>2. r \in Seq(X) /\ Len(r) = n - 1 /\ DOMAIN r = 1 .. n - 1
        /\ Head(q) = q[1] /\ Head(q) \in X /\ \A k \in 1 .. n - 1 : r[k] = q[k + 1]
    BY <1>1
  <1>3. Range(r) = {r[k] : k \in 1 .. n - 1}
    BY <1>2 DEF Range
  <1> HIDE DEF r, n
  <1>4. \A j, k \in 1 .. n : q[j] = q[k] => j = k
    BY <1>1 DEF IsInjective
  <1>5. \A j, k \in 1 .. n - 1 : r[j] = r[k] => j = k
    <2> SUFFICES ASSUME NEW j \in 1 .. n - 1, NEW k \in 1 .. n - 1, r[j] = r[k] PROVE j = k
      OBVIOUS
    <2>1. j + 1 \in 1 .. n /\ k + 1 \in 1 .. n /\ q[j + 1] = q[k + 1]
      BY <1>1, <1>2
    <2>2. j + 1 = k + 1
      BY <1>4, <2>1
    <2> QED  BY <2>2
  <1>6. IsInjective(r)
    BY <1>2, <1>5 DEF IsInjective
  <1>7. Range(r) \subseteq Range(q) \ {Head(q)}
    <2> SUFFICES ASSUME NEW k \in 1 .. n - 1 PROVE r[k] \in Range(q) /\ r[k] # q[1]
      BY <1>2, <1>3
    <2>1. k + 1 \in 1 .. n /\ 1 \in 1 .. n /\ k + 1 # 1 /\ r[k] = q[k + 1]
      BY <1>1, <1>2
    <2> QED  BY <1>1, <1>4, <2>1
  <1>8. Range(q) \ {Head(q)} \subseteq Range(r)
    <2> SUFFICES ASSUME NEW k \in 1 .. n, q[k] # q[1] PROVE q[k] \in Range(r)
      BY <1>1, <1>2
    <2>1. k - 1 \in 1 .. n - 1 /\ (k - 1) + 1 = k
      BY <1>1
    <2>2. r[k - 1] = q[k]
      BY <1>2, <2>1
    <2> QED  BY <1>3, <2>1, <2>2
  <1>9. Head(q) \in Range(q)
    BY <1>1, <1>2
  <1> QED
    BY <1>2, <1>6, <1>7, <1>8, <1>9 DEF r

(* The places of a queue are split in two, and so are its members.         *)
LEMMA SplitMembers ==
    ASSUME NEW q, NEW A, NEW B, A \cap B = {},
           \A i, j \in A \cup B : q[i] = q[j] => i = j
    PROVE  /\ {q[k] : k \in A} = {q[k] : k \in A \cup B} \ {q[k] : k \in B}
           /\ {q[k] : k \in A} \cap {q[k] : k \in B} = {}
           /\ {q[k] : k \in A \cup B} = {q[k] : k \in A} \cup {q[k] : k \in B}
  <1>1. ASSUME NEW i \in A, NEW j \in B PROVE q[i] # q[j]
    OBVIOUS
  <1>2. {q[k] : k \in A} \cap {q[k] : k \in B} = {}
    BY <1>1
  <1>3. {q[k] : k \in A \cup B} = {q[k] : k \in A} \cup {q[k] : k \in B}
    OBVIOUS
  <1> QED
    BY <1>2, <1>3

(* A part of the queue, from one place to another.                         *)
LEMMA QueueSlice ==
    ASSUME NEW X, NEW q \in Seq(X), IsInjective(q),
           NEW a \in 1 .. Len(q) + 1, NEW b \in 0 .. Len(q)
    PROVE  /\ SubSeq(q, a, b) \in Seq(X) /\ IsInjective(SubSeq(q, a, b))
           /\ Range(SubSeq(q, a, b)) = {q[k] : k \in a .. b}
  <1> DEFINE r == SubSeq(q, a, b)
             l == Len(q)
  <1>1. l \in Nat /\ DOMAIN q = 1 .. l /\ \A i, j \in 1 .. l : q[i] = q[j] => i = j
    BY MembersOfSeq DEF IsInjective
  <1>2. a \in Int /\ b \in Int /\ 1 <= a /\ b <= l /\ 0 <= b
    BY <1>1
  <1>3. \A i \in a .. b : q[i] \in X
    BY <1>1, <1>2
  <1>4. /\ r \in Seq(X) /\ Len(r) = IF a <= b THEN b - a + 1 ELSE 0
        /\ \A i \in 1 .. b - a + 1 : r[i] = q[a + i - 1]
    BY <1>2, <1>3, SubSeqProperties
  <1> HIDE DEF r
  <1> DEFINE m == Len(r)
  <1>5. m \in Nat /\ DOMAIN r = 1 .. m /\ Range(r) = {r[k] : k \in 1 .. m}
    BY <1>4, MembersOfSeq
  <1>6. m = IF a <= b THEN b - a + 1 ELSE 0
    BY <1>4
  <1> HIDE DEF m, l
  <1>7. \A i \in 1 .. m : a + i - 1 \in a .. b /\ a + i - 1 \in 1 .. l /\ i \in 1 .. b - a + 1
    BY <1>1, <1>2, <1>6
  <1>8. \A i \in 1 .. m : r[i] = q[a + i - 1]
    BY <1>4, <1>7
  <1>9. ASSUME NEW i \in 1 .. m, NEW j \in 1 .. m, r[i] = r[j] PROVE i = j
    <2>1. a + i - 1 = a + j - 1
      BY <1>1, <1>7, <1>8, <1>9
    <2> QED  BY <1>2, <1>5, <2>1
  <1>10. IsInjective(r)
    BY <1>5, <1>9 DEF IsInjective
  <1>11. \A k \in a .. b : k - a + 1 \in 1 .. m /\ a + (k - a + 1) - 1 = k
    BY <1>2, <1>6
  <1>12. \A k \in a .. b : r[k - a + 1] = q[k]
    BY <1>8, <1>11
  <1>13. Range(r) \subseteq {q[k] : k \in a .. b}
    BY <1>5, <1>7, <1>8
  <1>14. {q[k] : k \in a .. b} \subseteq Range(r)
    <2> SUFFICES ASSUME NEW k \in a .. b PROVE q[k] \in Range(r)
      OBVIOUS
    <2>1. k - a + 1 \in 1 .. m /\ r[k - a + 1] = q[k]
      BY <1>11, <1>12
    <2> QED  BY <1>5, <2>1
  <1> QED
    BY <1>4, <1>10, <1>13, <1>14 DEF r

(* The first n elements leave the queue.                                   *)
LEMMA QueueSuffix ==
    ASSUME NEW X, NEW q \in Seq(X), IsInjective(q), NEW n \in 0 .. Len(q)
    PROVE  /\ SubSeq(q, n + 1, Len(q)) \in Seq(X) /\ IsInjective(SubSeq(q, n + 1, Len(q)))
           /\ Range(SubSeq(q, n + 1, Len(q))) = Range(q) \ {q[k] : k \in 1 .. n}
  <1> DEFINE l == Len(q)
  <1>1. /\ l \in Nat /\ DOMAIN q = 1 .. l /\ Range(q) = {q[k] : k \in 1 .. l}
        /\ \A i, j \in 1 .. l : q[i] = q[j] => i = j
    BY MembersOfSeq DEF IsInjective
  <1>2. n \in 0 .. l /\ n + 1 \in 1 .. l + 1 /\ l \in 0 .. l
    BY <1>1
  <1>3. /\ SubSeq(q, n + 1, l) \in Seq(X) /\ IsInjective(SubSeq(q, n + 1, l))
        /\ Range(SubSeq(q, n + 1, l)) = {q[k] : k \in n + 1 .. l}
    BY <1>2, QueueSlice
  <1> HIDE DEF l
  <1>4. (n + 1 .. l) \cap (1 .. n) = {} /\ (n + 1 .. l) \cup (1 .. n) = 1 .. l
    BY <1>1, <1>2
  <1>7. {q[k] : k \in n + 1 .. l} = {q[k] : k \in 1 .. l} \ {q[k] : k \in 1 .. n}
    BY <1>1, <1>4, SplitMembers
  <1> QED
    BY <1>1, <1>3, <1>7 DEF l

(* One queue is moved behind another.                                      *)
LEMMA QueueConcat ==
    ASSUME NEW X, NEW p \in Seq(X), NEW q \in Seq(X), IsInjective(p), IsInjective(q),
           Range(p) \cap Range(q) = {}
    PROVE  /\ p \o q \in Seq(X) /\ IsInjective(p \o q)
           /\ Range(p \o q) = Range(p) \cup Range(q)
  <1> DEFINE r == p \o q
             a == Len(p)
             b == Len(q)
  <1>1. /\ a \in Nat /\ DOMAIN p = 1 .. a /\ Range(p) = {p[k] : k \in 1 .. a}
        /\ b \in Nat /\ DOMAIN q = 1 .. b /\ Range(q) = {q[k] : k \in 1 .. b}
    BY MembersOfSeq
  <1>2. r \in Seq(X) /\ Len(r) = a + b /\ DOMAIN r = 1 .. a + b
        /\ (\A k \in 1 .. a : r[k] = p[k]) /\ \A k \in 1 .. b : r[k + a] = q[k]
    BY <1>1
  <1>3. Range(r) = {r[k] : k \in 1 .. a + b}
    BY <1>2 DEF Range
  <1> HIDE DEF r, a, b
  <1>4. ASSUME NEW k \in 1 .. a + b
        PROVE  (k \in 1 .. a /\ r[k] = p[k]) \/ (k - a \in 1 .. b /\ r[k] = q[k - a])
    <2>1. CASE k \in 1 .. a
      BY <1>2, <2>1
    <2>2. CASE k \notin 1 .. a
      <3>1. k - a \in 1 .. b /\ (k - a) + a = k
        BY <1>1, <2>2
      <3> QED  BY <1>2, <3>1
    <2> QED  BY <2>1, <2>2
  <1>5. \A k \in 1 .. a : k \in 1 .. a + b
    BY <1>1
  <1>6. \A k \in 1 .. b : k + a \in 1 .. a + b
    BY <1>1
  <1>7. Range(r) = Range(p) \cup Range(q)
    <2>1. Range(r) \subseteq Range(p) \cup Range(q)
      BY <1>1, <1>3, <1>4
    <2>2. Range(p) \subseteq Range(r)
      BY <1>1, <1>2, <1>3, <1>5
    <2>3. Range(q) \subseteq Range(r)
      BY <1>1, <1>2, <1>3, <1>6
    <2> QED  BY <2>1, <2>2, <2>3
  <1>8. \A j, k \in 1 .. a : p[j] = p[k] => j = k
    BY <1>1 DEF IsInjective
  <1>9. \A j, k \in 1 .. b : q[j] = q[k] => j = k
    BY <1>1 DEF IsInjective
  <1>10. ASSUME NEW j \in 1 .. a + b, NEW k \in 1 .. a + b, r[j] = r[k] PROVE j = k
    <2>1. CASE j \in 1 .. a /\ r[j] = p[j]
      <3>1. ~(k - a \in 1 .. b /\ r[k] = q[k - a])
        BY <1>1, <1>10, <2>1
      <3> QED  BY <1>4, <1>8, <1>10, <2>1, <3>1
    <2>2. CASE j - a \in 1 .. b /\ r[j] = q[j - a]
      <3>1. ~(k \in 1 .. a /\ r[k] = p[k])
        BY <1>1, <1>10, <2>2
      <3>2. k - a \in 1 .. b /\ r[k] = q[k - a]
        BY <1>4, <3>1
      <3>3. j - a = k - a
        BY <1>9, <1>10, <2>2, <3>2
      <3> QED  BY <1>1, <3>3
    <2> QED  BY <1>4, <2>1, <2>2
  <1>11. IsInjective(r)
    BY <1>2, <1>10 DEF IsInjective
  <1> QED
    BY <1>2, <1>7, <1>11 DEF r

(* ngx_queue_remove takes one element out of the middle of a queue.        *)
LEMMA QueueRemove ==
    ASSUME NEW X, NEW q \in Seq(X), IsInjective(q), NEW e
    PROVE  /\ RemoveFirst(q, e) \in Seq(X) /\ IsInjective(RemoveFirst(q, e))
           /\ Range(RemoveFirst(q, e)) = Range(q) \ {e}
  <1> DEFINE l == Len(q)
  <1>1. l \in Nat /\ DOMAIN q = 1 .. l /\ Range(q) = {q[k] : k \in 1 .. l}
    BY MembersOfSeq
  <1>2. CASE ~ \E k \in 1 .. l : q[k] = e
    <2>1. RemoveFirst(q, e) = q
      BY <1>2 DEF RemoveFirst
    <2> QED  BY <1>1, <1>2, <2>1
  <1>3. CASE \E k \in 1 .. l : q[k] = e
    <2> DEFINE I == {k \in 1 .. l : q[k] = e}
    <2>1. I \in SUBSET Nat /\ I # {}
      BY <1>1, <1>3
    <2>2. PICK n \in I : \A k \in I : n <= k
      BY <2>1, LeastNumber
    <2>3. n \in 1 .. l /\ q[n] = e
      OBVIOUS
    <2>4. I = {n}
      BY <1>1, <2>2, <2>3 DEF IsInjective
    <2>5. SelectInSeq(q, LAMBDA v : v = e) = Min(I)
      BY <2>1 DEF SelectInSeq
    <2>6. Min(I) = n
      BY <1>1, <2>3, <2>4 DEF Min
    <2>7. RemoveFirst(q, e) = SubSeq(q, 1, n - 1) \o SubSeq(q, n + 1, l)
      BY <1>3, <2>5, <2>6 DEF RemoveFirst, RemoveAt
    <2> HIDE DEF I
    <2> DEFINE p == SubSeq(q, 1, n - 1)
               r == SubSeq(q, n + 1, l)
    <2>8. /\ 1 \in 1 .. l + 1 /\ n - 1 \in 0 .. l /\ n + 1 \in 1 .. l + 1 /\ l \in 0 .. l
      BY <1>1, <2>3
    <2>9. p \in Seq(X) /\ IsInjective(p) /\ Range(p) = {q[k] : k \in 1 .. n - 1}
      BY <2>8, QueueSlice
    <2>10. r \in Seq(X) /\ IsInjective(r) /\ Range(r) = {q[k] : k \in n + 1 .. l}
      BY <2>8, QueueSlice
    <2>11. RemoveFirst(q, e) = p \o r
      BY <2>7
    <2> HIDE DEF p, r, l
    <2>12. \A i, j \in 1 .. l : q[i] = q[j] => i = j
      BY <1>1 DEF IsInjective
    <2> DEFINE A == 1 .. n - 1
               B == n + 1 .. l
    <2>13. A \cap B = {} /\ (A \cup B) \cap {n} = {} /\ (A \cup B) \cup {n} = 1 .. l
      BY <1>1, <2>3
    <2>14. {q[k] : k \in {n}} = {e}
      BY <2>3
    <2>16. Range(p) = {q[k] : k \in A} /\ Range(r) = {q[k] : k \in B}
      BY <2>9, <2>10
    <2> HIDE DEF A, B
    <2>18. \A i, j \in A \cup B : q[i] = q[j] => i = j
      BY <2>12, <2>13
    <2>15. Range(p) \cap Range(r) = {} /\ Range(p) \cup Range(r) = {q[k] : k \in A \cup B}
      BY <2>13, <2>16, <2>18, SplitMembers
    <2>17. Range(p) \cup Range(r) = Range(q) \ {e}
      <3> DEFINE C == A \cup B
      <3>1. C \cap {n} = {} /\ C \cup {n} = 1 .. l /\ \A i, j \in C \cup {n} : q[i] = q[j] => i = j
        BY <2>12, <2>13
      <3> HIDE DEF C
      <3>2. {q[k] : k \in C} = {q[k] : k \in C \cup {n}} \ {q[k] : k \in {n}}
        BY <3>1, SplitMembers
      <3>3. {q[k] : k \in C} = {q[k] : k \in 1 .. l} \ {e}
        BY <2>14, <3>1, <3>2
      <3> QED  BY <1>1, <2>15, <3>3 DEF C
    <2>19. p \o r \in Seq(X) /\ IsInjective(p \o r) /\ Range(p \o r) = Range(p) \cup Range(r)
      <3>1. p \in Seq(X) /\ r \in Seq(X) /\ IsInjective(p) /\ IsInjective(r) /\ Range(p) \cap Range(r) = {}
        BY <2>9, <2>10, <2>15
      <3> QED  BY ONLY <3>1, QueueConcat
    <2> QED
      BY <2>11, <2>17, <2>19
  <1> QED
    BY <1>2, <1>3
-----------------------------------------------------------------------------
(* Any set of places of a queue can be counted from the first to the last. *)
Counts(e, I) ==
    /\ e \in [1 .. Cardinality(I) -> I] /\ Range(e) = I
    /\ \A j, k \in DOMAIN e : j < k => e[j] < e[k]

LEMMA AscendingExists ==
    ASSUME NEW n \in Nat, NEW I \in SUBSET (1 .. n)
    PROVE  \E e : Counts(e, I)
  <1> DEFINE Bad(m) == \E J \in SUBSET (1 .. m) : ~ \E e : Counts(e, J)
             T == {m \in Nat : Bad(m)}
  <1>1. SUFFICES ASSUME T # {} PROVE FALSE
    OBVIOUS
  <1>2. PICK m \in T : \A k \in T : m <= k
    BY <1>1, LeastNumber
  <1>3. m \in Nat /\ Bad(m)
    BY <1>2
  <1>4. PICK J \in SUBSET (1 .. m) : ~ \E e : Counts(e, J)
    BY <1>3
  <1>5. \A k \in Nat : k < m => ~ Bad(k)
    <2> SUFFICES ASSUME NEW k \in Nat, k < m, Bad(k) PROVE FALSE
      OBVIOUS
    <2>1. k \in T
      OBVIOUS
    <2>2. m <= k
      BY <2>1, <1>2
    <2> HIDE DEF T, Bad
    <2> QED  BY <2>2, <1>3
  <1>6. \A K : \A k \in Nat : k < m /\ K \in SUBSET (1 .. k) => \E e : Counts(e, K)
    BY <1>5
  <1> HIDE DEF T, Bad
  <1>7. IsFiniteSet(J) /\ Cardinality(J) \in Nat
    <2>1. IsFiniteSet(1 .. m) /\ J \in SUBSET (1 .. m)
      BY <1>3, FS_Interval
    <2>2. IsFiniteSet(J)
      BY <2>1, FS_Subset
    <2> QED  BY <2>2, FS_CardinalityType
  <1>8. m # 0
    <2> SUFFICES ASSUME m = 0 PROVE FALSE
      OBVIOUS
    <2>1. J = {}
      OBVIOUS
    <2>3. Cardinality(J) = 0
      BY <2>1, FS_EmptySet
    <2>2. Counts(<<>>, J)
      BY <2>1, <2>3 DEF Counts, Range
    <2> QED  BY <2>2, <1>4
  <1>9. m \in J
    <2> SUFFICES ASSUME m \notin J PROVE FALSE
      OBVIOUS
    <2>1. J \in SUBSET (1 .. m - 1) /\ m - 1 \in Nat /\ m - 1 < m
      BY <1>3, <1>8
    <2> QED  BY <2>1, <1>6, <1>4
  <1> DEFINE K == J \ {m}
             c == Cardinality(K)
  <1>10. K \in SUBSET (1 .. m - 1) /\ m - 1 \in Nat /\ m - 1 < m
    BY <1>3, <1>8
  <1>11. PICK e : Counts(e, K)
    BY <1>10, <1>6
  <1>12. IsFiniteSet(K) /\ c \in Nat /\ Cardinality(J) = c + 1
    <2>1. IsFiniteSet(J \ {m}) /\ Cardinality(J \ {m}) = Cardinality(J) - 1
      BY <1>7, <1>9, FS_RemoveElement
    <2>2. Cardinality(J \ {m}) \in Nat
      BY <2>1, FS_CardinalityType
    <2> QED  BY <2>1, <2>2, <1>7
  <1>13. K \cup {m} = J /\ m \notin K /\ \A k \in K : k \in Int /\ k < m
    BY <1>10, <1>9, <1>3
  <1> HIDE DEF K, c
  <1> DEFINE f == [j \in 1 .. c + 1 |-> IF j = c + 1 THEN m ELSE e[j]]
  <1>14. /\ DOMAIN e = 1 .. c /\ \A j \in 1 .. c : e[j] \in K
         /\ \A k \in K : \E j \in 1 .. c : e[j] = k
         /\ \A j, k \in 1 .. c : j < k => e[j] < e[k]
    BY <1>11 DEF Counts, Range, c
  <1>15. f \in [1 .. c + 1 -> J]
    BY <1>14, <1>13, <1>12
  <1>16. /\ DOMAIN f = 1 .. c + 1 /\ f[c + 1] = m
         /\ \A j \in 1 .. c : f[j] = e[j] /\ j \in 1 .. c + 1
    BY <1>12
  <1> HIDE DEF f
  <1>17. Range(f) = J
    <2>1. \A k \in J : \E j \in 1 .. c + 1 : f[j] = k
      BY <1>16, <1>14, <1>13, <1>12
    <2> QED  BY <2>1, <1>15, <1>16 DEF Range
  <1>18. \A j, k \in DOMAIN f : j < k => f[j] < f[k]
    <2> SUFFICES ASSUME NEW j \in 1 .. c + 1, NEW k \in 1 .. c + 1, j < k PROVE f[j] < f[k]
      BY <1>16
    <2>1. j \in 1 .. c
      BY <1>12
    <2>2. CASE k = c + 1
      BY <2>1, <2>2, <1>16, <1>14, <1>13
    <2>3. CASE k \in 1 .. c
      BY <2>1, <2>3, <1>16, <1>14
    <2> QED  BY <2>2, <2>3, <1>12
  <1>19. Counts(f, J)
    BY <1>15, <1>16, <1>17, <1>18, <1>12 DEF Counts
  <1> QED  BY <1>19, <1>4

(* What is picked out of a queue stands in it, in the same order.          *)
LEMMA PickedQueue ==
    ASSUME NEW X, NEW q \in Seq(X), NEW I \in SUBSET DOMAIN q
    PROVE  /\ Picked(q, I) \in Seq(X) /\ Len(Picked(q, I)) <= Len(q)
           /\ \E e \in [1 .. Len(Picked(q, I)) -> I] :
                 /\ \A k \in I : \E j \in 1 .. Len(Picked(q, I)) : e[j] = k
                 /\ \A j, k \in 1 .. Len(Picked(q, I)) : j < k => e[j] < e[k]
                 /\ \A j \in 1 .. Len(Picked(q, I)) : Picked(q, I)[j] = q[e[j]]
  <1> DEFINE e == Ascending(I)
             p == Picked(q, I)
             c == Cardinality(I)
             n == Len(q)
  <1>1. n \in Nat /\ DOMAIN q = 1 .. n /\ I \in SUBSET (1 .. n) /\ \A k \in 1 .. n : q[k] \in X
    OBVIOUS
  <1>2. IsFiniteSet(I) /\ c \in Nat /\ c <= n
    <2>1. IsFiniteSet(1 .. n) /\ Cardinality(1 .. n) = n
      BY <1>1, FS_Interval
    <2> QED  BY <2>1, <1>1, FS_Subset, FS_CardinalityType
  <1>3. Counts(e, I)
    <2>1. \E f : Counts(f, I)
      BY <1>1, AscendingExists
    <2>2. \E f \in [1 .. Cardinality(I) -> I] :
             Range(f) = I /\ \A j, k \in DOMAIN f : j < k => f[j] < f[k]
      BY <2>1 DEF Counts
    <2> QED  BY <2>2 DEF Ascending, Counts
  <1>4. /\ e \in [1 .. c -> I] /\ DOMAIN e = 1 .. c
        /\ \A k \in I : \E j \in 1 .. c : e[j] = k
        /\ \A j, k \in 1 .. c : j < k => e[j] < e[k]
    BY <1>3 DEF Counts, Range
  <1>5. p = [j \in 1 .. c |-> q[e[j]]]
    BY <1>4 DEF Picked
  <1> HIDE DEF p, e, c, n
  <1>6. p \in Seq(X) /\ Len(p) = c /\ \A j \in 1 .. c : p[j] = q[e[j]]
    BY <1>5, <1>4, <1>1, <1>2
  <1>7. p \in Seq(X) /\ Len(p) <= n
    BY <1>6, <1>2
  <1>8. \E f \in [1 .. Len(p) -> I] :
          /\ \A k \in I : \E j \in 1 .. Len(p) : f[j] = k
          /\ \A j, k \in 1 .. Len(p) : j < k => f[j] < f[k]
          /\ \A j \in 1 .. Len(p) : p[j] = q[f[j]]
    <2>1. e \in [1 .. Len(p) -> I]
      BY <1>4, <1>6
    <2> WITNESS e \in [1 .. Len(p) -> I]
    <2> QED  BY <1>4, <1>6
  <1> QED  BY <1>7, <1>8 DEF p, n
=============================================================================
