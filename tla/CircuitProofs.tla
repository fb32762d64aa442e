---------------------------- MODULE CircuitProofs ----------------------------
(***************************************************************************)
(* The amount parser takes exactly the decimals within its limits and      *)
(* returns their value; bodies the circuit accepts are good, good ones it  *)
(* accepts, and what the daemon refuses has no proof: for any limits that  *)
(* mirror each other, any width, strings and bodies.                       *)
(***************************************************************************)
EXTENDS Circuit, SequenceTheorems, FiniteSetTheorems, TLAPS

-----------------------------------------------------------------------------
(* Induction over the natural numbers, for a set: were k missing from S,   *)
(* adding one would map the members below k to themselves, one-to-one and  *)
(* without reaching 0.                                                     *)
LEMMA SetInduction ==
  ASSUME NEW S, 0 \in S, \A n \in Nat : n \in S => n + 1 \in S
  PROVE  Nat \subseteq S
<1> SUFFICES ASSUME NEW k \in Nat, k \notin S PROVE FALSE
  OBVIOUS
<1> DEFINE A == {i \in 0..k : i \in S}
           f == [i \in A |-> i + 1]
<1>1. IsFiniteSet(A)
  <2>1. IsFiniteSet(0..k) /\ A \in SUBSET (0..k)
    BY FS_Interval
  <2>2. QED
    BY <2>1, FS_Subset
<1>2. f \in Injection(A, A)
  BY DEF Injection, IsInjective
<1>3. f \in Surjection(A, A)
  BY <1>1, <1>2, FS_Injection
<1>4. 0 \in A
  OBVIOUS
<1>5. PICK i \in A : f[i] = 0
  BY <1>3, <1>4 DEF Surjection
<1>6. QED
  BY <1>5

(* A bounded set of numbers has a greatest one, if it has any.             *)
LEMMA MaxOfBounded ==
  ASSUME NEW k \in Nat, NEW s \in SUBSET (1..k), s # {}
  PROVE  Max(s) \in s /\ \A i \in s : i <= Max(s)
<1> DEFINE HasMax(u) == \E x \in u : \A y \in u : x >= y
           S == {n \in Nat : \A u \in SUBSET (1..n) : u # {} => HasMax(u)}
<1>1. 0 \in S
  <2>1. \A u \in SUBSET (1..0) : u = {}
    OBVIOUS
  <2>2. QED
    BY <2>1
<1>2. ASSUME NEW n \in Nat, n \in S
      PROVE  n + 1 \in S
  <2> SUFFICES ASSUME NEW u \in SUBSET (1..n + 1), u # {} PROVE HasMax(u)
    OBVIOUS
  <2>1. CASE n + 1 \in u
    BY <2>1
  <2>2. CASE n + 1 \notin u
    <3>1. u \in SUBSET (1..n)
      BY <2>2
    <3>2. QED
      BY <1>2, <3>1
  <2>3. QED
    BY <2>1, <2>2
<1>3. k \in S
  <2> HIDE DEF S
  <2>1. Nat \subseteq S
    BY <1>1, <1>2, SetInduction
  <2>2. QED
    BY <2>1
<1>4. HasMax(s)
  BY <1>3
<1>5. QED
  BY <1>4 DEF Max

(* A set of numbers has a least one, if it has any.                        *)
LEMMA MinOfNumbers ==
  ASSUME NEW s \in SUBSET Nat, s # {}
  PROVE  Min(s) \in s /\ \A i \in s : Min(s) <= i
<1> DEFINE HasMin == \E x \in s : \A y \in s : x <= y
           S == {n \in Nat : \A x \in s : x <= n => HasMin}
<1>1. 0 \in S
  OBVIOUS
<1>2. ASSUME NEW n \in Nat, n \in S
      PROVE  n + 1 \in S
  <2> SUFFICES ASSUME NEW x \in s, x <= n + 1 PROVE HasMin
    OBVIOUS
  <2>1. CASE \E y \in s : y <= n
    BY <1>2, <2>1
  <2>2. CASE \A y \in s : ~(y <= n)
    <3>1. \A y \in s : x <= y
      BY <2>2
    <3>2. QED
      BY <3>1
  <2>3. QED
    BY <2>1, <2>2
<1>3. PICK x \in s : TRUE
  OBVIOUS
<1>4. x \in S
  <2> HIDE DEF S
  <2>1. Nat \subseteq S
    BY <1>1, <1>2, SetInduction
  <2>2. QED
    BY <2>1
<1>5. HasMin
  BY <1>3, <1>4
<1>6. QED
  BY <1>5 DEF Min

(* The greatest of 1..k + 1, and what it leaves.                           *)
LEMMA UpTo ==
  ASSUME NEW k \in Nat
  PROVE  /\ Max(1..k + 1) = k + 1 /\ (1..k + 1) \ {k + 1} = 1..k /\ 1..k + 1 # {}
<1>1. 1..k + 1 # {} /\ k + 1 \in Nat /\ k + 1 \in 1..k + 1
  OBVIOUS
<1>2. Max(1..k + 1) \in 1..k + 1 /\ \A i \in 1..k + 1 : i <= Max(1..k + 1)
  BY <1>1, MaxOfBounded
<1>3. Max(1..k + 1) = k + 1
  BY <1>1, <1>2
<1>4. QED
  BY <1>1, <1>3

-----------------------------------------------------------------------------
(* Folds.                                                                  *)

(* f folds the subsets of S with op, taking out first[s] of s.             *)
Chooses(first, S) == \A s \in SUBSET S : s # {} => first[s] \in s

Steps(Acc, S) == [Acc \X S -> Acc]

FoldOf(f, S, first, Acc, base, op) ==
  /\ f \in [SUBSET S -> Acc]
  /\ \A s \in SUBSET S :
       f[s] = IF s = {} THEN base ELSE op[<<f[s \ {first[s]}], first[s]>>]

(* A finite set can be folded, whatever element is taken out of it first.  *)
LEMMA FoldExists ==
  ASSUME NEW S, IsFiniteSet(S), NEW first, Chooses(first, S),
         NEW Acc, NEW base, base \in Acc, NEW op, op \in Steps(Acc, S)
  PROVE  \E f : FoldOf(f, S, first, Acc, base, op)
<1> USE DEF Chooses, Steps, FoldOf
<1> DEFINE Small(k) == {s \in SUBSET S : Cardinality(s) <= k}
           Value(f, s) == IF s = {} THEN base ELSE op[<<f[s \ {first[s]}], first[s]>>]
           Solves(f, k) == f \in [Small(k) -> Acc] /\ \A s \in Small(k) : f[s] = Value(f, s)
           N == {k \in Nat : \E f : Solves(f, k)}
<1>1. \A s \in SUBSET S : IsFiniteSet(s) /\ Cardinality(s) \in Nat /\ Cardinality(s) <= Cardinality(S)
  BY FS_Subset, FS_CardinalityType
<1>2. ASSUME NEW s \in SUBSET S, s # {}
      PROVE  /\ s \ {first[s]} \in SUBSET S /\ first[s] \in s
             /\ Cardinality(s \ {first[s]}) = Cardinality(s) - 1
  <2>1. first[s] \in s /\ IsFiniteSet(s)
    BY <1>1, <1>2
  <2>2. QED
    BY <2>1, FS_RemoveElement
<1>3. 0 \in N
  <2> DEFINE f == [s \in Small(0) |-> base]
  <2>1. \A s \in Small(0) : s = {}
    BY <1>1, FS_EmptySet
  <2>2. Solves(f, 0)
    BY <2>1
  <2>3. QED
    BY <2>2
<1>4. ASSUME NEW k \in Nat, k \in N
      PROVE  k + 1 \in N
  <2>1. PICK f : Solves(f, k)
    BY <1>4
  <2> DEFINE h == [s \in Small(k + 1) |-> IF s \in Small(k) THEN f[s] ELSE Value(f, s)]
  <2>2. ASSUME NEW s \in Small(k + 1), s # {}
        PROVE  /\ s \ {first[s]} \in Small(k) /\ s \ {first[s]} \in Small(k + 1)
               /\ first[s] \in S
    BY <1>1, <1>2, <2>2
  <2>3. ASSUME NEW s \in Small(k + 1)
        PROVE  h[s] = Value(f, s) /\ Value(h, s) = Value(f, s) /\ h[s] \in Acc
    <3>1. h[s] = Value(f, s)
      BY <2>1
    <3>2. CASE s = {}
      BY <3>1, <3>2
    <3>3. CASE s # {}
      <4>1. h[s \ {first[s]}] = f[s \ {first[s]}] /\ f[s \ {first[s]}] \in Acc
        BY <2>1, <2>2, <3>3
      <4>2. Value(h, s) = Value(f, s)
        BY <3>3, <4>1
      <4>3. Value(f, s) \in Acc
        BY <2>2, <3>3, <4>1
      <4>4. QED
        BY <3>1, <4>2, <4>3
    <3>4. QED
      BY <3>2, <3>3
  <2>4. Solves(h, k + 1)
    <3>1. h \in [Small(k + 1) -> Acc]
      <4>1. h = [s \in Small(k + 1) |-> h[s]]
        OBVIOUS
      <4> HIDE DEF h
      <4>2. QED
        BY <2>3, <4>1
    <3>2. QED
      BY <2>3, <3>1
  <2>5. \E u : Solves(u, k + 1)
    <3> HIDE DEF h, Solves
    <3>1. QED
      BY <2>4
  <2> HIDE DEF Solves
  <2>6. QED
    BY <2>5
<1>5. PICK f : Solves(f, Cardinality(S))
  <2>1. Cardinality(S) \in Nat
    BY FS_CardinalityType
  <2> HIDE DEF N
  <2>2. Nat \subseteq N
    BY <1>3, <1>4, SetInduction
  <2>3. QED
    BY <2>1, <2>2 DEF N
<1>6. Small(Cardinality(S)) = SUBSET S
  BY <1>1
<1>7. QED
  BY <1>5, <1>6

(* A sum over a set: what the library's sum over a set is, at that set.    *)
IsSum(f, w, S) ==
  f = [s \in SUBSET S |->
         IF s = {} THEN 0
         ELSE w[CHOOSE x \in s : TRUE] + f[s \ {CHOOSE x \in s : TRUE}]]

(* A finite set of weights has a sum.                                      *)
LEMMA SumExists ==
  ASSUME NEW S, IsFiniteSet(S), NEW w \in [S -> Int]
  PROVE  \E f : IsSum(f, w, S)
<1>1. PICK first : first = [s \in SUBSET S |-> CHOOSE x \in s : TRUE]
  OBVIOUS
<1>2. PICK op : op = [p \in Int \X S |-> w[p[2]] + p[1]]
  OBVIOUS
<1>3. /\ \A s \in SUBSET S : s # {} => first[s] \in s
      /\ op \in [Int \X S -> Int] /\ 0 \in Int
  BY <1>1, <1>2
<1>4. \E f : FoldOf(f, S, first, Int, 0, op)
  <2>1. Chooses(first, S) /\ op \in Steps(Int, S) /\ 0 \in Int
    BY <1>3 DEF Chooses, Steps
  <2>2. QED
    BY <2>1, FoldExists
<1>5. PICK f \in [SUBSET S -> Int] : \A s \in SUBSET S :
        f[s] = IF s = {} THEN 0 ELSE op[<<f[s \ {first[s]}], first[s]>>]
  BY <1>4 DEF FoldOf
<1> DEFINE Value(s) == IF s = {} THEN 0
                       ELSE w[CHOOSE x \in s : TRUE] + f[s \ {CHOOSE x \in s : TRUE}]
<1>6. ASSUME NEW s \in SUBSET S
      PROVE  f[s] = Value(s)
  <2>1. CASE s = {}
    BY <1>5, <2>1
  <2>2. CASE s # {}
    <3>1. PICK c : c = CHOOSE x \in s : TRUE
      OBVIOUS
    <3>2. c \in s /\ c \in S /\ first[s] = c
      BY <1>1, <2>2, <3>1
    <3>3. f[s \ {c}] \in Int
      OBVIOUS
    <3>4. f[s] = op[<<f[s \ {c}], c>>]
      BY <1>5, <2>2, <3>2
    <3>5. op[<<f[s \ {c}], c>>] = w[c] + f[s \ {c}]
      BY <1>2, <3>2, <3>3
    <3>6. QED
      BY <2>2, <3>1, <3>4, <3>5
  <2>3. QED
    BY <2>1, <2>2
<1>7. f = [s \in SUBSET S |-> Value(s)]
  <2> HIDE DEF Value
  <2>1. QED
    BY <1>6
<1>8. QED
  BY <1>7 DEF IsSum

(* Any element can be taken out of a sum over S first.                     *)
Peeled(f, w, S) ==
  /\ f[{}] = 0
  /\ \A s \in SUBSET S : f[s] \in Int /\ \A x \in s : f[s] = w[x] + f[s \ {x}]

(* Which element is taken out first does not matter.                       *)
LEMMA SumPeels ==
  ASSUME NEW S, IsFiniteSet(S), NEW w \in [S -> Int], NEW f, IsSum(f, w, S)
  PROVE  Peeled(f, w, S)
<1> DEFINE Peels(s) == f[s] \in Int /\ \A x \in s : f[s] = w[x] + f[s \ {x}]
           N == {k \in Nat : \A s \in SUBSET S : Cardinality(s) <= k => Peels(s)}
<1>1. \A s \in SUBSET S : IsFiniteSet(s) /\ Cardinality(s) \in Nat /\ Cardinality(s) <= Cardinality(S)
  BY FS_Subset, FS_CardinalityType
<1>2. \A s \in SUBSET S : f[s] = IF s = {} THEN 0
                                 ELSE w[CHOOSE x \in s : TRUE] + f[s \ {CHOOSE x \in s : TRUE}]
  BY DEF IsSum
<1>3. ASSUME NEW s \in SUBSET S, NEW x \in s
      PROVE  s \ {x} \in SUBSET S /\ Cardinality(s \ {x}) = Cardinality(s) - 1
  BY <1>1, FS_RemoveElement
<1>4. f[{}] = 0
  BY <1>2
<1>5. 0 \in N
  <2>1. ASSUME NEW s \in SUBSET S, Cardinality(s) <= 0
        PROVE  Peels(s)
    <3>1. s = {}
      BY <1>1, <2>1, FS_EmptySet
    <3>2. QED
      BY <1>4, <3>1
  <2>2. QED
    BY <2>1
<1>6. ASSUME NEW k \in Nat, k \in N
      PROVE  k + 1 \in N
  <2> SUFFICES ASSUME NEW s \in SUBSET S, Cardinality(s) <= k + 1 PROVE Peels(s)
    OBVIOUS
  <2>1. CASE s = {}
    BY <1>4, <2>1
  <2>2. CASE s # {}
    <3>1. PICK c : c = CHOOSE x \in s : TRUE
      OBVIOUS
    <3>2. c \in s /\ w[c] \in Int
      BY <2>2, <3>1
    <3>3. \A x \in s : s \ {x} \in SUBSET S /\ Cardinality(s \ {x}) <= k
      BY <1>1, <1>3
    <3>4. f[s \ {c}] \in Int /\ f[s] = w[c] + f[s \ {c}]
      <4>1. f[s] = w[c] + f[s \ {c}]
        BY <1>2, <2>2, <3>1
      <4>2. QED
        BY <1>6, <3>2, <3>3, <4>1
    <3>5. ASSUME NEW x \in s
          PROVE  f[s] = w[x] + f[s \ {x}]
      <4>1. CASE x = c
        BY <3>4, <4>1
      <4>2. CASE x # c
        <5>1. x \in s \ {c} /\ c \in s \ {x}
          BY <3>2, <4>2
        <5>2. f[s \ {c}] = w[x] + f[(s \ {c}) \ {x}]
          BY <1>6, <3>2, <3>3, <5>1
        <5>3. f[s \ {x}] = w[c] + f[(s \ {x}) \ {c}]
          BY <1>6, <3>3, <5>1
        <5>4. (s \ {x}) \ {c} = (s \ {c}) \ {x}
          OBVIOUS
        <5>5. PICK rest : rest = f[(s \ {c}) \ {x}]
          OBVIOUS
        <5>6. rest \in Int
          <6>1. (s \ {c}) \ {x} \in SUBSET S /\ Cardinality((s \ {c}) \ {x}) <= k
            <7>1. Cardinality((s \ {c}) \ {x}) = Cardinality(s \ {c}) - 1
              BY <1>3, <5>1
            <7>2. Cardinality(s \ {c}) \in Nat /\ Cardinality(s \ {c}) <= k
              BY <1>1, <3>2, <3>3
            <7>3. QED
              BY <7>1, <7>2
          <6>2. QED
            BY <1>6, <5>5, <6>1
        <5>7. w[x] \in Int
          OBVIOUS
        <5>8. f[s \ {c}] = w[x] + rest /\ f[s \ {x}] = w[c] + rest
          BY <5>2, <5>3, <5>4, <5>5
        <5>9. f[s] = w[c] + (w[x] + rest)
          BY <3>4, <5>8
        <5>10. w[c] + (w[x] + rest) = w[x] + (w[c] + rest)
          BY <3>2, <5>6, <5>7
        <5>11. QED
          BY <5>8, <5>9, <5>10
      <4>3. QED
        BY <4>1, <4>2
    <3>6. f[s] \in Int
      BY <3>2, <3>4
    <3>7. QED
      BY <3>5, <3>6
  <2>3. QED
    BY <2>1, <2>2
<1>7. Cardinality(S) \in N
  <2>1. Cardinality(S) \in Nat
    BY FS_CardinalityType
  <2> HIDE DEF N
  <2>2. Nat \subseteq N
    BY <1>5, <1>6, SetInduction
  <2>3. QED
    BY <2>1, <2>2
<1>8. QED
  BY <1>1, <1>4, <1>7 DEF Peeled

-----------------------------------------------------------------------------
(* Powers of ten.                                                          *)

IsTen(f) == f = [n \in Nat |-> IF n = 0 THEN 1 ELSE 10 * f[n - 1]]

(* The recursion defines a function: its beginnings exist and agree.       *)
LEMMA TenExists == \E f : IsTen(f)
<1> DEFINE Begins(f, k) == /\ f \in [0..k -> Nat] /\ f[0] = 1
                           /\ \A i \in 1..k : f[i] = 10 * f[i - 1]
           N == {k \in Nat : \E f : Begins(f, k)}
<1>1. 0 \in N
  <2>1. Begins([i \in 0..0 |-> 1], 0)
    OBVIOUS
  <2>2. QED
    BY <2>1
<1>2. ASSUME NEW k \in Nat, NEW f, Begins(f, k)
      PROVE  Begins([i \in 0..k + 1 |-> IF i = k + 1 THEN 10 * f[k] ELSE f[i]], k + 1)
  <2> DEFINE h == [i \in 0..k + 1 |-> IF i = k + 1 THEN 10 * f[k] ELSE f[i]]
  <2>1. f[k] \in Nat /\ \A i \in 0..k : f[i] \in Nat /\ h[i] = f[i]
    BY <1>2
  <2>2. h[k + 1] = 10 * f[k] /\ 10 * f[k] \in Nat
    BY <2>1
  <2>3. h \in [0..k + 1 -> Nat]
    BY <2>1, <2>2
  <2>4. \A i \in 1..k + 1 : h[i] = 10 * h[i - 1]
    <3>1. ASSUME NEW i \in 1..k
          PROVE  h[i] = 10 * h[i - 1]
      <4>1. i \in 0..k /\ i - 1 \in 0..k /\ f[i] = 10 * f[i - 1]
        BY <1>2
      <4> HIDE DEF h
      <4>2. QED
        BY <2>1, <4>1
    <3>2. h[k + 1] = 10 * h[k]
      BY <2>1, <2>2
    <3> HIDE DEF h
    <3>3. QED
      BY <3>1, <3>2
  <2>5. h[0] = 1
    BY <1>2
  <2>6. QED
    BY <2>3, <2>4, <2>5
<1>3. ASSUME NEW k \in Nat, k \in N
      PROVE  k + 1 \in N
  <2>1. PICK f : Begins(f, k)
    BY <1>3
  <2>2. PICK h : h = [i \in 0..k + 1 |-> IF i = k + 1 THEN 10 * f[k] ELSE f[i]]
    OBVIOUS
  <2>3. Begins(h, k + 1)
    BY <1>2, <2>1, <2>2
  <2> HIDE DEF Begins
  <2>4. QED
    BY <2>3
<1>4. \A k \in Nat : \E f : Begins(f, k)
  <2> HIDE DEF N
  <2>1. Nat \subseteq N
    BY <1>1, <1>3, SetInduction
  <2>2. QED
    BY <2>1 DEF N
<1>5. ASSUME NEW k \in Nat, NEW m \in Nat, NEW f, NEW g, Begins(f, k), Begins(g, m),
             NEW j \in Nat, j <= k, j <= m
      PROVE  f[j] = g[j]
  <2> DEFINE M == {i \in Nat : i <= k /\ i <= m => f[i] = g[i]}
  <2>1. 0 \in M
    BY <1>5
  <2>2. ASSUME NEW i \in Nat, i \in M
        PROVE  i + 1 \in M
    <3>1. ASSUME i + 1 <= k, i + 1 <= m
          PROVE  f[i + 1] = g[i + 1]
      <4>1. f[i] = g[i] /\ i + 1 \in 1..k /\ i + 1 \in 1..m
        BY <2>2, <3>1
      <4>2. f[i + 1] = 10 * f[(i + 1) - 1] /\ g[i + 1] = 10 * g[(i + 1) - 1]
        BY <1>5, <4>1
      <4>3. (i + 1) - 1 = i
        OBVIOUS
      <4>4. QED
        BY <4>1, <4>2, <4>3
    <3>2. QED
      BY <3>1
  <2> HIDE DEF M
  <2>3. Nat \subseteq M
    BY <2>1, <2>2, SetInduction
  <2>4. QED
    BY <1>5, <2>3 DEF M
<1> DEFINE F(n) == CHOOSE f : Begins(f, n)
           T == [n \in Nat |-> F(n)[n]]
<1>6. \A n \in Nat : Begins(F(n), n)
  <2> HIDE DEF Begins
  <2>1. QED
    BY <1>4
<1>7. ASSUME NEW n \in Nat
      PROVE  T[n] = IF n = 0 THEN 1 ELSE 10 * T[n - 1]
  <2> HIDE DEF F
  <2>1. CASE n = 0
    BY <1>6, <2>1
  <2>2. CASE n # 0
    <3>1. n - 1 \in Nat /\ n \in 1..n /\ n - 1 <= n
      BY <2>2
    <3>2. F(n)[n] = 10 * F(n)[n - 1]
      BY <1>6, <3>1
    <3>3. F(n)[n - 1] = F(n - 1)[n - 1]
      <4>1. Begins(F(n), n) /\ Begins(F(n - 1), n - 1)
        BY <1>6, <3>1
      <4> HIDE DEF Begins
      <4>2. QED
        BY <1>5, <3>1, <4>1
    <3>4. QED
      BY <2>2, <3>1, <3>2, <3>3
  <2>3. QED
    BY <2>1, <2>2
<1>8. IsTen(T)
  <2> HIDE DEF F
  <2>1. T = [n \in Nat |-> T[n]]
    OBVIOUS
  <2> HIDE DEF T
  <2>2. QED
    BY <1>7, <2>1 DEF IsTen
<1>9. QED
  BY <1>8

(* So ten is the function its definition asks for.                         *)
LEMMA TenIs == IsTen(ten)
<1>1. ten = CHOOSE f : IsTen(f)
  BY DEF ten, IsTen
<1>2. QED
  BY <1>1, TenExists

(* One more place is ten times as much.                                    *)
LEMMA TenSteps == ten[0] = 1 /\ \A n \in Nat : ten[n] \in Nat \ {0} /\ ten[n + 1] = 10 * ten[n]
<1>1. \A n \in Nat : ten[n] = IF n = 0 THEN 1 ELSE 10 * ten[n - 1]
  BY TenIs DEF IsTen
<1>2. ten[0] = 1
  BY <1>1
<1>3. \A n \in Nat : ten[n + 1] = 10 * ten[n]
  <2>1. ASSUME NEW n \in Nat
        PROVE  ten[n + 1] = 10 * ten[n]
    <3>1. n + 1 \in Nat /\ n + 1 # 0 /\ (n + 1) - 1 = n
      OBVIOUS
    <3>2. QED
      BY <1>1, <3>1
  <2>2. QED
    BY <2>1
<1> DEFINE N == {n \in Nat : ten[n] \in Nat \ {0}}
<1>4. 0 \in N
  BY <1>2
<1>5. \A n \in Nat : n \in N => n + 1 \in N
  BY <1>3
<1>6. \A n \in Nat : ten[n] \in Nat \ {0}
  <2> HIDE DEF N
  <2>1. Nat \subseteq N
    BY <1>4, <1>5, SetInduction
  <2>2. QED
    BY <2>1 DEF N
<1>7. QED
  BY <1>2, <1>3, <1>6

(* More places are more.                                                   *)
LEMMA TenGrows ==
  ASSUME NEW n \in Nat, NEW m \in Nat, n <= m
  PROVE  ten[n] <= ten[m]
<1> DEFINE N == {k \in Nat : ten[n] <= ten[n + k]}
<1>1. 0 \in N
  <2>1. ten[n] \in Nat /\ n + 0 = n
    BY TenSteps
  <2>2. QED
    BY <2>1
<1>2. ASSUME NEW k \in Nat, k \in N
      PROVE  k + 1 \in N
  <2>1. n + k \in Nat /\ n + (k + 1) = (n + k) + 1
    OBVIOUS
  <2>2. ten[n + (k + 1)] = 10 * ten[n + k] /\ ten[n + k] \in Nat /\ ten[n] \in Nat
    BY <2>1, TenSteps
  <2>3. ten[n] <= ten[n + (k + 1)]
    BY <1>2, <2>2
  <2>4. QED
    BY <2>3
<1>3. m - n \in N
  <2>1. m - n \in Nat
    OBVIOUS
  <2> HIDE DEF N
  <2>2. Nat \subseteq N
    BY <1>1, <1>2, SetInduction
  <2>3. QED
    BY <2>1, <2>2
<1>4. QED
  BY <1>3

-----------------------------------------------------------------------------
(* The loops over digits.                                                  *)

DigitStep(acc, c, limit) ==
  [value |-> IF IsDigit(c) /\ acc.count < limit THEN acc.value * 10 + c ELSE acc.value,
   count |-> IF IsDigit(c) THEN acc.count + 1 ELSE acc.count]

NoDigits == [value |-> 0, count |-> 0]

IsDigitFold(f, q, limit) ==
  f = [s \in SUBSET (DOMAIN q) |->
         IF s = {} THEN NoDigits ELSE DigitStep(f[s \ {Max(s)}], q[Max(s)], limit)]

(* The loop's fold over the positions is defined.                          *)
LEMMA DigitFoldExists ==
  ASSUME NEW q \in Seq(Int), NEW limit \in Nat
  PROVE  \E f : IsDigitFold(f, q, limit)
<1> DEFINE S == DOMAIN q
           Acc == [value : Int, count : Nat]
<1>1. Len(q) \in Nat /\ S = 1..Len(q) /\ \A i \in S : q[i] \in Int
  OBVIOUS
<1>2. IsFiniteSet(S)
  BY <1>1, FS_Interval
<1>3. PICK first : first = [s \in SUBSET S |-> Max(s)]
  OBVIOUS
<1>4. Chooses(first, S)
  <2>1. \A s \in SUBSET S : s # {} => Max(s) \in s
    BY <1>1, MaxOfBounded
  <2>2. QED
    BY <1>3, <2>1 DEF Chooses
<1>5. PICK op : op = [p \in Acc \X S |-> DigitStep(p[1], q[p[2]], limit)]
  OBVIOUS
<1>6. \A a \in Acc, c \in Int : DigitStep(a, c, limit) \in Acc
  BY DEF DigitStep
<1>7. op \in Steps(Acc, S)
  <2>1. \A p \in Acc \X S : DigitStep(p[1], q[p[2]], limit) \in Acc
    BY <1>1, <1>6
  <2>2. QED
    BY <1>5, <2>1 DEF Steps
<1>8. NoDigits \in Acc
  BY DEF NoDigits
<1>9. PICK f : FoldOf(f, S, first, Acc, NoDigits, op)
  <2> HIDE DEF S, Acc
  <2>1. QED
    BY <1>2, <1>4, <1>7, <1>8, FoldExists
<1>10. ASSUME NEW s \in SUBSET S
       PROVE  f[s] = IF s = {} THEN NoDigits ELSE DigitStep(f[s \ {Max(s)}], q[Max(s)], limit)
  <2>1. CASE s = {}
    BY <1>9, <2>1 DEF FoldOf
  <2>2. CASE s # {}
    <3>1. PICK m : m = Max(s)
      OBVIOUS
    <3>2. first[s] = m /\ m \in S /\ s \ {m} \in SUBSET S
      BY <1>3, <1>4, <2>2, <3>1 DEF Chooses
    <3>3. f[s \ {m}] \in Acc /\ f[s] = op[<<f[s \ {m}], m>>]
      BY <1>9, <2>2, <3>2 DEF FoldOf
    <3>4. op[<<f[s \ {m}], m>>] = DigitStep(f[s \ {m}], q[m], limit)
      BY <1>5, <3>2, <3>3
    <3>5. QED
      BY <2>2, <3>1, <3>3, <3>4
  <2>3. QED
    BY <2>1, <2>2
<1>11. f = [s \in SUBSET S |->
              IF s = {} THEN NoDigits ELSE DigitStep(f[s \ {Max(s)}], q[Max(s)], limit)]
  BY <1>9, <1>10 DEF FoldOf
<1>12. QED
  BY <1>11 DEF IsDigitFold

(* Digits one after another: V[k] is the number the first k of them make.  *)
Reads(V, q) ==
  /\ V \in [0..Len(q) -> Int] /\ V[0] = 0
  /\ \A k \in 0..Len(q) - 1 : V[k + 1] = V[k] * 10 + q[k + 1]

Counted(d, q, limit) ==
  /\ d.count = Len(q)
  /\ Len(q) <= limit => \E V : Reads(V, q) /\ d.value = V[Len(q)]

(* The loop counts digits, and reads the number they make up to the limit. *)
LEMMA DigitsCounted ==
  ASSUME NEW s, NEW from, NEW to, SubSeq(s, from, to) \in Seq(0..9), NEW limit \in Nat
  PROVE  Counted(DigitsOf(s, from, to, limit), SubSeq(s, from, to), limit)
<1>1. PICK q : q = SubSeq(s, from, to)
  OBVIOUS
<1>2. PICK n : n = Len(q)
  OBVIOUS
<1>3. n \in Nat /\ DOMAIN q = 1..n /\ q \in Seq(Int) /\ \A i \in 1..n : q[i] \in 0..9
  <2>1. q \in Seq(0..9)
    BY <1>1
  <2>2. n \in Nat /\ DOMAIN q = 1..n /\ \A i \in 1..n : q[i] \in 0..9
    BY <1>2, <2>1
  <2>3. q = [i \in 1..n |-> q[i]] /\ \A i \in 1..n : q[i] \in Int
    BY <1>2, <2>1, <2>2
  <2>4. q \in Seq(Int)
    BY <2>2, <2>3
  <2>5. QED
    BY <2>2, <2>4
<1> DEFINE f == CHOOSE f : IsDigitFold(f, q, limit)
<1>4. IsDigitFold(f, q, limit)
  BY <1>3, DigitFoldExists
<1>5. DigitsOf(s, from, to, limit) = f[1..n]
  <2>1. DigitsOf(s, from, to, limit) =
          (CHOOSE g : g = [u \in SUBSET (DOMAIN q) |->
             IF u = {} THEN NoDigits ELSE DigitStep(g[u \ {Max(u)}], q[Max(u)], limit)])[DOMAIN q]
    BY <1>1 DEF DigitsOf, FoldLeft, MapThenFoldSet, DigitStep, NoDigits
  <2>2. QED
    BY <1>3, <2>1 DEF IsDigitFold
<1> HIDE DEF f
<1>6. f[{}] = NoDigits
  BY <1>4 DEF IsDigitFold
<1>7. ASSUME NEW k \in Nat, k + 1 <= n
      PROVE  f[1..k + 1] = DigitStep(f[1..k], q[k + 1], limit)
  <2>1. 1..k + 1 \in SUBSET (DOMAIN q)
    BY <1>3, <1>7
  <2>2. f[1..k + 1] = DigitStep(f[(1..k + 1) \ {Max(1..k + 1)}], q[Max(1..k + 1)], limit)
    BY <1>4, <2>1, UpTo DEF IsDigitFold
  <2>3. QED
    BY <2>2, UpTo
<1> DEFINE Counts(k) == k <= n => f[1..k].count = k /\ f[1..k].value \in Int
           N == {k \in Nat : Counts(k)}
<1>8. Counts(0)
  <2>1. 1..0 = {}
    OBVIOUS
  <2>2. QED
    BY <1>6, <2>1 DEF NoDigits
<1>9. ASSUME NEW k \in Nat, Counts(k), k + 1 <= n
      PROVE  /\ f[1..k + 1].count = k + 1 /\ f[1..k + 1].value \in Int
             /\ k < limit => f[1..k + 1].value = f[1..k].value * 10 + q[k + 1]
  <2>1. f[1..k].count = k /\ f[1..k].value \in Int /\ q[k + 1] \in 0..9
    BY <1>3, <1>9
  <2>2. IsDigit(q[k + 1])
    BY <2>1 DEF IsDigit
  <2>3. PICK acc, c : acc = f[1..k] /\ c = q[k + 1]
    OBVIOUS
  <2>4. f[1..k + 1] = DigitStep(acc, c, limit)
    BY <1>7, <1>9, <2>3
  <2>5. /\ DigitStep(acc, c, limit).count = acc.count + 1
        /\ DigitStep(acc, c, limit).value = IF acc.count < limit THEN acc.value * 10 + c
                                            ELSE acc.value
    BY <2>2, <2>3 DEF DigitStep
  <2>6. acc.count = k /\ acc.value \in Int /\ c \in Int
    BY <2>1, <2>3
  <2>7. /\ f[1..k + 1].count = k + 1 /\ f[1..k + 1].value \in Int
        /\ k < limit => f[1..k + 1].value = acc.value * 10 + c
    BY <2>4, <2>5, <2>6
  <2>8. QED
    BY <2>3, <2>7
<1>10. \A k \in Nat : Counts(k)
  <2>1. \A k \in Nat : Counts(k) => Counts(k + 1)
    BY <1>9
  <2>2. 0 \in N /\ \A k \in Nat : k \in N => k + 1 \in N
    <3> HIDE DEF Counts
    <3>1. QED
      BY <1>8, <2>1
  <2> HIDE DEF N
  <2>3. Nat \subseteq N
    BY <2>2, SetInduction
  <2> HIDE DEF Counts
  <2>4. QED
    BY <2>3 DEF N
<1>11. f[1..n].count = n
  BY <1>3, <1>10
<1>12. ASSUME n <= limit
       PROVE  \E V : Reads(V, q) /\ f[1..n].value = V[n]
  <2> DEFINE V == [k \in 0..n |-> f[1..k].value]
  <2>1. V \in [0..n -> Int]
    BY <1>3, <1>10
  <2>2. V[0] = 0
    <3>1. 1..0 = {}
      OBVIOUS
    <3>2. QED
      BY <1>3, <1>6, <3>1 DEF NoDigits
  <2>3. \A k \in 0..n - 1 : V[k + 1] = V[k] * 10 + q[k + 1]
    <3>1. ASSUME NEW k \in 0..n - 1
          PROVE  V[k + 1] = V[k] * 10 + q[k + 1]
      <4>1. k \in Nat /\ Counts(k) /\ k + 1 <= n /\ k < limit /\ k \in 0..n /\ k + 1 \in 0..n
        BY <1>3, <1>10, <1>12
      <4>2. f[1..k + 1].value = f[1..k].value * 10 + q[k + 1]
        BY <1>9, <4>1
      <4>3. QED
        BY <4>1, <4>2
    <3>2. QED
      BY <3>1
  <2>4. V[n] = f[1..n].value
    BY <1>3
  <2> HIDE DEF V
  <2>5. QED
    BY <1>2, <2>1, <2>2, <2>3, <2>4 DEF Reads
<1>13. QED
  BY <1>1, <1>2, <1>5, <1>11, <1>12 DEF Counted

-----------------------------------------------------------------------------
(* Values by place.                                                        *)

Place(i, p) == IF i < p THEN MAX_FRACTION_DIGITS + p - 1 - i ELSE MAX_FRACTION_DIGITS + p - i

IsScale(f, t, p) ==
  f = [u \in SUBSET (DOMAIN t \ {p}) |->
         IF u = {} THEN 0
         ELSE t[CHOOSE x \in u : TRUE] * ten[Place(CHOOSE x \in u : TRUE, p)]
              + f[u \ {CHOOSE x \in u : TRUE}]]

(* The weight of each digit.                                               *)
Weighs(w, t, p) ==
  /\ w \in [DOMAIN t \ {p} -> Int]
  /\ \A i \in DOMAIN t \ {p} : w[i] = t[i] * ten[Place(i, p)]

IsValue(s, t, p, w) ==
  \E f : /\ IsSum(f, w, DOMAIN t \ {p})
         /\ Scaled(s) = IF t = s THEN f[DOMAIN t \ {p}] ELSE -f[DOMAIN t \ {p}]

(* The value is the sum, in any order, of the digits at their places.      *)
LEMMA ScaledIs ==
  ASSUME NEW s, NEW t, t = Unsigned(s), NEW p, p = PointOf(t),
         IsFiniteSet(DOMAIN t \ {p}), NEW w, Weighs(w, t, p)
  PROVE  IsValue(s, t, p, w)
<1> DEFINE S == DOMAIN t \ {p}
           f == CHOOSE f : IsScale(f, t, p)
<1>1. Scaled(s) = IF t = s THEN f[S] ELSE -f[S]
  BY DEF Scaled, MapThenSumSet, MapThenFoldSet, IsScale, Place
<1>2. ASSUME NEW g
      PROVE  IsScale(g, t, p) <=> IsSum(g, w, S)
  <2>1. ASSUME NEW u \in SUBSET S
        PROVE  (IF u = {} THEN 0
                ELSE t[CHOOSE x \in u : TRUE] * ten[Place(CHOOSE x \in u : TRUE, p)]
                     + g[u \ {CHOOSE x \in u : TRUE}])
               = (IF u = {} THEN 0
                  ELSE w[CHOOSE x \in u : TRUE] + g[u \ {CHOOSE x \in u : TRUE}])
    <3>1. CASE u # {}
      <4>1. PICK c : c = CHOOSE x \in u : TRUE
        OBVIOUS
      <4>2. c \in S
        BY <3>1, <4>1
      <4>3. w[c] = t[c] * ten[Place(c, p)]
        BY <4>2 DEF Weighs
      <4>4. QED
        BY <4>1, <4>3
    <3>2. QED
      BY <3>1
  <2>2. QED
    BY <2>1 DEF IsScale, IsSum
<1>3. IsScale(f, t, p)
  <2>1. \E g : IsSum(g, w, S)
    BY SumExists DEF Weighs
  <2>2. \E g : IsScale(g, t, p)
    BY <1>2, <2>1
  <2>3. QED
    BY <2>2
<1>4. IsSum(f, w, S)
  BY <1>2, <1>3
<1> HIDE DEF f
<1>5. QED
  BY <1>1, <1>4 DEF IsValue

(* A run of digits q added place by place, from 10^e down, to what was     *)
(* there: it adds what the loop reads, and less than 10^e.                 *)
LEMMA DigitRun ==
  ASSUME NEW q \in Seq(0..9), NEW V, Reads(V, q), NEW e \in Nat, Len(q) <= e,
         NEW G, G[0] \in Int,
         \A k \in 0..Len(q) - 1 : G[k + 1] = q[k + 1] * ten[e - (k + 1)] + G[k]
  PROVE  /\ G[Len(q)] = G[0] + V[Len(q)] * ten[e - Len(q)]
         /\ G[Len(q)] \in Int /\ G[0] <= G[Len(q)]
         /\ G[Len(q)] + ten[e - Len(q)] <= G[0] + ten[e]
<1>1. PICK n : n = Len(q)
  OBVIOUS
<1>2. n \in Nat /\ n <= e /\ \A k \in 0..n - 1 : q[k + 1] \in 0..9
  BY <1>1
<1> DEFINE Run(k) == /\ G[k] \in Int /\ V[k] \in Int
                     /\ G[k] = G[0] + V[k] * ten[e - k]
                     /\ G[0] <= G[k] /\ G[k] + ten[e - k] <= G[0] + ten[e]
           N == {k \in Nat : k <= n => Run(k)}
<1>3. Run(0)
  <2>1. V[0] = 0 /\ e - 0 = e /\ ten[e] \in Nat
    <3>1. ten[e] \in Nat
      BY TenSteps
    <3>2. V[0] = 0
      BY DEF Reads
    <3>3. QED
      BY <3>1, <3>2
  <2>2. 0 * ten[e] = 0
    BY <2>1
  <2>3. QED
    BY <2>1, <2>2
<1>4. ASSUME NEW k \in Nat, k + 1 <= n, Run(k)
      PROVE  Run(k + 1)
  <2>1. PICK d, T, g, v, b : d = q[k + 1] /\ T = ten[e - (k + 1)] /\ g = G[k] /\ v = V[k] /\ b = G[0]
    OBVIOUS
  <2>2. k \in 0..n - 1 /\ e - (k + 1) \in Nat /\ (e - (k + 1)) + 1 = e - k
    BY <1>2, <1>4
  <2>3. T \in Nat /\ ten[e - k] = 10 * T
    BY <2>1, <2>2, TenSteps
  <2>4. d \in 0..9 /\ g \in Int /\ v \in Int /\ b \in Int
    BY <1>2, <1>4, <2>1, <2>2
  <2>5. G[k + 1] = d * T + g
    BY <1>1, <2>1, <2>2
  <2>6. V[k + 1] = v * 10 + d
    BY <1>1, <2>1, <2>2 DEF Reads
  <2>7. g = b + v * (10 * T) /\ b <= g /\ g + 10 * T <= b + ten[e]
    BY <1>4, <2>1, <2>3
  <2>8. d * T \in Nat /\ d * T + T <= 10 * T
    BY <2>3, <2>4
  <2>9. (v * 10 + d) * T = v * (10 * T) + d * T
    BY <2>3, <2>4
  <2>10. ten[e] \in Nat
    BY TenSteps
  <2>11. /\ d * T + g \in Int /\ v * 10 + d \in Int
         /\ d * T + g = b + (v * 10 + d) * T
         /\ b <= d * T + g /\ (d * T + g) + T <= b + ten[e]
    <3>1. PICK x, y, z, E : x = d * T /\ y = v * (10 * T) /\ z = 10 * T /\ E = ten[e]
      OBVIOUS
    <3>2. x \in Nat /\ y \in Int /\ z \in Nat /\ E \in Nat
      BY <2>3, <2>4, <2>8, <2>10, <3>1
    <3>3. x + T <= z /\ g = b + y /\ (v * 10 + d) * T = y + x /\ b <= g /\ g + z <= b + E
      BY <2>7, <2>8, <2>9, <3>1
    <3>4. x + g = b + (y + x) /\ b <= x + g /\ (x + g) + T <= b + E
      BY ONLY <2>3, <2>4, <3>2, <3>3
    <3>5. x + g \in Int /\ v * 10 + d \in Int
      BY <2>4, <3>2
    <3>6. QED
      BY <3>1, <3>3, <3>4, <3>5
  <2>12. QED
    BY <2>1, <2>5, <2>6, <2>11
<1>5. Run(n)
  <2>1. 0 \in N
    BY <1>3
  <2>2. ASSUME NEW k \in Nat, k \in N
        PROVE  k + 1 \in N
    <3>1. k + 1 <= n => k <= n
      BY <1>2
    <3> HIDE DEF Run
    <3>2. QED
      BY <1>4, <2>2, <3>1
  <2> HIDE DEF N, Run
  <2>3. Nat \subseteq N
    BY <2>1, <2>2, SetInduction
  <2>4. QED
    BY <1>2, <2>3 DEF N
<1>6. QED
  BY <1>1, <1>5

-----------------------------------------------------------------------------
(* Strings.                                                                *)

Off(s) == IF s # <<>> /\ s[1] = Minus THEN 1 ELSE 0

String(s) == s \in Seq(Char) /\ Len(s) <= MAX_STRING_LENGHT

(* The sign and the point are no digits.                                   *)
LEMMA CharsAre == /\ Char \subseteq Int /\ Minus # Dot /\ Minus \in Int /\ Dot \in Int
                  /\ ~IsDigit(Minus) /\ ~IsDigit(Dot)
  BY DigitAssumption DEF Char, Minus, Dot, Letter, IsDigit

(* What is left without the sign.                                          *)
LEMMA UnsignedIs ==
  ASSUME NEW s, String(s), NEW t, t = Unsigned(s)
  PROVE  /\ t \in Seq(Char) /\ Len(t) \in Nat /\ Len(s) \in Nat /\ Len(t) + Off(s) = Len(s)
         /\ \A i \in 1..Len(t) : t[i] = s[i + Off(s)]
         /\ t = s <=> Off(s) = 0
<1>1. CASE s # <<>> /\ s[1] = Minus
  <2>1. t = Tail(s) /\ Off(s) = 1
    BY <1>1 DEF Unsigned, Off
  <2>2. s \in Seq(Char) /\ Len(s) \in Nat
    BY DEF String
  <2>3. /\ Tail(s) \in Seq(Char) /\ Len(Tail(s)) = Len(s) - 1
        /\ \A i \in 1..Len(Tail(s)) : Tail(s)[i] = s[i + 1]
    BY <1>1, <2>2, HeadTailProperties
  <2>4. Len(t) \in Nat
    BY <2>1, <2>3
  <2>5. t # s
    <3>1. Len(t) = Len(s) - 1
      BY <2>1, <2>3
    <3>2. Len(t) # Len(s)
      BY <2>2, <3>1
    <3>3. QED
      BY <3>2
  <2>6. Len(t) + 1 = Len(s)
    BY <2>1, <2>2, <2>3
  <2>7. \A i \in 1..Len(t) : t[i] = s[i + 1]
    BY <2>1, <2>3
  <2>8. t \in Seq(Char)
    BY <2>1, <2>3
  <2>9. Off(s) = 1
    BY <2>1
  <2>10. QED
    BY ONLY <2>2, <2>4, <2>5, <2>6, <2>7, <2>8, <2>9
<1>2. CASE ~(s # <<>> /\ s[1] = Minus)
  <2>1. t = s /\ Off(s) = 0
    BY <1>2 DEF Unsigned, Off
  <2>2. s \in Seq(Char) /\ Len(s) \in Nat
    BY DEF String
  <2>3. \A i \in 1..Len(t) : i + 0 = i
    BY <2>1, <2>2
  <2>4. QED
    BY <2>1, <2>2, <2>3
<1>3. QED
  BY <1>1, <1>2

IsPoint(t, p) ==
  /\ p \in 1..Len(t) + 1
  /\ p <= Len(t) => t[p] = Dot
  /\ \A i \in 1..p - 1 : t[i] # Dot

(* Every string has the place PointOf looks for.                           *)
LEMMA PointIs ==
  ASSUME NEW t, t \in Seq(Char)
  PROVE  IsPoint(t, PointOf(t))
<1>1. \E p : IsPoint(t, p)
  <2>1. CASE \E i \in 1..Len(t) : t[i] = Dot
    <3> DEFINE D == {i \in 1..Len(t) : t[i] = Dot}
    <3>1. D \in SUBSET Nat /\ D # {}
      BY <2>1
    <3>2. Min(D) \in D /\ \A i \in D : Min(D) <= i
      <4> HIDE DEF D
      <4>1. QED
        BY <3>1, MinOfNumbers
    <3>3. PICK m : m = Min(D)
      OBVIOUS
    <3>4. m \in 1..Len(t) /\ t[m] = Dot /\ Len(t) \in Nat
      BY <3>2, <3>3
    <3>5. \A i \in 1..m - 1 : t[i] # Dot
      BY <3>2, <3>3, <3>4
    <3>6. m \in 1..Len(t) + 1
      BY <3>4
    <3>7. QED
      BY <3>4, <3>5, <3>6 DEF IsPoint
  <2>2. CASE \A i \in 1..Len(t) : t[i] # Dot
    <3>1. Len(t) \in Nat
      OBVIOUS
    <3>2. IsPoint(t, Len(t) + 1)
      BY <2>2, <3>1 DEF IsPoint
    <3>3. QED
      BY <3>2
  <2>3. QED
    BY <2>1, <2>2
<1>2. \E p \in 1..Len(t) + 1 : /\ p <= Len(t) => t[p] = Dot
                               /\ \A i \in 1..p - 1 : t[i] # Dot
  BY <1>1 DEF IsPoint
<1>3. QED
  BY <1>2 DEF PointOf, IsPoint

(* The circuit finds the same point, counted from the sign.                *)
LEMMA PointPositionIs ==
  ASSUME NEW s, String(s), NEW t, t = Unsigned(s), NEW p, p = PointOf(t)
  PROVE  /\ p \in 1..Len(t) + 1 /\ (p <= Len(t) => t[p] = Dot)
         /\ \A i \in 1..p - 1 : t[i] # Dot
         /\ p <= Len(t) => pointPosition(s) = p + Off(s) /\ pointPosition(s) <= Len(s)
         /\ p > Len(t) => /\ pointPosition(s) = MAX_STRING_LENGHT + 1
                          /\ ~(pointPosition(s) <= Len(s))
                          /\ \A i \in 1..Len(s) : s[i] # Dot
<1>1. /\ t \in Seq(Char) /\ Len(t) \in Nat /\ Len(s) \in Nat /\ Len(t) + Off(s) = Len(s)
      /\ \A i \in 1..Len(t) : t[i] = s[i + Off(s)]
  BY UnsignedIs
<1>2. /\ p \in 1..Len(t) + 1 /\ (p <= Len(t) => t[p] = Dot)
      /\ \A i \in 1..p - 1 : t[i] # Dot
  BY <1>1, PointIs DEF IsPoint
<1>3. Off(s) \in 0..1 /\ (Off(s) = 1 => s[1] = Minus)
  BY DEF Off
<1>4. DOMAIN s = 1..Len(s)
  BY DEF String
<1>5. \A i \in 1..Len(s) : s[i] = Dot => i - Off(s) \in 1..Len(t) /\ t[i - Off(s)] = Dot
  <2>1. ASSUME NEW i \in 1..Len(s), s[i] = Dot
        PROVE  i - Off(s) \in 1..Len(t) /\ t[i - Off(s)] = Dot
    <3>1. Off(s) = 1 => i # 1
      BY <1>3, <2>1, CharsAre
    <3>2. i - Off(s) \in 1..Len(t) /\ (i - Off(s)) + Off(s) = i
      BY <1>1, <1>3, <3>1
    <3>3. QED
      BY <1>1, <2>1, <3>2
  <2>2. QED
    BY <2>1
<1>6. CASE p <= Len(t)
  <2> DEFINE D == {i \in 1..Len(s) : s[i] = Dot}
  <2>1. p + Off(s) \in D
    BY <1>1, <1>2, <1>3, <1>6
  <2>2. \A i \in D : p + Off(s) <= i
    <3>1. ASSUME NEW i \in D, ~(p + Off(s) <= i)
          PROVE  FALSE
      <4>1. i - Off(s) \in 1..p - 1
        BY <1>2, <1>3, <1>5, <3>1
      <4>2. QED
        BY <1>2, <1>5, <4>1
    <3>2. QED
      BY <3>1
  <2>3. Min(D) \in D /\ \A i \in D : Min(D) <= i
    <3>1. D \in SUBSET Nat /\ D # {}
      BY <2>1
    <3> HIDE DEF D
    <3>2. QED
      BY <3>1, MinOfNumbers
  <2>4. Min(D) = p + Off(s)
    <3>1. Min(D) \in Int /\ p + Off(s) \in Int
      BY <1>2, <1>3, <2>3
    <3>2. p + Off(s) <= Min(D) /\ Min(D) <= p + Off(s)
      BY <2>1, <2>2, <2>3
    <3>3. QED
      BY <3>1, <3>2
  <2>5. pointPosition(s) = Min(D)
    <3>1. Dot \in ToSet(s)
      BY <1>4, <2>1 DEF ToSet
    <3>2. D # {}
      BY <2>1
    <3>3. QED
      BY <3>1, <3>2 DEF pointPosition, SelectInSeq
  <2>6. p + Off(s) <= Len(s)
    BY <1>1, <1>2, <1>3, <1>6
  <2>7. QED
    BY <1>1, <1>2, <1>6, <2>4, <2>5, <2>6
<1>7. CASE p > Len(t)
  <2>1. \A i \in 1..Len(s) : s[i] # Dot
    <3>1. p = Len(t) + 1
      BY <1>1, <1>2, <1>7
    <3>2. \A i \in 1..Len(t) : t[i] # Dot
      BY <1>1, <1>2, <3>1
    <3>3. QED
      BY <1>5, <3>2
  <2>2. pointPosition(s) = MAX_STRING_LENGHT + 1
    BY <1>4, <2>1 DEF pointPosition, ToSet
  <2>3. ~(pointPosition(s) <= Len(s))
    BY <1>1, <2>2, LimitsAssumption DEF String
  <2>4. QED
    BY <1>1, <1>2, <1>7, <2>1, <2>2, <2>3
<1>8. QED
  BY <1>1, <1>2, <1>6, <1>7

(* The circuit's conditions, in the terms of the unsigned decimal.         *)
Allowed(s) ==
  \A i \in DOMAIN s :
    /\ s[i] = Minus => i = 1
    /\ s[i] = Dot => i = pointPosition(s)
    /\ s[i] \in {Minus, Dot} \/ IsDigit(s[i])

OnlyDigits(t, p) == \A i \in DOMAIN t \ {p} : IsDigit(t[i])

Whole(s, p) == DigitsOf(s, 1 + Off(s), p - 1 + Off(s), MAX_INTEGER_DIGITS)
Fraction(s) == DigitsOf(s, pointPosition(s) + 1, Len(s), MAX_FRACTION_DIGITS)
Total(s, p) == Whole(s, p).value * ten[MAX_FRACTION_DIGITS] + scaledFractionPart(Fraction(s))

(* The parser, with its sign and its point by what they stand for.         *)
LEMMA ParserIs ==
  ASSUME NEW s, String(s), NEW t, t = Unsigned(s), NEW p, p = PointOf(t)
  PROVE  /\ stringToSignedInteger1e8(s).value = IF t = s THEN Total(s, p) ELSE -Total(s, p)
         /\ stringToSignedInteger1e8(s).valid <=>
              /\ Allowed(s)
              /\ Whole(s, p).count \in 1..MAX_INTEGER_DIGITS
              /\ p <= Len(t) => Fraction(s).count \in 1..MAX_FRACTION_DIGITS
<1>1. PICK negative, hasPoint, start, end :
        /\ negative = (s # <<>> /\ s[1] = Minus) /\ hasPoint = (pointPosition(s) <= Len(s))
        /\ start = (IF negative THEN 2 ELSE 1)
        /\ end = (IF hasPoint THEN pointPosition(s) - 1 ELSE Len(s))
  OBVIOUS
<1>2. PICK whole : whole = DigitsOf(s, start, end, MAX_INTEGER_DIGITS)
  OBVIOUS
<1>3. /\ stringToSignedInteger1e8(s).value =
           IF negative
           THEN -(whole.value * ten[MAX_FRACTION_DIGITS] + scaledFractionPart(Fraction(s)))
           ELSE whole.value * ten[MAX_FRACTION_DIGITS] + scaledFractionPart(Fraction(s))
      /\ stringToSignedInteger1e8(s).valid =
           /\ Allowed(s)
           /\ whole.count \in 1..MAX_INTEGER_DIGITS
           /\ hasPoint => Fraction(s).count \in 1..MAX_FRACTION_DIGITS
  BY <1>1, <1>2 DEF stringToSignedInteger1e8, Allowed, Fraction
<1>4. /\ Len(t) \in Nat /\ Len(s) \in Nat /\ Len(t) + Off(s) = Len(s)
      /\ t = s <=> Off(s) = 0
  BY UnsignedIs
<1>5. /\ p \in 1..Len(t) + 1
      /\ p <= Len(t) => pointPosition(s) = p + Off(s) /\ pointPosition(s) <= Len(s)
      /\ p > Len(t) => ~(pointPosition(s) <= Len(s))
  BY PointPositionIs
<1>6. Off(s) = IF negative THEN 1 ELSE 0
  BY <1>1 DEF Off
<1>7. Off(s) \in 0..1 /\ start = 1 + Off(s) /\ (negative <=> t # s)
  BY <1>1, <1>4, <1>6
<1>8. hasPoint <=> p <= Len(t)
  <2>1. p <= Len(t) => pointPosition(s) <= Len(s)
    BY <1>5
  <2>2. ~(p <= Len(t)) => ~(pointPosition(s) <= Len(s))
    BY <1>4, <1>5
  <2>3. hasPoint = (pointPosition(s) <= Len(s))
    BY <1>1
  <2>4. QED
    BY ONLY <2>1, <2>2, <2>3
<1>9. end = p - 1 + Off(s)
  <2>1. CASE p <= Len(t)
    <3>1. end = (p + Off(s)) - 1
      BY <1>1, <1>5, <1>8, <2>1
    <3>2. QED
      BY <1>4, <1>5, <1>7, <3>1
  <2>2. CASE p > Len(t)
    <3>1. end = Len(s) /\ p = Len(t) + 1
      BY <1>1, <1>4, <1>5, <1>8, <2>2
    <3>2. QED
      BY <1>4, <1>7, <3>1
  <2>3. QED
    BY <1>4, <1>5, <2>1, <2>2
<1>10. whole = Whole(s, p)
  BY <1>2, <1>7, <1>9 DEF Whole
<1>11. QED
  BY <1>3, <1>7, <1>8, <1>10 DEF Total

(* What is left of the circuit's conditions on the characters.             *)
LEMMA AllowedIs ==
  ASSUME NEW s, String(s), NEW t, t = Unsigned(s), NEW p, p = PointOf(t)
  PROVE  Allowed(s) <=> OnlyDigits(t, p)
<1>1. /\ Len(t) \in Nat /\ Len(s) \in Nat /\ Len(t) + Off(s) = Len(s)
      /\ DOMAIN t = 1..Len(t) /\ DOMAIN s = 1..Len(s)
      /\ \A i \in 1..Len(t) : t[i] = s[i + Off(s)]
  BY UnsignedIs DEF String
<1>2. /\ p \in 1..Len(t) + 1 /\ (p <= Len(t) => t[p] = Dot)
      /\ p <= Len(t) => pointPosition(s) = p + Off(s)
      /\ p > Len(t) => \A i \in 1..Len(s) : s[i] # Dot
  BY PointPositionIs
<1>3. Off(s) \in 0..1 /\ (Off(s) = 1 => s[1] = Minus) /\ (Off(s) = 0 => Len(s) = 0 \/ s[1] # Minus)
  <2>1. Len(<<>>) = 0
    OBVIOUS
  <2>2. CASE s = <<>>
    BY <2>1, <2>2 DEF Off
  <2>3. CASE s # <<>>
    BY <2>3 DEF Off
  <2>4. QED
    BY <2>2, <2>3
<1>4. ASSUME Allowed(s), NEW i \in 1..Len(t), i # p
      PROVE  IsDigit(t[i])
  <2>1. i + Off(s) \in 1..Len(s) /\ t[i] = s[i + Off(s)]
    BY <1>1, <1>3
  <2>2. s[i + Off(s)] # Minus
    <3>1. ASSUME s[i + Off(s)] = Minus PROVE FALSE
      <4>1. i + Off(s) = 1
        BY <1>1, <1>4, <2>1, <3>1 DEF Allowed
      <4>2. Off(s) = 0 /\ s[1] = Minus /\ Len(s) # 0
        BY <1>1, <1>3, <2>1, <3>1, <4>1
      <4>3. QED
        BY <1>3, <4>2
    <3>2. QED
      BY <3>1
  <2>3. s[i + Off(s)] # Dot
    <3>1. ASSUME s[i + Off(s)] = Dot PROVE FALSE
      <4>1. i + Off(s) = pointPosition(s)
        BY <1>1, <1>4, <2>1, <3>1 DEF Allowed
      <4>2. p <= Len(t)
        BY <1>1, <1>2, <2>1, <3>1
      <4>3. QED
        BY <1>2, <1>3, <1>4, <4>1, <4>2
    <3>2. QED
      BY <3>1
  <2>4. QED
    BY <1>1, <1>4, <2>1, <2>2, <2>3 DEF Allowed
<1>5. ASSUME OnlyDigits(t, p), NEW i \in 1..Len(s)
      PROVE  /\ s[i] = Minus => i = 1
             /\ s[i] = Dot => i = pointPosition(s)
             /\ s[i] \in {Minus, Dot} \/ IsDigit(s[i])
  <2>1. CASE i = 1 /\ Off(s) = 1
    BY <1>3, <2>1, CharsAre
  <2>2. CASE ~(i = 1 /\ Off(s) = 1)
    <3>1. i - Off(s) \in 1..Len(t) /\ (i - Off(s)) + Off(s) = i
      BY <1>1, <1>3, <2>2
    <3>2. s[i] = t[i - Off(s)]
      BY <1>1, <3>1
    <3>3. CASE i - Off(s) = p
      <4>1. s[i] = Dot /\ i = pointPosition(s)
        BY <1>1, <1>2, <1>3, <3>1, <3>2, <3>3
      <4>2. QED
        BY <4>1, CharsAre
    <3>4. CASE i - Off(s) # p
      <4>1. IsDigit(s[i])
        BY <1>1, <1>5, <3>1, <3>2, <3>4 DEF OnlyDigits
      <4>2. s[i] # Minus /\ s[i] # Dot
        BY <4>1, CharsAre
      <4>3. QED
        BY <4>1, <4>2
    <3>5. QED
      BY <3>3, <3>4
  <2>3. QED
    BY <2>1, <2>2
<1>6. QED
  BY <1>1, <1>4, <1>5 DEF Allowed, OnlyDigits

(* The two runs of digits.                                                 *)
IsWhole(q, t, p) ==
  q \in Seq(0..9) /\ Len(q) = p - 1 /\ \A k \in 1..p - 1 : q[k] = t[k]

IsRest(r, t, p) ==
  /\ r \in Seq(0..9)
  /\ Len(r) = IF p <= Len(t) THEN Len(t) - p ELSE 0
  /\ \A k \in 1..Len(t) - p : r[k] = t[p + k]

(* What the two loops run over are the digits before and after the point.  *)
LEMMA RunsAre ==
  ASSUME NEW s, String(s), NEW t, t = Unsigned(s), NEW p, p = PointOf(t), OnlyDigits(t, p)
  PROVE  /\ IsWhole(SubSeq(s, 1 + Off(s), p - 1 + Off(s)), t, p)
         /\ IsRest(SubSeq(s, pointPosition(s) + 1, Len(s)), t, p)
<1>1. /\ Len(t) \in Nat /\ Len(s) \in Nat /\ Len(t) + Off(s) = Len(s)
      /\ DOMAIN t = 1..Len(t)
      /\ \A i \in 1..Len(t) : t[i] = s[i + Off(s)]
  BY UnsignedIs
<1>2. /\ p \in 1..Len(t) + 1
      /\ p <= Len(t) => pointPosition(s) = p + Off(s)
      /\ p > Len(t) => pointPosition(s) = MAX_STRING_LENGHT + 1
  BY PointPositionIs
<1>3. Off(s) \in 0..1
  BY DEF Off
<1>4. \A i \in 1..Len(t) : i # p => t[i] \in 0..9
  BY <1>1 DEF OnlyDigits, IsDigit
<1>5. /\ SubSeq(s, 1 + Off(s), p - 1 + Off(s)) \in Seq(0..9)
      /\ Len(SubSeq(s, 1 + Off(s), p - 1 + Off(s))) = p - 1
      /\ \A k \in 1..p - 1 : SubSeq(s, 1 + Off(s), p - 1 + Off(s))[k] = t[k]
  <2>1. PICK m, n : m = 1 + Off(s) /\ n = p - 1 + Off(s)
    OBVIOUS
  <2>2. m \in Int /\ n \in Int
    BY <1>1, <1>2, <1>3, <2>1
  <2>3. \A i \in m..n : s[i] \in 0..9
    <3>1. ASSUME NEW i \in m..n
          PROVE  s[i] \in 0..9
      <4>1. i - Off(s) \in 1..p - 1 /\ (i - Off(s)) + Off(s) = i
        BY <1>1, <1>2, <1>3, <2>1
      <4>2. i - Off(s) \in 1..Len(t) /\ i - Off(s) # p
        BY <1>1, <1>2, <4>1
      <4>3. QED
        BY <1>1, <1>4, <4>1, <4>2
    <3>2. QED
      BY <3>1
  <2>4. /\ SubSeq(s, m, n) \in Seq(0..9)
        /\ Len(SubSeq(s, m, n)) = IF m <= n THEN n - m + 1 ELSE 0
        /\ \A i \in 1..n - m + 1 : SubSeq(s, m, n)[i] = s[m + i - 1]
    BY <2>2, <2>3, SubSeqProperties
  <2>5. n - m + 1 = p - 1 /\ (~(m <= n) => p - 1 = 0)
    BY <1>1, <1>2, <1>3, <2>1
  <2>6. ASSUME NEW k \in 1..p - 1
        PROVE  SubSeq(s, m, n)[k] = t[k]
    <3>1. k \in 1..Len(t) /\ m + k - 1 = k + Off(s)
      BY <1>1, <1>2, <1>3, <2>1
    <3>2. QED
      BY <1>1, <2>4, <2>5, <3>1
  <2>7. QED
    BY <2>1, <2>4, <2>5, <2>6
<1>6. /\ SubSeq(s, pointPosition(s) + 1, Len(s)) \in Seq(0..9)
      /\ Len(SubSeq(s, pointPosition(s) + 1, Len(s))) = IF p <= Len(t) THEN Len(t) - p ELSE 0
      /\ \A k \in 1..Len(t) - p : SubSeq(s, pointPosition(s) + 1, Len(s))[k] = t[p + k]
  <2>1. PICK m, n : m = pointPosition(s) + 1 /\ n = Len(s)
    OBVIOUS
  <2>2. CASE p <= Len(t)
    <3>1. m = p + Off(s) + 1 /\ m \in Int /\ n \in Int
      BY <1>1, <1>2, <1>3, <2>1, <2>2
    <3>2. \A i \in m..n : s[i] \in 0..9
      <4>1. ASSUME NEW i \in m..n
            PROVE  s[i] \in 0..9
        <5>1. i - Off(s) \in 1..Len(t) /\ i - Off(s) # p /\ (i - Off(s)) + Off(s) = i
          BY <1>1, <1>2, <1>3, <2>1, <3>1
        <5>2. QED
          BY <1>1, <1>4, <5>1
      <4>2. QED
        BY <4>1
    <3>3. /\ SubSeq(s, m, n) \in Seq(0..9)
          /\ Len(SubSeq(s, m, n)) = IF m <= n THEN n - m + 1 ELSE 0
          /\ \A i \in 1..n - m + 1 : SubSeq(s, m, n)[i] = s[m + i - 1]
      BY <3>1, <3>2, SubSeqProperties
    <3>4. n - m + 1 = Len(t) - p /\ (~(m <= n) => Len(t) - p = 0)
      BY <1>1, <1>2, <1>3, <2>1, <2>2, <3>1
    <3>5. ASSUME NEW k \in 1..Len(t) - p
          PROVE  SubSeq(s, m, n)[k] = t[p + k]
      <4>1. p \in Nat /\ k \in Nat /\ p + k \in 1..Len(t)
        BY <1>1, <1>2
      <4>2. m + k - 1 = (p + k) + Off(s)
        BY ONLY <1>3, <3>1, <4>1
      <4>3. QED
        BY <1>1, <3>3, <3>4, <4>1, <4>2
    <3>6. QED
      BY <2>1, <2>2, <3>3, <3>4, <3>5
  <2>3. CASE p > Len(t)
    <3>1. p = Len(t) + 1 /\ m = MAX_STRING_LENGHT + 2 /\ n <= MAX_STRING_LENGHT
      <4>1. p = Len(t) + 1
        BY <1>1, <1>2, <2>3
      <4>2. m = (MAX_STRING_LENGHT + 1) + 1 /\ MAX_STRING_LENGHT \in Nat
        BY <1>2, <2>1, <2>3, LimitsAssumption
      <4>3. n <= MAX_STRING_LENGHT
        BY <2>1 DEF String
      <4>4. QED
        BY <4>1, <4>2, <4>3
    <3>2. m \in Int /\ n \in Int /\ n < m
      <4>1. MAX_STRING_LENGHT \in Nat
        BY LimitsAssumption
      <4>2. QED
        BY <1>1, <2>1, <3>1, <4>1
    <3>3. SubSeq(s, m, n) = <<>>
      BY <3>2, SubSeqEmpty
    <3>4. 1..Len(t) - p = {} /\ ~(p <= Len(t))
      BY <1>1, <3>1
    <3>5. Len(<<>>) = 0 /\ <<>> \in Seq(0..9)
      OBVIOUS
    <3>6. SubSeq(s, pointPosition(s) + 1, Len(s)) = <<>>
      BY <2>1, <3>3
    <3>7. PICK sub : sub = SubSeq(s, pointPosition(s) + 1, Len(s))
      OBVIOUS
    <3>8. sub \in Seq(0..9) /\ Len(sub) = 0
      BY ONLY <3>5, <3>6, <3>7
    <3>9. \A k \in 1..Len(t) - p : sub[k] = t[p + k]
      BY <3>4
    <3>10. QED
      BY <3>4, <3>7, <3>8, <3>9
  <2>4. QED
    BY <1>1, <1>2, <2>2, <2>3
<1>7. QED
  BY <1>5, <1>6 DEF IsWhole, IsRest

AddsUp(n, s, t, p, V, U, m) ==
  /\ n \in Int /\ 0 <= n /\ n <= ten[MAX_FRACTION_DIGITS + p - 1]
  /\ n = V[p - 1] * ten[MAX_FRACTION_DIGITS] + U[m] * ten[MAX_FRACTION_DIGITS - m]
  /\ Scaled(s) = IF t = s THEN n ELSE -n

(* The sum over the places is what the two runs add up to.                 *)
LEMMA ScaleAddsUp ==
  ASSUME NEW s, NEW t, t = Unsigned(s), t \in Seq(Char), NEW p, p = PointOf(t),
         p \in 1..Len(t) + 1, OnlyDigits(t, p),
         NEW q, IsWhole(q, t, p), NEW r, IsRest(r, t, p), Len(r) <= MAX_FRACTION_DIGITS,
         NEW V, Reads(V, q), NEW U, Reads(U, r)
  PROVE  \E n : AddsUp(n, s, t, p, V, U, Len(r))
<1> DEFINE S == DOMAIN t \ {p}
           MF == MAX_FRACTION_DIGITS
<1>1. /\ Len(t) \in Nat /\ DOMAIN t = 1..Len(t) /\ MF \in Nat
      /\ p \in Nat /\ 1 <= p /\ p <= Len(t) + 1
  BY LimitsAssumption
<1>2. IsFiniteSet(S)
  <2>1. IsFiniteSet(1..Len(t)) /\ S \subseteq 1..Len(t)
    BY <1>1, FS_Interval
  <2> HIDE DEF S
  <2>2. QED
    BY <2>1, FS_Subset
<1>3. q \in Seq(0..9) /\ Len(q) = p - 1
  BY DEF IsWhole
<1>4. /\ r \in Seq(0..9) /\ Len(r) \in Nat /\ Len(r) <= MF
      /\ p <= Len(t) => Len(r) = Len(t) - p
      /\ ~(p <= Len(t)) => Len(r) = 0
  BY DEF IsRest
<1>5. \A i \in S : i \in Nat /\ 1 <= i /\ i <= Len(t) /\ i # p /\ t[i] \in 0..9
  BY <1>1 DEF OnlyDigits, IsDigit
<1>6. \A i \in S : Place(i, p) \in Nat
  <2>1. ASSUME NEW i \in S
        PROVE  Place(i, p) \in Nat
    <3>1. CASE i < p
      BY <1>1, <1>5, <3>1 DEF Place
    <3>2. CASE ~(i < p)
      <4>1. p <= Len(t) /\ Len(t) - p <= MF /\ i - p <= Len(t) - p
        BY <1>1, <1>4, <1>5, <3>2
      <4>2. MF + p - i \in Nat
        BY <1>1, <1>5, <4>1
      <4>3. QED
        BY <3>2, <4>2 DEF Place
    <3>3. QED
      BY <3>1, <3>2
  <2>2. QED
    BY <2>1
<1>7. PICK w : w = [i \in S |-> t[i] * ten[Place(i, p)]]
  OBVIOUS
<1>8. w \in [S -> Int] /\ \A i \in S : w[i] = t[i] * ten[Place(i, p)]
  <2>1. ASSUME NEW i \in S
        PROVE  t[i] * ten[Place(i, p)] \in Int
    <3>1. PICK d, T : d = t[i] /\ T = ten[Place(i, p)]
      OBVIOUS
    <3>2. d \in Int /\ T \in Int
      <4>1. Place(i, p) \in Nat
        BY <1>6
      <4>2. T \in Int
        BY ONLY <3>1, <4>1, TenSteps
      <4>3. d \in Int
        <5>1. t[i] \in 0..9
          BY ONLY <1>5, i \in S
        <5>2. QED
          BY ONLY <3>1, <5>1
      <4>4. QED
        BY <4>2, <4>3
    <3>3. d * T \in Int
      BY <3>2
    <3>4. QED
      BY <3>1, <3>3
  <2>2. QED
    BY <1>7, <2>1
<1>9. PICK f : IsSum(f, w, S) /\ Scaled(s) = IF t = s THEN f[S] ELSE -f[S]
  <2>1. IsFiniteSet(DOMAIN t \ {p}) /\ Weighs(w, t, p)
    BY <1>2, <1>8 DEF Weighs
  <2>2. IsValue(s, t, p, w)
    BY ONLY t = Unsigned(s), p = PointOf(t), <2>1, ScaledIs
  <2>3. QED
    BY ONLY <2>2 DEF IsValue
<1>10. /\ f[{}] = 0
      /\ \A u \in SUBSET S : f[u] \in Int /\ \A x \in u : f[u] = w[x] + f[u \ {x}]
  <2> HIDE DEF S
  <2>1. IsFiniteSet(S) /\ w \in [S -> Int] /\ IsSum(f, w, S)
    BY <1>2, <1>8, <1>9
  <2>2. Peeled(f, w, S)
    BY ONLY <2>1, SumPeels
  <2>3. QED
    BY ONLY <2>2 DEF Peeled
<1> DEFINE Upto(k) == {i \in S : i <= k}
<1>11. ASSUME NEW x \in S
      PROVE  f[Upto(x)] = t[x] * ten[Place(x, p)] + f[Upto(x - 1)]
  <2>1. Upto(x) \in SUBSET S /\ x \in Upto(x)
    BY <1>5
  <2>2. Upto(x) \ {x} = Upto(x - 1)
    BY <1>5
  <2> HIDE DEF Upto, S
  <2>3. f[Upto(x)] = w[x] + f[Upto(x) \ {x}]
    BY <1>10, <2>1
  <2>4. QED
    BY <1>8, <2>2, <2>3
<1>12. PICK G : G = [k \in Nat |-> f[Upto(k)]]
  OBVIOUS
<1>13. G[0] = 0
  <2>1. Upto(0) = {}
    BY <1>5
  <2>2. QED
    BY <1>10, <1>12, <2>1
<1>14. PICK e : e = MF + p - 1
  OBVIOUS
<1>15. /\ G[p - 1] = V[p - 1] * ten[MF]
       /\ G[p - 1] \in Int /\ 0 <= G[p - 1]
       /\ G[p - 1] + ten[MF] <= ten[e]
  <2>1. ASSUME NEW k \in 0..Len(q) - 1
        PROVE  G[k + 1] = q[k + 1] * ten[e - (k + 1)] + G[k]
    <3>1. k \in Nat /\ k + 1 \in Nat /\ k + 1 < p /\ k + 1 \in S /\ (k + 1) - 1 = k
      BY <1>1, <1>3
    <3>2. q[k + 1] = t[k + 1]
      <4>1. k + 1 \in 1..p - 1
        BY ONLY <1>1, <3>1
      <4>2. QED
        BY <4>1 DEF IsWhole
    <3>3. Place(k + 1, p) = e - (k + 1)
      BY <1>1, <1>14, <3>1 DEF Place
    <3>4. f[Upto(k + 1)] = t[k + 1] * ten[Place(k + 1, p)] + f[Upto((k + 1) - 1)]
      <4> HIDE DEF S, Upto
      <4>1. QED
        BY <1>11, <3>1
    <3>5. G[k + 1] = f[Upto(k + 1)] /\ G[k] = f[Upto(k)]
      BY <1>12, <3>1
    <3> HIDE DEF S, Upto
    <3>6. QED
      BY <3>1, <3>2, <3>3, <3>4, <3>5
  <2>2. e \in Nat /\ Len(q) <= e /\ e - Len(q) = MF /\ G[0] \in Int
    <3>1. e = MF + p - 1 /\ Len(q) = p - 1 /\ G[0] = 0
      BY <1>3, <1>13, <1>14
    <3>2. QED
      BY ONLY <1>1, <3>1
  <2>3. /\ G[Len(q)] = G[0] + V[Len(q)] * ten[e - Len(q)]
        /\ G[Len(q)] \in Int /\ G[0] <= G[Len(q)]
        /\ G[Len(q)] + ten[e - Len(q)] <= G[0] + ten[e]
    BY <1>3, <2>1, <2>2, DigitRun
  <2>4. PICK g, v, T, E : g = G[p - 1] /\ v = V[p - 1] /\ T = ten[MF] /\ E = ten[e]
    OBVIOUS
  <2>5. T \in Nat /\ E \in Nat /\ g \in Int
    BY <1>1, <1>3, <2>2, <2>3, <2>4, TenSteps
  <2>6. g = 0 + v * T /\ 0 <= g /\ g + T <= 0 + E
    BY ONLY <1>13, <1>3, <2>2, <2>3, <2>4
  <2>7. g = v * T /\ g + T <= E
    <3>1. V[p - 1] \in Int
      <4>1. V \in [0..p - 1 -> Int] /\ p - 1 \in 0..p - 1
        BY <1>1, <1>3 DEF Reads
      <4>2. QED
        BY <4>1
    <3>2. v * T \in Int
      BY <2>4, <2>5, <3>1
    <3>3. QED
      BY <2>5, <2>6, <3>2
  <2>8. QED
    BY <2>4, <2>5, <2>6, <2>7
<1>16. PICK h : h = [j \in Nat |-> G[p + j]]
  OBVIOUS
<1>17. h[0] = G[p - 1]
  <2>1. Upto(p) = Upto(p - 1)
    BY <1>1, <1>5
  <2>2. G[p] = f[Upto(p)] /\ G[p - 1] = f[Upto(p - 1)] /\ p + 0 = p
    BY <1>1, <1>12
  <2> HIDE DEF Upto
  <2>3. QED
    BY <1>16, <2>1, <2>2
<1>18. /\ h[Len(r)] = h[0] + U[Len(r)] * ten[MF - Len(r)]
       /\ h[Len(r)] \in Int /\ h[0] <= h[Len(r)]
       /\ h[Len(r)] + ten[MF - Len(r)] <= h[0] + ten[MF]
  <2>1. ASSUME NEW k \in 0..Len(r) - 1
        PROVE  h[k + 1] = r[k + 1] * ten[MF - (k + 1)] + h[k]
    <3>1. p <= Len(t) /\ Len(r) = Len(t) - p /\ k \in Nat /\ k + 1 \in 1..Len(t) - p
      <4>1. Len(r) \in Nat /\ k \in Nat /\ Len(r) # 0
        BY <1>1, <1>4
      <4>2. p <= Len(t) /\ Len(r) = Len(t) - p
        BY ONLY <1>4, <4>1
      <4>3. QED
        <5>1. k \in 0..Len(t) - p - 1
          BY <4>2
        <5>2. k + 1 \in 1..Len(t) - p
          BY ONLY <1>1, <4>1, <5>1
        <5>3. QED
          BY <4>1, <4>2, <5>2
    <3>2. p + (k + 1) \in S /\ ~(p + (k + 1) < p) /\ (p + (k + 1)) - 1 = p + k
      <4>1. p + (k + 1) \in 1..Len(t) /\ p + (k + 1) # p
        BY ONLY <1>1, <3>1
      <4>2. ~(p + (k + 1) < p) /\ (p + (k + 1)) - 1 = p + k
        BY ONLY <1>1, <3>1
      <4>3. QED
        BY ONLY <1>1, <4>1, <4>2
    <3>3. r[k + 1] = t[p + (k + 1)]
      BY <3>1 DEF IsRest
    <3>4. Place(p + (k + 1), p) = MF - (k + 1)
      BY <1>1, <3>1, <3>2 DEF Place
    <3>5. f[Upto(p + (k + 1))] = t[p + (k + 1)] * ten[Place(p + (k + 1), p)]
                                 + f[Upto((p + (k + 1)) - 1)]
      <4> HIDE DEF S, Upto
      <4>1. QED
        BY <1>11, <3>2
    <3>6. h[k + 1] = f[Upto(p + (k + 1))] /\ h[k] = f[Upto(p + k)]
      <4>1. k + 1 \in Nat /\ p + (k + 1) \in Nat /\ p + k \in Nat
        BY <1>1, <3>1
      <4> HIDE DEF Upto
      <4>2. QED
        BY <1>12, <1>16, <3>1, <4>1
    <3> HIDE DEF S, Upto
    <3>7. QED
      BY <3>2, <3>3, <3>4, <3>5, <3>6
  <2>2. h[0] \in Int /\ MF \in Nat /\ Len(r) <= MF
    BY <1>1, <1>4, <1>15, <1>17
  <2>3. QED
    BY <1>4, <2>1, <2>2, DigitRun
<1>19. h[Len(r)] = f[S]
  <2>1. Upto(p + Len(r)) = S
    BY <1>1, <1>4, <1>5
  <2>2. p + Len(r) \in Nat
    BY <1>1, <1>4
  <2> HIDE DEF Upto, S
  <2>3. QED
    BY <1>1, <1>4, <1>12, <1>16, <2>1, <2>2
<1>20. f[S] = V[p - 1] * ten[MF] + U[Len(r)] * ten[MF - Len(r)]
  BY <1>15, <1>17, <1>18, <1>19
<1>21. f[S] \in Int /\ 0 <= f[S] /\ f[S] <= ten[MF + p - 1]
  <2>1. PICK n, g, T, E, R : /\ n = f[S] /\ g = G[p - 1]
                             /\ T = ten[MF] /\ E = ten[e] /\ R = ten[MF - Len(r)]
    OBVIOUS
  <2>2. e \in Nat /\ MF - Len(r) \in Nat
    BY <1>1, <1>4, <1>14
  <2>3. T \in Nat /\ E \in Nat /\ R \in Nat
    BY <1>1, <2>1, <2>2, TenSteps
  <2>4. n \in Int /\ g \in Int /\ 0 <= g /\ g + T <= E /\ g <= n /\ n + R <= g + T
    BY <1>15, <1>17, <1>18, <1>19, <2>1
  <2>5. n \in Int /\ 0 <= n /\ n <= E
    BY ONLY <2>3, <2>4
  <2>6. QED
    BY <1>14, <2>1, <2>5
<1>22. AddsUp(f[S], s, t, p, V, U, Len(r))
  BY <1>9, <1>20, <1>21 DEF AddsUp
<1>23. QED
  BY <1>22

(* The parser takes the decimals, at their value, and no amount is larger  *)
(* than its digits allow.                                                  *)
LEMMA ParserRight ==
  ASSUME NEW s, String(s)
  PROVE  /\ stringToSignedInteger1e8(s).valid <=> IsDecimal(s)
         /\ IsDecimal(s) =>
              /\ stringToSignedInteger1e8(s).value = Scaled(s)
              /\ Scaled(s) \in Int
              /\ -ten[MAX_INTEGER_DIGITS + MAX_FRACTION_DIGITS] <= Scaled(s)
              /\ Scaled(s) <= ten[MAX_INTEGER_DIGITS + MAX_FRACTION_DIGITS]
<1>1. PICK t, p : t = Unsigned(s) /\ p = PointOf(t)
  OBVIOUS
<1> DEFINE MI == MAX_INTEGER_DIGITS
           MF == MAX_FRACTION_DIGITS
<1>2. t \in Seq(Char) /\ Len(t) \in Nat
  BY <1>1, UnsignedIs
<1>3. p \in 1..Len(t) + 1
  BY <1>1, PointPositionIs
<1>4. MI \in Nat /\ MF \in Nat
  BY LimitsAssumption
<1>5. /\ stringToSignedInteger1e8(s).value = IF t = s THEN Total(s, p) ELSE -Total(s, p)
      /\ stringToSignedInteger1e8(s).valid <=>
           /\ Allowed(s)
           /\ Whole(s, p).count \in 1..MI
           /\ p <= Len(t) => Fraction(s).count \in 1..MF
  BY <1>1, ParserIs
<1>6. Allowed(s) <=> OnlyDigits(t, p)
  BY <1>1, AllowedIs
<1>7. IsDecimal(s) <=> /\ p - 1 \in 1..MI
                       /\ p = Len(t) + 1 \/ Len(t) - p \in 1..MF
                       /\ OnlyDigits(t, p)
  BY <1>1 DEF IsDecimal, OnlyDigits
<1>8. CASE ~OnlyDigits(t, p)
  BY <1>5, <1>6, <1>7, <1>8
<1>9. CASE OnlyDigits(t, p)
  <2>1. PICK q, r : /\ q = SubSeq(s, 1 + Off(s), p - 1 + Off(s))
                    /\ r = SubSeq(s, pointPosition(s) + 1, Len(s))
    OBVIOUS
  <2> HIDE DEF MI, MF
  <2>2. IsWhole(q, t, p) /\ IsRest(r, t, p)
    BY <1>1, <1>9, <2>1, RunsAre
  <2>3. Len(q) = p - 1 /\ Len(r) = IF p <= Len(t) THEN Len(t) - p ELSE 0
    BY <2>2 DEF IsWhole, IsRest
  <2>4. /\ Whole(s, p).count = Len(q)
        /\ Len(q) <= MI => \E V : Reads(V, q) /\ Whole(s, p).value = V[Len(q)]
    <3>1. SubSeq(s, 1 + Off(s), p - 1 + Off(s)) \in Seq(0..9)
      BY <2>1, <2>2 DEF IsWhole
    <3>2. MI \in Nat
      BY <1>4
    <3>3. Counted(Whole(s, p), q, MI)
      BY <2>1, <3>1, <3>2, DigitsCounted DEF Whole, MI
    <3>4. QED
      BY <3>3 DEF Counted
  <2>5. /\ Fraction(s).count = Len(r)
        /\ Len(r) <= MF => \E U : Reads(U, r) /\ Fraction(s).value = U[Len(r)]
    <3>1. SubSeq(s, pointPosition(s) + 1, Len(s)) \in Seq(0..9)
      BY <2>1, <2>2 DEF IsRest
    <3>2. MF \in Nat
      BY <1>4
    <3>3. Counted(Fraction(s), r, MF)
      BY <2>1, <3>1, <3>2, DigitsCounted DEF Fraction, MF
    <3>4. QED
      BY <3>3 DEF Counted
  <2>6. stringToSignedInteger1e8(s).valid <=> IsDecimal(s)
    <3>1. p <= Len(t) => (Len(r) = Len(t) - p /\ p # Len(t) + 1)
      BY <1>2, <1>3, <2>3
    <3>2. ~(p <= Len(t)) => p = Len(t) + 1
      BY <1>2, <1>3
    <3>3. IsDecimal(s) <=> /\ p - 1 \in 1..MI
                           /\ p <= Len(t) => Len(t) - p \in 1..MF
      BY <1>7, <1>9, <3>1, <3>2
    <3>4. QED
      BY <1>5, <1>6, <1>9, <2>3, <2>4, <2>5, <3>1, <3>3
  <2>7. ASSUME IsDecimal(s)
        PROVE  /\ stringToSignedInteger1e8(s).value = Scaled(s)
               /\ Scaled(s) \in Int /\ -ten[MI + MF] <= Scaled(s) /\ Scaled(s) <= ten[MI + MF]
    <3>1. p - 1 \in 1..MI /\ Len(r) <= MF /\ Len(r) \in Nat /\ Len(q) <= MI
      <4>1. p - 1 \in 1..MI /\ (p = Len(t) + 1 \/ Len(t) - p \in 1..MF)
        BY <1>7, <2>7
      <4>2. CASE p = Len(t) + 1
        <5>1. Len(r) = 0
          BY <1>2, <2>3, <4>2
        <5>2. QED
          BY <1>4, <2>3, <4>1, <5>1
      <4>3. CASE Len(t) - p \in 1..MF
        <5>1. Len(r) = Len(t) - p
          BY <1>2, <1>3, <1>4, <2>3, <4>3
        <5>2. QED
          BY <1>4, <2>3, <4>1, <4>3, <5>1
      <4>4. QED
        BY <4>1, <4>2, <4>3
    <3>2. PICK V : Reads(V, q) /\ Whole(s, p).value = V[p - 1]
      BY <2>3, <2>4, <3>1
    <3>3. PICK U : Reads(U, r) /\ Fraction(s).value = U[Len(r)]
      BY <2>5, <3>1
    <3>4. PICK n : AddsUp(n, s, t, p, V, U, Len(r))
      <4>1. Len(r) <= MAX_FRACTION_DIGITS
        BY <3>1 DEF MF
      <4>2. QED
        BY <1>1, <1>2, <1>3, <1>9, <2>2, <3>2, <3>3, <4>1, ScaleAddsUp
    <3>5. /\ n \in Int /\ n = V[p - 1] * ten[MF] + U[Len(r)] * ten[MF - Len(r)]
          /\ 0 <= n /\ n <= ten[MF + p - 1]
          /\ Scaled(s) = IF t = s THEN n ELSE -n
      BY <3>4 DEF AddsUp, MF
    <3>6. scaledFractionPart(Fraction(s)) = U[Len(r)] * ten[MF - Len(r)]
      <4>1. CASE Len(r) < MF
        BY <2>5, <3>3, <4>1 DEF scaledFractionPart, MF
      <4>2. CASE ~(Len(r) < MF)
        <5>1. MF - Len(r) = 0 /\ ten[MF - Len(r)] = 1
          <6>1. MF - Len(r) = 0
            BY <1>4, <3>1, <4>2
          <6>2. QED
            BY ONLY <6>1, TenSteps
        <5>2. U[Len(r)] \in Int
          <6>1. U \in [0..Len(r) -> Int] /\ Len(r) \in 0..Len(r)
            BY <3>1, <3>3 DEF Reads
          <6>2. QED
            BY <6>1
        <5>3. scaledFractionPart(Fraction(s)) = U[Len(r)]
          BY <2>5, <3>3, <4>2 DEF scaledFractionPart, MF
        <5>4. U[Len(r)] * 1 = U[Len(r)]
          BY <5>2
        <5>5. QED
          BY <5>1, <5>3, <5>4
      <4>3. QED
        BY <4>1, <4>2
    <3>7. Total(s, p) = n
      BY <2>3, <3>2, <3>5, <3>6 DEF Total, MF
    <3>8. stringToSignedInteger1e8(s).value = Scaled(s)
      BY <1>5, <3>5, <3>7
    <3>9. n <= ten[MI + MF]
      <4>1. PICK a, b : a = MF + p - 1 /\ b = MI + MF
        OBVIOUS
      <4>2. a \in Nat /\ b \in Nat /\ a <= b
        BY <1>3, <1>4, <3>1, <4>1
      <4>3. ten[a] <= ten[b] /\ ten[a] \in Nat /\ ten[b] \in Nat
        BY <4>2, TenGrows, TenSteps
      <4>4. n <= ten[a]
        BY <3>5, <4>1
      <4>5. n <= ten[b]
        BY <3>5, <4>3, <4>4
      <4>6. QED
        BY <4>1, <4>5
    <3>10. QED
      <4>1. PICK m, b : m = Scaled(s) /\ b = ten[MI + MF]
        OBVIOUS
      <4>2. b \in Nat
        BY <1>4, <4>1, TenSteps
      <4>3. (m = n \/ m = -n) /\ 0 <= n /\ n <= b
        BY <3>5, <3>9, <4>1
      <4>4. m \in Int /\ -b <= m /\ m <= b
        BY <3>5, <4>2, <4>3
      <4>5. QED
        BY <3>8, <4>1, <4>4
  <2>8. QED
    BY <2>6, <2>7 DEF MI, MF
<1>10. QED
  BY <1>8, <1>9

-----------------------------------------------------------------------------
(* Bodies.                                                                 *)

Gain(fill) == Scaled(fill.closedPnl) - Scaled(fill.fee)

(* P[k] is the profit of the first k fills.                                *)
Sums(P, fills) ==
  /\ P \in [0..Len(fills) -> Int] /\ P[0] = 0
  /\ \A k \in 0..Len(fills) - 1 : P[k + 1] = P[k] + Gain(fills[k + 1])

Numbers(fills) ==
  /\ Len(fills) \in Nat /\ DOMAIN fills = 1..Len(fills)
  /\ \A i \in 1..Len(fills) : Gain(fills[i]) \in Int

IsProfit(f, fills) ==
  f = [u \in SUBSET (DOMAIN fills) |->
         IF u = {} THEN 0
         ELSE (Scaled(fills[CHOOSE x \in u : TRUE].closedPnl)
                 - Scaled(fills[CHOOSE x \in u : TRUE].fee))
              + f[u \ {CHOOSE x \in u : TRUE}]]

ProfitOf(P, fills) == Sums(P, fills) /\ Profit(fills) = P[Len(fills)]

(* The profit of a body is the last of its running sums.                   *)
LEMMA ProfitSums ==
  ASSUME NEW fills, Numbers(fills)
  PROVE  \E P : ProfitOf(P, fills)
<1> DEFINE S == DOMAIN fills
           f == CHOOSE f : IsProfit(f, fills)
           n == Len(fills)
<1>1. Profit(fills) = f[S]
  BY DEF Profit, MapThenSumSet, MapThenFoldSet, IsProfit
<1>2. n \in Nat /\ S = 1..n /\ IsFiniteSet(S) /\ \A i \in S : Gain(fills[i]) \in Int
  <2>1. n \in Nat /\ S = 1..n /\ \A i \in S : Gain(fills[i]) \in Int
    BY DEF Numbers
  <2>2. IsFiniteSet(S)
    BY <2>1, FS_Interval
  <2>3. QED
    BY <2>1, <2>2
<1>3. PICK w : w = [i \in S |-> Gain(fills[i])]
  OBVIOUS
<1>4. w \in [S -> Int] /\ \A i \in S : w[i] = Gain(fills[i])
  BY <1>2, <1>3
<1>5. ASSUME NEW g
      PROVE  IsProfit(g, fills) <=> IsSum(g, w, S)
  <2>1. ASSUME NEW u \in SUBSET S
        PROVE  (IF u = {} THEN 0
                ELSE (Scaled(fills[CHOOSE x \in u : TRUE].closedPnl)
                        - Scaled(fills[CHOOSE x \in u : TRUE].fee))
                     + g[u \ {CHOOSE x \in u : TRUE}])
               = (IF u = {} THEN 0
                  ELSE w[CHOOSE x \in u : TRUE] + g[u \ {CHOOSE x \in u : TRUE}])
    <3>1. CASE u # {}
      <4>1. PICK c : c = CHOOSE x \in u : TRUE
        OBVIOUS
      <4>2. c \in S
        BY <3>1, <4>1
      <4>3. w[c] = Scaled(fills[c].closedPnl) - Scaled(fills[c].fee)
        BY <1>4, <4>2 DEF Gain
      <4>4. QED
        BY <4>1, <4>3
    <3>2. QED
      BY <3>1
  <2>2. QED
    BY <2>1 DEF IsProfit, IsSum
<1>6. IsSum(f, w, S)
  <2>1. \E g : IsSum(g, w, S)
    BY <1>2, <1>4, SumExists
  <2>2. \E g : IsProfit(g, fills)
    BY <1>5, <2>1
  <2>3. IsProfit(f, fills)
    BY <2>2
  <2>4. QED
    BY <1>5, <2>3
<1> HIDE DEF f
<1>7. /\ f[{}] = 0
      /\ \A u \in SUBSET S : f[u] \in Int /\ \A x \in u : f[u] = w[x] + f[u \ {x}]
  <2>1. IsFiniteSet(S) /\ w \in [S -> Int] /\ IsSum(f, w, S)
    BY <1>2, <1>4, <1>6
  <2> HIDE DEF S
  <2>2. Peeled(f, w, S)
    BY ONLY <2>1, SumPeels
  <2>3. QED
    BY ONLY <2>2 DEF Peeled
<1> DEFINE P == [k \in 0..n |-> f[1..k]]
<1>8. P \in [0..n -> Int]
  <2>1. \A k \in 0..n : 1..k \in SUBSET S
    BY <1>2
  <2>2. QED
    BY <1>7, <2>1
<1>9. P[0] = 0
  <2>1. 1..0 = {} /\ 0 \in 0..n
    BY <1>2
  <2>2. QED
    BY <1>7, <2>1
<1>10. ASSUME NEW k \in 0..n - 1
       PROVE  P[k + 1] = P[k] + Gain(fills[k + 1])
  <2>1. k \in Nat /\ k \in 0..n /\ k + 1 \in 0..n /\ k + 1 \in S
    BY <1>2
  <2>2. 1..k + 1 \in SUBSET S /\ 1..k \in SUBSET S /\ k + 1 \in 1..k + 1
    BY <1>2, <2>1
  <2>3. (1..k + 1) \ {k + 1} = 1..k
    BY <2>1, UpTo
  <2>4. f[1..k + 1] = w[k + 1] + f[(1..k + 1) \ {k + 1}]
    BY <1>7, <2>2
  <2>5. f[1..k + 1] = Gain(fills[k + 1]) + f[1..k]
    BY <1>4, <2>1, <2>3, <2>4
  <2>6. f[1..k] \in Int /\ Gain(fills[k + 1]) \in Int
    BY <1>2, <1>7, <2>1, <2>2
  <2>7. P[k + 1] = f[1..k + 1] /\ P[k] = f[1..k]
    BY <2>1
  <2> HIDE DEF P
  <2>8. QED
    BY <2>5, <2>6, <2>7
<1>11. P[n] = f[S]
  BY <1>2
<1>12. ProfitOf(P, fills)
  <2> HIDE DEF P
  <2>1. QED
    BY <1>1, <1>8, <1>9, <1>10, <1>11 DEF ProfitOf, Sums
<1>13. QED
  BY <1>12

(* Running sums of a body start with those of its beginnings.              *)
LEMMA SumsAgree ==
  ASSUME NEW P, NEW Q, NEW a, NEW b, Sums(P, a), Sums(Q, b), Len(a) \in Nat, Len(b) \in Nat,
         Len(a) <= Len(b), \A i \in 1..Len(a) : a[i] = b[i]
  PROVE  P[Len(a)] = Q[Len(a)]
<1> DEFINE N == {k \in Nat : k <= Len(a) => P[k] = Q[k]}
<1>1. 0 \in N
  BY DEF Sums
<1>2. ASSUME NEW k \in Nat, k \in N
      PROVE  k + 1 \in N
  <2>1. ASSUME k + 1 <= Len(a) PROVE P[k + 1] = Q[k + 1]
    <3>1. k \in 0..Len(a) - 1 /\ k \in 0..Len(b) - 1 /\ k + 1 \in 1..Len(a) /\ P[k] = Q[k]
      BY <1>2, <2>1
    <3>2. P[k + 1] = P[k] + Gain(a[k + 1]) /\ Q[k + 1] = Q[k] + Gain(b[k + 1])
      BY <3>1 DEF Sums
    <3>3. a[k + 1] = b[k + 1]
      BY <3>1
    <3>4. QED
      BY <3>1, <3>2, <3>3
  <2>2. QED
    BY <2>1
<1>3. Len(a) \in N
  <2> HIDE DEF N
  <2>1. Nat \subseteq N
    BY <1>1, <1>2, SetInduction
  <2>2. QED
    BY <2>1
<1>4. QED
  BY <1>3

Start == [sum |-> 0, fits |-> TRUE]

TotalOf(fills) ==
  FoldLeft(LAMBDA acc, fill : checkedAdd(acc, calculateChecksum(fill).value),
           [sum |-> 0, fits |-> TRUE], fills)

IsTotalFold(f, fills) ==
  f = [u \in SUBSET (DOMAIN fills) |->
         IF u = {} THEN Start
         ELSE checkedAdd(f[u \ {Max(u)}], calculateChecksum(fills[Max(u)]).value)]

(* The sum over the fills is defined.                                      *)
LEMMA TotalFoldExists ==
  ASSUME NEW fills, Numbers(fills),
         \A i \in 1..Len(fills) : calculateChecksum(fills[i]).value = Gain(fills[i])
  PROVE  \E f : IsTotalFold(f, fills)
<1> DEFINE S == DOMAIN fills
           Acc == [sum : Int, fits : BOOLEAN]
<1>1. Len(fills) \in Nat /\ S = 1..Len(fills) /\ \A i \in S : calculateChecksum(fills[i]).value \in Int
  BY DEF Numbers
<1>2. IsFiniteSet(S)
  BY <1>1, FS_Interval
<1>3. PICK first : first = [s \in SUBSET S |-> Max(s)]
  OBVIOUS
<1>4. Chooses(first, S)
  <2>1. \A s \in SUBSET S : s # {} => Max(s) \in s
    BY <1>1, MaxOfBounded
  <2>2. QED
    BY <1>3, <2>1 DEF Chooses
<1>5. PICK op : op = [p \in Acc \X S |-> checkedAdd(p[1], calculateChecksum(fills[p[2]]).value)]
  OBVIOUS
<1>6. \A acc \in Acc, n \in Int : checkedAdd(acc, n) \in Acc
  <2>1. ASSUME NEW acc \in Acc, NEW n \in Int
        PROVE  checkedAdd(acc, n) \in Acc
    <3>1. acc.sum + n \in Int
      BY <2>1
    <3>2. (acc.fits /\ n \in Int64 /\ acc.sum + n \in Int64) \in BOOLEAN
      OBVIOUS
    <3>3. QED
      BY <3>1, <3>2 DEF checkedAdd
  <2>2. QED
    BY <2>1
<1>7. op \in Steps(Acc, S)
  <2>1. \A p \in Acc \X S : checkedAdd(p[1], calculateChecksum(fills[p[2]]).value) \in Acc
    <3> HIDE DEF Acc, S
    <3>1. QED
      BY <1>1, <1>6
  <2>2. QED
    BY <1>5, <2>1 DEF Steps
<1>8. Start \in Acc
  BY DEF Start
<1>9. PICK f : FoldOf(f, S, first, Acc, Start, op)
  <2> HIDE DEF S, Acc
  <2>1. QED
    BY <1>2, <1>4, <1>7, <1>8, FoldExists
<1>10. ASSUME NEW s \in SUBSET S
       PROVE  f[s] = IF s = {} THEN Start
                     ELSE checkedAdd(f[s \ {Max(s)}], calculateChecksum(fills[Max(s)]).value)
  <2>1. CASE s = {}
    BY <1>9, <2>1 DEF FoldOf
  <2>2. CASE s # {}
    <3>1. PICK m : m = Max(s)
      OBVIOUS
    <3>2. first[s] = m /\ m \in S /\ s \ {m} \in SUBSET S
      BY <1>3, <1>4, <2>2, <3>1 DEF Chooses
    <3>3. f[s \ {m}] \in Acc /\ f[s] = op[<<f[s \ {m}], m>>]
      <4> HIDE DEF Acc, S
      <4>1. QED
        BY <1>9, <2>2, <3>2 DEF FoldOf
    <3>4. op[<<f[s \ {m}], m>>] = checkedAdd(f[s \ {m}], calculateChecksum(fills[m]).value)
      <4> HIDE DEF Acc, S
      <4>1. QED
        BY <1>5, <3>2, <3>3
    <3>5. QED
      BY <2>2, <3>1, <3>3, <3>4
  <2>3. QED
    BY <2>1, <2>2
<1>11. f = [s \in SUBSET S |->
              IF s = {} THEN Start
              ELSE checkedAdd(f[s \ {Max(s)}], calculateChecksum(fills[Max(s)]).value)]
  BY <1>9, <1>10 DEF FoldOf
<1>12. QED
  BY <1>11 DEF IsTotalFold

Fits(P, fills, k) == \A j \in 1..k : Gain(fills[j]) \in Int64 /\ P[j] \in Int64

(* The checked sum is the profit, and fits if every sum on the way does.   *)
LEMMA TotalIs ==
  ASSUME NEW fills, Numbers(fills),
         \A i \in 1..Len(fills) : calculateChecksum(fills[i]).value = Gain(fills[i]),
         NEW P, Sums(P, fills)
  PROVE  /\ TotalOf(fills).sum = P[Len(fills)]
         /\ TotalOf(fills).fits <=> Fits(P, fills, Len(fills))
<1> DEFINE n == Len(fills)
           f == CHOOSE f : IsTotalFold(f, fills)
<1>1. n \in Nat /\ DOMAIN fills = 1..n /\ \A i \in 1..n : Gain(fills[i]) \in Int
  BY DEF Numbers
<1>2. IsTotalFold(f, fills)
  <2>1. \E g : IsTotalFold(g, fills)
    BY TotalFoldExists
  <2>2. QED
    BY <2>1
<1>3. TotalOf(fills) = f[1..n]
  <2>1. TotalOf(fills) =
          (CHOOSE g : g = [u \in SUBSET (DOMAIN fills) |->
             IF u = {} THEN Start
             ELSE checkedAdd(g[u \ {Max(u)}], calculateChecksum(fills[Max(u)]).value)])[DOMAIN fills]
    BY DEF TotalOf, FoldLeft, MapThenFoldSet, Start
  <2>2. QED
    BY <1>1, <2>1 DEF IsTotalFold
<1> HIDE DEF f
<1>4. f[{}] = Start
  BY <1>2 DEF IsTotalFold
<1>5. ASSUME NEW k \in Nat, k + 1 <= n
      PROVE  f[1..k + 1] = checkedAdd(f[1..k], Gain(fills[k + 1]))
  <2>1. 1..k + 1 \in SUBSET (DOMAIN fills) /\ k + 1 \in 1..n
    BY <1>1, <1>5
  <2>2. f[1..k + 1] = checkedAdd(f[(1..k + 1) \ {Max(1..k + 1)}],
                                 calculateChecksum(fills[Max(1..k + 1)]).value)
    BY <1>2, <2>1, UpTo DEF IsTotalFold
  <2>3. Max(1..k + 1) = k + 1 /\ (1..k + 1) \ {k + 1} = 1..k
    BY UpTo
  <2>4. calculateChecksum(fills[k + 1]).value = Gain(fills[k + 1])
    BY <2>1
  <2>5. QED
    BY <2>2, <2>3, <2>4
<1> DEFINE Right(k) == k <= n => /\ f[1..k].sum = P[k] /\ P[k] \in Int
                                 /\ f[1..k].fits <=> Fits(P, fills, k)
           N == {k \in Nat : Right(k)}
<1>6. Right(0)
  <2>1. 1..0 = {} /\ P[0] = 0
    BY DEF Sums
  <2>2. Fits(P, fills, 0)
    BY <2>1 DEF Fits
  <2>3. QED
    BY <1>4, <2>1, <2>2 DEF Start
<1>7. ASSUME NEW k \in Nat, Right(k)
      PROVE  Right(k + 1)
  <2>1. ASSUME k + 1 <= n
        PROVE  /\ f[1..k + 1].sum = P[k + 1] /\ P[k + 1] \in Int
               /\ f[1..k + 1].fits <=> Fits(P, fills, k + 1)
    <3>1. k \in 0..n - 1 /\ k <= n /\ k + 1 \in 1..n /\ k + 1 \in 0..n
      BY <1>1, <2>1
    <3>2. f[1..k].sum = P[k] /\ (f[1..k].fits <=> Fits(P, fills, k))
      BY <1>7, <3>1
    <3>3. P[k + 1] = P[k] + Gain(fills[k + 1]) /\ P[k + 1] \in Int
      BY <3>1 DEF Sums
    <3>4. PICK acc, c : acc = f[1..k] /\ c = Gain(fills[k + 1])
      OBVIOUS
    <3>5. f[1..k + 1] = checkedAdd(acc, c)
      BY <1>5, <2>1, <3>4
    <3>6. checkedAdd(acc, c).sum = acc.sum + c
      BY DEF checkedAdd
    <3>7. checkedAdd(acc, c).fits = (acc.fits /\ c \in Int64 /\ acc.sum + c \in Int64)
      BY DEF checkedAdd
    <3>8. acc.sum + c = P[k + 1]
      BY <3>2, <3>3, <3>4
    <3>9. Fits(P, fills, k + 1) <=> /\ Fits(P, fills, k) /\ c \in Int64 /\ P[k + 1] \in Int64
      <4>1. 1..k + 1 = (1..k) \cup {k + 1}
        OBVIOUS
      <4>2. QED
        BY <3>4, <4>1 DEF Fits
    <3>10. f[1..k + 1].fits <=> Fits(P, fills, k + 1)
      <4>1. f[1..k + 1].fits = (acc.fits /\ c \in Int64 /\ P[k + 1] \in Int64)
        BY <3>5, <3>7, <3>8
      <4>2. acc.fits <=> Fits(P, fills, k)
        BY <3>2, <3>4
      <4>3. QED
        BY ONLY <3>9, <4>1, <4>2
    <3>11. QED
      BY <3>3, <3>5, <3>6, <3>8, <3>10
  <2>2. QED
    BY <2>1
<1>8. Right(n)
  <2>1. 0 \in N /\ \A k \in Nat : k \in N => k + 1 \in N
    <3>1. \A k \in Nat : Right(k) => Right(k + 1)
      BY <1>7
    <3> HIDE DEF Right
    <3>2. QED
      BY <1>6, <3>1
  <2> HIDE DEF N
  <2>2. Nat \subseteq N
    BY <2>1, SetInduction
  <2> HIDE DEF Right
  <2>3. QED
    BY <1>1, <2>2 DEF N
<1>9. QED
  BY <1>1, <1>3, <1>8

(* An amount the parser hands out and the circuit can read.                *)
Amount(a) == Len(a) <= MAX_STRING_LENGHT /\ IsDecimal(a)

(* A fill is in order for the circuit if its amounts are short decimals,   *)
(* and then its share of the sum is its gain, which fits.                  *)
LEMMA FillIs ==
  ASSUME NEW fill \in Response
  PROVE  /\ fill.time \in Int
         /\ calculateChecksum(fill).valid <=>
              Amount(fill.closedPnl) /\ Amount(fill.fee) /\ fill.feeToken = "dollar"
         /\ Amount(fill.closedPnl) /\ Amount(fill.fee) =>
              /\ calculateChecksum(fill).value = Gain(fill)
              /\ Gain(fill) \in Int /\ Gain(fill) \in Int64
<1>1. fill.time \in Int /\ {fill.closedPnl, fill.fee} \subseteq Seq(Char)
  BY ResponseAssumption
<1>2. PICK a, b : a = fill.closedPnl /\ b = fill.fee
  OBVIOUS
<1>3. PICK limit : limit = ten[MAX_INTEGER_DIGITS + MAX_FRACTION_DIGITS]
  OBVIOUS
<1>4. limit \in Nat /\ 2 * limit < 2^(Width - 1) /\ 2^(Width - 1) \in Int
  <2>1. MAX_INTEGER_DIGITS + MAX_FRACTION_DIGITS \in Nat /\ Width - 1 \in Nat
    BY LimitsAssumption
  <2>2. limit \in Nat
    BY <1>3, <2>1, TenSteps
  <2>3. 2^(Width - 1) \in Int
    BY <2>1
  <2>4. QED
    BY <1>3, <2>2, <2>3, WidthAssumption
<1>5. calculateChecksum(fill).valid =
        (/\ Len(a) <= MAX_STRING_LENGHT /\ Len(b) <= MAX_STRING_LENGHT
         /\ stringToSignedInteger1e8(a).valid /\ stringToSignedInteger1e8(b).valid
         /\ fill.feeToken = "dollar")
  BY <1>2 DEF calculateChecksum, get_string
<1>6. calculateChecksum(fill).value =
        stringToSignedInteger1e8(a).value - stringToSignedInteger1e8(b).value
  BY <1>2 DEF calculateChecksum
<1>7. /\ Len(a) <= MAX_STRING_LENGHT => (stringToSignedInteger1e8(a).valid <=> IsDecimal(a))
      /\ Len(b) <= MAX_STRING_LENGHT => (stringToSignedInteger1e8(b).valid <=> IsDecimal(b))
  BY <1>1, <1>2, ParserRight DEF String
<1>8. ASSUME Amount(a), Amount(b)
      PROVE  /\ calculateChecksum(fill).value = Gain(fill)
             /\ Gain(fill) \in Int /\ Gain(fill) \in Int64
  <2>1. PICK x, y : x = Scaled(a) /\ y = Scaled(b)
    OBVIOUS
  <2>2. /\ stringToSignedInteger1e8(a).value = x /\ x \in Int /\ -limit <= x /\ x <= limit
        /\ stringToSignedInteger1e8(b).value = y /\ y \in Int /\ -limit <= y /\ y <= limit
    <3>1. String(a) /\ String(b) /\ IsDecimal(a) /\ IsDecimal(b)
      BY <1>1, <1>2, <1>8 DEF Amount, String
    <3>2. QED
      BY <1>3, <2>1, <3>1, ParserRight
  <2>3. Gain(fill) = x - y
    BY <1>2, <2>1 DEF Gain
  <2>4. PICK w : w = 2^(Width - 1)
    OBVIOUS
  <2>5. w \in Int /\ 2 * limit < w
    BY <1>4, <2>4
  <2>6. x - y \in Int /\ -w <= x - y /\ x - y <= w - 1
    BY <1>4, <2>2, <2>5
  <2>7. x - y \in Int64
    BY <2>4, <2>5, <2>6 DEF Int64
  <2>8. QED
    BY <1>6, <2>2, <2>3, <2>6, <2>7
<1>9. QED
  BY <1>1, <1>2, <1>5, <1>7, <1>8 DEF Amount

-----------------------------------------------------------------------------
(* Sizes.                                                                  *)

(* n sizes of at most c add up to at most n times c.                       *)
LEMMA SizesAdd ==
  ASSUME NEW n \in Nat, NEW w \in [1..n -> Nat]
  PROVE  /\ SumFunction(w) \in Nat
         /\ \A c \in Nat : (\A i \in 1..n : w[i] <= c) => SumFunction(w) <= n * c
<1>1. PICK S : S = 1..n
  OBVIOUS
<1>2. IsFiniteSet(S) /\ w \in [S -> Int]
  BY <1>1, FS_Interval
<1>3. PICK f : IsSum(f, w, S) /\ SumFunction(w) = f[S]
  <2>1. PICK g : g = CHOOSE h : IsSum(h, w, S)
    OBVIOUS
  <2>2. \E h : IsSum(h, w, S)
    BY <1>2, SumExists
  <2>3. IsSum(g, w, S)
    BY <2>1, <2>2
  <2>4. DOMAIN w = S
    BY <1>1
  <2>5. SumFunction(w) = g[S]
    BY <2>1, <2>4 DEF SumFunction, SumFunctionOnSet, FoldFunctionOnSet, MapThenFoldSet, IsSum
  <2>6. QED
    BY <2>3, <2>5
<1>4. /\ f[{}] = 0
      /\ \A u \in SUBSET S : f[u] \in Int /\ \A x \in u : f[u] = w[x] + f[u \ {x}]
  <2>1. IsFiniteSet(S) /\ w \in [S -> Int] /\ IsSum(f, w, S)
    BY <1>2, <1>3
  <2>2. Peeled(f, w, S)
    BY ONLY <2>1, SumPeels
  <2>3. QED
    BY ONLY <2>2 DEF Peeled
<1>5. ASSUME NEW k \in Nat, k + 1 <= n
      PROVE  f[1..k + 1] = w[k + 1] + f[1..k] /\ f[1..k] \in Int /\ w[k + 1] \in Nat
  <2>1. k + 1 \in 1..k + 1 /\ 1..k + 1 \in SUBSET S /\ 1..k \in SUBSET S /\ k + 1 \in S
    BY <1>1, <1>5
  <2>2. (1..k + 1) \ {k + 1} = 1..k
    BY <1>5, UpTo
  <2>3. f[1..k + 1] = w[k + 1] + f[(1..k + 1) \ {k + 1}]
    BY <1>4, <2>1
  <2>4. f[1..k] \in Int /\ w[k + 1] \in Nat
    BY <1>1, <1>4, <2>1
  <2>5. QED
    BY <2>2, <2>3, <2>4
<1>6. f[S] \in Nat
  <2> DEFINE N == {k \in Nat : k <= n => f[1..k] \in Nat}
  <2>1. 0 \in N
    <3>1. 1..0 = {}
      OBVIOUS
    <3>2. QED
      BY <1>4, <3>1
  <2>2. \A k \in Nat : k \in N => k + 1 \in N
    BY <1>5
  <2> HIDE DEF N
  <2>3. Nat \subseteq N
    BY <2>1, <2>2, SetInduction
  <2>4. QED
    BY <1>1, <2>3 DEF N
<1>7. ASSUME NEW c \in Nat, \A i \in 1..n : w[i] <= c
      PROVE  f[S] <= n * c
  <2> DEFINE N == {k \in Nat : k <= n => f[1..k] <= k * c}
  <2>1. 0 \in N
    <3>1. 1..0 = {} /\ 0 * c = 0
      OBVIOUS
    <3>2. QED
      BY <1>4, <3>1
  <2>2. ASSUME NEW k \in Nat, k \in N PROVE k + 1 \in N
    <3>1. ASSUME k + 1 <= n PROVE f[1..k + 1] <= (k + 1) * c
      <4>1. f[1..k + 1] = w[k + 1] + f[1..k] /\ f[1..k] \in Int /\ w[k + 1] \in Nat
        BY <1>5, <3>1
      <4>2. f[1..k] <= k * c /\ w[k + 1] <= c
        BY <1>7, <2>2, <3>1
      <4>3. (k + 1) * c = k * c + c /\ k * c \in Int
        OBVIOUS
      <4>4. QED
        BY <4>1, <4>2, <4>3
    <3>2. QED
      BY <3>1
  <2> HIDE DEF N
  <2>3. Nat \subseteq N
    BY <2>1, <2>2, SetInduction
  <2>4. QED
    BY <1>1, <2>3 DEF N
<1>8. QED
  BY <1>3, <1>6, <1>7

(* A body's sizes are numbers, and MAX_FILLS ordinary fills have no more   *)
(* tokens than the parser has room for.                                    *)
LEMMA SizesAre ==
  ASSUME NEW fills \in Seq(Response)
  PROVE  /\ Bytes(fills) \in Nat /\ Tokens(fills) \in Nat
         /\ Len(fills) <= MAX_FILLS /\ (\A i \in DOMAIN fills : fills[i].tokens <= FillTokens)
              => Tokens(fills) <= MaxNumTokens
<1>1. PICK n : n = Len(fills)
  OBVIOUS
<1>2. n \in Nat /\ DOMAIN fills = 1..n /\ \A i \in 1..n : fills[i] \in Response
  BY <1>1
<1>3. PICK b, t : /\ b = [i \in DOMAIN fills |-> fills[i].bytes]
                  /\ t = [i \in DOMAIN fills |-> fills[i].tokens]
  OBVIOUS
<1>4. \A i \in 1..n : fills[i].bytes \in Nat /\ fills[i].tokens \in Nat
  BY <1>2, ResponseAssumption
<1>5. b \in [1..n -> Nat] /\ t \in [1..n -> Nat]
  BY <1>2, <1>3, <1>4
<1>6. Bytes(fills) = 1 + SumFunction(b) /\ Tokens(fills) = 1 + SumFunction(t)
  BY <1>3 DEF Bytes, Tokens
<1>7. SumFunction(b) \in Nat /\ SumFunction(t) \in Nat
  BY <1>2, <1>5, SizesAdd
<1>8. ASSUME n <= MAX_FILLS, \A i \in 1..n : fills[i].tokens <= FillTokens
      PROVE  Tokens(fills) <= MaxNumTokens
  <2>1. MAX_FILLS \in Nat /\ FillTokens \in Nat /\ MaxNumTokens \in Nat
    BY LimitsAssumption
  <2>2. \A i \in 1..n : t[i] <= FillTokens
    BY <1>2, <1>3, <1>8
  <2>3. SumFunction(t) <= n * FillTokens
    BY <1>2, <1>5, <2>1, <2>2, SizesAdd
  <2>4. n * FillTokens <= MAX_FILLS * FillTokens
    <3>1. PICK d \in Nat : MAX_FILLS = n + d
      <4>1. MAX_FILLS - n \in Nat /\ MAX_FILLS = n + (MAX_FILLS - n)
        BY <1>2, <1>8, <2>1
      <4>2. QED
        BY <4>1
    <3>2. (n + d) * FillTokens = n * FillTokens + d * FillTokens
      BY <1>2, <2>1
    <3>3. d * FillTokens \in Nat /\ n * FillTokens \in Nat
      BY <1>2, <2>1
    <3>4. QED
      BY <3>1, <3>2, <3>3
  <2>5. n * FillTokens \in Nat /\ MAX_FILLS * FillTokens \in Nat
    BY <1>2, <2>1
  <2>6. QED
    BY <1>6, <1>7, <2>1, <2>3, <2>4, <2>5, MirrorAssumption
<1>9. QED
  BY <1>1, <1>2, <1>6, <1>7, <1>8

-----------------------------------------------------------------------------
(* The inputs there can be.                                                *)
Input == String(string) /\ (body = NoBytes \/ body \in Seq(Response))

(* No other inputs are reached: the invariant of the circuit's theorems.   *)
LEMMA InputHolds == Spec => []Input
<1>1. Init => Input
  <2>1. <<>> \in Seq(Char) /\ Len(<<>>) = 0
    OBVIOUS
  <2>2. QED
    BY <2>1, LimitsAssumption DEF Init, Input, String
<1>2. Input /\ [Next]_vars => Input'
  <2> SUFFICES ASSUME Input, [Next]_vars PROVE Input'
    OBVIOUS
  <2>1. ASSUME NEW c \in Char, Type(c)
        PROVE  Input'
    <3>1. /\ Append(string, c) \in Seq(Char) /\ Len(Append(string, c)) = Len(string) + 1
          /\ Len(string) \in Nat
      BY AppendProperties DEF Input, String
    <3>2. Len(Append(string, c)) <= MAX_STRING_LENGHT
      BY <2>1, <3>1, LimitsAssumption DEF Type
    <3>3. QED
      BY <2>1, <3>1, <3>2 DEF Type, Input, String
  <2>2. ASSUME NEW fill \in Response, Respond(fill)
        PROVE  Input'
    <3>1. string' = string
      BY <2>2 DEF Respond
    <3>2. body' \in Seq(Response)
      <4>1. CASE body = NoBytes
        BY <2>2, <4>1 DEF Respond
      <4>2. CASE body # NoBytes
        <5>1. body \in Seq(Response) /\ body' = Append(body, fill)
          BY <2>2, <4>2 DEF Respond, Input
        <5>2. QED
          BY <5>1, AppendProperties
      <4>3. QED
        BY <4>1, <4>2
    <3>3. QED
      BY <3>1, <3>2 DEF Input, String
  <2>3. CASE UNCHANGED vars
    BY <2>3 DEF vars, Input, String
  <2>4. QED
    BY <2>1, <2>2, <2>3 DEF Next
<1>3. QED
  BY <1>1, <1>2, PTL DEF Spec

(* The amount parser is right about every string that fits: it takes       *)
(* exactly the decimals its limits allow, at their exact value.            *)
THEOREM ParserHolds == Spec => []ParsesDecimals
<1>1. Input => ParsesDecimals
  BY ParserRight DEF Input, ParsesDecimals
<1>2. QED
  BY <1>1, InputHolds, PTL

(* What the body's checks amount to, once its amounts are decimals.        *)
LEMMA BodyIs ==
  ASSUME NEW fills \in Seq(Response),
         \A i \in DOMAIN fills : Amount(fills[i].closedPnl) /\ Amount(fills[i].fee)
  PROVE  \E P : /\ ProfitOf(P, fills)
                /\ TotalOf(fills).sum = P[Len(fills)]
                /\ TotalOf(fills).fits <=> Fits(P, fills, Len(fills))
                /\ \A k \in 0..Len(fills) : Profit(SubSeq(fills, 1, k)) = P[k]
<1>1. /\ Len(fills) \in Nat /\ DOMAIN fills = 1..Len(fills)
      /\ \A i \in 1..Len(fills) : fills[i] \in Response
  OBVIOUS
<1>2. /\ \A i \in 1..Len(fills) : Gain(fills[i]) \in Int
      /\ \A i \in 1..Len(fills) : calculateChecksum(fills[i]).value = Gain(fills[i])
  BY <1>1, FillIs
<1>3. Numbers(fills)
  BY <1>1, <1>2 DEF Numbers
<1>4. PICK P : ProfitOf(P, fills)
  BY <1>3, ProfitSums
<1>5. /\ TotalOf(fills).sum = P[Len(fills)]
      /\ TotalOf(fills).fits <=> Fits(P, fills, Len(fills))
  BY <1>2, <1>3, <1>4, TotalIs DEF ProfitOf
<1>6. ASSUME NEW k \in 0..Len(fills)
      PROVE  Profit(SubSeq(fills, 1, k)) = P[k]
  <2>1. PICK part : part = SubSeq(fills, 1, k)
    OBVIOUS
  <2>2. /\ part \in Seq(Response) /\ Len(part) = k
        /\ \A i \in 1..k : part[i] = fills[i]
    <3>1. k \in Int /\ 1 \in Int /\ \A i \in 1..k : fills[i] \in Response
      BY <1>1
    <3>2. /\ SubSeq(fills, 1, k) \in Seq(Response)
          /\ Len(SubSeq(fills, 1, k)) = IF 1 <= k THEN k - 1 + 1 ELSE 0
          /\ \A i \in 1..k - 1 + 1 : SubSeq(fills, 1, k)[i] = fills[1 + i - 1]
      BY <3>1, SubSeqProperties
    <3>3. /\ k - 1 + 1 = k /\ (~(1 <= k) => k = 0)
          /\ \A i \in 1..k : 1 + i - 1 = i
      BY <1>1
    <3>4. QED
      BY <2>1, <3>2, <3>3
  <2>3. Numbers(part)
    <3>1. Len(part) \in Nat /\ DOMAIN part = 1..Len(part)
      BY <2>2
    <3>2. \A i \in 1..Len(part) : Gain(part[i]) \in Int
      BY <1>1, <1>2, <2>2
    <3>3. QED
      BY <3>1, <3>2 DEF Numbers
  <2>4. PICK Q : ProfitOf(Q, part)
    BY <2>3, ProfitSums
  <2>5. Q[Len(part)] = P[Len(part)]
    <3>1. Len(part) \in Nat /\ Len(part) <= Len(fills) /\ \A i \in 1..Len(part) : part[i] = fills[i]
      BY <1>1, <2>2
    <3>2. Sums(Q, part) /\ Sums(P, fills)
      BY <1>4, <2>4 DEF ProfitOf
    <3>3. QED
      BY <1>1, <3>1, <3>2, SumsAgree
  <2>6. QED
    BY <2>1, <2>2, <2>4, <2>5 DEF ProfitOf
<1>7. QED
  BY <1>4, <1>5, <1>6

(* The checks of a body, one by one.                                       *)
LEMMA ChecksumIs ==
  ASSUME NEW fills
  PROVE  validateFills(fills) <=>
           /\ Tokens(fills) <= MaxNumTokens /\ Len(fills) <= CIRCUIT_FILLS
           /\ \A i \in DOMAIN fills :
                validateTimeAndCoinOneFill(fills[i]) /\ calculateChecksum(fills[i]).valid
           /\ TotalOf(fills).fits /\ TotalOf(fills).sum \in Int64
           /\ baseBalance + TotalOf(fills).sum \in Int64
           /\ baseBalance + TotalOf(fills).sum > threshold
<1>1. PICK total : total = TotalOf(fills)
  OBVIOUS
<1>2. validateChecksum(total) <=>
        /\ total.fits /\ total.sum \in Int64
        /\ baseBalance + total.sum \in Int64
        /\ baseBalance + total.sum > threshold
  BY DEF validateChecksum, checkedAdd
<1>3. min_time <= max_time
  BY WindowAssumption
<1>4. validateFills(fills) <=>
        /\ min_time <= max_time
        /\ Tokens(fills) <= MaxNumTokens /\ Len(fills) <= CIRCUIT_FILLS
        /\ \A i \in DOMAIN fills :
             validateTimeAndCoinOneFill(fills[i]) /\ calculateChecksum(fills[i]).valid
        /\ validateChecksum(total)
  BY <1>1 DEF validateFills, TotalOf
<1>5. QED
  BY <1>1, <1>2, <1>3, <1>4

(* The circuit has a proof for every good body that reaches it: of ordinary*)
(* fills, as many and as large as the daemon's limits let through, at the  *)
(* boundaries of the window too, if the sums fit in an i64.  And it has    *)
(* none for a body that the daemon refuses for its size.                   *)
THEOREM CompletenessHolds == Spec => []GoodBodiesAccepted
<1>1. ASSUME Input,
             Reaches(body),
             \A i \in DOMAIN body : InOrder(body[i]),
             baseBalance + Profit(body) > threshold,
             SumsFit(body)
      PROVE  main(body)
  <2>1. /\ body # NoBytes /\ body \in Seq(Response)
        /\ ~(Len(body) > MAX_FILLS) /\ ~(Bytes(body) > MAX_RAW_FILLS_BYTES)
    BY <1>1 DEF Reaches, rejectIfBeyondCircuitCapacity, validateAttestedFills, Input
  <2>2. PICK fills \in Seq(Response) : fills = body
    BY <2>1
  <2>3. /\ Len(fills) \in Nat /\ DOMAIN fills = 1..Len(fills) /\ Len(fills) <= MAX_FILLS
        /\ Bytes(fills) \in Nat /\ Bytes(fills) <= MAX_RAW_FILLS_BYTES
        /\ \A i \in DOMAIN fills : fills[i] \in Response
    <3>1. /\ Len(fills) \in Nat /\ DOMAIN fills = 1..Len(fills)
          /\ \A i \in DOMAIN fills : fills[i] \in Response
      OBVIOUS
    <3>2. Bytes(fills) \in Nat
      BY SizesAre
    <3>3. QED
      BY <2>1, <2>2, <3>1, <3>2, LimitsAssumption
  <2>4. \A i \in DOMAIN fills :
          /\ fills[i].coin = "allowed" /\ fills[i].feeToken = "dollar"
          /\ min_time <= fills[i].time /\ fills[i].time <= max_time
          /\ Amount(fills[i].closedPnl) /\ Amount(fills[i].fee)
          /\ fills[i].tokens <= FillTokens
    BY <1>1, <2>2 DEF InOrder, Amount
  <2>5. PICK P : /\ ProfitOf(P, fills)
                 /\ TotalOf(fills).sum = P[Len(fills)]
                 /\ TotalOf(fills).fits <=> Fits(P, fills, Len(fills))
                 /\ \A k \in 0..Len(fills) : Profit(SubSeq(fills, 1, k)) = P[k]
    BY <2>4, BodyIs
  <2>6. Profit(fills) = P[Len(fills)]
    BY <2>5 DEF ProfitOf
  <2>7. \A i \in DOMAIN fills :
          validateTimeAndCoinOneFill(fills[i]) /\ calculateChecksum(fills[i]).valid
    <3>1. ASSUME NEW i \in DOMAIN fills
          PROVE  validateTimeAndCoinOneFill(fills[i]) /\ calculateChecksum(fills[i]).valid
      <4>1. validateTimeAndCoinOneFill(fills[i])
        <5>1. fills[i].time \in Int
          BY <2>3, FillIs
        <5>2. fills[i].time >= min_time /\ fills[i].time <= max_time
          BY <2>4, <5>1, WindowAssumption
        <5>3. QED
          BY <2>4, <5>2 DEF validateTimeAndCoinOneFill, isValidTime
      <4>2. calculateChecksum(fills[i]).valid
        BY <2>3, <2>4, FillIs
      <4>3. QED
        BY <4>1, <4>2
    <3>2. QED
      BY <3>1
  <2>8. \A k \in 0..Len(fills) : P[k] \in Int64
    BY <1>1, <2>2, <2>5 DEF SumsFit
  <2>9. TotalOf(fills).fits
    <3>1. ASSUME NEW j \in 1..Len(fills)
          PROVE  Gain(fills[j]) \in Int64 /\ P[j] \in Int64
      <4>1. Gain(fills[j]) \in Int64
        BY <2>3, <2>4, FillIs
      <4>2. j \in 0..Len(fills)
        BY <2>3
      <4>3. QED
        BY <2>8, <4>1, <4>2
    <3>2. Fits(P, fills, Len(fills))
      BY <3>1 DEF Fits
    <3>3. QED
      BY <2>5, <3>2
  <2>10. TotalOf(fills).sum = Profit(fills) /\ TotalOf(fills).sum \in Int64
    <3>1. Len(fills) \in 0..Len(fills)
      BY <2>3
    <3>2. QED
      BY <2>5, <2>6, <2>8, <3>1
  <2>11. baseBalance + TotalOf(fills).sum \in Int64 /\ baseBalance + TotalOf(fills).sum > threshold
    BY <1>1, <2>2, <2>10 DEF SumsFit
  <2>12. Tokens(fills) <= MaxNumTokens
    BY <2>3, <2>4, SizesAre
  <2>13. Len(fills) <= CIRCUIT_FILLS /\ Bytes(fills) <= CIRCUIT_BYTES
    BY <2>3, MirrorAssumption
  <2>14. validateFills(fills)
    BY <2>7, <2>9, <2>10, <2>11, <2>12, <2>13, ChecksumIs
  <2>15. QED
    BY <2>2, <2>13, <2>14 DEF main
<1>2. ASSUME Input, rejectIfBeyondCircuitCapacity(body)
      PROVE  ~main(body)
  <2>1. body # NoBytes /\ body \in Seq(Response)
    BY <1>2 DEF rejectIfBeyondCircuitCapacity, Input
  <2>2. PICK fills \in Seq(Response) : fills = body
    BY <2>1
  <2>3. Len(fills) \in Nat /\ Bytes(fills) \in Nat
    BY SizesAre
  <2>4. Len(fills) > CIRCUIT_FILLS \/ Bytes(fills) > CIRCUIT_BYTES
    BY <1>2, <2>2, MirrorAssumption DEF rejectIfBeyondCircuitCapacity
  <2>5. ~(Len(fills) <= CIRCUIT_FILLS) \/ ~(Bytes(fills) <= CIRCUIT_BYTES)
    BY <2>3, <2>4, LimitsAssumption
  <2>6. QED
    BY <2>1, <2>2, <2>5, ChecksumIs DEF main
<1>3. Input => GoodBodiesAccepted
  BY <1>1, <1>2 DEF GoodBodiesAccepted
<1>4. QED
  BY <1>3, InputHolds, PTL

(* A body that reaches the circuit and has a proof is a good one, whatever *)
(* its amounts: no sum has wrapped on the way.                             *)
THEOREM SoundnessHolds == Spec => []AcceptedBodiesGood
<1>1. ASSUME Input, Reaches(body), main(body)
      PROVE  /\ body # NoBytes
             /\ \A i \in DOMAIN body :
                  body[i].coin = "allowed" /\ body[i].time \in min_time..max_time
             /\ baseBalance + Profit(body) > threshold
  <2>1. body # NoBytes /\ body \in Seq(Response) /\ validateFills(body)
    BY <1>1 DEF Reaches, validateAttestedFills, Input, main
  <2>2. PICK fills \in Seq(Response) : fills = body
    BY <2>1
  <2>3. \A i \in DOMAIN fills : fills[i] \in Response
    OBVIOUS
  <2>4. /\ \A i \in DOMAIN fills :
             validateTimeAndCoinOneFill(fills[i]) /\ calculateChecksum(fills[i]).valid
        /\ baseBalance + TotalOf(fills).sum > threshold
    BY <2>1, <2>2, ChecksumIs
  <2>5. ASSUME NEW i \in DOMAIN fills
        PROVE  /\ Amount(fills[i].closedPnl) /\ Amount(fills[i].fee)
               /\ fills[i].coin = "allowed" /\ fills[i].time \in min_time..max_time
    <3>1. fills[i] \in Response /\ fills[i].time \in Int
      BY <2>3, FillIs
    <3>2. Amount(fills[i].closedPnl) /\ Amount(fills[i].fee)
      BY <2>4, <3>1, FillIs
    <3>3. fills[i].coin = "allowed" /\ fills[i].time >= min_time /\ fills[i].time <= max_time
      BY <2>4 DEF validateTimeAndCoinOneFill, isValidTime
    <3>4. fills[i].time \in min_time..max_time
      BY <3>1, <3>3, WindowAssumption
    <3>5. QED
      BY <3>2, <3>3, <3>4
  <2>6. PICK P : ProfitOf(P, fills) /\ TotalOf(fills).sum = P[Len(fills)]
    BY <2>5, BodyIs
  <2>7. TotalOf(fills).sum = Profit(fills)
    BY <2>6 DEF ProfitOf
  <2>8. QED
    BY <2>1, <2>2, <2>4, <2>5, <2>7
<1>2. Input => AcceptedBodiesGood
  BY <1>1 DEF AcceptedBodiesGood
<1>3. QED
  BY <1>2, InputHolds, PTL
=============================================================================
