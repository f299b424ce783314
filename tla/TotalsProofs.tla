---------------------------- MODULE TotalsProofs ----------------------------
(***************************************************************************)
(* What the sums of Totals are, for sequences that grow, shrink or move,   *)
(* and for a finite set divided into parts.  Induction is over sets of     *)
(* numbers: a set that holds 0 and with every number the next one has no   *)
(* least number missing.                                                   *)
(***************************************************************************)
EXTENDS Totals, SequencesExt, WellFoundedInduction, FiniteSetTheorems, TLAPS

(* Induction: a set with 0, and with every number the next, has them all. *)
LEMMA CountingUp ==
  ASSUME NEW S, 0 \in S, \A n \in Nat : n \in S => n + 1 \in S
  PROVE  Nat \subseteq S
<1> DEFINE missing == Nat \ S
<1>1. CASE missing = {}
  BY <1>1
<1>2. CASE missing # {}
  <2>1. PICK x \in missing : \A y \in missing : ~(<<y, x>> \in OpToRel(<, Nat))
    BY <1>2, NatLessThanWellFounded, WFMin
  <2>2. x # 0 /\ x - 1 \in Nat /\ x - 1 < x
    <3>1. x \in Nat /\ x \notin S
      OBVIOUS
    <3> QED BY <3>1
  <2>3. x - 1 \notin missing
    BY <2>1, <2>2 DEF OpToRel
  <2>4. (x - 1) + 1 \in S /\ (x - 1) + 1 = x
    BY <2>2, <2>3
  <2> QED BY <2>1, <2>4
<1> QED BY <1>1, <1>2

(* There are sums of the first n numbers, for every n. *)
LEMMA SumsExist ==
  ASSUME NEW a \in Seq(Int)
  PROVE  \E g \in [0 .. Len(a) -> Int] :
           g[0] = 0 /\ \A i \in 1 .. Len(a) : g[i] = g[i - 1] + a[i]
<1> DEFINE Sums(n) ==
      {g \in [0 .. n -> Int] : g[0] = 0 /\ \A i \in 1 .. n : g[i] = g[i - 1] + a[i]}
    S == {n \in Nat : n <= Len(a) => Sums(n) # {}}
<1>1. 0 \in S
  <2>1. [i \in 0 .. 0 |-> 0] \in Sums(0)
    OBVIOUS
  <2> QED BY <2>1
<1>2. ASSUME NEW n \in Nat, n \in S PROVE n + 1 \in S
  <2> SUFFICES ASSUME n + 1 <= Len(a) PROVE Sums(n + 1) # {}
    <3> HIDE DEF Sums
    <3> QED OBVIOUS
  <2>1. PICK g \in Sums(n) : TRUE
    <3>1. Len(a) \in Nat /\ n <= Len(a)
      OBVIOUS
    <3> HIDE DEF Sums
    <3> QED BY <1>2, <3>1
  <2>2. /\ g \in [0 .. n -> Int] /\ g[0] = 0 /\ \A i \in 1 .. n : g[i] = g[i - 1] + a[i]
        /\ n + 1 \in 1 .. Len(a) /\ a[n + 1] \in Int
    BY <2>1
  <2> DEFINE h == [i \in 0 .. n + 1 |-> IF i = n + 1 THEN g[n] + a[n + 1] ELSE g[i]]
  <2>3. h \in [0 .. n + 1 -> Int]
    BY <2>2
  <2>4. h[0] = 0
    BY <2>2
  <2>5. ASSUME NEW i \in 1 .. n + 1 PROVE h[i] = h[i - 1] + a[i]
    <3>1. CASE i = n + 1
      BY <2>2, <3>1
    <3>2. CASE i \in 1 .. n
      BY <2>2, <3>2
    <3> QED BY <3>1, <3>2
  <2>6. h \in Sums(n + 1)
    BY <2>3, <2>4, <2>5
  <2> QED BY <2>6
<1>3. Nat \subseteq S
  <2> HIDE DEF S
  <2> QED BY <1>1, <1>2, CountingUp
<1> QED BY <1>3

(* The sums are what their definition says. *)
LEMMA TotalsFacts ==
  ASSUME NEW a \in Seq(Int)
  PROVE  /\ Totals(a) \in [0 .. Len(a) -> Int]
         /\ Totals(a)[0] = 0
         /\ \A n \in 1 .. Len(a) : Totals(a)[n] = Totals(a)[n - 1] + a[n]
         /\ Total(a) = Totals(a)[Len(a)] /\ Total(a) \in Int
<1> DEFINE Step(f) == [n \in 0 .. Len(a) |-> IF n = 0 THEN 0 ELSE f[n - 1] + a[n]]
<1>1. PICK g \in [0 .. Len(a) -> Int] :
        g[0] = 0 /\ \A i \in 1 .. Len(a) : g[i] = g[i - 1] + a[i]
  BY SumsExist
<1>2. g = Step(g)
  BY <1>1
<1>3. Totals(a) = CHOOSE f : f = Step(f)
  BY DEF Totals
<1>4. Totals(a) = Step(Totals(a))
  BY <1>2, <1>3
<1> DEFINE T == Totals(a)
<1> HIDE DEF T
<1>5. T = [n \in 0 .. Len(a) |-> IF n = 0 THEN 0 ELSE T[n - 1] + a[n]]
  BY <1>4 DEF T
<1>6. /\ DOMAIN T = 0 .. Len(a) /\ T[0] = 0
      /\ \A n \in 1 .. Len(a) : T[n] = T[n - 1] + a[n]
  <2>1. Len(a) \in Nat
    OBVIOUS
  <2>2. DOMAIN T = 0 .. Len(a) /\ \A n \in 0 .. Len(a) : T[n] = IF n = 0 THEN 0 ELSE T[n - 1] + a[n]
    BY <1>5, Zenon
  <2>3. T[0] = 0
    BY <2>1, <2>2
  <2>4. ASSUME NEW n \in 1 .. Len(a) PROVE T[n] = T[n - 1] + a[n]
    <3>1. n \in 0 .. Len(a) /\ n # 0
      BY <2>1
    <3> QED BY <2>2, <3>1, Zenon
  <2> QED BY <2>2, <2>3, <2>4
<1> DEFINE S == {n \in Nat : n <= Len(a) => T[n] \in Int}
<1>7. Nat \subseteq S
  <2>1. 0 \in S
    BY <1>6
  <2>2. ASSUME NEW n \in Nat, n \in S PROVE n + 1 \in S
    <3> SUFFICES ASSUME n + 1 <= Len(a) PROVE T[n + 1] \in Int
      OBVIOUS
    <3>1. n + 1 \in 1 .. Len(a) /\ T[n] \in Int /\ a[n + 1] \in Int
      BY <2>2
    <3>2. T[n + 1] = T[(n + 1) - 1] + a[n + 1]
      BY <1>6, <3>1
    <3> QED BY <3>1, <3>2
  <2> HIDE DEF S
  <2> QED BY <2>1, <2>2, CountingUp
<1>8. \A n \in 0 .. Len(a) : T[n] \in Int
  BY <1>7
<1>9. T \in [0 .. Len(a) -> Int]
  <2>1. T = [n \in 0 .. Len(a) |-> T[n]]
    BY <1>5
  <2> QED BY <1>8, <2>1
<1> QED BY <1>6, <1>8, <1>9 DEF T, Total

(* One step of the sum. *)
LEMMA TotalsStep ==
  ASSUME NEW a \in Seq(Int), NEW n \in Nat, n + 1 <= Len(a)
  PROVE  /\ Totals(a)[n + 1] = Totals(a)[n] + a[n + 1]
         /\ Totals(a)[n] \in Int /\ Totals(a)[n + 1] \in Int /\ a[n + 1] \in Int
<1>1. n + 1 \in 1 .. Len(a) /\ n \in 0 .. Len(a) /\ n + 1 \in 0 .. Len(a) /\ (n + 1) - 1 = n
  OBVIOUS
<1>2. Totals(a)[n] \in Int /\ Totals(a)[n + 1] \in Int
  BY <1>1, TotalsFacts
<1>3. Totals(a)[n + 1] = Totals(a)[n] + a[n + 1]
  BY <1>1, TotalsFacts
<1> QED BY <1>1, <1>2, <1>3

(* Sums do not depend on what comes later. *)
LEMMA TotalsOfPrefix ==
  ASSUME NEW a \in Seq(Int), NEW b \in Seq(Int), NEW m \in Nat, m <= Len(a), m <= Len(b),
         \A i \in 1 .. m : a[i] = b[i]
  PROVE  \A n \in 0 .. m : Totals(a)[n] = Totals(b)[n]
<1> DEFINE S == {n \in Nat : n <= m => Totals(a)[n] = Totals(b)[n]}
<1>1. 0 \in S
  BY TotalsFacts
<1>2. ASSUME NEW n \in Nat, n \in S PROVE n + 1 \in S
  <2> SUFFICES ASSUME n + 1 <= m PROVE Totals(a)[n + 1] = Totals(b)[n + 1]
    OBVIOUS
  <2>1. n + 1 \in 1 .. m /\ n + 1 \in 1 .. Len(a) /\ n + 1 \in 1 .. Len(b) /\ (n + 1) - 1 = n
    OBVIOUS
  <2>2. /\ Totals(a)[n + 1] = Totals(a)[n] + a[n + 1]
        /\ Totals(b)[n + 1] = Totals(b)[n] + b[n + 1]
    BY <2>1, TotalsFacts
  <2> QED BY <1>2, <2>1, <2>2
<1>3. Nat \subseteq S
  <2> HIDE DEF S
  <2> QED BY <1>1, <1>2, CountingUp
<1> QED BY <1>3

(* One more number. *)
LEMMA TotalOfAppend ==
  ASSUME NEW a \in Seq(Int), NEW x \in Int
  PROVE  Total(Append(a, x)) = Total(a) + x
<1> DEFINE b == Append(a, x)
<1>1. /\ b \in Seq(Int) /\ Len(b) = Len(a) + 1 /\ b[Len(a) + 1] = x
      /\ \A i \in 1 .. Len(a) : a[i] = b[i]
  OBVIOUS
<1> HIDE DEF b
<1>2. Totals(a)[Len(a)] = Totals(b)[Len(a)]
  <2>1. Len(a) \in Nat /\ Len(a) <= Len(b) /\ Len(a) \in 0 .. Len(a)
    BY <1>1
  <2> QED BY <1>1, <2>1, TotalsOfPrefix
<1>3. Totals(b)[Len(a) + 1] = Totals(b)[Len(a)] + x
  <2>1. Len(a) + 1 \in 1 .. Len(b) /\ (Len(a) + 1) - 1 = Len(a)
    BY <1>1
  <2> QED BY <1>1, <2>1, TotalsFacts
<1>4. Total(b) = Total(a) + x
  BY <1>1, <1>2, <1>3, TotalsFacts DEF Total
<1> QED BY <1>4 DEF b

(* One number less. *)
LEMMA TotalWithout ==
  ASSUME NEW a \in Seq(Int), NEW b \in Seq(Int), NEW k \in 1 .. Len(a),
         Len(b) = Len(a) - 1,
         \A i \in 1 .. Len(b) : b[i] = IF i < k THEN a[i] ELSE a[i + 1]
  PROVE  Total(b) = Total(a) - a[k]
<1> DEFINE S == {n \in Nat : k - 1 <= n /\ n <= Len(b) => Totals(b)[n] = Totals(a)[n + 1] - a[k]}
<1>1. Totals(b)[k - 1] = Totals(a)[k - 1]
  <2>1. k - 1 \in Nat /\ k - 1 <= Len(a) /\ k - 1 <= Len(b) /\ k - 1 \in 0 .. k - 1
    OBVIOUS
  <2>2. \A i \in 1 .. k - 1 : b[i] = a[i]
    OBVIOUS
  <2> HIDE DEF S
  <2> QED BY <2>1, <2>2, TotalsOfPrefix
<1>2. Totals(a)[k] = Totals(a)[k - 1] + a[k] /\ Totals(a)[k - 1] \in Int /\ a[k] \in Int
  <2>1. k - 1 \in Nat /\ (k - 1) + 1 = k /\ k <= Len(a)
    OBVIOUS
  <2> HIDE DEF S
  <2> QED BY <2>1, TotalsStep
<1>3. 0 \in S
  <2> SUFFICES ASSUME k - 1 <= 0 PROVE Totals(b)[0] = Totals(a)[0 + 1] - a[k]
    OBVIOUS
  <2>1. k = 1
    OBVIOUS
  <2> QED BY <1>1, <1>2, <2>1
<1>4. ASSUME NEW n \in Nat, n \in S PROVE n + 1 \in S
  <2> SUFFICES ASSUME k - 1 <= n + 1, n + 1 <= Len(b)
               PROVE  Totals(b)[n + 1] = Totals(a)[(n + 1) + 1] - a[k]
    OBVIOUS
  <2>1. CASE n + 1 = k - 1
    <3>1. (n + 1) + 1 = k
      BY <2>1
    <3> QED BY <1>1, <1>2, <2>1, <3>1
  <2>2. CASE n + 1 > k - 1
    <3>1. n + 1 \in Nat /\ (n + 1) + 1 <= Len(a) /\ ~(n + 1 < k) /\ n + 1 \in 1 .. Len(b)
      BY <2>2
    <3>2. Totals(b)[n + 1] = Totals(b)[n] + b[n + 1]
      BY TotalsStep
    <3>3. /\ Totals(a)[(n + 1) + 1] = Totals(a)[n + 1] + a[(n + 1) + 1]
          /\ Totals(a)[n + 1] \in Int /\ a[(n + 1) + 1] \in Int
      BY <3>1, TotalsStep
    <3>4. b[n + 1] = a[(n + 1) + 1]
      BY <3>1
    <3>5. Totals(b)[n] = Totals(a)[n + 1] - a[k]
      BY <1>4, <2>2
    <3>6. a[k] \in Int
      BY <1>2
    <3> HIDE DEF S
    <3> QED BY <3>2, <3>3, <3>4, <3>5, <3>6
  <2> QED BY <2>1, <2>2
<1>5. Nat \subseteq S
  <2> HIDE DEF S
  <2> QED BY <1>3, <1>4, CountingUp
<1>6. Totals(b)[Len(b)] = Totals(a)[Len(b) + 1] - a[k] /\ Len(b) + 1 = Len(a)
  BY <1>5
<1> QED BY <1>6, TotalsFacts

(* Larger numbers, the first of them by d. *)
LEMMA TotalsAtLeast ==
  ASSUME NEW a \in Seq(Int), NEW b \in Seq(Int), NEW d \in Int, Len(a) = Len(b), a # <<>>,
         a[1] >= b[1] + d, \A i \in 1 .. Len(a) : a[i] >= b[i]
  PROVE  Total(a) >= Total(b) + d
<1> DEFINE S == {n \in Nat : 1 <= n /\ n <= Len(a) => Totals(a)[n] >= Totals(b)[n] + d}
<1>1. 0 \in S
  OBVIOUS
<1>2. ASSUME NEW n \in Nat, n \in S PROVE n + 1 \in S
  <2> SUFFICES ASSUME n + 1 <= Len(a) PROVE Totals(a)[n + 1] >= Totals(b)[n + 1] + d
    OBVIOUS
  <2>1. n + 1 \in 1 .. Len(a) /\ n + 1 <= Len(b)
    OBVIOUS
  <2>2. /\ Totals(a)[n + 1] = Totals(a)[n] + a[n + 1]
        /\ Totals(b)[n + 1] = Totals(b)[n] + b[n + 1]
        /\ Totals(a)[n] \in Int /\ Totals(b)[n] \in Int
        /\ a[n + 1] \in Int /\ b[n + 1] \in Int /\ a[n + 1] >= b[n + 1]
        /\ Totals(a)[0] = 0 /\ Totals(b)[0] = 0
    <3>1. a[n + 1] >= b[n + 1]
      BY <2>1
    <3> HIDE DEF S
    <3> QED BY <2>1, <3>1, TotalsStep, TotalsFacts
  <2>3. CASE n = 0
    BY <2>2, <2>3
  <2>4. CASE n # 0
    <3>1. Totals(a)[n] >= Totals(b)[n] + d
      BY <1>2, <2>1, <2>4
    <3> HIDE DEF S
    <3> QED BY <2>2, <3>1
  <2> QED BY <2>3, <2>4
<1>3. Nat \subseteq S
  <2> HIDE DEF S
  <2> QED BY <1>1, <1>2, CountingUp
<1>4. Len(a) \in Nat /\ 1 <= Len(a)
  OBVIOUS
<1>5. Totals(a)[Len(a)] >= Totals(b)[Len(a)] + d
  BY <1>3, <1>4
<1> QED BY <1>5, TotalsFacts

(* Sums of natural numbers are natural numbers. *)
LEMMA TotalsOfNats ==
  ASSUME NEW a \in Seq(Nat)
  PROVE  \A n \in 0 .. Len(a) : Totals(a)[n] \in Nat
<1>0. a \in Seq(Int)
  OBVIOUS
<1> DEFINE S == {n \in Nat : n <= Len(a) => Totals(a)[n] \in Nat}
<1>1. 0 \in S
  BY <1>0, TotalsFacts
<1>2. ASSUME NEW n \in Nat, n \in S PROVE n + 1 \in S
  <2> SUFFICES ASSUME n + 1 <= Len(a) PROVE Totals(a)[n + 1] \in Nat
    OBVIOUS
  <2>1. n + 1 \in 1 .. Len(a) /\ (n + 1) - 1 = n /\ a[n + 1] \in Nat
    OBVIOUS
  <2>2. Totals(a)[n + 1] = Totals(a)[n] + a[n + 1]
    BY <1>0, <2>1, TotalsFacts
  <2> QED BY <1>2, <2>1, <2>2
<1>3. Nat \subseteq S
  <2> HIDE DEF S
  <2> QED BY <1>1, <1>2, CountingUp
<1> QED BY <1>3

-----------------------------------------------------------------------------
(* Finite sets as sequences *)

(* A finite set listed as a sequence: each of its elements, once.          *)
LEMMA ListedOnce ==
  ASSUME NEW S, IsFiniteSet(S)
  PROVE  /\ SetToSeq(S) \in Seq(S)
         /\ IsInjective(SetToSeq(S))
         /\ \A x \in S : \E k \in DOMAIN SetToSeq(S) : SetToSeq(S)[k] = x
<1> DEFINE n == Cardinality(S)
<1>1. n \in Nat /\ ExistsBijection(1 .. n, S)
  BY FS_CardinalityType
<1>2. IsFiniteSet(1 .. n) /\ Cardinality(1 .. n) = n
  BY <1>1, FS_Interval
<1>3. \E f \in [1 .. n -> S] : IsInjective(f)
  BY <1>1 DEF ExistsBijection, Bijection, Injection, IsInjective
<1>4. SetToSeq(S) \in [1 .. n -> S] /\ IsInjective(SetToSeq(S))
  BY <1>3 DEF SetToSeq
<1> DEFINE s == SetToSeq(S)
<1> HIDE DEF s, n
<1>5. s \in Injection(1 .. n, S)
  BY <1>4 DEF Injection, IsInjective, s
<1>6. s \in Surjection(1 .. n, S)
  BY <1>2, <1>5, FS_Injection DEF n
<1>7. s \in Seq(S)
  BY <1>1, <1>4 DEF s
<1> QED BY <1>4, <1>6, <1>7 DEF Surjection, s

(* Parts of a finite set that are numbered without a gap or an overlap add *)
(* up to it.                                                               *)
LEMMA PartsAddUp ==
  ASSUME NEW S, IsFiniteSet(S), NEW F, NEW part \in [S -> F],
         NEW names \in Seq(F), IsInjective(names),
         \A x \in S : \E k \in DOMAIN names : names[k] = part[x]
  PROVE  Total([k \in DOMAIN names |-> Cardinality({x \in S : part[x] = names[k]})])
           = Cardinality(S)
<1> DEFINE Part(k) == {x \in S : part[x] = names[k]}
           Upto(k) == {x \in S : \E j \in 1 .. k : part[x] = names[j]}
           a == [k \in DOMAIN names |-> Cardinality(Part(k))]
           Reached == {k \in Nat : k <= Len(names) => Totals(a)[k] = Cardinality(Upto(k))}
<1>1. DOMAIN names = 1 .. Len(names) /\ Len(names) \in Nat
  OBVIOUS
<1>2. ASSUME NEW T \in SUBSET S PROVE IsFiniteSet(T) /\ Cardinality(T) \in Nat
  BY FS_Subset, FS_CardinalityType
<1>3. a \in Seq(Int) /\ Len(a) = Len(names) /\ \A k \in 1 .. Len(names) : a[k] = Cardinality(Part(k))
  <2>1. \A k \in DOMAIN names : Cardinality(Part(k)) \in Int
    BY <1>2
  <2> HIDE DEF Part
  <2>2. a \in [1 .. Len(names) -> Int]
    BY <1>1, <2>1
  <2> QED BY <1>1, <2>2
<1>4. 0 \in Reached
  <2>1. Upto(0) = {}
    OBVIOUS
  <2>2. Totals(a)[0] = 0
    BY <1>3, TotalsFacts
  <2> QED BY <2>1, <2>2, FS_EmptySet
<1>5. ASSUME NEW k \in Nat, k \in Reached PROVE k + 1 \in Reached
  <2> SUFFICES ASSUME k + 1 <= Len(names) PROVE Totals(a)[k + 1] = Cardinality(Upto(k + 1))
    OBVIOUS
  <2>1. Totals(a)[k] = Cardinality(Upto(k))
    BY <1>1, <1>5
  <2>2. k + 1 \in 1 .. Len(names) /\ \A j \in 1 .. k : j \in 1 .. Len(names) /\ j # k + 1
    BY <1>1
  <2>3. Upto(k + 1) = Upto(k) \cup Part(k + 1)
    <3>1. 1 .. k + 1 = (1 .. k) \cup {k + 1}
      OBVIOUS
    <3> QED BY <3>1
  <2>4. Upto(k) \cap Part(k + 1) = {}
    <3>1. \A j \in 1 .. k : names[j] # names[k + 1]
      BY <1>1, <2>2 DEF IsInjective
    <3> QED BY <3>1
  <2>5. /\ IsFiniteSet(Upto(k)) /\ IsFiniteSet(Part(k + 1))
        /\ Cardinality(Upto(k)) \in Nat /\ Cardinality(Part(k + 1)) \in Nat
    BY <1>2
  <2>6. a[k + 1] = Cardinality(Part(k + 1)) /\ Totals(a)[k + 1] = Totals(a)[k] + a[k + 1]
    <3>1. a[k + 1] = Cardinality(Part(k + 1))
      BY <1>3, <2>2
    <3> HIDE DEF a
    <3>2. Totals(a)[k + 1] = Totals(a)[k] + a[k + 1]
      BY <1>3, TotalsStep
    <3> QED BY <3>1, <3>2
  <2> HIDE DEF Upto, Part, a
  <2>7. Cardinality(Upto(k) \cup Part(k + 1)) =
          Cardinality(Upto(k)) + Cardinality(Part(k + 1)) - Cardinality(Upto(k) \cap Part(k + 1))
    BY <2>5, FS_Union
  <2>8. Cardinality(Upto(k) \cap Part(k + 1)) = 0
    BY <2>4, FS_EmptySet
  <2>9. Cardinality(Upto(k) \cup Part(k + 1)) = Cardinality(Upto(k)) + Cardinality(Part(k + 1))
    BY <2>5, <2>7, <2>8
  <2> QED BY <2>1, <2>3, <2>6, <2>9
<1>6. Nat \subseteq Reached
  <2> HIDE DEF Reached
  <2> QED BY <1>4, <1>5, CountingUp
<1>7. Upto(Len(names)) = S
  BY <1>1
<1>8. Totals(a)[Len(names)] = Cardinality(S)
  <2>1. Len(names) \in Reached
    BY <1>1, <1>6
  <2> HIDE DEF Upto, a
  <2> QED BY <1>1, <1>7, <2>1
<1> QED BY <1>3, <1>8, Zenon DEF Total
=============================================================================
