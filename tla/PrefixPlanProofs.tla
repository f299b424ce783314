-------------------------- MODULE PrefixPlanProofs --------------------------
(***************************************************************************)
(* Lemmas about the operators of PrefixPlan: batch boundaries, the common  *)
(* prefix of a batch, its plan, and native decoding batch by batch; and    *)
(* what PrefixScan and QwenBatch promise of every batch.                   *)
(***************************************************************************)
EXTENDS QwenBatch, TotalsProofs, TLAPS, WellFoundedInduction, FiniteSetTheorems,
        SequenceTheorems

-----------------------------------------------------------------------------
(* Arithmetic of native batches. *)

(* Rounding down to a batch boundary gives a boundary, at most n.           *)
LEMMA AlignedFacts ==
  ASSUME NEW n \in Nat
  PROVE  /\ Aligned(n) \in Nat /\ Aligned(n) <= n /\ n < Aligned(n) + NBatch
         /\ Aligned(n) % NBatch = 0
BY NBatchAssumption DEF Aligned

(* The multiples of NBatch, named by their quotient.                        *)
LEMMA Multiples ==
  ASSUME NEW n \in Nat
  PROVE  n % NBatch = 0 <=> \E q \in Nat : n = q * NBatch
<1>1. ASSUME n % NBatch = 0 PROVE \E q \in Nat : n = q * NBatch
  <2>1. n = (n \div NBatch) * NBatch /\ n \div NBatch \in Nat
    BY <1>1, NBatchAssumption
  <2> QED BY <2>1
<1>2. ASSUME NEW q \in Nat, n = q * NBatch PROVE n % NBatch = 0
  BY <1>2, NBatchAssumption
<1> QED BY <1>1, <1>2

(* The next boundary after one is exactly NBatch further.                   *)
LEMMA BoundaryStep ==
  ASSUME NEW n \in Nat, n % NBatch = 0
  PROVE  /\ (n + NBatch) % NBatch = 0
         /\ \A i \in n .. (n + NBatch - 1) : i % NBatch = 0 => i = n
<1>1. PICK q \in Nat : n = q * NBatch
  BY Multiples
<1>2. (n + NBatch) % NBatch = 0
  <2>1. n + NBatch = (q + 1) * NBatch /\ n + NBatch \in Nat /\ q + 1 \in Nat
    BY <1>1, NBatchAssumption
  <2> QED BY <2>1, Multiples
<1>3. ASSUME NEW i \in n .. (n + NBatch - 1), i % NBatch = 0 PROVE i = n
  <2>1. i \in Nat /\ n <= i /\ i < n + NBatch
    BY NBatchAssumption
  <2>2. PICK p \in Nat : i = p * NBatch
    BY <1>3, <2>1, Multiples
  <2>3. CASE p >= q + 1
    <3>1. p * NBatch >= (q + 1) * NBatch
      BY <2>3, NBatchAssumption
    <3>2. (q + 1) * NBatch = q * NBatch + NBatch
      BY NBatchAssumption
    <3> QED BY <1>1, <2>1, <2>2, <3>1, <3>2, NBatchAssumption
  <2>4. CASE p <= q
    <3>1. p * NBatch <= q * NBatch
      BY <2>4, NBatchAssumption
    <3> QED BY <1>1, <2>1, <2>2, <3>1
  <2> QED BY <2>3, <2>4
<1> QED BY <1>2, <1>3
-----------------------------------------------------------------------------
(* The common prefix of a batch. *)

(* A nonempty set of naturals has a least element, and Min is it.           *)
LEMMA MinFacts ==
  ASSUME NEW S \in SUBSET Nat, S # {}
  PROVE  Min(S) \in S /\ \A m \in S : Min(S) <= m
<1>1. PICK x \in S : \A y \in S : ~(<<y, x>> \in OpToRel(<, Nat))
  BY NatLessThanWellFounded, WFMin
<1>2. ASSUME NEW y \in S PROVE x <= y
  <2>1. ~(y < x)
    BY <1>1 DEF OpToRel
  <2> QED BY <2>1
<1> QED BY <1>2 DEF Min

(* No row is shorter than the shortest length.                            *)
LEMMA ShortestFacts ==
  ASSUME NEW T, NEW rows \in Seq(Seq(T)), rows # <<>>
  PROVE  Shortest(rows) \in Nat /\ \A r \in DOMAIN rows : Shortest(rows) <= Len(rows[r])
<1> DEFINE L == {Len(rows[r]) : r \in DOMAIN rows}
<1>1. \A r \in DOMAIN rows : Len(rows[r]) \in Nat
  <2> SUFFICES ASSUME NEW r \in DOMAIN rows PROVE Len(rows[r]) \in Nat
    OBVIOUS
  <2>1. rows[r] \in Seq(T)
    OBVIOUS
  <2> QED BY <2>1
<1>2. 1 \in DOMAIN rows
  OBVIOUS
<1>3. L \in SUBSET Nat /\ L # {}
  BY <1>1, <1>2
<1>4. Shortest(rows) = Min(L)
  BY DEF Shortest
<1>5. Min(L) \in L /\ \A m \in L : Min(L) <= m
  BY <1>3, MinFacts
<1> QED BY <1>3, <1>4, <1>5

(* All rows carry the same tokens up to CommonPrefixLen.                    *)
LEMMA CommonPrefixFacts ==
  ASSUME NEW T, NEW rows \in Seq(Seq(T)), rows # <<>>
  PROVE  /\ CommonPrefixLen(rows) \in Nat
         /\ \A r \in DOMAIN rows :
              /\ CommonPrefixLen(rows) <= Len(rows[r])
              /\ \A i \in 1 .. CommonPrefixLen(rows) : rows[r][i] = rows[1][i]
<1>1. Shortest(rows) \in Nat /\ \A r \in DOMAIN rows : Shortest(rows) <= Len(rows[r])
  BY ShortestFacts
<1>2. CASE Mismatches(rows) = {}
  BY <1>1, <1>2 DEF CommonPrefixLen, Mismatches
<1>3. CASE Mismatches(rows) # {}
  <2>1. Mismatches(rows) \in SUBSET Nat /\ Mismatches(rows) \subseteq 1 .. Shortest(rows)
    BY <1>1 DEF Mismatches
  <2>2. /\ Min(Mismatches(rows)) \in Mismatches(rows)
        /\ \A m \in Mismatches(rows) : Min(Mismatches(rows)) <= m
    BY <1>3, <2>1, MinFacts
  <2>3. CommonPrefixLen(rows) = Min(Mismatches(rows)) - 1
    BY <1>3 DEF CommonPrefixLen
  <2>4. CommonPrefixLen(rows) \in Nat /\ CommonPrefixLen(rows) < Shortest(rows)
    BY <1>1, <2>1, <2>2, <2>3
  <2>5. \A i \in 1 .. CommonPrefixLen(rows) : i \notin Mismatches(rows)
    BY <2>1, <2>2, <2>3, <2>4
  <2>6. ASSUME NEW r \in DOMAIN rows, NEW i \in 1 .. CommonPrefixLen(rows)
        PROVE  rows[r][i] = rows[1][i]
    BY <1>1, <2>4, <2>5 DEF Mismatches
  <2> QED BY <1>1, <2>4, <2>6
<1> QED BY <1>2, <1>3
-----------------------------------------------------------------------------
(* Plans and native decoding. *)

(* A planned prefix is a batch boundary within the common prefix; the part   *)
(* to cache is all of it, and then lies within the hint.                     *)
LEMMA PlanFacts ==
  ASSUME NEW n \in Nat, NEW h \in Nat \cup {NoHint},
         NEW plan, plan = SharedPrefixPlan(n, h)
  PROVE  /\ plan.prefixLen \in Nat /\ plan.prefixLen <= n
         /\ plan.prefixLen % NBatch = 0
         /\ plan.cacheLen # NoHint =>
              plan.cacheLen = plan.prefixLen /\ h # NoHint /\ plan.prefixLen <= h
<1>1. 0 % NBatch = 0
  BY NBatchAssumption
<1>2. CASE h = NoHint
  BY <1>1, <1>2, AlignedFacts, NBatchAssumption DEF SharedPrefixPlan
<1>3. CASE h \in Nat
  <2>1. Lower(n, h) \in Nat /\ Lower(n, h) <= n /\ Lower(n, h) <= h
    BY <1>3 DEF Lower
  <2>2. h # NoHint
    BY <1>3, NoHintAssumption
  <2>3. /\ Aligned(Lower(n, h)) \in Nat
        /\ Aligned(Lower(n, h)) <= Lower(n, h)
        /\ Aligned(Lower(n, h)) % NBatch = 0
    BY <2>1, AlignedFacts
  <2>4. Aligned(n) \in Nat /\ Aligned(n) <= n /\ Aligned(n) % NBatch = 0
    BY AlignedFacts
  <2> QED BY <1>1, <2>1, <2>2, <2>3, <2>4, NBatchAssumption DEF SharedPrefixPlan
<1> QED BY <1>2, <1>3

(* Up to any length within the common prefix, all rows are one.             *)
LEMMA SharedPrefixFacts ==
  ASSUME NEW T, NEW rows \in Seq(Seq(T)), rows # <<>>,
         NEW n \in Nat, n <= CommonPrefixLen(rows), NEW r \in DOMAIN rows
  PROVE  n <= Len(rows[r]) /\ SubSeq(rows[r], 1, n) = SubSeq(rows[1], 1, n)
<1> DEFINE t == rows[r]  u == rows[1]
<1>1. t \in Seq(T) /\ u \in Seq(T) /\ 1 \in DOMAIN rows
  OBVIOUS
<1>2. /\ n <= Len(t) /\ n <= Len(u)
      /\ \A i \in 1 .. n : t[i] = u[i]
  BY <1>1, CommonPrefixFacts
<1> HIDE DEF t, u
<1>3. /\ SubSeq(t, 1, n) \in Seq(T) /\ SubSeq(u, 1, n) \in Seq(T)
      /\ Len(SubSeq(t, 1, n)) = n /\ Len(SubSeq(u, 1, n)) = n
      /\ \A i \in 1 .. n : SubSeq(t, 1, n)[i] = t[i] /\ SubSeq(u, 1, n)[i] = u[i]
  BY <1>1, <1>2
<1>4. SubSeq(t, 1, n) = SubSeq(u, 1, n)
  BY <1>2, <1>3, SeqEqual
<1> QED BY <1>2, <1>4 DEF t, u

(* The fresh state after n tokens is that of the prefix of n tokens.        *)
LEMMA PrefixState ==
  ASSUME NEW T, NEW t \in Seq(T), NEW n \in 0 .. Len(t)
  PROVE  /\ SubSeq(t, 1, n) \in Seq(T) /\ Len(SubSeq(t, 1, n)) = n
         /\ Fresh(SubSeq(t, 1, n)) = FreshAt(t, n)
<1>1. SubSeq(t, 1, n) \in Seq(T) /\ Len(SubSeq(t, 1, n)) = n
  OBVIOUS
<1>2. SubSeq(SubSeq(t, 1, n), 1, n) = SubSeq(t, 1, n)
  BY <1>1, SubSeqFull
<1> QED BY <1>1, <1>2 DEF Fresh, FreshAt

(* Fresh states are states.                                                 *)
LEMMA FreshAtType ==
  ASSUME NEW T, NEW t \in Seq(T), NEW n \in 0 .. Len(t)
  PROVE  /\ FreshAt(t, n) \in [toks : Seq(T), starts : SUBSET Nat]
         /\ Len(FreshAt(t, n).toks) = n
<1>1. SubSeq(t, 1, n) \in Seq(T) /\ Len(SubSeq(t, 1, n)) = n
  OBVIOUS
<1> QED BY <1>1 DEF FreshAt

(* Before its first batch an evaluation is in the empty state.              *)
LEMMA FreshStart ==
  ASSUME NEW t
  PROVE  FreshAt(t, 0) = EmptyState /\ 0 % NBatch = 0
<1>1. SubSeq(t, 1, 0) = <<>>
  BY SubSeqEmpty
<1>2. {i \in 0 .. 0 - 1 : i % NBatch = 0} = {}
  OBVIOUS
<1>3. 0 % NBatch = 0
  BY NBatchAssumption
<1> QED BY <1>1, <1>2, <1>3 DEF FreshAt, EmptyState

(* One native decode from a batch boundary of the fresh evaluation of t     *)
(* leads to its next boundary, or to its end.                               *)
LEMMA DecodeStep ==
  ASSUME NEW T, NEW t \in Seq(T), NEW n \in Nat, n < Len(t), n % NBatch = 0
  PROVE  /\ DecodeChunk(FreshAt(t, n), t, n) = FreshAt(t, ChunkEnd(t, n))
         /\ ChunkEnd(t, n) \in Nat /\ n < ChunkEnd(t, n) /\ ChunkEnd(t, n) <= Len(t)
         /\ ChunkEnd(t, n) % NBatch = 0 \/ ChunkEnd(t, n) = Len(t)
<1> DEFINE m == ChunkEnd(t, n)
<1>1. /\ m \in Nat /\ n < m /\ m <= Len(t) /\ m <= n + NBatch
      /\ m = n + NBatch \/ m = Len(t)
  BY NBatchAssumption DEF ChunkEnd, Lower
<1>2. SubSeq(t, 1, n) \o SubSeq(t, n + 1, m) = SubSeq(t, 1, m)
  <2>1. 1 \in 1 .. Len(t) + 1 /\ n \in 1 - 1 .. Len(t) /\ m \in n .. Len(t)
    BY <1>1
  <2> HIDE DEF m
  <2> QED BY <2>1, ConcatAdjacentSubSeq
<1>3. {i \in 0 .. n - 1 : i % NBatch = 0} \cup {n} = {i \in 0 .. m - 1 : i % NBatch = 0}
  <2>1. \A i \in n .. (n + NBatch - 1) : i % NBatch = 0 => i = n
    BY BoundaryStep
  <2> HIDE DEF m
  <2> QED BY <1>1, <2>1, NBatchAssumption
<1>4. DecodeChunk(FreshAt(t, n), t, n) = FreshAt(t, m)
  BY <1>2, <1>3 DEF DecodeChunk, FreshAt
<1>5. m % NBatch = 0 \/ m = Len(t)
  BY <1>1, BoundaryStep
<1> QED BY <1>1, <1>4, <1>5

-----------------------------------------------------------------------------
(* PrefixScan: the loop *)

(* A batch has rows and tokens, and the loop stops with the shortest row.  *)
LEMMA BatchFacts ==
  ASSUME NEW rows \in Batches
  PROVE  /\ rows # <<>> /\ rows \in Seq(Seq(TokensIn(rows)))
         /\ Shortest(rows) \in Nat /\ 1 \in DOMAIN rows
<1>1. rows # <<>> /\ rows \in Seq(Seq(TokensIn(rows)))
  BY ScanAssumption
<1> DEFINE T == TokensIn(rows)
<1> HIDE DEF T
<1>2. rows # <<>> /\ rows \in Seq(Seq(T))
  BY <1>1 DEF T
<1>3. Shortest(rows) \in Nat /\ 1 \in DOMAIN rows
  BY <1>2, ShortestFacts
<1> QED BY <1>1, <1>3

(* The first disagreement ends the common prefix.                          *)
LEMMA FirstMismatch ==
  ASSUME NEW rows \in Batches, NEW n \in Nat, n < Shortest(rows),
         n + 1 \in Mismatches(rows), \A i \in 1 .. n : i \notin Mismatches(rows)
  PROVE  CommonPrefixLen(rows) = n
<1> DEFINE S == Mismatches(rows)
<1>1. S \in SUBSET Nat /\ S # {} /\ rows # <<>>
  <2>1. Shortest(rows) \in Nat /\ rows # <<>>
    BY BatchFacts
  <2>2. S \subseteq 1 .. Shortest(rows)
    BY DEF Mismatches
  <2>3. n + 1 \in S
    OBVIOUS
  <2> HIDE DEF S
  <2> QED BY <2>1, <2>2, <2>3
<1> HIDE DEF S
<1>2. Min(S) \in S /\ \A m \in S : Min(S) <= m
  BY <1>1, MinFacts
<1>3. n + 1 \in S /\ \A i \in 1 .. n : i \notin S
  BY DEF S
<1>4. 0 \notin S
  BY BatchFacts DEF S, Mismatches
<1>5. Min(S) \in Nat /\ Min(S) <= n + 1 /\ Min(S) \notin 1 .. n /\ Min(S) # 0
  BY <1>1, <1>2, <1>3, <1>4
<1>6. Min(S) = n + 1
  BY <1>5
<1>7. CommonPrefixLen(rows) = Min(S) - 1
  BY <1>1 DEF CommonPrefixLen, S
<1> QED BY <1>6, <1>7

(* What the loop has gone over is no mismatch.                             *)
LEMMA NoMismatch ==
  ASSUME ScanInv
  PROVE  \A i \in 1 .. index : i \notin Mismatches(batch)
BY DEF ScanInv, Agree, Mismatches

(* Every step of the loop keeps to what it has found out.                  *)
THEOREM ScanInvariance == ScanSpec => []ScanInv
<1>1. ScanInit => ScanInv
  BY BatchFacts DEF ScanInit, ScanInv, Limit, Returned
<1>2. ScanInv /\ [ScanNext]_scanVars => ScanInv'
  <2> SUFFICES ASSUME ScanInv, [ScanNext]_scanVars PROVE ScanInv'
    OBVIOUS
  <2>1. /\ batch \in Batches /\ hint \in Hints /\ index \in 0 .. Limit /\ Limit \in Nat
        /\ Limit = Shortest(batch)
        /\ \A i \in 1 .. index : Agree(i)
        /\ Returned => common = CommonPrefixLen(batch)
    BY BatchFacts DEF ScanInv, Limit
  <2>2. index \in Nat /\ index <= Limit
    BY <2>1
  <2>3. CASE Advance
    <3>1. /\ index' = index + 1 /\ index < Limit /\ Agree(index + 1)
          /\ UNCHANGED <<batch, hint, common>>
      BY <2>3 DEF Advance
    <3>2. Limit' = Limit /\ (Returned => common = CommonPrefixLen(batch))'
      BY <2>1, <3>1 DEF Limit, Returned
    <3>3. \A i \in 1 .. index + 1 : Agree(i)
      <4>1. \A i \in 1 .. index + 1 : i \in 1 .. index \/ i = index + 1
        BY <2>2
      <4> QED BY <2>1, <3>1, <4>1
    <3>4. index + 1 \in 0 .. Limit
      BY <2>1, <2>2, <3>1
    <3> QED BY <2>1, <3>1, <3>2, <3>3, <3>4 DEF ScanInv, Agree
  <2>4. CASE Differ
    <3>1. /\ index < Limit /\ ~Agree(index + 1) /\ common' = index
          /\ UNCHANGED <<batch, hint, index>>
      BY <2>4 DEF Differ
    <3>2. index + 1 \in 1 .. Shortest(batch)
      BY <2>1, <2>2, <3>1
    <3>3. index + 1 \in Mismatches(batch)
      BY <3>1, <3>2 DEF Agree, Mismatches
    <3>4. CommonPrefixLen(batch) = index
      BY <2>1, <2>2, <3>1, <3>3, NoMismatch, FirstMismatch
    <3> QED BY <2>1, <3>1, <3>4 DEF ScanInv, Limit, Agree
  <2>5. CASE Exhaust
    <3>1. /\ index >= Limit /\ common' = Limit /\ UNCHANGED <<batch, hint, index>>
      BY <2>5 DEF Exhaust
    <3>2. index = Shortest(batch)
      BY <2>1, <2>2, <3>1
    <3>3. Mismatches(batch) = {}
      BY <3>2, NoMismatch DEF Mismatches
    <3>4. CommonPrefixLen(batch) = Limit
      BY <2>1, <3>3, BatchFacts DEF CommonPrefixLen
    <3> QED BY <2>1, <3>1, <3>4 DEF ScanInv, Limit, Agree
  <2>6. CASE UNCHANGED scanVars
    BY <2>1, <2>6 DEF ScanInv, scanVars, Limit, Agree, Returned
  <2> QED BY <2>3, <2>4, <2>5, <2>6 DEF ScanNext
<1> QED BY <1>1, <1>2, PTL DEF ScanSpec

-----------------------------------------------------------------------------
(* PrefixScan: what a plan means for fresh evaluation *)

(* As many batches as fresh evaluation makes reach the end, and no fewer.  *)
LEMMA BatchesFacts ==
  ASSUME NEW T, NEW t \in Seq(T)
  PROVE  /\ BatchesOf(t) \in Nat /\ Len(t) \in Nat
         /\ Len(t) <= BatchesOf(t) * NBatch
         /\ \A k \in Nat : k < BatchesOf(t) => k * NBatch \in Nat /\ k * NBatch < Len(t)
<1> DEFINE n == Len(t)
           q == BatchesOf(t)
<1>1. n \in Nat /\ NBatch \in Nat /\ NBatch >= 1
  BY NBatchAssumption
<1>2. q = (n + NBatch - 1) \div NBatch
  BY DEF BatchesOf
<1> HIDE DEF n, q
<1> DEFINE d == n + NBatch - 1
<1>3. d \in Nat /\ d = n + NBatch - 1
  BY <1>1
<1> HIDE DEF d
<1>4. q = d \div NBatch
  BY <1>2 DEF d
<1>5. q \in Nat /\ q * NBatch <= d /\ d < q * NBatch + NBatch
  BY <1>1, <1>3, <1>4
<1>6. q * NBatch \in Nat
  BY <1>1, <1>5
<1>7. n <= q * NBatch /\ q * NBatch < n + NBatch
  BY <1>1, <1>3, <1>5, <1>6
<1>8. ASSUME NEW k \in Nat, k < q PROVE k * NBatch \in Nat /\ k * NBatch < n
  <2>1. k + 1 <= q
    BY <1>5, <1>8
  <2>2. (k + 1) * NBatch <= q * NBatch
    BY <1>1, <1>5, <2>1
  <2>3. (k + 1) * NBatch = k * NBatch + NBatch /\ k * NBatch \in Nat
    BY <1>1
  <2> QED BY <1>1, <1>6, <1>7, <2>2, <2>3
<1> QED BY <1>1, <1>5, <1>7, <1>8 DEF n, q

(* After k of its batches an evaluation has the tokens of k batches, or all *)
(* there are.                                                              *)
LEMMA AfterBatchesFacts ==
  ASSUME NEW T, NEW t \in Seq(T), NEW k \in Nat, k <= BatchesOf(t)
  PROVE  AfterBatches(t, k) = FreshAt(t, Lower(k * NBatch, Len(t)))
<1> DEFINE at(i) == FreshAt(t, Lower(i * NBatch, Len(t)))
           Step(f) == [i \in 0 .. k |-> IF i = 0 THEN EmptyState
                                        ELSE DecodeChunk(f[i - 1], t, (i - 1) * NBatch)]
           g == [i \in 0 .. k |-> at(i)]
<1>1. /\ Len(t) \in Nat /\ NBatch \in Nat \ {0} /\ BatchesOf(t) \in Nat
      /\ \A i \in Nat : i < BatchesOf(t) => i * NBatch \in Nat /\ i * NBatch < Len(t)
  BY BatchesFacts, NBatchAssumption
<1>2. at(0) = EmptyState
  <2>1. 0 * NBatch = 0 /\ Lower(0, Len(t)) = 0
    BY <1>1 DEF Lower
  <2> QED BY <2>1, FreshStart
<1>3. ASSUME NEW i \in Nat, i < k
      PROVE  DecodeChunk(at(i), t, i * NBatch) = at(i + 1)
  <2> DEFINE n == i * NBatch
  <2>1. n \in Nat /\ n < Len(t) /\ n % NBatch = 0
    <3>1. n \in Nat /\ n < Len(t)
      <4>1. i < BatchesOf(t)
        <5> HIDE DEF n
        <5> QED BY <1>1, <1>3
      <4> QED BY <1>1, <4>1, Zenon
    <3> QED BY <1>1, <3>1, Multiples
  <2>2. Lower(n, Len(t)) = n
    BY <1>1, <2>1 DEF Lower
  <2>3. (i + 1) * NBatch = n + NBatch
    BY <1>1
  <2> HIDE DEF n
  <2>4. DecodeChunk(FreshAt(t, n), t, n) = FreshAt(t, ChunkEnd(t, n))
    BY <2>1, DecodeStep
  <2> QED BY <2>2, <2>3, <2>4 DEF ChunkEnd, n
<1> HIDE DEF at
<1>4. g = Step(g)
  <2>1. \A i \in 0 .. k : i # 0 => i - 1 \in Nat /\ i - 1 < k /\ (i - 1) + 1 = i /\ i - 1 \in 0 .. k
    OBVIOUS
  <2>2. \A i \in 0 .. k : g[i] = IF i = 0 THEN EmptyState
                                 ELSE DecodeChunk(g[i - 1], t, (i - 1) * NBatch)
    BY <1>2, <1>3, <2>1
  <2> QED BY <2>2
<1>5. AfterBatches(t, k) = (CHOOSE f : f = Step(f))[k]
  BY DEF AfterBatches
<1> DEFINE run == CHOOSE f : f = Step(f)
<1>6. run = Step(run)
  BY <1>4
<1> HIDE DEF run
<1>7. /\ run[0] = EmptyState
      /\ \A i \in 0 .. k : i # 0 => run[i] = DecodeChunk(run[i - 1], t, (i - 1) * NBatch)
  BY <1>6
<1> DEFINE S == {n \in Nat : n <= k => run[n] = at(n)}
<1>8. 0 \in S
  BY <1>2, <1>7
<1>9. ASSUME NEW n \in Nat, n \in S PROVE n + 1 \in S
  <2> SUFFICES ASSUME n + 1 <= k PROVE run[n + 1] = at(n + 1)
    OBVIOUS
  <2>1. n < k /\ n + 1 \in 0 .. k /\ n + 1 # 0 /\ (n + 1) - 1 = n /\ run[n] = at(n)
    BY <1>9
  <2>2. run[n + 1] = DecodeChunk(run[(n + 1) - 1], t, ((n + 1) - 1) * NBatch)
    BY <1>7, <2>1
  <2>3. run[n + 1] = DecodeChunk(at(n), t, n * NBatch)
    BY <2>1, <2>2
  <2> QED BY <1>3, <2>1, <2>3
<1> HIDE DEF S
<1>10. k \in S
  BY <1>8, <1>9, CountingUp
<1> QED BY <1>5, <1>10 DEF S, run, at

(* A planned prefix is a state that the fresh evaluation of every row      *)
(* passes through (_shared_prefix_plan), for every batch of rows.          *)
THEOREM PlanOnFreshPath == ScanSpec => []PlanIsOnEveryFreshPath
<1>1. ScanInv => PlanIsOnEveryFreshPath
  <2> SUFFICES ASSUME ScanInv, Returned, Plan.prefixLen > 0, NEW r \in DOMAIN batch
               PROVE  /\ \E k \in 1 .. BatchesOf(batch[r]) :
                           AfterBatches(batch[r], k) = FreshAt(batch[1], Plan.prefixLen)
                      /\ AfterBatches(batch[r], BatchesOf(batch[r])) = Fresh(batch[r])
    BY DEF PlanIsOnEveryFreshPath
  <2> DEFINE T == TokensIn(batch)
             t == batch[r]
             n == Plan.prefixLen
  <2>1. batch # <<>> /\ batch \in Seq(Seq(T)) /\ hint \in Nat \cup {NoHint}
        /\ common = CommonPrefixLen(batch)
    BY BatchFacts, ScanAssumption DEF ScanInv
  <2> HIDE DEF T
  <2>2. t \in Seq(T) /\ Len(t) \in Nat
    BY <2>1
  <2>3. common \in Nat /\ common <= Len(t)
    BY <2>1, CommonPrefixFacts
  <2>4. n \in Nat /\ n <= common /\ n % NBatch = 0 /\ n > 0
    BY <2>1, <2>3, PlanFacts DEF Plan
  <2> HIDE DEF n
  <2>5. SubSeq(t, 1, n) = SubSeq(batch[1], 1, n)
    BY <2>1, <2>4, SharedPrefixFacts
  <2> HIDE DEF t
  <2>6. FreshAt(t, n) = FreshAt(batch[1], n)
    BY <2>5 DEF FreshAt
  <2>7. PICK k \in Nat : n = k * NBatch
    BY <2>4, Multiples
  <2>8. NBatch \in Nat /\ NBatch >= 1 /\ BatchesOf(t) \in Nat /\ Len(t) <= BatchesOf(t) * NBatch
    BY <2>2, BatchesFacts, NBatchAssumption
  <2>9. k # 0
    BY <2>4, <2>7, <2>8
  <2>10. k <= BatchesOf(t)
    <3>1. CASE k >= BatchesOf(t) + 1
      <4>1. k * NBatch >= (BatchesOf(t) + 1) * NBatch
        BY <2>8, <3>1
      <4>2. (BatchesOf(t) + 1) * NBatch = BatchesOf(t) * NBatch + NBatch
            /\ BatchesOf(t) * NBatch \in Nat
        BY <2>8
      <4> QED BY <2>2, <2>3, <2>4, <2>7, <2>8, <4>1, <4>2
    <3> QED BY <2>8, <3>1
  <2>11. AfterBatches(t, k) = FreshAt(t, n)
    <3>1. Lower(n, Len(t)) = n
      BY <2>2, <2>3, <2>4 DEF Lower
    <3> QED BY <2>2, <2>7, <2>10, <3>1, AfterBatchesFacts
  <2>12. AfterBatches(t, BatchesOf(t)) = Fresh(t)
    <3>1. BatchesOf(t) * NBatch \in Nat
      BY <2>8
    <3>2. Lower(BatchesOf(t) * NBatch, Len(t)) = Len(t)
      BY <2>2, <2>8, <3>1 DEF Lower
    <3>3. BatchesOf(t) <= BatchesOf(t)
      BY <2>8
    <3> QED BY <2>2, <2>8, <3>2, <3>3, AfterBatchesFacts DEF Fresh
  <2>13. k \in 1 .. BatchesOf(t)
    BY <2>8, <2>9, <2>10
  <2> QED BY <2>6, <2>11, <2>12, <2>13 DEF t, n
<1> QED BY <1>1, ScanInvariance, PTL

(* What the loop returns is the longest common prefix, and no later batch  *)
(* boundary than the planned one lies within it, or within the hint.       *)
THEOREM PlanLongest == ScanSpec => []PlanIsLongest
<1>1. ScanInv => PlanIsLongest
  <2> SUFFICES ASSUME ScanInv, Returned
               PROVE  /\ common = CommonPrefixLen(batch)
                      /\ common >= NBatch =>
                           \/ Plan.cacheLen # NoHint /\ hint < Plan.cacheLen + NBatch
                           \/ common < Plan.prefixLen + NBatch
    BY DEF PlanIsLongest
  <2>1. common = CommonPrefixLen(batch)
    BY DEF ScanInv
  <2>2. batch # <<>> /\ batch \in Seq(Seq(TokensIn(batch))) /\ hint \in Nat \cup {NoHint}
    BY BatchFacts, ScanAssumption DEF ScanInv
  <2>3. common \in Nat
    BY <2>1, <2>2, CommonPrefixFacts
  <2>4. NBatch \in Nat /\ NBatch >= 1 /\ NoHint \notin Int
    BY NBatchAssumption, NoHintAssumption
  <2> SUFFICES ASSUME common >= NBatch
               PROVE  \/ Plan.cacheLen # NoHint /\ hint < Plan.cacheLen + NBatch
                      \/ common < Plan.prefixLen + NBatch
    BY <2>1
  <2> DEFINE reusable == IF hint = NoHint THEN 0 ELSE Aligned(Lower(common, hint))
  <2>5. Plan = IF reusable > 0 THEN [prefixLen |-> reusable, cacheLen |-> reusable]
               ELSE [prefixLen |-> Aligned(common), cacheLen |-> NoHint]
    BY <2>3, <2>4 DEF Plan, SharedPrefixPlan
  <2>6. Aligned(common) \in Nat /\ common < Aligned(common) + NBatch
    BY <2>3, AlignedFacts
  <2>7. CASE reusable > 0
    <3>1. hint # NoHint /\ hint \in Nat
      BY <2>2, <2>7
    <3>2. reusable = Aligned(Lower(common, hint))
      BY <3>1
    <3>3. Lower(common, hint) \in Nat
      BY <2>3, <3>1 DEF Lower
    <3>4. reusable \in Nat /\ Lower(common, hint) < reusable + NBatch
      BY <3>2, <3>3, AlignedFacts
    <3>5. Plan.cacheLen = reusable /\ Plan.prefixLen = reusable
      BY <2>5, <2>7
    <3> HIDE DEF reusable
    <3>6. Lower(common, hint) = common \/ Lower(common, hint) = hint
      BY DEF Lower
    <3> QED BY <2>4, <3>4, <3>5, <3>6
  <2>8. CASE ~(reusable > 0)
    <3>1. Plan.prefixLen = Aligned(common)
      BY <2>5, <2>8
    <3> QED BY <2>6, <3>1
  <2> QED BY <2>7, <2>8
<1> QED BY <1>1, ScanInvariance, PTL

(* Rows that agree up to some length have at least that much in common.    *)
LEMMA CommonPrefixAtLeast ==
  ASSUME NEW T, NEW rows \in Seq(Seq(T)), rows # <<>>, NEW n \in Nat,
         \A r \in DOMAIN rows : n <= Len(rows[r]) /\ \A i \in 1 .. n : rows[r][i] = rows[1][i]
  PROVE  CommonPrefixLen(rows) \in Nat /\ n <= CommonPrefixLen(rows)
<1>1. CommonPrefixLen(rows) \in Nat /\ Shortest(rows) \in Nat
  BY CommonPrefixFacts, ShortestFacts
<1>2. n <= Shortest(rows)
  <2> DEFINE L == {Len(rows[r]) : r \in DOMAIN rows}
  <2>1. \A r \in DOMAIN rows : Len(rows[r]) \in Nat
    <3> TAKE r \in DOMAIN rows
    <3>1. rows[r] \in Seq(T)
      OBVIOUS
    <3> QED BY <3>1
  <2>2. 1 \in DOMAIN rows
    OBVIOUS
  <2>3. L \in SUBSET Nat /\ L # {} /\ \A m \in L : n <= m
    BY <2>1, <2>2
  <2>4. Shortest(rows) = Min(L)
    BY DEF Shortest
  <2> HIDE DEF L
  <2> QED BY <2>3, <2>4, MinFacts
<1> DEFINE S == Mismatches(rows)
<1>3. S \subseteq 1 .. Shortest(rows) /\ \A i \in 1 .. n : i \notin S
  BY DEF Mismatches
<1>4. CommonPrefixLen(rows) = IF S = {} THEN Shortest(rows) ELSE Min(S) - 1
  BY DEF CommonPrefixLen
<1> HIDE DEF S
<1>5. CASE S = {}
  BY <1>1, <1>2, <1>4, <1>5
<1>6. CASE S # {}
  <2>1. S \in SUBSET Nat
    BY <1>1, <1>3
  <2>2. Min(S) \in S
    BY <1>6, <2>1, MinFacts
  <2>3. Min(S) \in 1 .. Shortest(rows) /\ Min(S) \notin 1 .. n
    BY <1>3, <2>2
  <2> QED BY <1>1, <1>4, <1>6, <2>3
<1> QED BY <1>1, <1>5, <1>6

(* A sequence of elements of a set is one of elements of a larger set.     *)
LEMMA WiderSeq == ASSUME NEW V, NEW W, V \subseteq W, NEW s \in Seq(V) PROVE s \in Seq(W)
OBVIOUS

(* The key of a batch is made of hinted tokens only: other candidates over  *)
(* the same stable text have the same plan and the same key.               *)
THEOREM KeyIsOfHint == ScanSpec => []KeyIndependentOfCandidates
<1>1. ScanInv => KeyIndependentOfCandidates
  <2> SUFFICES ASSUME ScanInv, Returned, hint # NoHint, common >= hint,
                      NEW x \in Continuations, NEW y \in Continuations,
                      Plan.cacheLen # NoHint, NEW stable, stable = SubSeq(batch[1], 1, hint),
                      NEW other, other = << stable \o x, stable \o y >>,
                      NEW again, again = SharedPrefixPlan(CommonPrefixLen(other), hint)
               PROVE  /\ again.cacheLen = Plan.cacheLen
                      /\ SubSeq(other[1], 1, again.cacheLen) = SubSeq(batch[1], 1, Plan.cacheLen)
    BY DEF KeyIndependentOfCandidates
  <2> DEFINE T == TokensIn(batch)
             U == T \cup TokensIn(<<x>>) \cup TokensIn(<<y>>)
             n == Aligned(hint)
  <2>1. /\ batch # <<>> /\ batch \in Seq(Seq(T)) /\ hint \in Nat
        /\ common = CommonPrefixLen(batch)
        /\ x \in Seq(TokensIn(<<x>>)) /\ y \in Seq(TokensIn(<<y>>))
    BY BatchFacts, ScanAssumption DEF ScanInv
  <2>2. NBatch \in Nat /\ NBatch >= 1 /\ NoHint \notin Int
    BY NBatchAssumption, NoHintAssumption
  <2>3. batch[1] \in Seq(T) /\ x \in Seq(U) /\ y \in Seq(U) /\ batch[1] \in Seq(U)
    <3>1. T \subseteq U /\ TokensIn(<<x>>) \subseteq U /\ TokensIn(<<y>>) \subseteq U
      OBVIOUS
    <3> HIDE DEF T, U
    <3>2. batch[1] \in Seq(T)
      BY <2>1
    <3> QED BY <2>1, <3>1, <3>2, WiderSeq
  <2> HIDE DEF T, U
  <2>4. common \in Nat /\ common <= Len(batch[1]) /\ Len(batch[1]) \in Nat
    BY <2>1, <2>3, CommonPrefixFacts
  <2>5. /\ stable \in Seq(U) /\ Len(stable) = hint
        /\ \A i \in 1 .. hint : stable[i] = batch[1][i]
    <3>1. hint <= Len(batch[1])
      BY <2>1, <2>4
    <3>2. \A i \in 1 .. hint : batch[1][i] \in U
      BY <2>1, <2>3, <2>4, <3>1
    <3>3. /\ SubSeq(batch[1], 1, hint) \in Seq(U)
          /\ Len(SubSeq(batch[1], 1, hint)) = IF 1 <= hint THEN hint - 1 + 1 ELSE 0
          /\ \A i \in 1 .. hint - 1 + 1 : SubSeq(batch[1], 1, hint)[i] = batch[1][1 + i - 1]
      BY <2>1, <3>2, SubSeqProperties
    <3> QED BY <2>1, <3>3
  <2>6. ASSUME NEW z \in Seq(U)
        PROVE  /\ stable \o z \in Seq(U) /\ Len(stable \o z) \in Nat /\ hint <= Len(stable \o z)
               /\ \A i \in 1 .. hint : (stable \o z)[i] = batch[1][i]
    <3>1. Len(z) \in Nat
      OBVIOUS
    <3>2. /\ stable \o z \in Seq(U) /\ Len(stable \o z) = Len(stable) + Len(z)
          /\ \A i \in 1 .. Len(stable) + Len(z) :
               (stable \o z)[i] = IF i <= Len(stable) THEN stable[i] ELSE z[i - Len(stable)]
      BY <2>5, ConcatProperties
    <3> QED BY <2>1, <2>5, <3>1, <3>2
  <2>7. /\ other \in Seq(Seq(U)) /\ other # <<>> /\ DOMAIN other = 1 .. 2
        /\ other[1] = stable \o x /\ other[2] = stable \o y
    <3> DEFINE a == stable \o x
               b == stable \o y
    <3>1. a \in Seq(U) /\ b \in Seq(U) /\ other = <<a, b>>
      BY <2>3, <2>6
    <3> HIDE DEF a, b
    <3>2. other \in Seq(Seq(U)) /\ other # <<>> /\ DOMAIN other = 1 .. 2
          /\ other[1] = a /\ other[2] = b
      <4> DEFINE W == Seq(U)
      <4>1. a \in W /\ b \in W
        BY <3>1
      <4> HIDE DEF W
      <4>2. <<a, b>> \in Seq(W) /\ <<a, b>> # <<>> /\ DOMAIN <<a, b>> = 1 .. 2
            /\ <<a, b>>[1] = a /\ <<a, b>>[2] = b
        BY <4>1
      <4> QED BY <3>1, <4>2 DEF W
    <3> QED BY <3>2 DEF a, b
  <2>8. \A r \in DOMAIN other : hint <= Len(other[r])
          /\ \A i \in 1 .. hint : other[r][i] = other[1][i]
    <3> TAKE r \in DOMAIN other
    <3>1. r = 1 \/ r = 2
      BY <2>7
    <3>2. PICK z \in {x, y} : other[r] = stable \o z
      BY <2>7, <3>1
    <3>3. hint <= Len(other[r]) /\ \A i \in 1 .. hint : other[r][i] = batch[1][i]
      BY <2>3, <2>6, <3>2
    <3>4. \A i \in 1 .. hint : other[1][i] = batch[1][i]
      BY <2>3, <2>6, <2>7
    <3> QED BY <3>3, <3>4
  <2>9. CommonPrefixLen(other) \in Nat /\ hint <= CommonPrefixLen(other)
    BY <2>1, <2>7, <2>8, CommonPrefixAtLeast
  <2>10. Lower(common, hint) = hint /\ Lower(CommonPrefixLen(other), hint) = hint
    BY <2>1, <2>4, <2>9 DEF Lower
  <2>11. n \in Nat /\ n <= hint /\ n % NBatch = 0
    BY <2>1, AlignedFacts
  <2>12. n > 0 /\ Plan.cacheLen = n
    BY <2>10, <2>11 DEF Plan, SharedPrefixPlan
  <2> HIDE DEF n
  <2>13. n >= NBatch
    <3>1. PICK q \in Nat : n = q * NBatch
      BY <2>11, Multiples
    <3>2. q >= 1
      BY <2>2, <2>12, <3>1
    <3>3. q * NBatch >= 1 * NBatch
      BY <2>2, <3>2
    <3> QED BY <2>2, <3>1, <3>3
  <2>14. again.cacheLen = n
    <3>1. ~(CommonPrefixLen(other) < NBatch)
      BY <2>1, <2>2, <2>9, <2>11, <2>13
    <3> QED BY <2>10, <2>12, <3>1 DEF SharedPrefixPlan, n
  <2>15. SubSeq(other[1], 1, n) = SubSeq(batch[1], 1, n)
    <3> DEFINE o == other[1]
               a == SubSeq(o, 1, n)
               b == SubSeq(batch[1], 1, n)
    <3>1. \A i \in 1 .. n : other[1][i] = batch[1][i] /\ batch[1][i] \in U
      <4>1. hint <= Len(batch[1])
        BY <2>1, <2>4
      <4>2. \A i \in 1 .. n : i \in 1 .. hint /\ i \in 1 .. Len(batch[1])
        BY <2>1, <2>4, <2>11, <4>1
      <4> QED BY <2>3, <2>6, <2>7, <4>2
    <3>2. /\ b \in Seq(U) /\ Len(b) = IF 1 <= n THEN n - 1 + 1 ELSE 0
          /\ \A i \in 1 .. n - 1 + 1 : b[i] = batch[1][1 + i - 1]
      BY <2>11, <3>1, SubSeqProperties
    <3>3. /\ a \in Seq(U) /\ Len(a) = IF 1 <= n THEN n - 1 + 1 ELSE 0
          /\ \A i \in 1 .. n - 1 + 1 : a[i] = o[1 + i - 1]
      <4>1. \A i \in 1 .. n : o[i] \in U
        BY <3>1
      <4> HIDE DEF o
      <4> QED BY <2>11, <4>1, SubSeqProperties
    <3> HIDE DEF a, b
    <3>4. Len(a) = n /\ Len(b) = n
      BY <2>11, <2>12, <3>2, <3>3
    <3>5. \A i \in 1 .. n : a[i] = b[i]
      <4> TAKE i \in 1 .. n
      <4>1. i \in 1 .. n - 1 + 1 /\ 1 + i - 1 = i
        BY <2>11
      <4>2. a[i] = other[1][i]
        BY <3>3, <4>1
      <4>3. b[i] = batch[1][i]
        BY <3>2, <4>1
      <4> QED BY <3>1, <4>2, <4>3
    <3>6. a = b
      BY <3>2, <3>3, <3>4, <3>5, SeqEqual
    <3> QED BY <3>6 DEF a, b
  <2> QED BY <2>12, <2>14, <2>15
<1> QED BY <1>1, ScanInvariance, PTL

-----------------------------------------------------------------------------
(* Padded batches of the reference backend. *)

(* Every row fits in the tensor.                                           *)
LEMMA RowsFit ==
  ASSUME NEW V, NEW rows \in Seq(Seq(V)), NEW r \in DOMAIN rows
  PROVE  MaxLength(rows) \in Nat /\ Len(rows[r]) \in Nat /\ Len(rows[r]) <= MaxLength(rows)
<1>1. DOMAIN rows = 1 .. Len(rows) /\ Len(rows) \in Nat
  OBVIOUS
<1>2. \A k \in DOMAIN rows : Len(rows[k]) \in Nat
  OBVIOUS
<1> DEFINE lengths == {Len(rows[k]) : k \in DOMAIN rows}
           Longest(n) == \E m \in 1 .. n : \A k \in 1 .. n : Len(rows[m]) >= Len(rows[k])
           Reached == {n \in Nat : n + 1 <= Len(rows) => Longest(n + 1)}
<1>3. 0 \in Reached
  BY <1>1, <1>2
<1>4. ASSUME NEW n \in Nat, n \in Reached PROVE n + 1 \in Reached
  <2> SUFFICES ASSUME n + 2 <= Len(rows) PROVE Longest(n + 2)
    OBVIOUS
  <2>1. PICK m \in 1 .. n + 1 : \A k \in 1 .. n + 1 : Len(rows[m]) >= Len(rows[k])
    BY <1>1, <1>4
  <2>2. m \in 1 .. n + 2 /\ n + 2 \in 1 .. n + 2 /\ \A k \in 1 .. n + 2 : k = n + 2 \/ k \in 1 .. n + 1
    OBVIOUS
  <2>3. \A k \in 1 .. n + 2 : k \in DOMAIN rows /\ Len(rows[k]) \in Nat
    BY <1>1, <1>2
  <2>4. CASE Len(rows[m]) >= Len(rows[n + 2])
    BY <2>1, <2>2, <2>4
  <2>5. CASE ~(Len(rows[m]) >= Len(rows[n + 2]))
    <3>1. \A k \in 1 .. n + 2 : Len(rows[n + 2]) >= Len(rows[k])
      BY <2>1, <2>2, <2>3, <2>5
    <3> QED BY <2>2, <3>1
  <2> QED BY <2>4, <2>5
<1>5. Nat \subseteq Reached
  <2> HIDE DEF Reached
  <2> QED BY <1>3, <1>4, CountingUp
<1>6. Longest(Len(rows))
  <2>1. Len(rows) - 1 \in Nat /\ (Len(rows) - 1) + 1 = Len(rows)
    BY <1>1
  <2>2. Len(rows) - 1 \in Reached
    BY <1>5, <2>1
  <2> QED BY <2>1, <2>2
<1>7. \E x \in lengths : \A y \in lengths : x >= y
  BY <1>1, <1>6
<1>8. Max(lengths) \in lengths /\ \A y \in lengths : Max(lengths) >= y
  BY <1>7 DEF Max
<1> QED BY <1>2, <1>8 DEF MaxLength

(* The tokens that any row asks for are finitely many.                     *)
LEMMA FinitelyManyTokens ==
  ASSUME NEW V, NEW rows \in Seq(Seq(V))
  PROVE  IsFiniteSet(UNION {ToSet(rows[r]) : r \in DOMAIN rows})
<1> DEFINE Upto(n) == UNION {ToSet(rows[r]) : r \in 1 .. n}
           Reached == {n \in Nat : n <= Len(rows) => IsFiniteSet(Upto(n))}
<1>1. DOMAIN rows = 1 .. Len(rows) /\ Len(rows) \in Nat
  OBVIOUS
<1>2. 0 \in Reached
  <2>1. Upto(0) = {}
    OBVIOUS
  <2> QED BY <2>1, FS_EmptySet
<1>3. ASSUME NEW n \in Nat, n \in Reached PROVE n + 1 \in Reached
  <2> SUFFICES ASSUME n + 1 <= Len(rows) PROVE IsFiniteSet(Upto(n + 1))
    OBVIOUS
  <2>1. IsFiniteSet(Upto(n))
    BY <1>1, <1>3
  <2> DEFINE row == rows[n + 1]
  <2>2. row \in Seq(V) /\ DOMAIN row = 1 .. Len(row) /\ Len(row) \in Nat
    BY <1>1
  <2>3. IsFiniteSet(ToSet(row))
    <3> HIDE DEF row
    <3>1. row \in Surjection(1 .. Len(row), ToSet(row))
      BY <2>2 DEF Surjection, ToSet
    <3>2. IsFiniteSet(1 .. Len(row))
      BY <2>2, FS_Interval
    <3> QED BY <3>1, <3>2, FS_Surjection
  <2>4. Upto(n + 1) = Upto(n) \cup ToSet(row)
    <3>1. 1 .. n + 1 = (1 .. n) \cup {n + 1}
      OBVIOUS
    <3> QED BY <3>1
  <2> HIDE DEF Upto, row
  <2>5. IsFiniteSet(Upto(n) \cup ToSet(row))
    BY <2>1, <2>3, FS_Union, Zenon
  <2> QED BY <2>4, <2>5, Zenon
<1>4. Nat \subseteq Reached
  <2> HIDE DEF Reached
  <2> QED BY <1>2, <1>3, CountingUp
<1>5. Len(rows) \in Reached
  BY <1>1, <1>4
<1>6. IsFiniteSet(Upto(Len(rows)))
  <2> HIDE DEF Upto
  <2> QED BY <1>1, <1>5
<1> QED BY <1>1, <1>6, Zenon

(* Of the projection on the tokens of all rows, a row picks its own.       *)
LEMMA RowPicksItsOwn ==
  ASSUME NEW V, NEW tokenIds \in Seq(Seq(V)), NEW hidden, DOMAIN hidden = DOMAIN tokenIds
  PROVE  ProjectSelected(hidden, tokenIds) =
           [r \in DOMAIN tokenIds |-> [k \in DOMAIN tokenIds[r] |-> <<hidden[r], tokenIds[r][k]>>]]
<1> DEFINE wanted == UNION {ToSet(tokenIds[r]) : r \in DOMAIN tokenIds}
           unique == SetToSeq(wanted)
           At(token) == CHOOSE k \in DOMAIN unique : unique[k] = token
<1>1. \A x \in wanted : \E k \in DOMAIN unique : unique[k] = x
  <2>1. IsFiniteSet(wanted)
    BY FinitelyManyTokens
  <2> HIDE DEF wanted
  <2> QED BY <2>1, ListedOnce
<1>2. \A r \in DOMAIN tokenIds : \A k \in DOMAIN tokenIds[r] : tokenIds[r][k] \in wanted
  BY DEF ToSet
<1>3. wanted \subseteq ToSet(unique)
  <2> HIDE DEF wanted, unique
  <2> QED BY <1>1 DEF ToSet
<1>4. \A x \in wanted : At(x) \in DOMAIN unique /\ unique[At(x)] = x
  <2> HIDE DEF wanted, unique
  <2> QED BY <1>1
<1> DEFINE values == [r \in DOMAIN hidden |-> [k \in DOMAIN unique |-> <<hidden[r], unique[k]>>]]
           offset == [token \in ToSet(unique) |-> At(token)]
<1>5. \A r \in DOMAIN tokenIds : \A k \in DOMAIN tokenIds[r] :
        values[r][offset[tokenIds[r][k]]] = <<hidden[r], tokenIds[r][k]>>
  <2> SUFFICES ASSUME NEW r \in DOMAIN tokenIds, NEW k \in DOMAIN tokenIds[r]
               PROVE  values[r][offset[tokenIds[r][k]]] = <<hidden[r], tokenIds[r][k]>>
    OBVIOUS
  <2>1. tokenIds[r][k] \in wanted
    BY <1>2
  <2> DEFINE token == tokenIds[r][k]
  <2> HIDE DEF wanted, unique, token, At
  <2>2. offset[token] = At(token) /\ At(token) \in DOMAIN unique /\ unique[At(token)] = token
    BY <1>3, <1>4, <2>1 DEF token
  <2> QED BY <2>2 DEF token
<1>6. ProjectSelected(hidden, tokenIds) =
        [r \in DOMAIN tokenIds |-> [k \in DOMAIN tokenIds[r] |-> values[r][offset[tokenIds[r][k]]]]]
  BY DEF ProjectSelected
<1> HIDE DEF values, offset
<1> QED BY <1>5, <1>6

(* What is read of a row of a padded tensor is what it says by itself.     *)
LEMMA PaddingIsUnseen ==
  ASSUME NEW V, NEW rows \in Seq(Seq(V)), NEW r \in DOMAIN rows, rows[r] # <<>>, NEW filler
  PROVE  Hidden(Ids(rows, filler)[r], Mask(rows)[r], LastIndices(rows)[r]) =
           << rows[r][Len(rows[r])], [j \in 1 .. Len(rows[r]) |-> rows[r][j]] >>
<1> DEFINE n == Len(rows[r])
           ids == Ids(rows, filler)[r]
           mask == Mask(rows)[r]
<1>1. n \in Nat /\ n >= 1 /\ MaxLength(rows) \in Nat /\ n <= MaxLength(rows)
  <2>1. rows[r] \in Seq(V)
    OBVIOUS
  <2> QED BY <2>1, RowsFit
<1>2. \A j \in 1 .. n : ids[j] = rows[r][j] /\ mask[j]
  <2> TAKE j \in 1 .. n
  <2>1. j \in 1 .. MaxLength(rows) /\ j <= Len(rows[r])
    BY <1>1
  <2>2. ids = [i \in 1 .. MaxLength(rows) |-> IF i <= Len(rows[r]) THEN rows[r][i] ELSE filler]
    BY DEF Ids
  <2>3. mask = [i \in 1 .. MaxLength(rows) |-> i <= Len(rows[r])]
    BY DEF Mask
  <2> HIDE DEF ids, mask, n
  <2>4. ids[j] = rows[r][j]
    BY <2>1, <2>2
  <2>5. mask[j]
    BY <2>1, <2>3
  <2> QED BY <2>4, <2>5
<1>3. LastIndices(rows)[r] = n
  BY DEF LastIndices
<1> HIDE DEF n, ids, mask
<1>4. {j \in 1 .. n : mask[j]} = 1 .. n
  BY <1>2
<1>5. n \in 1 .. n
  BY <1>1
<1>6. Hidden(ids, mask, n) = << ids[n], [j \in 1 .. n |-> ids[j]] >>
  BY <1>4 DEF Hidden
<1>7. Hidden(ids, mask, n) = << rows[r][n], [j \in 1 .. n |-> rows[r][j]] >>
  BY <1>2, <1>5, <1>6
<1> QED BY <1>3, <1>7 DEF n, ids, mask

(* What a row says by itself of the tokens asked for.                      *)
RowLogits(row, tokens) ==
  [k \in DOMAIN tokens |->
     << << row[Len(row)], [j \in 1 .. Len(row) |-> row[j]] >>, tokens[k] >>]

LogitsByRow(rows, tokenIds) == [r \in DOMAIN rows |-> RowLogits(rows[r], tokenIds[r])]

(* The logits of a batch are what its rows say by themselves.              *)
LEMMA LogitsOfRows ==
  ASSUME NEW V, NEW rows \in Seq(Seq(V)), <<>> \notin ToSet(rows),
         NEW W, NEW tokenIds \in Seq(Seq(W)), Len(tokenIds) = Len(rows), NEW pad, NEW eos
  PROVE  BatchNextTokenLogits(rows, tokenIds, pad, eos) = LogitsByRow(rows, tokenIds)
<1> DEFINE filler == PadToken(pad, eos)
           read == [r \in DOMAIN rows |->
                      Hidden(Ids(rows, filler)[r], Mask(rows)[r], LastIndices(rows)[r])]
<1>1. DOMAIN tokenIds = DOMAIN rows
  OBVIOUS
<1>2. \A r \in DOMAIN rows :
        read[r] = << rows[r][Len(rows[r])], [j \in 1 .. Len(rows[r]) |-> rows[r][j]] >>
  <2>1. \A r \in DOMAIN rows : rows[r] # <<>>
    BY DEF ToSet
  <2> QED BY <2>1, PaddingIsUnseen
<1>3. BatchNextTokenLogits(rows, tokenIds, pad, eos) = ProjectSelected(read, tokenIds)
  BY DEF BatchNextTokenLogits
<1>4. DOMAIN read = DOMAIN tokenIds
  BY <1>1
<1> HIDE DEF read
<1>5. ProjectSelected(read, tokenIds) =
        [r \in DOMAIN tokenIds |-> [k \in DOMAIN tokenIds[r] |-> <<read[r], tokenIds[r][k]>>]]
  BY <1>4, RowPicksItsOwn
<1>6. ASSUME NEW r \in DOMAIN rows
      PROVE  [k \in DOMAIN tokenIds[r] |-> <<read[r], tokenIds[r][k]>>] =
               RowLogits(rows[r], tokenIds[r])
  BY <1>2 DEF RowLogits
<1> QED BY <1>1, <1>3, <1>5, <1>6 DEF LogitsByRow

(* A batch is refused exactly when one of its rows would be, and otherwise  *)
(* answers as its rows do.                                                 *)
LEMMA BatchIsItsRows ==
  ASSUME NEW V, NEW rows \in Seq(Seq(V)), rows # <<>>,
         NEW W, NEW tokenIds \in Seq(Seq(W)), Len(tokenIds) = Len(rows), NEW pad, NEW eos
  PROVE  RowByRow(rows, tokenIds, pad, eos)
<1>1. DOMAIN rows = 1 .. Len(rows) /\ DOMAIN tokenIds = DOMAIN rows /\ 1 \in DOMAIN rows
  OBVIOUS
<1>2. ASSUME NEW row, NEW tokens
      PROVE  Invalid(<<row>>, <<tokens>>, pad, eos) <=>
               row = <<>> \/ tokens = <<>> \/ PadToken(pad, eos) = NoToken
  <2>1. ToSet(<<row>>) = {row} /\ ToSet(<<tokens>>) = {tokens}
    <3>1. ASSUME NEW x PROVE ToSet(<<x>>) = {x}
      <4>1. DOMAIN <<x>> = {1} /\ <<x>>[1] = x
        OBVIOUS
      <4> QED BY <4>1 DEF ToSet
    <3> QED BY <3>1
  <2>2. Len(<<row>>) = Len(<<tokens>>) /\ <<row>> # <<>>
    OBVIOUS
  <2> QED BY <2>1, <2>2 DEF Invalid
<1>3. <<>> \in ToSet(rows) \cup ToSet(tokenIds) <=>
        \E r \in DOMAIN rows : rows[r] = <<>> \/ tokenIds[r] = <<>>
  BY <1>1 DEF ToSet
<1>4. Invalid(rows, tokenIds, pad, eos) <=>
        \/ \E r \in DOMAIN rows : rows[r] = <<>> \/ tokenIds[r] = <<>>
        \/ PadToken(pad, eos) = NoToken
  BY <1>3 DEF Invalid
<1>5. Invalid(rows, tokenIds, pad, eos) <=>
        \E r \in DOMAIN rows : Invalid(<<rows[r]>>, <<tokenIds[r]>>, pad, eos)
  BY <1>1, <1>2, <1>4
<1>6. ASSUME NEW r \in DOMAIN rows, ~Invalid(rows, tokenIds, pad, eos)
      PROVE  NextTokenLogits(rows[r], tokenIds[r], pad, eos) = RowLogits(rows[r], tokenIds[r])
  <2> DEFINE row == rows[r]
             tokens == tokenIds[r]
             oneRow == <<row>>
             oneTokens == <<tokens>>
  <2>1. row \in Seq(V) /\ tokens \in Seq(W) /\ row # <<>>
    BY <1>1, <1>4, <1>6
  <2>2. oneRow \in Seq(Seq(V)) /\ oneTokens \in Seq(Seq(W)) /\ Len(oneTokens) = Len(oneRow)
    BY <2>1
  <2>3. DOMAIN oneRow = {1} /\ oneRow[1] = row /\ oneTokens[1] = tokens
    OBVIOUS
  <2> HIDE DEF row, tokens, oneRow, oneTokens
  <2>4. <<>> \notin ToSet(oneRow)
    BY <2>1, <2>3 DEF ToSet
  <2>5. BatchNextTokenLogits(oneRow, oneTokens, pad, eos) = LogitsByRow(oneRow, oneTokens)
    BY <2>2, <2>4, LogitsOfRows
  <2>6. BatchNextTokenLogits(oneRow, oneTokens, pad, eos)[1] = RowLogits(row, tokens)
    BY <2>3, <2>5 DEF LogitsByRow
  <2> QED BY <2>6 DEF NextTokenLogits, oneRow, oneTokens, row, tokens
<1>7. ASSUME ~Invalid(rows, tokenIds, pad, eos)
      PROVE  BatchNextTokenLogits(rows, tokenIds, pad, eos) = LogitsByRow(rows, tokenIds)
  <2>1. <<>> \notin ToSet(rows)
    BY <1>7 DEF Invalid
  <2> QED BY <2>1, LogitsOfRows
<1>8. ASSUME ~Invalid(rows, tokenIds, pad, eos)
      PROVE  LogitsByRow(rows, tokenIds) =
               [r \in DOMAIN rows |-> NextTokenLogits(rows[r], tokenIds[r], pad, eos)]
  BY <1>6, <1>8 DEF LogitsByRow
<1> QED BY <1>5, <1>7, <1>8, Zenon DEF RowByRow

(* Padding and the shared projection change nothing: a batch is refused    *)
(* when a row of it would be, and otherwise answers as its rows do one by  *)
(* one, for all prompts, tokens to score and filler tokens.                *)
THEOREM BatchAnswersRowByRow == ScanSpec => []QwenBatchIsRowByRow
<1>1. ScanInv => QwenBatchIsRowByRow
  <2> SUFFICES ASSUME batch \in Batches,
                      NEW tokenIds \in [DOMAIN batch -> CandidateRows], NEW special \in PadAndEos
               PROVE  RowByRow(batch, tokenIds, special[1], special[2])
    BY DEF ScanInv, QwenBatchIsRowByRow
  <2> DEFINE V == TokensIn(batch)
             W == UNION {TokensIn(<<tokens>>) : tokens \in CandidateRows}
             pad == special[1]
             eos == special[2]
  <2>1. batch # <<>> /\ batch \in Seq(Seq(V))
    BY ScanAssumption
  <2>2. CandidateRows \subseteq Seq(W)
    <3> SUFFICES ASSUME NEW tokens \in CandidateRows PROVE tokens \in Seq(W)
      OBVIOUS
    <3>1. tokens \in Seq(TokensIn(<<tokens>>))
      BY QwenAssumption
    <3>2. TokensIn(<<tokens>>) \subseteq W
      OBVIOUS
    <3> HIDE DEF W
    <3> QED BY <3>1, <3>2, WiderSeq
  <2> HIDE DEF V, W, pad, eos
  <2>3. DOMAIN batch = 1 .. Len(batch) /\ Len(batch) \in Nat
    BY <2>1
  <2>4. tokenIds \in Seq(Seq(W)) /\ Len(tokenIds) = Len(batch)
    <3>1. tokenIds \in [1 .. Len(batch) -> Seq(W)]
      BY <2>2, <2>3
    <3> QED BY <2>3, <3>1
  <2>5. RowByRow(batch, tokenIds, pad, eos)
    BY <2>1, <2>4, BatchIsItsRows
  <2> QED BY <2>5 DEF pad, eos
<1> QED BY <1>1, ScanInvariance, PTL
=============================================================================
