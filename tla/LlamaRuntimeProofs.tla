------------------------- MODULE LlamaRuntimeProofs -------------------------
(***************************************************************************)
(* Proofs about LlamaRuntime, for every batch size, context size, cache    *)
(* limit and set of calls whose hints end before their rows do.            *)
(*                                                                         *)
(* IInv is preserved by every step; each lemma of the first half proves it *)
(* for one action, one step per part of the invariant.  In the second half *)
(* the books (Books) are kept by every step of a state that satisfies      *)
(* IInv, every step is one of the oracle's, and the cache is the recent    *)
(* end of the history of its keys.                                         *)
(***************************************************************************)
EXTENDS LlamaRuntime, LlamaRecency, PrefixPlanProofs, TotalsProofs

USE DEF native, locals, store, ledger, vars, rows, GoTo, Return, Raise

-----------------------------------------------------------------------------
(* What the invariant says of the objects an action handles. *)

(* A native state is never taken for the absence of one.                  *)
LEMMA StateIsNotNone == ASSUME NEW s \in States PROVE s # None
BY NoneAssumption

(* The cleared sequence is a native state.                                *)
LEMMA EmptyStateType == EmptyState \in States
BY DEF EmptyState, States

(* The rows of a call are token sequences.                                *)
LEMMA RowType ==
  ASSUME ControlOK, NEW r \in DOMAIN rows
  PROVE  rows[r] \in Seq(Tokens) /\ Len(rows[r]) \in Nat
<1>1. rows[r] \in Seq(Tokens)
  BY DEF ControlOK
<1> QED BY <1>1

(* The prefix of a call, and the fresh state that ends it.                  *)
LEMMA PrefixFacts ==
  ASSUME ControlOK, PlanOK, pc \in SharedPath
  PROVE  /\ Prefix \in Seq(Tokens) /\ Len(Prefix) = prefixLen
         /\ prefixLen \in 1 .. NCtx
         /\ Fresh(Prefix) \in States /\ Fresh(Prefix) # None
         /\ Len(Fresh(Prefix).toks) = prefixLen
         /\ Fresh(Prefix) = FreshAt(Prefix, prefixLen)
         /\ \A r \in DOMAIN rows : Fresh(Prefix) = FreshAt(rows[r], prefixLen)
<1>1. 1 \in DOMAIN rows /\ rows[1] \in Seq(Tokens)
  BY DEF ControlOK, PlanOK
<1>2. prefixLen \in 1 .. NCtx /\ prefixLen \in 0 .. Len(rows[1])
  <2>1. prefixLen \in Nat /\ prefixLen > 0 /\ prefixLen <= Len(rows[1]) /\ Len(rows[1]) <= NCtx
    BY <1>1 DEF ControlOK, PlanOK
  <2> QED BY <1>1, <2>1, LimitsAssumption
<1>3. Prefix \in Seq(Tokens) /\ Len(Prefix) = prefixLen
  BY <1>1, <1>2, PrefixState DEF Prefix
<1>4. Fresh(Prefix) = FreshAt(Prefix, prefixLen)
  BY <1>3 DEF Fresh
<1>5. Fresh(Prefix) \in States /\ Len(Fresh(Prefix).toks) = prefixLen
  <2>1. prefixLen \in 0 .. Len(Prefix)
    BY <1>2, <1>3
  <2>2. /\ FreshAt(Prefix, prefixLen) \in [toks : Seq(Tokens), starts : SUBSET Nat]
        /\ Len(FreshAt(Prefix, prefixLen).toks) = prefixLen
    BY <1>3, <2>1, FreshAtType
  <2> QED BY <1>4, <2>2 DEF States
<1>6. ASSUME NEW r \in DOMAIN rows PROVE Fresh(Prefix) = FreshAt(rows[r], prefixLen)
  <2>1. rows[r] \in Seq(Tokens) /\ prefixLen \in 0 .. Len(rows[r])
    BY <1>2 DEF ControlOK, PlanOK
  <2>2. Prefix = SubSeq(rows[r], 1, prefixLen)
    BY DEF PlanOK
  <2> QED BY <2>1, <2>2, PrefixState
<1> QED BY <1>2, <1>3, <1>4, <1>5, <1>6, StateIsNotNone

(* A native decode keeps the sequence on the fresh evaluation of t.         *)
LEMMA ReachedDecode ==
  ASSUME NEW t \in Seq(Tokens), past \in Nat, past < Len(t), Reached(t), Decode(t)
  PROVE  /\ past' \in Nat /\ past < past' /\ past' <= Len(t)
         /\ past' % NBatch = 0 \/ past' = Len(t)
         /\ seq' = FreshAt(t, past') /\ seq' \in States /\ logits' = seq'
<1>1. past % NBatch = 0 /\ seq = FreshAt(t, past)
  BY DEF Reached
<1>2. /\ past' = ChunkEnd(t, past) /\ logits' = seq'
      /\ seq' = DecodeChunk(FreshAt(t, past), t, past)
  BY <1>1 DEF Decode
<1>3. /\ past' \in Nat /\ past < past' /\ past' <= Len(t)
      /\ past' % NBatch = 0 \/ past' = Len(t)
      /\ seq' = FreshAt(t, past')
  BY <1>1, <1>2, DecodeStep
<1>4. seq' \in States
  <2>1. past' \in 0 .. Len(t)
    BY <1>3
  <2>2. FreshAt(t, past') \in [toks : Seq(Tokens), starts : SUBSET Nat]
    BY <2>1, FreshAtType
  <2> QED BY <1>3, <2>2 DEF States
<1> QED BY <1>2, <1>3, <1>4

(* Where an entry comes from when entry i moves to the end of n entries.    *)
Origin(n, i, j) == IF j < i THEN j ELSE IF j < n THEN j + 1 ELSE i

Moved(s, i) == Append(RemoveAt(s, i), s[i])

(* Where the entries are when one has moved to the end.                     *)
LEMMA MovedAt ==
  ASSUME NEW E, NEW s \in Seq(E), NEW i \in DOMAIN s
  PROVE  /\ Moved(s, i) \in Seq(E) /\ Len(Moved(s, i)) = Len(s)
         /\ \A j \in DOMAIN s : Moved(s, i)[j] = s[Origin(Len(s), i, j)]
<1> DEFINE a == SubSeq(s, 1, i - 1)  b == SubSeq(s, i + 1, Len(s))
<1>1. i \in 1 .. Len(s) /\ Len(s) \in Nat /\ s[i] \in E
  OBVIOUS
<1>2. /\ a \in Seq(E) /\ Len(a) = i - 1
      /\ \A j \in 1 .. Len(a) : a[j] = s[j]
  BY <1>1
<1>3. /\ b \in Seq(E) /\ Len(b) = Len(s) - i
      /\ \A j \in 1 .. Len(b) : b[j] = s[j + i]
  BY <1>1
<1>4. Moved(s, i) = Append(a \o b, s[i])
  BY DEF Moved, RemoveAt
<1> HIDE DEF a, b
<1>5. /\ a \o b \in Seq(E) /\ Len(a \o b) = Len(s) - 1
      /\ \A j \in 1 .. Len(s) - 1 :
           (a \o b)[j] = IF j <= i - 1 THEN s[j] ELSE s[j + 1]
  <2>1. /\ a \o b \in Seq(E) /\ Len(a \o b) = Len(a) + Len(b)
        /\ \A j \in 1 .. Len(a) + Len(b) :
             (a \o b)[j] = IF j <= Len(a) THEN a[j] ELSE b[j - Len(a)]
    BY <1>2, <1>3, ConcatProperties
  <2>2. Len(a) + Len(b) = Len(s) - 1
    BY <1>1, <1>2, <1>3
  <2>3. ASSUME NEW j \in 1 .. Len(s) - 1, j > i - 1
        PROVE  (a \o b)[j] = s[j + 1]
    <3>1. j - (i - 1) \in 1 .. Len(b) /\ (j - (i - 1)) + i = j + 1
      BY <1>1, <1>3, <2>3
    <3>2. (a \o b)[j] = b[j - (i - 1)]
      BY <1>1, <1>2, <2>1, <2>2, <2>3
    <3> QED BY <1>3, <3>1, <3>2
  <2>4. ASSUME NEW j \in 1 .. Len(s) - 1, j <= i - 1
        PROVE  (a \o b)[j] = s[j]
    BY <1>1, <1>2, <2>1, <2>2, <2>4
  <2> QED BY <1>1, <2>1, <2>2, <2>3, <2>4
<1>6. /\ Moved(s, i) \in Seq(E) /\ Len(Moved(s, i)) = Len(s)
      /\ \A j \in 1 .. Len(s) - 1 : Moved(s, i)[j] = (a \o b)[j]
      /\ Moved(s, i)[Len(s)] = s[i]
  BY <1>1, <1>4, <1>5, AppendProperties
<1>7. ASSUME NEW j \in DOMAIN s
      PROVE  Moved(s, i)[j] = s[Origin(Len(s), i, j)]
  <2>1. j \in 1 .. Len(s)
    OBVIOUS
  <2>2. CASE j = Len(s)
    BY <1>1, <1>6, <2>2 DEF Origin
  <2>3. CASE j < Len(s)
    <3>1. j \in 1 .. Len(s) - 1
      BY <1>1, <2>1, <2>3
    <3>2. Moved(s, i)[j] = IF j <= i - 1 THEN s[j] ELSE s[j + 1]
      BY <1>5, <1>6, <3>1
    <3> QED BY <1>1, <2>3, <3>1, <3>2 DEF Origin
  <2> QED BY <1>1, <2>1, <2>2, <2>3
<1> QED BY <1>6, <1>7

(* An entry used again is moved.                                           *)
LEMMA TouchedAt ==
  ASSUME NEW E, cache \in Seq(E), NEW i \in DOMAIN cache
  PROVE  /\ Touched(i) \in Seq(E) /\ Len(Touched(i)) = Len(cache)
         /\ \A j \in DOMAIN cache : Touched(i)[j] = cache[Origin(Len(cache), i, j)]
<1>1. Touched(i) = Moved(cache, i)
  BY DEF Touched, Moved
<1> QED BY <1>1, MovedAt

(* It is a permutation of the places.                                       *)
LEMMA OriginFacts ==
  ASSUME NEW n \in Nat, NEW i \in 1 .. n
  PROVE  /\ \A j \in 1 .. n : Origin(n, i, j) \in 1 .. n
         /\ \A j, k \in 1 .. n : Origin(n, i, j) = Origin(n, i, k) => j = k
BY DEF Origin

(* Moving an entry to the end keeps the entries.                            *)
LEMMA TouchedFacts ==
  ASSUME NEW E, cache \in Seq(E), NEW i \in DOMAIN cache
  PROVE  /\ Touched(i) \in Seq(E) /\ Len(Touched(i)) = Len(cache)
         /\ \A j \in DOMAIN Touched(i) : \E k \in DOMAIN cache : Touched(i)[j] = cache[k]
<1>1. /\ Touched(i) \in Seq(E) /\ Len(Touched(i)) = Len(cache)
      /\ \A j \in DOMAIN cache : Touched(i)[j] = cache[Origin(Len(cache), i, j)]
  BY TouchedAt
<1>2. /\ DOMAIN cache = 1 .. Len(cache) /\ Len(cache) \in Nat
      /\ DOMAIN Touched(i) = 1 .. Len(cache)
  BY <1>1
<1>3. \A j \in 1 .. Len(cache) : Origin(Len(cache), i, j) \in 1 .. Len(cache)
  <2>1. i \in 1 .. Len(cache) /\ Len(cache) \in Nat
    BY <1>2
  <2> QED BY <2>1, OriginFacts
<1> QED BY <1>1, <1>2, <1>3

-----------------------------------------------------------------------------
(* Fresh evaluation, row after row. *)

(* Clearing starts the fresh evaluation of the row.                         *)
LEMMA FreshRowKeeps == IInv /\ FreshRow => IInv'
<1> SUFFICES ASSUME IInv, FreshRow PROVE IInv'
  OBVIOUS
<1> USE DEF IInv
<1>1. row \in DOMAIN rows /\ rows[row] \in Seq(Tokens) /\ Len(rows[row]) \in Nat
  BY RowType DEF FreshRow, ControlOK
<1>2. ControlOK'
  BY EmptyStateType DEF ControlOK, FreshRow, Locations
<1>3. RowsOK'
  BY DEF RowsOK, FreshRow
<1>4. FreshPathOK'
  <2>1. Reached(rows[row])'
    BY <1>1, FreshStart DEF Reached, FreshRow
  <2> QED BY <1>1, <2>1 DEF FreshPathOK, FreshRow, Valid
<1>5. PlanOK' /\ StageOK' /\ BranchesOK'
  BY DEF PlanOK, StageOK, BranchesOK, SharedPath, FreshRow
<1>6. CachedStatesFresh' /\ CacheBounded'
  BY DEF CachedStatesFresh, CacheBounded, FreshRow
<1> QED BY <1>2, <1>3, <1>4, <1>5, <1>6

(* A refused row ends the call and touches nothing native.                *)
LEMMA FreshRejectKeeps == IInv /\ FreshReject => IInv'
<1> SUFFICES ASSUME IInv, FreshReject PROVE IInv'
  OBVIOUS
<1> USE DEF IInv, FreshReject
<1>1. ControlOK' /\ RowsOK' /\ FreshPathOK'
  BY DEF ControlOK, RowsOK, FreshPathOK, Locations
<1>2. PlanOK' /\ StageOK' /\ BranchesOK'
  BY DEF PlanOK, StageOK, BranchesOK, SharedPath
<1>3. CachedStatesFresh' /\ CacheBounded'
  BY DEF CachedStatesFresh, CacheBounded
<1> QED BY <1>1, <1>2, <1>3

(* Past the last row all rows have been read.                               *)
LEMMA FreshReturnKeeps == IInv /\ FreshReturn => IInv'
<1> SUFFICES ASSUME IInv, FreshReturn PROVE IInv'
  OBVIOUS
<1> USE DEF IInv, FreshReturn
<1>1. ControlOK' /\ FreshPathOK'
  BY DEF ControlOK, FreshPathOK, Locations
<1>2. RowsOK'
  BY DEF RowsOK, FreshPathOK, ControlOK
<1>3. PlanOK' /\ StageOK' /\ BranchesOK'
  BY DEF PlanOK, StageOK, BranchesOK, SharedPath
<1>4. CachedStatesFresh' /\ CacheBounded'
  BY DEF CachedStatesFresh, CacheBounded
<1> QED BY <1>1, <1>2, <1>3, <1>4

(* A batch of a fresh row is one more step of its fresh evaluation.       *)
LEMMA FreshDecodeKeeps == IInv /\ FreshDecode => IInv'
<1> SUFFICES ASSUME IInv, FreshDecode PROVE IInv'
  OBVIOUS
<1> USE DEF IInv
<1>1. row \in DOMAIN rows /\ rows[row] \in Seq(Tokens) /\ Reached(rows[row])
  BY RowType DEF FreshDecode, FreshPathOK
<1>2. /\ past' \in Nat /\ past' <= Len(rows[row])
      /\ past' % NBatch = 0 \/ past' = Len(rows[row])
      /\ seq' = FreshAt(rows[row], past') /\ seq' \in States /\ logits' = seq'
  <2>1. past \in Nat /\ past < Len(rows[row]) /\ Decode(rows[row])
    BY DEF FreshDecode, ControlOK
  <2> QED BY <1>1, <2>1, ReachedDecode
<1>3. ControlOK'
  BY <1>2 DEF ControlOK, FreshDecode, Locations
<1>4. RowsOK'
  BY DEF RowsOK, FreshDecode
<1>5. FreshPathOK'
  BY <1>2 DEF FreshPathOK, FreshDecode, Reached
<1>6. PlanOK' /\ StageOK' /\ BranchesOK'
  BY DEF PlanOK, StageOK, BranchesOK, SharedPath, FreshDecode
<1>7. CachedStatesFresh' /\ CacheBounded'
  BY DEF CachedStatesFresh, CacheBounded, FreshDecode
<1> QED BY <1>3, <1>4, <1>5, <1>6, <1>7

(* The row read is the one that was decoded to its end.                     *)
LEMMA FreshReadKeeps == IInv /\ FreshRead => IInv'
<1> SUFFICES ASSUME IInv, FreshRead PROVE IInv'
  OBVIOUS
<1> USE DEF IInv
<1>1. /\ row \in DOMAIN rows /\ rows[row] \in Seq(Tokens) /\ rows[row] # <<>>
      /\ row \in Nat /\ DOMAIN rows = 1 .. Len(rows)
  BY RowType DEF FreshRead, FreshPathOK, ControlOK
<1>2. logits = Fresh(rows[row]) /\ logits \in States /\ logits # None
  <2>1. past = Len(rows[row]) /\ past > 0
    BY <1>1 DEF FreshRead, ControlOK
  <2>2. logits = seq /\ seq = FreshAt(rows[row], past)
    BY <2>1 DEF FreshRead, FreshPathOK, Reached
  <2> QED BY <2>1, <2>2, StateIsNotNone DEF Fresh, ControlOK
<1>3. ControlOK'
  <2>1. row \in DOMAIN results /\ results \in Seq(States \cup {None})
    BY <1>1 DEF RowsOK, ControlOK
  <2>2. [results EXCEPT ![row] = logits] \in Seq(States \cup {None})
    BY <1>2, <2>1
  <2>3. /\ results' \in {results, [results EXCEPT ![row] = logits]}
        /\ row' \in {row, row + 1}
    BY DEF FreshRead
  <2>4. pc' \in Locations /\ outcome' \in {"none", "raised"}
    BY DEF FreshRead, Locations
  <2>5. results' \in Seq(States \cup {None}) /\ row' \in Nat \ {0}
    BY <1>1, <2>1, <2>2, <2>3
  <2> QED BY <2>4, <2>5 DEF ControlOK, FreshRead
<1>4. RowsOK'
  BY <1>1, <1>2 DEF RowsOK, FreshRead
<1>5. FreshPathOK'
  BY <1>1, <1>2 DEF FreshPathOK, RowsOK, FreshRead
<1>6. PlanOK' /\ StageOK' /\ BranchesOK'
  BY DEF PlanOK, StageOK, BranchesOK, SharedPath, FreshRead
<1>7. CachedStatesFresh' /\ CacheBounded'
  BY DEF CachedStatesFresh, CacheBounded, FreshRead
<1> QED BY <1>3, <1>4, <1>5, <1>6, <1>7

-----------------------------------------------------------------------------
(* The shared prefix. *)

(* Nothing found: the prefix is decoded from its first token.               *)
LEMMA ColdStartKeeps == IInv /\ (NoLookup \/ Miss) => IInv'
<1> SUFFICES ASSUME IInv, NoLookup \/ Miss PROVE IInv'
  OBVIOUS
<1> USE DEF IInv, NoLookup, Miss
<1>1. ControlOK' /\ RowsOK' /\ FreshPathOK'
  BY DEF ControlOK, RowsOK, FreshPathOK, Locations
<1>2. PlanOK' /\ BranchesOK'
  BY DEF PlanOK, BranchesOK, SharedPath, Prefix, Branches, Forks
<1>3. StageOK'
  <2>1. Prefix' = Prefix /\ pc \in SharedPath
    BY DEF Prefix, SharedPath
  <2>2. Reached(Prefix)
    <3>1. seq = EmptyState /\ past = 0
      BY DEF StageOK
    <3>2. Len(Prefix) \in Nat /\ seq = FreshAt(Prefix, past) /\ past % NBatch = 0
      BY <2>1, <3>1, FreshStart, PrefixFacts
    <3> QED BY <3>1, <3>2 DEF Reached
  <2>3. Reached(Prefix)'
    BY <2>1, <2>2 DEF Reached
  <2> QED BY <2>3 DEF StageOK
<1>4. CachedStatesFresh' /\ CacheBounded'
  BY DEF CachedStatesFresh, CacheBounded
<1> QED BY <1>1, <1>2, <1>3, <1>4

(* A cached state found under the key of this call is that of its prefix.   *)
LEMMA HitKeeps == IInv /\ Hit => IInv'
<1> SUFFICES ASSUME IInv, Hit PROVE IInv'
  OBVIOUS
<1> USE DEF IInv
<1>1. PICK i \in CachedAt(key) : entry' = cache[i].state /\ cache' = Touched(i)
  BY DEF Hit
<1>2. i \in DOMAIN cache /\ cache[i].key = key
  BY DEF CachedAt
<1> DEFINE E == [key : Seq(Tokens), state : States, size : Nat]
<1>3. /\ cache' \in Seq(E) /\ Len(cache') = Len(cache)
      /\ \A j \in DOMAIN cache' : \E k \in DOMAIN cache : cache'[j] = cache[k]
  <2>1. cache \in Seq(E)
    BY DEF ControlOK
  <2> HIDE DEF E
  <2> QED BY <1>1, <1>2, <2>1, TouchedFacts
<1>4. /\ entry' = Fresh(Prefix) /\ entry' \in States /\ entry' # None
      /\ key # NoHint /\ key = Prefix
  <2>1. key # NoHint /\ key = Prefix /\ pc \in SharedPath
    BY DEF Hit, PlanOK, SharedPath
  <2>2. entry' = Fresh(key)
    BY <1>1, <1>2 DEF CachedStatesFresh
  <2> QED BY <2>1, <2>2, PrefixFacts
<1>5. ControlOK'
  BY <1>3, <1>4 DEF ControlOK, Hit, Locations
<1>6. RowsOK' /\ FreshPathOK'
  BY DEF RowsOK, FreshPathOK, Hit
<1>7. PlanOK'
  BY <1>4 DEF PlanOK, SharedPath, Hit, Prefix
<1>8. StageOK' /\ BranchesOK'
  BY <1>4 DEF StageOK, BranchesOK, Hit
<1>9. CachedStatesFresh'
  BY <1>3 DEF CachedStatesFresh
<1>10. CacheBounded'
  BY <1>3 DEF CacheBounded, Hit
<1> QED BY <1>5, <1>6, <1>7, <1>8, <1>9, <1>10

(* A cached state restored is a point of the prefix's evaluation.         *)
LEMMA RestoreKeeps == IInv /\ Restore => IInv'
<1> SUFFICES ASSUME IInv, Restore PROVE IInv'
  OBVIOUS
<1> USE DEF IInv
<1>1. entry # None /\ entry = Fresh(Prefix) /\ key = Prefix /\ pc \in SharedPath
  BY DEF Restore, StageOK, PlanOK, SharedPath
<1>2. /\ Len(Prefix) = prefixLen /\ prefixLen \in Nat
      /\ Fresh(Prefix) \in States /\ Fresh(Prefix) = FreshAt(Prefix, prefixLen)
  BY <1>1, PrefixFacts
<1>3. seq' = FreshAt(Prefix, past') /\ past' = prefixLen
  BY <1>1, <1>2 DEF Restore
<1>4. ControlOK'
  BY <1>1, <1>2, <1>3 DEF ControlOK, Restore, Locations
<1>5. RowsOK' /\ FreshPathOK'
  BY DEF RowsOK, FreshPathOK, Restore
<1>6. PlanOK' /\ BranchesOK'
  BY DEF PlanOK, BranchesOK, SharedPath, Restore, Prefix
<1>7. StageOK'
  <2>1. Reached(Prefix)'
    <3>1. Prefix' = Prefix
      BY DEF Prefix, Restore
    <3> QED BY <1>2, <1>3, <3>1 DEF Reached
  <2> QED BY <1>1, <1>3, <2>1 DEF StageOK, Restore
<1>8. CachedStatesFresh' /\ CacheBounded'
  BY DEF CachedStatesFresh, CacheBounded, Restore
<1> QED BY <1>4, <1>5, <1>6, <1>7, <1>8

(* The rest of the prefix continues its evaluation.                       *)
LEMMA PrefixDecodeKeeps == IInv /\ PrefixDecode => IInv'
<1> SUFFICES ASSUME IInv, PrefixDecode PROVE IInv'
  OBVIOUS
<1> USE DEF IInv
<1>1. /\ pc \in SharedPath /\ Prefix \in Seq(Tokens) /\ Len(Prefix) = prefixLen
      /\ Reached(Prefix) /\ Prefix' = Prefix
  BY PrefixFacts DEF PrefixDecode, SharedPath, StageOK, Prefix
<1>2. /\ past' \in Nat /\ past' <= Len(Prefix)
      /\ past' % NBatch = 0 \/ past' = Len(Prefix)
      /\ seq' = FreshAt(Prefix, past') /\ seq' \in States /\ logits' = seq'
  <2>1. past \in Nat /\ past < Len(Prefix) /\ Decode(Prefix)
    BY <1>1 DEF PrefixDecode, ControlOK
  <2> QED BY <1>1, <2>1, ReachedDecode
<1>3. ControlOK'
  BY <1>2 DEF ControlOK, PrefixDecode, Locations
<1>4. RowsOK' /\ FreshPathOK'
  BY DEF RowsOK, FreshPathOK, PrefixDecode
<1>5. PlanOK' /\ BranchesOK'
  BY DEF PlanOK, BranchesOK, SharedPath, PrefixDecode, Prefix
<1>6. StageOK'
  <2>1. Reached(Prefix)'
    BY <1>1, <1>2 DEF Reached
  <2>2. entry' = None /\ row' = 1
    BY DEF PrefixDecode, StageOK, ControlOK
  <2> QED BY <1>2, <2>1, <2>2 DEF StageOK, PrefixDecode
<1>7. CachedStatesFresh' /\ CacheBounded'
  BY DEF CachedStatesFresh, CacheBounded, PrefixDecode
<1> QED BY <1>3, <1>4, <1>5, <1>6, <1>7

(* A row that ends with the prefix has no key, hence no restored state:     *)
(* the output buffer still holds the decode of the last prefix token.       *)
LEMMA ReadExactKeeps == IInv /\ ReadExact => IInv'
<1> SUFFICES ASSUME IInv, ReadExact PROVE IInv'
  OBVIOUS
<1> USE DEF IInv
<1>1. /\ pc \in SharedPath /\ Reached(Prefix) /\ Len(Prefix) = prefixLen
      /\ prefixLen \in Nat /\ prefixLen > 0
      /\ Fresh(Prefix) \in States /\ Fresh(Prefix) # None
      /\ Fresh(Prefix) = FreshAt(Prefix, prefixLen)
      /\ \A r \in DOMAIN rows : Fresh(Prefix) = FreshAt(rows[r], prefixLen)
  BY PrefixFacts DEF ReadExact, SharedPath, StageOK
<1>2. past = prefixLen /\ seq = Fresh(Prefix)
  BY <1>1 DEF Reached, ReadExact, ControlOK
<1>3. ASSUME NEW r \in DOMAIN rows, Len(rows[r]) = prefixLen
      PROVE  logits = Fresh(rows[r]) /\ logits \in States /\ logits # None
  <2>1. key = NoHint /\ entry = None
    BY <1>1, <1>3 DEF PlanOK, ControlOK
  <2>2. logits = Fresh(Prefix)
    BY <1>1, <1>2, <2>1 DEF StageOK, ReadExact
  <2> QED BY <1>1, <1>3, <2>2 DEF Fresh
<1>4. /\ DOMAIN results' = DOMAIN rows
      /\ \A r \in DOMAIN rows :
           results'[r] = IF Len(rows[r]) = prefixLen THEN logits ELSE results[r]
  BY DEF ReadExact
<1>5. ControlOK'
  <2>1. \A r \in DOMAIN rows : results'[r] \in States \cup {None}
    BY <1>3, <1>4 DEF ControlOK, RowsOK
  <2>2. DOMAIN rows = 1 .. Len(rows) /\ Len(rows) \in Nat
    BY DEF ControlOK
  <2>3. results' = [r \in 1 .. Len(rows) |->
                     IF Len(rows[r]) = prefixLen THEN logits ELSE results[r]]
    BY <2>2 DEF ReadExact
  <2>4. results' \in [1 .. Len(rows) -> States \cup {None}]
    BY <1>4, <2>1, <2>2, <2>3
  <2>5. results' \in Seq(States \cup {None})
    BY <2>2, <2>4
  <2> QED BY <2>5 DEF ControlOK, ReadExact, Locations
<1>6. RowsOK'
  BY <1>3, <1>4 DEF RowsOK, ReadExact
<1>7. FreshPathOK' /\ PlanOK'
  BY DEF FreshPathOK, PlanOK, SharedPath, ReadExact, Prefix
<1>8. StageOK'
  BY <1>2 DEF StageOK, ReadExact, Prefix
<1>9. BranchesOK'
  BY <1>3, <1>4 DEF BranchesOK, ReadExact
<1>10. CachedStatesFresh' /\ CacheBounded'
  BY DEF CachedStatesFresh, CacheBounded, ReadExact
<1> QED BY <1>5, <1>6, <1>7, <1>8, <1>9, <1>10

-----------------------------------------------------------------------------
(* The rollback point and the store. *)

(* The state captured for the cache is the fresh state of the key.        *)
LEMMA CaptureForCacheKeeps == IInv /\ CaptureForCache => IInv'
<1> SUFFICES ASSUME IInv, CaptureForCache PROVE IInv'
  OBVIOUS
<1> USE DEF IInv
<1>1. seq = Fresh(Prefix) /\ seq \in States /\ seq # None
  BY StateIsNotNone DEF CaptureForCache, StageOK, ControlOK
<1>2. ControlOK' /\ RowsOK' /\ FreshPathOK'
  BY <1>1 DEF ControlOK, RowsOK, FreshPathOK, CaptureForCache, Locations
<1>3. PlanOK'
  BY <1>1 DEF PlanOK, SharedPath, CaptureForCache, Prefix
<1>4. StageOK'
  BY <1>1 DEF StageOK, CaptureForCache, Cold, Prefix
<1>5. BranchesOK'
  BY DEF BranchesOK, CaptureForCache
<1>6. CachedStatesFresh' /\ CacheBounded'
  BY DEF CachedStatesFresh, CacheBounded, CaptureForCache
<1> QED BY <1>2, <1>3, <1>4, <1>5, <1>6

(* Two suffixes or more leave a rollback point behind.                      *)
LEMMA RollbackPointKeeps == IInv /\ RollbackPoint => IInv'
<1> SUFFICES ASSUME IInv, RollbackPoint PROVE IInv'
  OBVIOUS
<1> USE DEF IInv
<1>1. seq = Fresh(Prefix) /\ seq \in States /\ seq # None
  BY StateIsNotNone DEF RollbackPoint, StageOK, ControlOK
<1>2. /\ snap' \in {seq, entry, None}
      /\ Forks => snap' # None
  BY <1>1 DEF RollbackPoint, NeedsCapture, CoveredByEntry
<1>3. ControlOK' /\ RowsOK' /\ FreshPathOK'
  BY <1>1, <1>2 DEF ControlOK, RowsOK, FreshPathOK, RollbackPoint, Locations
<1>4. PlanOK'
  BY <1>1, <1>2 DEF PlanOK, SharedPath, RollbackPoint, Prefix
<1>5. StageOK'
  BY <1>1 DEF StageOK, RollbackPoint, Prefix
<1>6. BranchesOK'
  <2>1. row = 1 /\ \A r \in DOMAIN rows : ~(r < row)
    BY DEF StageOK, RollbackPoint, ControlOK
  <2>2. Forks' = Forks /\ live' = TRUE
    BY DEF Forks, Branches, RollbackPoint
  <2> QED BY <1>2, <2>1, <2>2 DEF BranchesOK, RollbackPoint
<1>7. CachedStatesFresh' /\ CacheBounded'
  BY DEF CachedStatesFresh, CacheBounded, RollbackPoint
<1> QED BY <1>3, <1>4, <1>5, <1>6, <1>7

(* What eviction leaves in the cache was there before.                    *)
LEMMA EvictKeeps == IInv /\ Evict => IInv'
<1> SUFFICES ASSUME IInv, Evict PROVE IInv'
  OBVIOUS
<1> USE DEF IInv
<1> DEFINE E == [key : Seq(Tokens), state : States, size : Nat]
<1>1. cache \in Seq(E) /\ cache # <<>> /\ cache' = Tail(cache)
  BY DEF Evict, ControlOK
<1>2. /\ cache' \in Seq(E) /\ Len(cache') = Len(cache) - 1
      /\ \A j \in DOMAIN cache' : j + 1 \in DOMAIN cache /\ cache'[j] = cache[j + 1]
      /\ Len(cache) \in Nat
  <2> HIDE DEF E
  <2> QED BY <1>1
<1>3. Head(cache).size \in Nat
  <2>1. Head(cache) \in E
    <3> HIDE DEF E
    <3> QED BY <1>1
  <2> QED BY <2>1
<1>4. cacheBytes' \in Int /\ cacheBytes' <= cacheBytes
  BY <1>3 DEF Evict, ControlOK
<1>5. ControlOK'
  BY <1>2, <1>4 DEF ControlOK, Evict, Locations
<1>6. RowsOK' /\ FreshPathOK'
  BY DEF RowsOK, FreshPathOK, Evict
<1>7. PlanOK' /\ StageOK' /\ BranchesOK'
  BY DEF PlanOK, StageOK, BranchesOK, SharedPath, Evict, Prefix
<1>8. CachedStatesFresh'
  BY <1>2 DEF CachedStatesFresh
<1>9. CacheBounded'
  BY <1>2, <1>4, LimitsAssumption DEF CacheBounded, ControlOK
<1> QED BY <1>5, <1>6, <1>7, <1>8, <1>9

(* What is stored is the fresh state of its key, and only when it fits.     *)
LEMMA StoreKeeps == IInv /\ Store => IInv'
<1> SUFFICES ASSUME IInv, Store PROVE IInv'
  OBVIOUS
<1> USE DEF IInv
<1> DEFINE E == [key : Seq(Tokens), state : States, size : Nat]
           new == [key |-> key, state |-> snap, size |-> Size(snap)]
<1>1. /\ pc \in SharedPath /\ key = Prefix /\ snap = Fresh(Prefix)
      /\ seq = Fresh(Prefix) /\ prefixLen % NBatch = 0
  BY DEF Store, StageOK, PlanOK, SharedPath
<1>2. /\ Prefix \in Seq(Tokens) /\ Len(Prefix) = prefixLen /\ prefixLen \in 1 .. NCtx
      /\ Fresh(Prefix) \in States /\ Len(Fresh(Prefix).toks) = prefixLen
  BY <1>1, PrefixFacts
<1>3. Size(snap) \in Nat
  BY <1>1, <1>2, LimitsAssumption DEF Size
<1>4. new \in E
  BY <1>1, <1>2, <1>3
<1>5. cache \in Seq(E) /\ cacheBytes \in Int
  BY DEF ControlOK
<1> HIDE DEF E
<1> DEFINE Kept == /\ cache' \in Seq(E) /\ cacheBytes' \in Int
                   /\ CachedStatesFresh' /\ CacheBounded'
<1>6. ASSUME \E i \in CachedAt(key) : cache' = Touched(i) /\ cacheBytes' = cacheBytes
      PROVE  Kept
  <2>1. /\ cache' \in Seq(E) /\ Len(cache') = Len(cache) /\ cacheBytes' = cacheBytes
        /\ \A j \in DOMAIN cache' : \E k \in DOMAIN cache : cache'[j] = cache[k]
    BY <1>5, <1>6, TouchedFacts DEF CachedAt
  <2> QED BY <1>5, <2>1 DEF CachedStatesFresh, CacheBounded
<1>7. ASSUME Fits, cache' = Append(cache, new), cacheBytes' = cacheBytes + Size(snap)
      PROVE  Kept
  <2>1. new.key = key /\ new.state = snap
    OBVIOUS
  <2> HIDE DEF new
  <2>2. /\ cache' \in Seq(E) /\ Len(cache') = Len(cache) + 1 /\ Len(cache) \in Nat
        /\ \A j \in DOMAIN cache : cache'[j] = cache[j]
        /\ cache'[Len(cache) + 1] = new
        /\ DOMAIN cache' = DOMAIN cache \cup {Len(cache) + 1}
    BY <1>4, <1>5, <1>7
  <2>3. CachedStatesFresh'
    <3>1. new.state = Fresh(new.key) /\ new.key # <<>> /\ Len(new.key) % NBatch = 0
      BY <1>1, <1>2, <2>1
    <3> QED BY <2>2, <3>1 DEF CachedStatesFresh
  <2>4. CacheBounded'
    <3>1. cacheBytes' <= MaxBytes
      BY <1>7 DEF Fits
    <3>2. cache = <<>> \/ Len(cache) < MaxEntries
      BY <1>7, <2>2, LimitsAssumption DEF Store, Fits, Full
    <3>3. MaxEntries > 0 /\ MaxEntries \in Nat
      BY <1>7, LimitsAssumption DEF Fits, Storable, CacheEnabled
    <3>4. Len(cache') <= MaxEntries
      BY <2>2, <3>2, <3>3
    <3> QED BY <3>1, <3>4 DEF CacheBounded
  <2> QED BY <1>3, <1>5, <1>7, <2>2, <2>3, <2>4
<1>8. ASSUME UNCHANGED store PROVE Kept
  BY <1>5, <1>8 DEF CachedStatesFresh, CacheBounded
<1>9. Kept
  BY <1>6, <1>7, <1>8 DEF Store
<1>10. ControlOK'
  BY <1>9 DEF ControlOK, Store, Locations, E
<1>11. RowsOK' /\ FreshPathOK'
  BY DEF RowsOK, FreshPathOK, Store
<1>12. PlanOK' /\ StageOK'
  BY <1>1 DEF PlanOK, StageOK, SharedPath, Store, Prefix
<1>13. BranchesOK'
  <2>1. \A r \in DOMAIN rows : ~(r < row)
    BY DEF StageOK, Store, ControlOK
  <2>2. snap' # None /\ live' = TRUE
    BY DEF StageOK, Store
  <2> QED BY <2>1, <2>2 DEF BranchesOK, Store
<1> QED BY <1>9, <1>10, <1>11, <1>12, <1>13

-----------------------------------------------------------------------------
(* The suffixes. *)

(* Rows that end with the prefix have been read before the branches.      *)
LEMMA SkipExactKeeps == IInv /\ SkipExact => IInv'
<1> SUFFICES ASSUME IInv, SkipExact PROVE IInv'
  OBVIOUS
<1> USE DEF IInv
<1>1. ControlOK' /\ RowsOK' /\ FreshPathOK'
  BY DEF ControlOK, RowsOK, FreshPathOK, SkipExact, Locations
<1>2. PlanOK' /\ StageOK'
  BY DEF PlanOK, StageOK, SharedPath, SkipExact, Prefix
<1>3. BranchesOK'
  <2>1. row \in DOMAIN rows /\ row \in Nat
    BY DEF SkipExact, ControlOK
  <2>2. Len(rows[row]) = prefixLen
    BY <2>1, RowType DEF SkipExact, PlanOK, SharedPath, ControlOK
  <2>3. results[row] # None
    BY <2>1, <2>2 DEF BranchesOK, SkipExact
  <2>4. Forks' = Forks /\ Branches' = Branches
    BY DEF Forks, Branches, SkipExact
  <2>5. \A r \in DOMAIN rows : r < row + 1 => r < row \/ r = row
    BY DEF ControlOK
  <2> QED BY <2>1, <2>3, <2>4, <2>5 DEF BranchesOK, SkipExact, Branches, ControlOK
<1>4. CachedStatesFresh' /\ CacheBounded'
  BY DEF CachedStatesFresh, CacheBounded, SkipExact
<1> QED BY <1>1, <1>2, <1>3, <1>4

(* Every suffix starts from the state at the end of the prefix: the first   *)
(* from the live sequence, the others from the rollback point.              *)
LEMMA BranchKeeps == IInv /\ (FirstBranch \/ NextBranch) => IInv'
<1> SUFFICES ASSUME IInv, FirstBranch \/ NextBranch PROVE IInv'
  OBVIOUS
<1> USE DEF IInv, FirstBranch, NextBranch
<1>1. /\ pc \in SharedPath /\ row \in Branches /\ row \in DOMAIN rows
      /\ prefixLen \in Nat /\ prefixLen < Len(rows[row])
      /\ Fresh(Prefix) \in States /\ prefixLen % NBatch = 0
      /\ Fresh(Prefix) = FreshAt(rows[row], prefixLen)
  <2>1. pc \in SharedPath /\ row \in Branches /\ row \in DOMAIN rows
    BY DEF SharedPath, Branches
  <2>2. prefixLen \in Nat /\ Len(rows[row]) > prefixLen /\ prefixLen % NBatch = 0
    BY <2>1 DEF Branches, PlanOK, ControlOK
  <2> QED BY <2>1, <2>2, RowType, PrefixFacts
<1>2. ControlOK'
  BY <1>1 DEF ControlOK, Locations, PlanOK
<1>3. RowsOK' /\ FreshPathOK'
  BY DEF RowsOK, FreshPathOK
<1>4. PlanOK'
  BY DEF PlanOK, SharedPath, Prefix
<1>5. pc' = "suffix" => seq' = Fresh(Prefix) /\ past' = prefixLen
  BY <1>1 DEF StageOK, PlanOK
<1>6. StageOK'
  <2>1. pc' = "suffix" => Reached(rows[row])'
    BY <1>1, <1>5 DEF Reached
  <2> QED BY <1>1, <1>5, <2>1 DEF StageOK, Branches
<1>7. BranchesOK'
  BY DEF BranchesOK, Forks, Branches
<1>8. CachedStatesFresh' /\ CacheBounded'
  BY DEF CachedStatesFresh, CacheBounded
<1> QED BY <1>2, <1>3, <1>4, <1>6, <1>7, <1>8

(* A suffix continues the evaluation of its own row.                      *)
LEMMA SuffixDecodeKeeps == IInv /\ SuffixDecode => IInv'
<1> SUFFICES ASSUME IInv, SuffixDecode PROVE IInv'
  OBVIOUS
<1> USE DEF IInv
<1>1. /\ row \in Branches /\ row \in DOMAIN rows /\ Reached(rows[row])
      /\ rows[row] \in Seq(Tokens) /\ prefixLen <= past /\ prefixLen \in Nat
  BY RowType DEF SuffixDecode, StageOK, Branches, ControlOK
<1>2. /\ past' \in Nat /\ past < past' /\ past' <= Len(rows[row])
      /\ past' % NBatch = 0 \/ past' = Len(rows[row])
      /\ seq' = FreshAt(rows[row], past') /\ seq' \in States /\ logits' = seq'
  <2>1. past \in Nat /\ past < Len(rows[row]) /\ Decode(rows[row])
    BY DEF SuffixDecode, ControlOK
  <2> QED BY <1>1, <2>1, ReachedDecode
<1>3. ControlOK'
  BY <1>2 DEF ControlOK, SuffixDecode, Locations
<1>4. RowsOK' /\ FreshPathOK'
  BY DEF RowsOK, FreshPathOK, SuffixDecode
<1>5. PlanOK' /\ BranchesOK'
  BY DEF PlanOK, BranchesOK, SharedPath, SuffixDecode, Prefix, Forks, Branches
<1>6. StageOK'
  <2>1. Reached(rows[row])'
    BY <1>2 DEF Reached, SuffixDecode
  <2>2. past \in Nat /\ prefixLen <= past'
    BY <1>1, <1>2 DEF ControlOK
  <2> QED BY <1>1, <1>2, <2>1, <2>2 DEF StageOK, SuffixDecode, Branches
<1>7. CachedStatesFresh' /\ CacheBounded'
  BY DEF CachedStatesFresh, CacheBounded, SuffixDecode
<1> QED BY <1>3, <1>4, <1>5, <1>6, <1>7

(* The logits of a branch are read at the end of its row.                 *)
LEMMA SuffixReadKeeps == IInv /\ SuffixRead => IInv'
<1> SUFFICES ASSUME IInv, SuffixRead PROVE IInv'
  OBVIOUS
<1> USE DEF IInv
<1>1. /\ row \in Branches /\ row \in DOMAIN rows /\ row \in Nat
      /\ Len(rows[row]) \in Nat /\ prefixLen < Len(rows[row])
  BY RowType DEF SuffixRead, StageOK, Branches, ControlOK
<1>2. logits = Fresh(rows[row]) /\ logits \in States /\ logits # None
  <2>1. past = Len(rows[row]) /\ past > prefixLen
    BY <1>1 DEF SuffixRead, StageOK, Reached, ControlOK
  <2>2. logits = seq /\ seq = FreshAt(rows[row], past)
    BY <2>1 DEF SuffixRead, StageOK, Reached
  <2> QED BY <2>1, <2>2, StateIsNotNone DEF Fresh, ControlOK
<1>3. /\ DOMAIN results' = DOMAIN rows
      /\ \A r \in DOMAIN rows :
           results'[r] = IF r = row THEN logits ELSE results[r]
  BY <1>1 DEF SuffixRead, RowsOK
<1>4. ControlOK'
  <2>1. row \in DOMAIN results /\ results \in Seq(States \cup {None})
    BY <1>1 DEF RowsOK, ControlOK
  <2>2. results' = [results EXCEPT ![row] = logits] /\ row' = row + 1
    BY DEF SuffixRead
  <2>3. results' \in Seq(States \cup {None}) /\ row' \in Nat \ {0}
    BY <1>1, <1>2, <2>1, <2>2
  <2> QED BY <2>3 DEF ControlOK, SuffixRead, Locations
<1>5. RowsOK'
  BY <1>2, <1>3 DEF RowsOK, SuffixRead
<1>6. FreshPathOK' /\ PlanOK' /\ StageOK'
  BY DEF FreshPathOK, PlanOK, StageOK, SharedPath, SuffixRead, Prefix
<1>7. BranchesOK'
  <2>1. \A r \in DOMAIN rows : r < row + 1 => r < row \/ r = row
    BY <1>1 DEF ControlOK
  <2>2. Branches' = Branches /\ Forks' = Forks /\ row' = row + 1 /\ row < row + 1
    BY <1>1 DEF Forks, Branches, SuffixRead
  <2> QED BY <1>1, <1>2, <1>3, <2>1, <2>2 DEF BranchesOK, SuffixRead
<1>8. CachedStatesFresh' /\ CacheBounded'
  BY DEF CachedStatesFresh, CacheBounded, SuffixRead
<1> QED BY <1>4, <1>5, <1>6, <1>7, <1>8

(* A call finishes when all its rows have been read.                      *)
LEMMA FinishKeeps == IInv /\ Finish => IInv'
<1> SUFFICES ASSUME IInv, Finish PROVE IInv'
  OBVIOUS
<1> USE DEF IInv, Finish
<1>1. ControlOK' /\ RowsOK' /\ FreshPathOK'
  BY DEF ControlOK, RowsOK, FreshPathOK, Locations
<1>2. PlanOK' /\ StageOK' /\ BranchesOK'
  BY DEF PlanOK, StageOK, BranchesOK, SharedPath
<1>3. CachedStatesFresh' /\ CacheBounded'
  BY DEF CachedStatesFresh, CacheBounded
<1> QED BY <1>1, <1>2, <1>3

-----------------------------------------------------------------------------
(* Between the steps of a call, and between calls. *)

(* A failure ends the call and leaves no claim on native state.           *)
LEMMA NativeFaultKeeps == IInv /\ NativeFault => IInv'
<1> SUFFICES ASSUME IInv, NativeFault PROVE IInv'
  OBVIOUS
<1> USE DEF IInv, NativeFault
<1>1. ControlOK' /\ RowsOK' /\ FreshPathOK'
  BY DEF ControlOK, RowsOK, FreshPathOK, Locations
<1>2. PlanOK' /\ StageOK' /\ BranchesOK'
  BY DEF PlanOK, StageOK, BranchesOK, SharedPath
<1>3. CachedStatesFresh' /\ CacheBounded'
  BY DEF CachedStatesFresh, CacheBounded
<1> QED BY <1>1, <1>2, <1>3

(* The types of an empty cache and of no call.                            *)
LEMMA EmptyTypes ==
  /\ <<>> \in Seq(Seq(Tokens)) /\ <<>> \in Seq(States \cup {None})
  /\ <<>> \in Seq([key : Seq(Tokens), state : States, size : Nat])
  /\ 0 \in Nat /\ 0 \in Int /\ 1 \in Nat \ {0}
  OBVIOUS

(* Between calls only the cache, counters and the closed flag change.     *)
LEMMA IdleOperationKeeps == IInv /\ (ClearCache \/ ResetMetrics \/ Close) => IInv'
<1> SUFFICES ASSUME IInv, ClearCache \/ ResetMetrics \/ Close PROVE IInv'
  OBVIOUS
<1> USE DEF IInv, ClearCache, ResetMetrics, Close
<1>1. ControlOK' /\ RowsOK' /\ FreshPathOK'
  <2>1. ControlOK'
    BY EmptyTypes DEF ControlOK
  <2>2. RowsOK'
    BY DEF RowsOK
  <2>3. FreshPathOK'
    BY DEF FreshPathOK
  <2> QED BY <2>1, <2>2, <2>3
<1>2. PlanOK' /\ StageOK' /\ BranchesOK'
  BY DEF PlanOK, StageOK, BranchesOK, SharedPath
<1>3. CachedStatesFresh' /\ CacheBounded'
  BY LimitsAssumption DEF CachedStatesFresh, CacheBounded
<1> QED BY <1>1, <1>2, <1>3

(* A call that has just arrived has no rows of logits yet.                  *)
LEMMA BeginFacts ==
  ASSUME IInv, NEW c \in Calls, Begin(c)
  PROVE  /\ c.rows \in Seq(Seq(Tokens)) /\ c.hint \in Nat \cup {NoHint}
         /\ rows' = c.rows /\ row' = 1 /\ entry' = None /\ snap' = None
         /\ live' = FALSE
         /\ results' \in Seq(States \cup {None}) /\ DOMAIN results' = DOMAIN c.rows
         /\ \A r \in DOMAIN c.rows : results'[r] = None
         /\ closed' = closed /\ cache' = cache /\ cacheBytes' = cacheBytes
         /\ logits' = logits
         /\ CachedStatesFresh' /\ CacheBounded'
<1>1. c.rows \in Seq(Seq(Tokens)) /\ c.hint \in Nat \cup {NoHint}
  BY CallsAssumption
<1>2. /\ rows' = c.rows /\ row' = 1 /\ entry' = None /\ snap' = None
      /\ live' = FALSE /\ results' = [r \in DOMAIN c.rows |-> None]
      /\ UNCHANGED <<closed, cache, cacheBytes, logits>>
  BY DEF Begin
<1>3. DOMAIN c.rows = 1 .. Len(c.rows) /\ Len(c.rows) \in Nat
  BY <1>1
<1>4. results' \in Seq(States \cup {None})
  <2>1. results' \in [1 .. Len(c.rows) -> States \cup {None}]
    BY <1>2, <1>3
  <2> QED BY <1>3, <2>1
<1>5. CachedStatesFresh' /\ CacheBounded'
  BY <1>2 DEF IInv, CachedStatesFresh, CacheBounded
<1> QED BY <1>1, <1>2, <1>4, <1>5

(* A call is refused, or starts row by row, with nothing read yet.        *)
LEMMA FreshCallKeeps ==
  ASSUME IInv, NEW c \in Calls, Reject(c) \/ BatchCall(c) \/ FallbackCall(c)
  PROVE  IInv'
<1> USE DEF IInv, Reject, BatchCall, FallbackCall
<1>1. Begin(c)
  OBVIOUS
<1>2. /\ c.rows \in Seq(Seq(Tokens)) /\ rows' = c.rows /\ row' = 1
      /\ entry' = None /\ snap' = None /\ live' = FALSE
      /\ results' \in Seq(States \cup {None}) /\ DOMAIN results' = DOMAIN c.rows
      /\ \A r \in DOMAIN c.rows : results'[r] = None
      /\ closed' = closed /\ cache' = cache /\ cacheBytes' = cacheBytes
      /\ logits' = logits
      /\ CachedStatesFresh' /\ CacheBounded'
  BY <1>1, BeginFacts
<1>3. prefixLen' = 0 /\ key' = NoHint /\ seq' = seq /\ past' = past
  OBVIOUS
<1>4. \/ pc' = "idle" /\ outcome' = "raised"
      \/ pc' = "fresh" /\ outcome' = "none"
  OBVIOUS
<1>5. ControlOK'
  <2>1. ControlOK
    OBVIOUS
  <2> HIDE DEF IInv, Reject, BatchCall, FallbackCall
  <2> QED BY <1>2, <1>3, <1>4, <2>1, EmptyTypes DEF ControlOK, Locations
<1>6. RowsOK'
  BY <1>2, <1>4 DEF RowsOK
<1>7. FreshPathOK'
  <2>1. \A r \in DOMAIN c.rows : ~(r < 1)
    BY <1>2
  <2> QED BY <1>2, <1>4, <2>1 DEF FreshPathOK
<1>8. PlanOK' /\ StageOK' /\ BranchesOK'
  BY <1>4 DEF PlanOK, StageOK, BranchesOK, SharedPath
<1> QED BY <1>2, <1>5, <1>6, <1>7, <1>8

(* The plan of a call is one prefix of all its rows, on a batch boundary,   *)
(* and shorter than every row when it is to be cached.                      *)
LEMMA SharedCallKeeps ==
  ASSUME HintsStrict, IInv, NEW c \in Calls, SharedCall(c)
  PROVE  IInv'
<1> USE DEF IInv
<1> DEFINE agreed == CommonPrefixLen(c.rows)
           plan == SharedPrefixPlan(agreed, c.hint)
<1>1. /\ Begin(c) /\ pc' = "lookup" /\ outcome' = "none"
      /\ prefixLen' = plan.prefixLen /\ plan.prefixLen >= 1
      /\ key' = CacheKey(SubSeq(c.rows[1], 1, prefixLen'), plan.cacheLen)
      /\ seq' = EmptyState /\ past' = 0
  BY DEF SharedCall, PlanOf
<1>2. /\ c.rows \in Seq(Seq(Tokens)) /\ c.hint \in Nat \cup {NoHint}
      /\ rows' = c.rows /\ row' = 1 /\ entry' = None /\ snap' = None
      /\ live' = FALSE
      /\ results' \in Seq(States \cup {None}) /\ DOMAIN results' = DOMAIN c.rows
      /\ \A r \in DOMAIN c.rows : results'[r] = None
      /\ closed' = closed /\ cache' = cache /\ cacheBytes' = cacheBytes
      /\ logits' = logits
      /\ CachedStatesFresh' /\ CacheBounded'
  BY <1>1, BeginFacts
<1>3. c.rows # <<>> /\ \A r \in DOMAIN c.rows : Len(c.rows[r]) <= NCtx
  BY DEF SharedCall, Rejected, Valid
<1>4. agreed \in Nat
  BY <1>2, <1>3, CommonPrefixFacts
<1>5. /\ prefixLen' \in Nat /\ prefixLen' <= agreed /\ prefixLen' % NBatch = 0
      /\ prefixLen' > 0
      /\ plan.cacheLen # NoHint =>
           plan.cacheLen = prefixLen' /\ c.hint # NoHint /\ prefixLen' <= c.hint
  <2>1. plan = SharedPrefixPlan(agreed, c.hint)
    OBVIOUS
  <2> HIDE DEF agreed, plan, IInv
  <2>2. c.hint \in Nat \cup {NoHint}
    BY <1>2
  <2>3. /\ plan.prefixLen \in Nat /\ plan.prefixLen <= agreed
        /\ plan.prefixLen % NBatch = 0
        /\ plan.cacheLen # NoHint =>
             plan.cacheLen = plan.prefixLen /\ c.hint # NoHint /\ plan.prefixLen <= c.hint
    BY <1>4, <2>1, <2>2, PlanFacts
  <2> QED BY <1>1, <2>3
<1>6. \A r \in DOMAIN c.rows :
        /\ prefixLen' <= Len(c.rows[r])
        /\ SubSeq(c.rows[r], 1, prefixLen') = SubSeq(c.rows[1], 1, prefixLen')
  BY <1>2, <1>3, <1>5, SharedPrefixFacts
<1>7. 1 \in DOMAIN c.rows /\ c.rows[1] \in Seq(Tokens)
  BY <1>2, <1>3
<1>8. /\ Prefix' = SubSeq(c.rows[1], 1, prefixLen')
      /\ Prefix' \in Seq(Tokens) /\ Len(Prefix') = prefixLen'
  <2>1. Prefix' = SubSeq(c.rows[1], 1, prefixLen')
    BY <1>2 DEF Prefix
  <2>2. prefixLen' \in 0 .. Len(c.rows[1])
    <3>1. Len(c.rows[1]) \in Nat
      BY <1>7
    <3>2. prefixLen' <= Len(c.rows[1])
      BY <1>6, <1>7
    <3> HIDE DEF plan, agreed
    <3> QED BY <1>5, <3>1, <3>2
  <2> QED BY <1>7, <2>1, <2>2, PrefixState
<1>9. key' # NoHint =>
        key' = Prefix' /\ \A r \in DOMAIN c.rows : prefixLen' < Len(c.rows[r])
  <2> SUFFICES ASSUME key' # NoHint
               PROVE  key' = Prefix' /\ \A r \in DOMAIN c.rows : prefixLen' < Len(c.rows[r])
    OBVIOUS
  <2>1. plan.cacheLen # NoHint /\ key' = SubSeq(Prefix', 1, plan.cacheLen)
    BY <1>1, <1>8 DEF CacheKey
  <2>2. plan.cacheLen = prefixLen' /\ c.hint # NoHint /\ prefixLen' <= c.hint
    BY <1>5, <2>1
  <2>3. key' = Prefix'
    BY <1>8, <2>1, <2>2, SubSeqFull
  <2>4. \A r \in DOMAIN c.rows : c.hint < Len(c.rows[r])
    BY <2>2 DEF HintsStrict
  <2>5. \A r \in DOMAIN c.rows : Len(c.rows[r]) \in Nat
    <3> SUFFICES ASSUME NEW r \in DOMAIN c.rows PROVE Len(c.rows[r]) \in Nat
      OBVIOUS
    <3>1. c.rows[r] \in Seq(Tokens)
      BY <1>2
    <3> QED BY <3>1
  <2> QED BY <1>2, <1>5, <2>2, <2>3, <2>4, <2>5
<1>10. ControlOK'
  <2>1. key' \in Seq(Tokens) \cup {NoHint}
    BY <1>8, <1>9
  <2>2. ControlOK
    OBVIOUS
  <2> HIDE DEF IInv, plan, agreed
  <2> QED BY <1>1, <1>2, <1>5, <2>1, <2>2, EmptyStateType, EmptyTypes
          DEF ControlOK, Locations
<1>11. RowsOK' /\ FreshPathOK'
  BY <1>1, <1>2 DEF RowsOK, FreshPathOK
<1>12. PlanOK'
  BY <1>2, <1>3, <1>5, <1>6, <1>8, <1>9 DEF PlanOK
<1>13. StageOK' /\ BranchesOK'
  BY <1>1, <1>2 DEF StageOK, BranchesOK
<1> QED BY <1>2, <1>10, <1>11, <1>12, <1>13

-----------------------------------------------------------------------------
(* The invariant, and what it implies. *)

(* A new runtime satisfies the invariant.                                 *)
LEMMA InitIInv == Init => IInv
<1> SUFFICES ASSUME Init PROVE IInv
  OBVIOUS
<1> USE DEF Init
<1>1. ControlOK
  BY EmptyStateType, EmptyTypes DEF ControlOK, Locations
<1>2. RowsOK /\ FreshPathOK
  BY DEF RowsOK, FreshPathOK
<1>3. PlanOK /\ StageOK /\ BranchesOK
  BY DEF PlanOK, StageOK, BranchesOK, SharedPath
<1>4. CachedStatesFresh /\ CacheBounded
  BY LimitsAssumption DEF CachedStatesFresh, CacheBounded
<1> QED BY <1>1, <1>2, <1>3, <1>4 DEF IInv

(* A step that changes nothing keeps the invariant.                       *)
LEMMA StutterKeeps == IInv /\ UNCHANGED vars => IInv'
<1> SUFFICES ASSUME IInv, UNCHANGED vars PROVE IInv'
  OBVIOUS
<1> USE DEF IInv
<1>1. ControlOK' /\ RowsOK' /\ FreshPathOK'
  <2>1. ControlOK'
    BY DEF ControlOK
  <2>2. RowsOK'
    BY DEF RowsOK
  <2>3. FreshPathOK'
    BY DEF FreshPathOK, Reached
  <2> QED BY <2>1, <2>2, <2>3
<1>2. PlanOK' /\ StageOK' /\ BranchesOK'
  BY DEF PlanOK, StageOK, BranchesOK, Reached, Prefix, Forks, Branches
<1>3. CachedStatesFresh' /\ CacheBounded'
  BY DEF CachedStatesFresh, CacheBounded
<1> QED BY <1>1, <1>2, <1>3

(* Every step keeps the invariant if hints end before their rows.         *)
LEMMA NextKeeps == HintsStrict /\ IInv /\ [Next]_vars => IInv'
<1> SUFFICES ASSUME HintsStrict, IInv, [Next]_vars PROVE IInv'
  OBVIOUS
<1>1. CASE Arrive
  BY <1>1, FreshCallKeeps, SharedCallKeeps DEF Arrive
<1>2. CASE FreshRow \/ FreshReject \/ FreshReturn \/ FreshDecode \/ FreshRead
  BY <1>2, FreshRowKeeps, FreshRejectKeeps, FreshReturnKeeps, FreshDecodeKeeps,
     FreshReadKeeps
<1>3. CASE NoLookup \/ Miss \/ Hit \/ Restore \/ PrefixDecode \/ ReadExact
  BY <1>3, ColdStartKeeps, HitKeeps, RestoreKeeps, PrefixDecodeKeeps, ReadExactKeeps
<1>4. CASE CaptureForCache \/ RollbackPoint \/ Evict \/ Store
  BY <1>4, CaptureForCacheKeeps, RollbackPointKeeps, EvictKeeps, StoreKeeps
<1>5. CASE SkipExact \/ FirstBranch \/ NextBranch \/ SuffixDecode \/ SuffixRead \/ Finish
  BY <1>5, SkipExactKeeps, BranchKeeps, SuffixDecodeKeeps, SuffixReadKeeps, FinishKeeps
<1>6. CASE NativeFault
  BY <1>6, NativeFaultKeeps
<1>7. CASE ClearCache \/ ResetMetrics \/ Close
  BY <1>7, IdleOperationKeeps
<1>8. CASE UNCHANGED vars
  BY <1>8, StutterKeeps
<1> QED BY <1>1, <1>2, <1>3, <1>4, <1>5, <1>6, <1>7, <1>8 DEF Next, Work

(* The inductive invariant holds throughout.                                *)
THEOREM Invariance == ASSUME HintsStrict PROVE Spec => []IInv
<1>1. Init => IInv
  BY InitIInv
<1>2. IInv /\ [Next]_vars => IInv'
  BY HintsStrict, NextKeeps
<1> QED BY <1>1, <1>2, PTL DEF Spec

(* Types of the control state: the part of TypeOK without the counters.     *)
THEOREM ControlTypes == ASSUME HintsStrict PROVE Spec => []ControlOK
<1>1. IInv => ControlOK
  BY DEF IInv
<1> QED BY <1>1, HintsStrict, Invariance, PTL

(* Whatever was cached, evicted or interrupted before: a call that returns  *)
(* gives each row its own fresh evaluation (the base.py contract).          *)
THEOREM FreshAnswers == ASSUME HintsStrict PROVE Spec => []FreshEquivalence
<1>1. IInv => FreshEquivalence
  BY DEF IInv, RowsOK, FreshEquivalence
<1> QED BY <1>1, HintsStrict, Invariance, PTL

(* The repeated-state cache never holds anything but the fresh state of its *)
(* key, on a native batch boundary.                                         *)
THEOREM CacheIsFresh == ASSUME HintsStrict PROVE Spec => []CachedStatesFresh
<1>1. IInv => CachedStatesFresh
  BY DEF IInv
<1> QED BY <1>1, HintsStrict, Invariance, PTL

(* The cache stays within both of its limits.                               *)
THEOREM CacheIsBounded == ASSUME HintsStrict PROVE Spec => []CacheBounded
<1>1. IInv => CacheBounded
  BY DEF IInv
<1> QED BY <1>1, HintsStrict, Invariance, PTL

(* The two internal errors of shared-prefix scoring are unreachable.        *)
THEOREM NoStrandedBranch == ASSUME HintsStrict PROVE Spec => []BranchesNeverStranded
<1>1. IInv => BranchesNeverStranded
  <2> SUFFICES ASSUME IInv, pc = "branch" PROVE
                 /\ row \in Branches /\ ~live => snap # None
                 /\ row > Len(rows) => \A r \in DOMAIN rows : results[r] # None
    BY DEF BranchesNeverStranded
  <2>1. ASSUME row \in Branches, ~live PROVE snap # None
    <3>1. PICK r \in Branches : r < row
      BY <2>1 DEF IInv, BranchesOK
    <3>2. r # row
      BY <3>1 DEF IInv, ControlOK, Branches
    <3>3. Forks
      BY <2>1, <3>2 DEF Forks
    <3> QED BY <3>3 DEF IInv, BranchesOK
  <2>2. ASSUME row > Len(rows) PROVE \A r \in DOMAIN rows : results[r] # None
    <3>1. \A r \in DOMAIN rows : r < row
      BY <2>2 DEF IInv, ControlOK
    <3> QED BY <3>1 DEF IInv, BranchesOK
  <2> QED BY <2>1, <2>2
<1> QED BY <1>1, HintsStrict, Invariance, PTL

-----------------------------------------------------------------------------
(* Second half: what is counted, what callers see, what is recent *)

(* The native sequence within its context. *)

(* A point of a fresh evaluation has as many tokens as its position says.   *)
LEMMA ReachedLength ==
  ASSUME NEW t \in Seq(Tokens), past \in Nat, Reached(t)
  PROVE  Len(seq.toks) = past /\ past <= Len(t)
<1>1. past \in 0 .. Len(t) /\ seq = FreshAt(t, past)
  BY DEF Reached
<1> QED BY <1>1, FreshAtType

(* No step takes the sequence beyond the context.                           *)
LEMMA ContextKeeps ==
  ASSUME IInv, IInv', ContextOK, [Next]_vars
  PROVE  ContextOK'
<1>1. ASSUME NEW t \in Seq(Tokens), Len(t) <= NCtx, past < Len(t), Reached(t), Decode(t)
      PROVE  Len(seq'.toks) <= NCtx
  <2>1. past \in Nat
    BY DEF IInv, ControlOK
  <2>2. past' \in Nat /\ past' <= Len(t) /\ seq' = FreshAt(t, past')
    BY <1>1, <2>1, ReachedDecode
  <2>3. past' \in 0 .. Len(t) /\ Len(t) \in Nat
    BY <2>2
  <2>4. Len(FreshAt(t, past').toks) = past'
    BY <2>3, FreshAtType
  <2> QED BY <1>1, <2>2, <2>3, <2>4, LimitsAssumption
<1>2. ASSUME pc \in SharedPath
      PROVE  /\ Prefix \in Seq(Tokens) /\ Len(Prefix) = prefixLen /\ prefixLen <= NCtx
             /\ Len(Fresh(Prefix).toks) <= NCtx
  BY <1>2, PrefixFacts DEF IInv
<1>3. CASE FreshDecode
  <2>1. /\ rows[row] \in Seq(Tokens) /\ Reached(rows[row]) /\ Len(rows[row]) <= NCtx
        /\ past < Len(rows[row]) /\ Decode(rows[row]) /\ call' = call /\ row' = row
    BY <1>3, RowType DEF FreshDecode, IInv, FreshPathOK, ContextOK
  <2> QED BY <1>1, <2>1 DEF ContextOK
<1>4. CASE PrefixDecode
  <2>1. /\ pc = "prefix" /\ past < prefixLen /\ Decode(Prefix) /\ pc' = "prefix"
    BY <1>4 DEF PrefixDecode
  <2>2. Reached(Prefix)
    BY <2>1 DEF IInv, StageOK
  <2> QED BY <1>1, <1>2, <2>1, <2>2 DEF ContextOK, SharedPath
<1>5. CASE SuffixDecode
  <2>1. pc = "suffix" /\ past < Len(rows[row]) /\ Decode(rows[row]) /\ pc' = "suffix"
    BY <1>5 DEF SuffixDecode
  <2>2. row \in DOMAIN rows /\ Reached(rows[row]) /\ Len(rows[row]) <= NCtx
    BY <2>1 DEF IInv, StageOK, Branches, PlanOK, SharedPath
  <2>3. rows[row] \in Seq(Tokens)
    BY <2>2, RowType DEF IInv
  <2> QED BY <1>1, <2>1, <2>2, <2>3 DEF ContextOK
<1>6. CASE Restore \/ NextBranch
  <2>1. /\ pc \in SharedPath /\ pc' # "freshDecode"
        /\ \/ seq' = seq
           \/ seq' = entry /\ entry # None
           \/ seq' = snap /\ snap # None
    BY <1>6 DEF Restore, NextBranch, SharedPath, IInv, StageOK
  <2>2. seq' = seq \/ seq' = Fresh(Prefix)
    BY <2>1 DEF IInv, PlanOK
  <2> QED BY <1>2, <2>1, <2>2 DEF ContextOK
<1>7. CASE FreshRow
  BY <1>7, LimitsAssumption DEF FreshRow, ContextOK, Valid, EmptyState
<1>8. ASSUME NEW c \in Calls, SharedCall(c) PROVE ContextOK'
  BY <1>8, LimitsAssumption DEF SharedCall, ContextOK, EmptyState
<1>9. ASSUME seq' = seq, pc' # "freshDecode" \/ (pc' = pc /\ call' = call /\ row' = row)
      PROVE  ContextOK'
  BY <1>9 DEF ContextOK
<1>10. ASSUME NEW c \in Calls, Reject(c) \/ BatchCall(c) \/ FallbackCall(c) PROVE ContextOK'
  <2>1. seq' = seq /\ pc' # "freshDecode"
    BY <1>10 DEF Reject, BatchCall, FallbackCall
  <2> QED BY <2>1, <1>9
<1>11. CASE FreshReject \/ FreshReturn \/ FreshRead \/ NoLookup \/ Miss \/ Hit \/ ReadExact
  <2>1. seq' = seq /\ pc' # "freshDecode"
    BY <1>11 DEF FreshReject, FreshReturn, FreshRead, NoLookup, Miss, Hit, ReadExact
  <2> QED BY <2>1, <1>9
<1>12. CASE CaptureForCache \/ RollbackPoint \/ Evict \/ Store \/ SkipExact \/ FirstBranch
             \/ SuffixRead \/ Finish \/ NativeFault
  <2>1. seq' = seq /\ pc' # "freshDecode"
    BY <1>12 DEF CaptureForCache, RollbackPoint, Evict, Store, SkipExact, FirstBranch,
                 SuffixRead, Finish, NativeFault
  <2> QED BY <2>1, <1>9
<1>13. CASE ClearCache \/ ResetMetrics \/ Close \/ UNCHANGED vars
  <2>1. seq' = seq /\ pc' = pc /\ call' = call /\ row' = row
    BY <1>13 DEF ClearCache, ResetMetrics, Close
  <2> QED BY <2>1, <1>9
<1> QED BY <1>3, <1>4, <1>5, <1>6, <1>7, <1>8, <1>10, <1>11, <1>12, <1>13
        DEF Next, Work, Arrive

(* So the position of the adapter is that of the sequence, within bounds.   *)
LEMMA ContextHolds == ASSUME IInv, ContextOK PROVE WithinContext
<1>1. ASSUME pc = "freshDecode" PROVE Len(seq.toks) = past
  BY <1>1, RowType, ReachedLength DEF IInv, ControlOK, FreshPathOK
<1>2. ASSUME pc = "lookup" PROVE Len(seq.toks) = past
  BY <1>2 DEF IInv, StageOK, EmptyState
<1>3. ASSUME pc = "prefix" PROVE Len(seq.toks) = past
  <2>1. Prefix \in Seq(Tokens) /\ Reached(Prefix) /\ past \in Nat
    BY <1>3, PrefixFacts DEF IInv, StageOK, SharedPath, ControlOK
  <2> QED BY <2>1, ReachedLength
<1>4. ASSUME pc = "suffix" PROVE Len(seq.toks) = past
  <2>1. row \in DOMAIN rows /\ Reached(rows[row]) /\ past \in Nat
    BY <1>4 DEF IInv, StageOK, Branches, ControlOK
  <2>2. rows[row] \in Seq(Tokens)
    BY <2>1, RowType DEF IInv
  <2> QED BY <2>1, <2>2, ReachedLength
<1> QED BY <1>1, <1>2, <1>3, <1>4 DEF WithinContext, ContextOK

-----------------------------------------------------------------------------
(* The entries of the cache. *)

(* Moving a number to the end of a sequence keeps its sum.                  *)
LEMMA TotalOfMoved ==
  ASSUME NEW a \in Seq(Int), NEW b \in Seq(Int), NEW i \in 1 .. Len(a), Len(b) = Len(a),
         \A j \in 1 .. Len(a) : b[j] = a[Origin(Len(a), i, j)]
  PROVE  Total(b) = Total(a)
<1> DEFINE c == [j \in 1 .. Len(a) - 1 |-> IF j < i THEN a[j] ELSE a[j + 1]]
<1>1. c \in Seq(Int) /\ Len(c) = Len(a) - 1
  OBVIOUS
<1>2. \A j \in 1 .. Len(c) : c[j] = IF j < i THEN a[j] ELSE a[j + 1]
  OBVIOUS
<1>3. Total(c) = Total(a) - a[i]
  <2> HIDE DEF c
  <2> QED BY <1>1, <1>2, TotalWithout
<1>4. b = Append(c, a[i])
  <2>1. Len(Append(c, a[i])) = Len(a) /\ Append(c, a[i]) \in Seq(Int)
    BY <1>1
  <2>2. ASSUME NEW j \in 1 .. Len(a) PROVE b[j] = Append(c, a[i])[j]
    <3>1. CASE j = Len(a)
      BY <1>1, <3>1 DEF Origin
    <3>2. CASE j < Len(a)
      <4>1. j \in 1 .. Len(c) /\ Append(c, a[i])[j] = c[j]
        BY <1>1, <3>2
      <4> QED BY <1>2, <3>2, <4>1 DEF Origin
    <3> QED BY <3>1, <3>2
  <2> HIDE DEF c
  <2> QED BY <2>1, <2>2, SeqEqual
<1>5. Total(b) = Total(c) + a[i]
  <2>1. a[i] \in Int
    OBVIOUS
  <2> HIDE DEF c
  <2> QED BY <1>1, <1>4, <2>1, TotalOfAppend
<1> QED
  <2>1. Total(a) \in Int /\ a[i] \in Int
    BY TotalsFacts
  <2> HIDE DEF c
  <2> QED BY <1>3, <1>5, <2>1

(* A function on the first numbers is a sequence of that length. *)
LEMMA ListOfLength ==
  ASSUME NEW S, NEW n \in Nat, NEW f \in [1 .. n -> S]
  PROVE  f \in Seq(S) /\ Len(f) = n
OBVIOUS

(* The sizes of the entries, as a sequence of numbers. *)
LEMMA SizesFacts ==
  ASSUME NEW c \in Seq([key : Seq(Tokens), state : States, size : Nat])
  PROVE  /\ SizesOf(c) \in Seq(Int) /\ Len(SizesOf(c)) = Len(c)
         /\ \A i \in 1 .. Len(c) : SizesOf(c)[i] = c[i].size /\ c[i].size \in Nat
         /\ DOMAIN c = 1 .. Len(c) /\ Len(c) \in Nat
<1> DEFINE E == [key : Seq(Tokens), state : States, size : Nat]
<1>1. DOMAIN c = 1 .. Len(c) /\ Len(c) \in Nat /\ \A i \in DOMAIN c : c[i] \in E
  <2>1. c \in Seq(E)
    OBVIOUS
  <2> HIDE DEF E
  <2> QED BY <2>1
<1>2. \A i \in DOMAIN c : c[i].size \in Nat
  BY <1>1
<1> HIDE DEF E
<1>3. SizesOf(c) \in [1 .. Len(c) -> Int]
  BY <1>1, <1>2 DEF SizesOf
<1>4. SizesOf(c) \in Seq(Int) /\ Len(SizesOf(c)) = Len(c)
  BY <1>1, <1>3, ListOfLength, Zenon
<1> QED BY <1>1, <1>2, <1>4 DEF SizesOf

(* An entry that is used again stays an entry.                              *)
LEMMA TouchedHeld ==
  ASSUME IInv, IInv', HeldOK, NEW i \in DOMAIN cache, cache' = Touched(i), cacheBytes' = cacheBytes
  PROVE  HeldOK'
<1> DEFINE n == Len(cache)  E == [key : Seq(Tokens), state : States, size : Nat]
<1>0. cache \in Seq(E) /\ cache' \in Seq(E)
  BY DEF IInv, ControlOK
<1>1. /\ Len(cache') = n
      /\ \A j \in DOMAIN cache : cache'[j] = cache[Origin(n, i, j)]
  <2> HIDE DEF E
  <2> QED BY <1>0, TouchedAt
<1>2. /\ SizesOf(cache) \in Seq(Int) /\ Len(SizesOf(cache)) = n
      /\ \A j \in 1 .. n : SizesOf(cache)[j] = cache[j].size
      /\ DOMAIN cache = 1 .. n /\ n \in Nat
  BY <1>0, SizesFacts
<1>3. /\ SizesOf(cache') \in Seq(Int) /\ Len(SizesOf(cache')) = n
      /\ \A j \in 1 .. n : SizesOf(cache')[j] = cache'[j].size
      /\ DOMAIN cache' = 1 .. n
  BY <1>0, <1>1, SizesFacts
<1> HIDE DEF E, n
<1>4. /\ i \in 1 .. n
      /\ \A j \in 1 .. n : Origin(n, i, j) \in 1 .. n
      /\ \A j, k \in 1 .. n : Origin(n, i, j) = Origin(n, i, k) => j = k
  <2>1. i \in 1 .. n /\ n \in Nat
    BY <1>2
  <2> QED BY <2>1, OriginFacts
<1>5. \A j \in 1 .. n : cache'[j] = cache[Origin(n, i, j)]
  BY <1>1, <1>2
<1>6. Total(SizesOf(cache')) = Total(SizesOf(cache))
  <2>1. ASSUME NEW j \in 1 .. n PROVE SizesOf(cache')[j] = SizesOf(cache)[Origin(n, i, j)]
    <3>1. SizesOf(cache')[j] = cache'[j].size /\ cache'[j] = cache[Origin(n, i, j)]
      BY <1>3, <1>5
    <3>2. Origin(n, i, j) \in 1 .. n
      BY <1>4
    <3>3. SizesOf(cache)[Origin(n, i, j)] = cache[Origin(n, i, j)].size
      BY <1>2, <3>2
    <3> QED BY <3>1, <3>3
  <2> DEFINE a == SizesOf(cache)  b == SizesOf(cache')
  <2>2. /\ a \in Seq(Int) /\ b \in Seq(Int) /\ i \in 1 .. Len(a) /\ Len(b) = Len(a)
        /\ \A j \in 1 .. Len(a) : b[j] = a[Origin(Len(a), i, j)]
    BY <1>2, <1>3, <1>4, <2>1
  <2> HIDE DEF a, b
  <2>3. Total(b) = Total(a)
    BY <2>2, TotalOfMoved
  <2> QED BY <2>3 DEF a, b
<1>7. \A j \in DOMAIN cache' : cache'[j].size = Size(cache'[j].state)
  <2> SUFFICES ASSUME NEW j \in 1 .. n PROVE cache'[j].size = Size(cache'[j].state)
    BY <1>3
  <2>1. Origin(n, i, j) \in DOMAIN cache /\ cache'[j] = cache[Origin(n, i, j)]
    BY <1>2, <1>4, <1>5
  <2> QED BY <2>1 DEF HeldOK
<1>8. ASSUME NEW j \in 1 .. n, NEW k \in 1 .. n, cache'[j].key = cache'[k].key PROVE j = k
  <2>1. /\ Origin(n, i, j) \in DOMAIN cache /\ cache'[j] = cache[Origin(n, i, j)]
        /\ Origin(n, i, k) \in DOMAIN cache /\ cache'[k] = cache[Origin(n, i, k)]
    BY <1>2, <1>4, <1>5
  <2>2. Origin(n, i, j) = Origin(n, i, k)
    BY <1>8, <2>1 DEF HeldOK
  <2> QED BY <1>4, <2>2
<1> QED BY <1>3, <1>6, <1>7, <1>8 DEF HeldOK

(* Dropping the first entry takes its bytes off the count.                  *)
LEMMA EvictHeld == ASSUME IInv, HeldOK, Evict PROVE HeldOK'
<1> DEFINE n == Len(cache)  E == [key : Seq(Tokens), state : States, size : Nat]
<1>1. /\ cache \in Seq(E) /\ cache # <<>> /\ cache' = Tail(cache)
      /\ cacheBytes' = cacheBytes - Head(cache).size
  BY DEF IInv, ControlOK, Evict
<1>2. /\ SizesOf(cache) \in Seq(Int) /\ Len(SizesOf(cache)) = n
      /\ \A j \in 1 .. n : SizesOf(cache)[j] = cache[j].size
      /\ DOMAIN cache = 1 .. n /\ n \in Nat
  BY <1>1, SizesFacts
<1> HIDE DEF E
<1>3. /\ cache' \in Seq(E) /\ Len(cache') = n - 1 /\ n > 0
      /\ \A j \in 1 .. n - 1 : cache'[j] = cache[j + 1]
      /\ Head(cache) = cache[1]
  BY <1>1
<1>4. /\ SizesOf(cache') \in Seq(Int) /\ Len(SizesOf(cache')) = n - 1
      /\ \A j \in 1 .. n - 1 : SizesOf(cache')[j] = cache'[j].size
      /\ DOMAIN cache' = 1 .. n - 1
  BY <1>3, SizesFacts DEF E
<1> HIDE DEF n
<1>5. Total(SizesOf(cache')) = Total(SizesOf(cache)) - cache[1].size
  <2> DEFINE a == SizesOf(cache)  b == SizesOf(cache')
  <2>1. ASSUME NEW j \in 1 .. n - 1 PROVE b[j] = a[j + 1]
    <3>1. j + 1 \in 1 .. n
      BY <1>2
    <3> QED BY <1>2, <1>3, <1>4, <3>1
  <2>2. /\ a \in Seq(Int) /\ b \in Seq(Int) /\ 1 \in 1 .. Len(a) /\ Len(b) = Len(a) - 1
        /\ a[1] = cache[1].size
    BY <1>2, <1>3, <1>4
  <2>3. \A j \in 1 .. Len(b) : b[j] = IF j < 1 THEN a[j] ELSE a[j + 1]
    BY <1>4, <2>1
  <2> HIDE DEF a, b
  <2>4. Total(b) = Total(a) - a[1]
    BY <2>2, <2>3, TotalWithout
  <2> QED BY <2>2, <2>4 DEF a, b
<1>6. cacheBytes' = Total(SizesOf(cache'))
  BY <1>1, <1>3, <1>5 DEF HeldOK
<1>7. \A j \in 1 .. n - 1 : j + 1 \in DOMAIN cache /\ cache'[j] = cache[j + 1]
  BY <1>2, <1>3
<1>8. \A j \in DOMAIN cache' : cache'[j].size = Size(cache'[j].state)
  BY <1>4, <1>7 DEF HeldOK
<1>9. \A j, k \in DOMAIN cache' : cache'[j].key = cache'[k].key => j = k
  <2> SUFFICES ASSUME NEW j \in 1 .. n - 1, NEW k \in 1 .. n - 1, cache'[j].key = cache'[k].key
               PROVE  j = k
    BY <1>4
  <2>1. j + 1 = k + 1
    BY <1>7 DEF HeldOK
  <2> QED BY <1>2, <2>1
<1> QED BY <1>6, <1>8, <1>9 DEF HeldOK

(* A new entry adds its bytes, and its key is new.                          *)
LEMMA AppendHeld ==
  ASSUME IInv, HeldOK, NEW k \in Seq(Tokens), NEW s \in States, Size(s) \in Nat,
         CachedAt(k) = {}, cacheBytes' = cacheBytes + Size(s),
         cache' = Append(cache, [key |-> k, state |-> s, size |-> Size(s)])
  PROVE  HeldOK'
<1> DEFINE n == Len(cache)  E == [key : Seq(Tokens), state : States, size : Nat]
           new == [key |-> k, state |-> s, size |-> Size(s)]
<1>1. cache \in Seq(E) /\ new \in E /\ cache' = Append(cache, new)
  BY DEF IInv, ControlOK
<1>2. /\ SizesOf(cache) \in Seq(Int) /\ Len(SizesOf(cache)) = n
      /\ \A j \in 1 .. n : SizesOf(cache)[j] = cache[j].size
      /\ DOMAIN cache = 1 .. n /\ n \in Nat
  BY <1>1, SizesFacts
<1>3. new.key = k /\ new.state = s /\ new.size = Size(s)
  OBVIOUS
<1> HIDE DEF E, new
<1>4. /\ cache' \in Seq(E) /\ Len(cache') = n + 1
      /\ \A j \in 1 .. n : cache'[j] = cache[j]
      /\ cache'[n + 1] = new
  BY <1>1
<1>5. /\ SizesOf(cache') \in Seq(Int) /\ Len(SizesOf(cache')) = n + 1
      /\ \A j \in 1 .. n + 1 : SizesOf(cache')[j] = cache'[j].size
      /\ DOMAIN cache' = 1 .. n + 1
  BY <1>4, SizesFacts DEF E
<1> HIDE DEF n
<1>6. Total(SizesOf(cache')) = Total(SizesOf(cache)) + Size(s)
  <2> DEFINE a == SizesOf(cache)  b == SizesOf(cache')  x == Size(s)
  <2>1. x \in Int
    OBVIOUS
  <2>2. a \in Seq(Int) /\ b \in Seq(Int) /\ Len(a) = n /\ Len(b) = n + 1 /\ n \in Nat
    BY <1>2, <1>5
  <2>3. b[n + 1] = x
    BY <1>2, <1>3, <1>4, <1>5
  <2>4. ASSUME NEW j \in 1 .. n PROVE b[j] = a[j]
    <3>1. j \in 1 .. n + 1
      BY <1>2
    <3> QED BY <1>2, <1>4, <1>5, <3>1
  <2> HIDE DEF a, b, x
  <2>5. /\ Append(a, x) \in Seq(Int) /\ Len(Append(a, x)) = n + 1
        /\ \A j \in 1 .. n : Append(a, x)[j] = a[j]
        /\ Append(a, x)[n + 1] = x
    BY <2>1, <2>2
  <2>6. \A j \in 1 .. n + 1 : b[j] = Append(a, x)[j]
    BY <2>2, <2>3, <2>4, <2>5
  <2>7. b = Append(a, x)
    BY <2>2, <2>5, <2>6, SeqEqual
  <2>8. Total(b) = Total(a) + x
    BY <2>1, <2>2, <2>7, TotalOfAppend
  <2> QED BY <2>8 DEF a, b, x
<1>7. \A j \in 1 .. n + 1 : (j \in DOMAIN cache /\ cache'[j] = cache[j]) \/ (j = n + 1 /\ cache'[j] = new)
  BY <1>2, <1>4
<1>8. \A j \in DOMAIN cache' : cache'[j].size = Size(cache'[j].state)
  BY <1>3, <1>5, <1>7 DEF HeldOK
<1>9. \A i, j \in DOMAIN cache' : cache'[i].key = cache'[j].key => i = j
  <2>1. \A j \in DOMAIN cache : cache[j].key # new.key
    BY <1>3 DEF CachedAt
  <2> QED BY <1>5, <1>7, <2>1 DEF HeldOK
<1> QED BY <1>6, <1>8, <1>9 DEF HeldOK

(* Only a call that found nothing stores its prefix.                        *)
LEMMA StoresWhenCold ==
  ASSUME pc = "store" => Cold, [Next]_vars
  PROVE  (pc = "store" => Cold)'
<1>1. CASE Arrive
  BY <1>1 DEF Arrive, Reject, BatchCall, FallbackCall, SharedCall
<1>2. CASE CaptureForCache
  BY <1>2 DEF CaptureForCache, Cold
<1>3. CASE Evict
  BY <1>3 DEF Evict, Cold
<1>4. CASE Work /\ ~CaptureForCache /\ ~Evict
  <2>1. pc' # "store"
    BY <1>4 DEF Work, FreshRow, FreshReject, FreshReturn, FreshDecode, FreshRead, NoLookup,
       Miss, Hit, Restore, PrefixDecode, ReadExact, RollbackPoint, Store, SkipExact,
       FirstBranch, NextBranch, SuffixDecode, SuffixRead, Finish, NativeFault
  <2> QED BY <2>1
<1>5. CASE ClearCache \/ ResetMetrics \/ Close \/ UNCHANGED vars
  BY <1>5 DEF ClearCache, ResetMetrics, Close, Cold
<1> QED BY <1>1, <1>2, <1>3, <1>4, <1>5 DEF Next

(* Every step keeps the books of the cache.                                 *)
LEMMA EntriesKeep ==
  ASSUME IInv, IInv', EntriesOK, [Next]_vars
  PROVE  EntriesOK'
<1> DEFINE Sought == pc \in {"prefix", "snapshot", "store"} /\ Cold => CachedAt(key) = {}
<1>0. HeldOK /\ Sought
  BY DEF EntriesOK
<1> SUFFICES HeldOK' /\ Sought'
  <2>1. (pc = "store" => Cold)'
    BY StoresWhenCold DEF EntriesOK
  <2> QED BY <2>1 DEF EntriesOK
<1>1. ASSUME cache' = cache, cacheBytes' = cacheBytes PROVE HeldOK'
  BY <1>0, <1>1 DEF HeldOK
<1>2. ASSUME cache' = <<>>, cacheBytes' = 0 PROVE HeldOK'
  <2>1. SizesOf(cache') = <<>>
    BY <1>2 DEF SizesOf
  <2>2. Total(<<>>) = 0
    <3>1. <<>> \in Seq(Int) /\ Len(<<>>) = 0
      OBVIOUS
    <3> QED BY <3>1, TotalsFacts
  <2> QED BY <1>2, <2>1, <2>2 DEF HeldOK
<1>3. ASSUME pc' \notin {"prefix", "snapshot", "store"} PROVE Sought'
  BY <1>3
<1>4. ASSUME pc \in {"prefix", "snapshot", "store"}, entry' = entry, key' = key, cache' = cache
      PROVE  Sought'
  BY <1>0, <1>4 DEF Cold, CachedAt
<1>5. CASE Arrive
  <2>1. pc' \notin {"prefix", "snapshot", "store"} /\ cache' = cache /\ cacheBytes' = cacheBytes
    BY <1>5 DEF Arrive, Reject, BatchCall, FallbackCall, SharedCall, Begin
  <2> QED BY <1>1, <1>3, <2>1
<1>6. CASE FreshRow \/ FreshReject \/ FreshReturn \/ FreshDecode \/ FreshRead
  <2>1. pc' \notin {"prefix", "snapshot", "store"} /\ cache' = cache /\ cacheBytes' = cacheBytes
    BY <1>6 DEF FreshRow, FreshReject, FreshReturn, FreshDecode, FreshRead
  <2> QED BY <1>1, <1>3, <2>1
<1>7. CASE NoLookup \/ Miss
  <2>1. /\ cache' = cache /\ cacheBytes' = cacheBytes /\ key' = key
        /\ key = NoHint \/ CachedAt(key) = {}
    BY <1>7 DEF NoLookup, Miss
  <2> QED BY <1>1, <2>1 DEF Cold, CachedAt
<1>8. CASE Hit
  <2>1. PICK i \in DOMAIN cache : cache' = Touched(i)
    BY <1>8 DEF Hit, CachedAt
  <2>2. cacheBytes' = cacheBytes /\ pc' = "restore"
    BY <1>8 DEF Hit
  <2> QED BY <1>0, <1>3, <2>1, <2>2, TouchedHeld
<1>9. CASE Restore
  <2>1. cache' = cache /\ cacheBytes' = cacheBytes /\ entry' = entry /\ entry # None
    BY <1>9 DEF Restore, IInv, StageOK
  <2> QED BY <1>1, <2>1 DEF Cold
<1>10. CASE PrefixDecode \/ ReadExact \/ CaptureForCache
  <2>1. /\ cache' = cache /\ cacheBytes' = cacheBytes /\ entry' = entry /\ key' = key
        /\ pc \in {"prefix", "snapshot", "store"}
    BY <1>10 DEF PrefixDecode, ReadExact, CaptureForCache
  <2> QED BY <1>1, <1>4, <2>1
<1>11. CASE Evict
  <2>1. HeldOK'
    BY <1>0, <1>11, EvictHeld
  <2>2. /\ cache # <<>> /\ cache' = Tail(cache) /\ CachedAt(key) = {} /\ key' = key
    BY <1>11 DEF Evict, Storable
  <2>3. \A j \in DOMAIN cache' : j + 1 \in DOMAIN cache /\ cache'[j] = cache[j + 1]
    <3> DEFINE E == [key : Seq(Tokens), state : States, size : Nat]
    <3>1. cache \in Seq(E)
      BY DEF IInv, ControlOK
    <3> HIDE DEF E
    <3> QED BY <2>2, <3>1
  <2> QED BY <2>1, <2>2, <2>3 DEF CachedAt
<1>12. CASE Store
  <2>1. Sought'
    BY <1>3, <1>12 DEF Store
  <2>2. CASE UNCHANGED store
    BY <1>1, <2>1, <2>2
  <2>3. CASE \E i \in CachedAt(key) : cache' = Touched(i) /\ cacheBytes' = cacheBytes
    BY <1>0, <2>1, <2>3, TouchedHeld DEF CachedAt
  <2>4. CASE /\ Fits /\ cache' = Append(cache, [key |-> key, state |-> snap, size |-> Size(snap)])
             /\ cacheBytes' = cacheBytes + Size(snap)
    <3>1. CachedAt(key) = {}
      BY <2>4 DEF Fits, Storable
    <3>2. pc \in SharedPath /\ key = Prefix /\ snap = Fresh(Prefix)
      BY <1>12 DEF Store, IInv, StageOK, PlanOK, SharedPath
    <3>3. key \in Seq(Tokens) /\ snap \in States /\ Len(snap.toks) \in 1 .. NCtx
      BY <3>2, PrefixFacts DEF IInv
    <3>4. Size(snap) \in Nat
      BY <3>3, LimitsAssumption DEF Size
    <3>5. HeldOK'
      BY <1>0, <2>4, <3>1, <3>3, <3>4, AppendHeld
    <3> QED BY <2>1, <3>5
  <2> QED BY <1>12, <2>2, <2>3, <2>4 DEF Store
<1>13. CASE RollbackPoint \/ SkipExact \/ FirstBranch \/ NextBranch \/ SuffixDecode
             \/ SuffixRead \/ Finish \/ NativeFault
  <2>1. pc' \notin {"prefix", "snapshot", "store"} /\ cache' = cache /\ cacheBytes' = cacheBytes
    BY <1>13 DEF RollbackPoint, SkipExact, FirstBranch, NextBranch, SuffixDecode, SuffixRead,
                 Finish, NativeFault
  <2> QED BY <1>1, <1>3, <2>1
<1>14. CASE ClearCache \/ Close
  <2>1. cache' = <<>> /\ cacheBytes' = 0 /\ pc' \notin {"prefix", "snapshot", "store"}
    BY <1>14 DEF ClearCache, Close
  <2> QED BY <1>2, <1>3, <2>1
<1>15. CASE ResetMetrics
  <2>1. cache' = cache /\ cacheBytes' = cacheBytes /\ pc' = "idle"
    BY <1>15 DEF ResetMetrics
  <2> QED BY <1>1, <1>3, <2>1
<1>16. CASE UNCHANGED vars
  BY <1>0, <1>1, <1>16 DEF Cold, CachedAt
<1> QED BY <1>5, <1>6, <1>7, <1>8, <1>9, <1>10, <1>11, <1>12, <1>13, <1>14, <1>15, <1>16
        DEF Next, Work

-----------------------------------------------------------------------------
(* What a call is charged. *)

(* A cached prefix is reused whole or not at all.                           *)
LEMMA ReusedFacts ==
  ASSUME IInv, pc \in SharedPath
  PROVE  /\ prefixLen \in Nat /\ prefixLen > 0 /\ Reused \in {0, prefixLen}
         /\ entry = None => Reused = 0
         /\ entry # None => Reused = prefixLen
<1>1. prefixLen \in Nat /\ Len(Prefix) = prefixLen /\ prefixLen > 0
  BY PrefixFacts DEF IInv
<1>2. entry # None => key = Prefix
  BY DEF IInv, PlanOK
<1> QED BY <1>1, <1>2 DEF Reused

(* The suffixes of the rows, and the tokens of the first n of them.         *)
LEMMA SuffixFacts ==
  ASSUME IInv, pc \in SharedPath
  PROVE  /\ SuffixLens \in Seq(Nat) /\ SuffixLens \in Seq(Int) /\ Len(SuffixLens) = Len(rows)
         /\ Len(rows) \in Nat /\ DOMAIN rows = 1 .. Len(rows) /\ rows # <<>>
         /\ \A r \in 1 .. Len(rows) :
              /\ SuffixLens[r] = Len(rows[r]) - prefixLen
              /\ Len(rows[r]) \in Nat /\ prefixLen <= Len(rows[r])
         /\ \A n \in 0 .. Len(rows) : Totals(SuffixLens)[n] \in Nat
         /\ Totals(SuffixLens)[0] = 0
         /\ \A r \in 1 .. Len(rows) :
              Totals(SuffixLens)[r] = Totals(SuffixLens)[r - 1] + (Len(rows[r]) - prefixLen)
         /\ Physical = prefixLen - Reused + Totals(SuffixLens)[Len(rows)]
<1>1. DOMAIN rows = 1 .. Len(rows) /\ Len(rows) \in Nat /\ rows # <<>> /\ prefixLen \in Nat
  BY ReusedFacts DEF IInv, ControlOK, PlanOK
<1>2. ASSUME NEW r \in 1 .. Len(rows)
      PROVE  /\ Len(rows[r]) \in Nat /\ prefixLen <= Len(rows[r])
             /\ Len(rows[r]) - prefixLen \in Nat
  <2>1. Len(rows[r]) \in Nat /\ prefixLen <= Len(rows[r])
    BY <1>1, RowType DEF IInv, PlanOK
  <2> QED BY <1>1, <2>1
<1>3. SuffixLens = [r \in 1 .. Len(rows) |-> Len(rows[r]) - prefixLen]
  BY <1>1 DEF SuffixLens
<1>4. SuffixLens \in [1 .. Len(rows) -> Nat]
  BY <1>2, <1>3
<1>5. SuffixLens \in Seq(Nat) /\ SuffixLens \in Seq(Int) /\ Len(SuffixLens) = Len(rows)
  BY <1>1, <1>4
<1>6. \A r \in 1 .. Len(rows) : SuffixLens[r] = Len(rows[r]) - prefixLen
  BY <1>3
<1>7. /\ \A n \in 0 .. Len(rows) : Totals(SuffixLens)[n] \in Nat
      /\ Totals(SuffixLens)[0] = 0
      /\ \A r \in 1 .. Len(rows) : Totals(SuffixLens)[r] = Totals(SuffixLens)[r - 1] + SuffixLens[r]
      /\ Total(SuffixLens) = Totals(SuffixLens)[Len(rows)]
  BY <1>5, TotalsFacts, TotalsOfNats
<1>8. TokensOf(rows, prefixLen) = Total(SuffixLens)
  BY DEF TokensOf, SuffixLens
<1>9. Physical = prefixLen - Reused + Totals(SuffixLens)[Len(rows)]
  BY <1>7, <1>8 DEF Physical
<1>10. ASSUME NEW r \in 1 .. Len(rows)
       PROVE  Totals(SuffixLens)[r] = Totals(SuffixLens)[r - 1] + (Len(rows[r]) - prefixLen)
  BY <1>6, <1>7
<1> QED BY <1>1, <1>2, <1>5, <1>6, <1>7, <1>9, <1>10

(* A call is never charged more than the tokens of its rows.                *)
LEMMA ChargeFacts ==
  ASSUME IInv, pc \in SharedPath
  PROVE  Physical \in Nat /\ Logical \in Nat /\ Logical >= Physical
<1> DEFINE lens == [r \in DOMAIN rows |-> Len(rows[r]) - 0]
<1>1. /\ prefixLen \in Nat /\ Reused \in {0, prefixLen}
      /\ SuffixLens \in Seq(Int) /\ Len(SuffixLens) = Len(rows)
      /\ Len(rows) \in Nat /\ DOMAIN rows = 1 .. Len(rows) /\ Len(rows) > 0
      /\ \A r \in 1 .. Len(rows) :
           /\ SuffixLens[r] = Len(rows[r]) - prefixLen
           /\ Len(rows[r]) \in Nat
      /\ Totals(SuffixLens)[Len(rows)] \in Nat
      /\ Physical = prefixLen - Reused + Totals(SuffixLens)[Len(rows)]
  <2>1. rows \in Seq(Seq(Tokens)) /\ rows # <<>>
    BY SuffixFacts DEF IInv, ControlOK
  <2>2. Len(rows) \in Nat /\ Len(rows) > 0
    BY <2>1
  <2> QED BY <2>2, ReusedFacts, SuffixFacts
<1>2. lens \in [1 .. Len(rows) -> Nat] /\ \A r \in 1 .. Len(rows) : lens[r] = Len(rows[r])
  BY <1>1
<1>3. Logical = Total(lens)
  BY DEF Logical, TokensOf
<1> HIDE DEF lens
<1>4. lens \in Seq(Nat) /\ lens \in Seq(Int) /\ Len(lens) = Len(rows) /\ lens # <<>>
  <2>1. lens \in Seq(Nat) /\ Len(lens) = Len(rows)
    <3>1. Len(rows) \in Nat /\ lens \in [1 .. Len(rows) -> Nat]
      BY <1>1, <1>2
    <3> QED BY <3>1
  <2>2. lens \in Seq(Int)
    BY <2>1
  <2> QED BY <1>1, <2>1, <2>2
<1>5. Logical \in Nat
  BY <1>1, <1>3, <1>4, TotalsOfNats DEF Total
<1>6. Total(lens) >= Total(SuffixLens) + prefixLen
  <2>1. \A r \in 1 .. Len(lens) : lens[r] >= SuffixLens[r]
    BY <1>1, <1>2, <1>4
  <2>2. lens[1] >= SuffixLens[1] + prefixLen
    <3>1. 1 \in 1 .. Len(rows)
      BY <1>1
    <3> QED BY <1>1, <1>2, <3>1
  <2>3. prefixLen \in Int
    BY <1>1
  <2> QED BY <1>1, <1>4, <2>1, <2>2, <2>3, TotalsAtLeast
<1>7. Total(SuffixLens) = Totals(SuffixLens)[Len(rows)]
  BY <1>1 DEF Total
<1>8. Physical \in Nat /\ Physical <= Total(SuffixLens) + prefixLen
  BY <1>1, <1>7
<1> QED BY <1>1, <1>3, <1>5, <1>6, <1>7, <1>8

-----------------------------------------------------------------------------
(* The metrics. *)

(* One counter goes up and the others stay.                                 *)
LEMMA CountUp ==
  ASSUME NEW m \in [Counters -> Nat], NEW c \in Counters, NEW n \in Nat
  PROVE  /\ [m EXCEPT ![c] = @ + n] \in [Counters -> Nat]
         /\ [m EXCEPT ![c] = @ + n][c] = m[c] + n
         /\ \A d \in Counters \ {c} : [m EXCEPT ![c] = @ + n][d] = m[d]
<1>1. m[c] + n \in Nat
  OBVIOUS
<1> QED BY <1>1

Balanced(m) ==
  m \in [Counters -> Nat] /\ m["logical"] = m["physical"] + m["reused"]

Charges == {"logical", "physical", "reused"}

(* A counter that is not a charge may go up.                                *)
LEMMA CountBalanced ==
  ASSUME NEW m, Balanced(m), NEW c \in Counters \ Charges, NEW n \in Nat
  PROVE  Balanced([m EXCEPT ![c] = @ + n])
<1>1. {"logical", "physical", "reused"} \subseteq Counters \ {c}
  BY DEF Counters, Charges
<1> HIDE DEF Counters
<1>2. m \in [Counters -> Nat]
  BY DEF Balanced
<1> QED BY <1>1, <1>2, CountUp DEF Balanced

(* A shared call is charged: what is not evaluated is reused.               *)
LEMMA SharedCharge ==
  ASSUME NEW m, Balanced(m), NEW l \in Nat, NEW p \in Nat, l >= p
  PROVE  Balanced([m EXCEPT !["logical"] = @ + l, !["physical"] = @ + p,
                            !["reused"] = @ + (l - p), !["shared_prefix_calls"] = @ + 1])
<1>1. Charges \cup {"shared_prefix_calls"} \subseteq Counters
  BY DEF Counters, Charges
<1>2. m \in [Counters -> Nat] /\ l - p \in Nat /\ m["logical"] = m["physical"] + m["reused"]
  BY DEF Balanced
<1> HIDE DEF Counters
<1>3. /\ m["logical"] \in Nat /\ m["physical"] \in Nat /\ m["reused"] \in Nat
      /\ m["shared_prefix_calls"] \in Nat
  BY <1>1, <1>2 DEF Charges
<1> DEFINE e == [m EXCEPT !["logical"] = @ + l, !["physical"] = @ + p,
                          !["reused"] = @ + (l - p), !["shared_prefix_calls"] = @ + 1]
<1>4. e \in [Counters -> Nat]
  <2>1. /\ m["logical"] + l \in Nat /\ m["physical"] + p \in Nat
        /\ m["reused"] + (l - p) \in Nat /\ m["shared_prefix_calls"] + 1 \in Nat
    BY <1>2, <1>3
  <2> QED BY <1>1, <1>2, <2>1 DEF Charges
<1>5. /\ e["logical"] = m["logical"] + l /\ e["physical"] = m["physical"] + p
      /\ e["reused"] = m["reused"] + (l - p)
  BY <1>1, <1>2 DEF Charges
<1> HIDE DEF e
<1>6. Balanced(e)
  BY <1>2, <1>3, <1>4, <1>5 DEF Balanced
<1> QED BY <1>6 DEF e

(* A fresh row is charged whole.                                            *)
LEMMA FreshCharge ==
  ASSUME NEW m, Balanced(m), NEW l \in Nat
  PROVE  Balanced([m EXCEPT !["logical"] = @ + l, !["physical"] = @ + l,
                            !["fresh_calls"] = @ + 1])
<1>1. Charges \cup {"fresh_calls"} \subseteq Counters
  BY DEF Counters, Charges
<1>2. m \in [Counters -> Nat] /\ m["logical"] = m["physical"] + m["reused"]
  BY DEF Balanced
<1> HIDE DEF Counters
<1>3. /\ m["logical"] \in Nat /\ m["physical"] \in Nat /\ m["reused"] \in Nat
      /\ m["fresh_calls"] \in Nat
  BY <1>1, <1>2 DEF Charges
<1> DEFINE e == [m EXCEPT !["logical"] = @ + l, !["physical"] = @ + l, !["fresh_calls"] = @ + 1]
<1>4. e \in [Counters -> Nat]
  <2>1. m["logical"] + l \in Nat /\ m["physical"] + l \in Nat /\ m["fresh_calls"] + 1 \in Nat
    BY <1>3
  <2> QED BY <1>1, <1>2, <2>1 DEF Charges
<1>5. /\ e["logical"] = m["logical"] + l /\ e["physical"] = m["physical"] + l
      /\ e["reused"] = m["reused"]
  BY <1>1, <1>2 DEF Charges
<1> HIDE DEF e
<1>6. Balanced(e)
  BY <1>2, <1>3, <1>4, <1>5 DEF Balanced
<1> QED BY <1>6 DEF e

(* Two counters that are not charges may go up together.                    *)
LEMMA CountTwoBalanced ==
  ASSUME NEW m, Balanced(m), NEW c \in Counters \ Charges, NEW d \in Counters \ Charges,
         c # d, NEW k \in Nat, NEW n \in Nat
  PROVE  Balanced([m EXCEPT ![c] = @ + k, ![d] = @ + n])
<1>1. Charges \subseteq Counters \ {c, d}
  BY DEF Counters, Charges
<1>2. m \in [Counters -> Nat] /\ m["logical"] = m["physical"] + m["reused"]
  BY DEF Balanced
<1> HIDE DEF Counters
<1> DEFINE e == [m EXCEPT ![c] = @ + k, ![d] = @ + n]
<1>3. e \in [Counters -> Nat]
  <2>1. m[c] + k \in Nat /\ m[d] + n \in Nat
    BY <1>2
  <2> QED BY <1>2, <2>1
<1>4. \A x \in Charges : e[x] = m[x]
  BY <1>1, <1>2
<1> HIDE DEF e
<1>5. Balanced(e)
  BY <1>2, <1>3, <1>4 DEF Balanced, Charges
<1> QED BY <1>5 DEF e

(* The metrics balance after every step.                                    *)
LEMMA MetricsKeep ==
  ASSUME IInv, Balanced(metrics), [Next]_vars
  PROVE  Balanced(metrics')
<1> DEFINE Plain == Counters \ Charges
<1>1. /\ "shared_prefix_fallbacks" \in Plain /\ "misses" \in Plain /\ "hits" \in Plain
      /\ "hit_tokens" \in Plain /\ "restores" \in Plain /\ "restore_bytes" \in Plain
      /\ "snapshots" \in Plain /\ "snapshot_bytes" \in Plain /\ "evictions" \in Plain
      /\ "store_skips" \in Plain
  BY DEF Counters, Charges
<1> HIDE DEF Plain
<1>2. ASSUME NEW c \in Plain, metrics' = Count(c, 1) PROVE Balanced(metrics')
  BY <1>2, CountBalanced DEF Count, Plain
<1>3. ASSUME NEW s, Size(s) \in Nat, metrics' \in {metrics, Restored(s), Captured(s)}
      PROVE  Balanced(metrics')
  <2>1. Balanced(Restored(s))
    BY <1>1, <1>3, CountTwoBalanced DEF Restored, Plain
  <2>2. Balanced(Captured(s))
    BY <1>1, <1>3, CountTwoBalanced DEF Captured, Plain
  <2> QED BY <1>3, <2>1, <2>2
<1>4. pc \in SharedPath => Size(Fresh(Prefix)) \in Nat
  BY PrefixFacts, LimitsAssumption DEF IInv, Size
<1>5. CASE metrics' = metrics
  BY <1>5
<1>6. ASSUME NEW c \in Calls, Reject(c) \/ BatchCall(c) \/ FallbackCall(c) \/ SharedCall(c)
      PROVE  Balanced(metrics')
  <2>1. metrics' = metrics \/ metrics' = Count("shared_prefix_fallbacks", 1)
    BY <1>6 DEF Reject, BatchCall, FallbackCall, SharedCall
  <2> QED BY <1>1, <1>2, <2>1
<1>7. CASE FreshRow \/ FreshReject \/ FreshReturn \/ FreshDecode \/ NoLookup \/ PrefixDecode \/ ReadExact
  <2>1. metrics' = metrics
    BY <1>7 DEF FreshRow, FreshReject, FreshReturn, FreshDecode, NoLookup, PrefixDecode, ReadExact
  <2> QED BY <2>1
<1>8. CASE FreshRead
  <2>1. past \in Nat
    BY DEF IInv, ControlOK
  <2> QED BY <1>8, <2>1, FreshCharge DEF FreshRead
<1>9. CASE Miss
  BY <1>1, <1>2, <1>9 DEF Miss
<1>10. CASE Hit
  <2>1. Len(key) \in Nat
    <3>1. key \in Seq(Tokens)
      BY <1>10 DEF Hit, IInv, ControlOK
    <3> QED BY <3>1
  <2> QED BY <1>1, <1>10, <2>1, CountTwoBalanced DEF Hit, Plain
<1>11. CASE Restore \/ NextBranch
  <2>1. /\ pc \in SharedPath
        /\ \/ metrics' = metrics
           \/ metrics' = Restored(entry) /\ entry # None
           \/ metrics' = Restored(snap) /\ snap # None
    BY <1>11 DEF Restore, NextBranch, SharedPath, IInv, StageOK
  <2>2. metrics' = metrics \/ metrics' = Restored(Fresh(Prefix))
    BY <2>1 DEF IInv, PlanOK
  <2> QED BY <1>3, <1>4, <2>1, <2>2
<1>12. CASE CaptureForCache \/ RollbackPoint
  <2>1. pc \in SharedPath /\ pc = "snapshot" /\ metrics' \in {metrics, Captured(seq)}
    BY <1>12 DEF CaptureForCache, RollbackPoint, SharedPath
  <2>2. seq = Fresh(Prefix)
    BY <2>1 DEF IInv, StageOK
  <2> QED BY <1>3, <1>4, <2>1, <2>2
<1>13. CASE Evict
  BY <1>1, <1>2, <1>13 DEF Evict
<1>14. CASE Store
  <2>1. metrics' = metrics \/ metrics' = Count("store_skips", 1)
    BY <1>14 DEF Store
  <2> QED BY <1>1, <1>2, <2>1
<1>15. CASE SkipExact \/ FirstBranch \/ SuffixDecode \/ SuffixRead \/ NativeFault \/ ClearCache \/ Close
  <2>1. metrics' = metrics
    BY <1>15 DEF SkipExact, FirstBranch, SuffixDecode, SuffixRead, NativeFault, ClearCache, Close
  <2> QED BY <2>1
<1>16. CASE Finish
  <2>1. Physical \in Nat /\ Logical \in Nat /\ Logical >= Physical
    BY <1>16, ChargeFacts DEF Finish, SharedPath
  <2>2. \/ metrics' = metrics
        \/ metrics' = [metrics EXCEPT !["logical"] = @ + Logical, !["physical"] = @ + Physical,
                         !["reused"] = @ + (Logical - Physical), !["shared_prefix_calls"] = @ + 1]
    BY <1>16 DEF Finish
  <2> QED BY <2>1, <2>2, SharedCharge
<1>17. CASE ResetMetrics
  <2>1. Balanced(Zero)
    BY DEF Balanced, Zero, Counters
  <2> QED BY <1>17, <2>1 DEF ResetMetrics
<1>18. CASE UNCHANGED vars
  BY <1>18
<1> QED BY <1>6, <1>7, <1>8, <1>9, <1>10, <1>11, <1>12, <1>13, <1>14, <1>15, <1>16, <1>17, <1>18
        DEF Next, Work, Arrive

(* A native decode is on the books until the call is charged.               *)
SpentOK == spent \in Int /\ spent >= 0 /\ Uncharged

(* When a call ends by an error, what it decoded may stay uncharged.        *)
LEMMA RaiseKeepsSpent ==
  ASSUME SpentOK, Raise, spent' = spent
  PROVE  SpentOK'
BY DEF SpentOK, Uncharged

(* What is decoded moves the position and the books alike.                  *)
LEMMA DecodeSpends ==
  ASSUME past \in Nat, past' \in Nat, past < past', spent \in Nat,
         NEW d \in Int, spent = past + d, spent' = spent + (past' - past)
  PROVE  spent' = past' + d /\ spent' \in Nat
<1>1. PICK q \in Nat : q = past'
  OBVIOUS
<1>2. past < q /\ spent' = spent + (q - past)
  BY <1>1, Zenon
<1>3. spent + (q - past) = q + d /\ spent + (q - past) \in Nat
  BY <1>2
<1> QED BY <1>1, <1>2, <1>3, Zenon

(* A call that arrives has decoded nothing. *)
LEMMA ArriveKeepsSpent ==
  ASSUME NEW c \in Calls, Reject(c) \/ BatchCall(c) \/ FallbackCall(c) \/ SharedCall(c)
  PROVE  SpentOK'
<1>1. spent' = 0 /\ pc' \in {"idle", "fresh", "lookup"} /\ outcome' # "ok"
  BY DEF Reject, BatchCall, FallbackCall, SharedCall, Begin
<1> QED BY <1>1 DEF SpentOK, Uncharged

(* A row evaluated afresh is charged when it is done.                       *)
LEMMA FreshKeepsSpent ==
  ASSUME IInv, SpentOK, FreshRow \/ FreshReject \/ FreshReturn \/ FreshDecode \/ FreshRead
  PROVE  SpentOK'
<1>1. CASE FreshRow
  <2>1. spent' = spent /\ spent = 0 /\ past' = 0 /\ pc' = "freshDecode" /\ outcome' = "none"
    BY <1>1 DEF FreshRow, SpentOK, Uncharged
  <2> QED BY <2>1 DEF SpentOK, Uncharged
<1>2. CASE FreshReject
  BY <1>2, RaiseKeepsSpent DEF FreshReject
<1>3. CASE FreshReturn
  <2>1. spent' = spent /\ spent = 0 /\ pc' = "idle"
    BY <1>3 DEF FreshReturn, SpentOK, Uncharged
  <2> QED BY <2>1 DEF SpentOK, Uncharged
<1>4. CASE FreshDecode
  <2>1. /\ spent' = spent + (past' - past) /\ spent = past /\ pc' = "freshDecode"
        /\ outcome' = "none"
    BY <1>4 DEF FreshDecode, Decode, SpentOK, Uncharged
  <2>2. past \in Nat /\ past' \in Nat /\ past < past'
    <3>1. past < Len(rows[row]) /\ Decode(rows[row])
      BY <1>4 DEF FreshDecode
    <3>2. row \in DOMAIN rows /\ Reached(rows[row])
      BY <1>4 DEF FreshDecode, IInv, FreshPathOK
    <3>3. rows[row] \in Seq(Tokens) /\ past \in Nat
      BY <3>2, RowType DEF IInv, ControlOK
    <3> QED BY <3>1, <3>2, <3>3, ReachedDecode
  <2>3. spent \in Nat /\ spent = past + 0 /\ 0 \in Int
    BY <2>1, <2>2
  <2>4. spent' = past' + 0 /\ spent' \in Nat
    BY <2>1, <2>2, <2>3, DecodeSpends
  <2>5. \A n \in Nat : n + 0 = n /\ n \in Int /\ n >= 0
    OBVIOUS
  <2>6. spent' = past' /\ spent' \in Int /\ spent' >= 0
    BY <2>2, <2>4, <2>5, Zenon
  <2> QED BY <2>1, <2>6 DEF SpentOK, Uncharged
<1>5. CASE FreshRead
  <2>1. spent' = spent - past /\ spent = past /\ past \in Nat
    BY <1>5 DEF FreshRead, SpentOK, Uncharged, IInv, ControlOK
  <2>2. pc' \in {"fresh", "idle"} /\ outcome' \in {"none", "raised"}
    BY <1>5 DEF FreshRead
  <2>3. spent' = 0
    BY <2>1
  <2> QED BY <2>2, <2>3 DEF SpentOK, Uncharged
<1> QED BY <1>1, <1>2, <1>3, <1>4, <1>5

(* The prefix is decoded from where the cached state ends.                  *)
LEMMA PrefixKeepsSpent ==
  ASSUME IInv, SpentOK, NoLookup \/ Miss \/ Hit \/ Restore \/ PrefixDecode \/ ReadExact
  PROVE  SpentOK'
<1>1. CASE NoLookup \/ Miss
  <2>1. /\ spent' = spent /\ spent = 0 /\ past' = 0 /\ entry' = None /\ pc' = "prefix"
        /\ outcome' = "none"
    BY <1>1 DEF NoLookup, Miss, SpentOK, Uncharged, IInv, StageOK
  <2> QED BY <2>1 DEF SpentOK, Uncharged, Reused
<1>2. CASE Hit
  <2>1. spent' = spent /\ spent = 0 /\ pc' = "restore" /\ outcome' = "none"
    BY <1>2 DEF Hit, SpentOK, Uncharged
  <2> QED BY <2>1 DEF SpentOK, Uncharged
<1>3. CASE Restore
  <2>1. /\ spent' = spent /\ spent = 0 /\ pc' = "prefix" /\ outcome' = "none"
        /\ entry' = entry /\ entry # None /\ key' = key /\ past' = Len(key)
    BY <1>3 DEF Restore, SpentOK, Uncharged, IInv, StageOK
  <2>2. Reused' = Len(key) /\ Len(key) \in Nat
    <3>1. key = Prefix /\ pc \in SharedPath
      BY <1>3, <2>1 DEF Restore, SharedPath, IInv, PlanOK
    <3>2. Len(key) \in Nat
      BY <3>1, PrefixFacts DEF IInv
    <3> QED BY <2>1, <3>2 DEF Reused
  <2>3. past' - Reused' = 0
    <3>1. Len(key) - Len(key) = 0
      BY <2>2
    <3> QED BY <2>1, <2>2, <3>1
  <2> QED BY <2>1, <2>3 DEF SpentOK, Uncharged
<1>4. CASE PrefixDecode
  <2>1. /\ pc = "prefix" /\ past < prefixLen /\ Decode(Prefix) /\ pc' = "prefix"
        /\ outcome' = "none" /\ entry' = entry /\ key' = key
    BY <1>4 DEF PrefixDecode
  <2>2. spent' = spent + (past' - past) /\ spent = past - Reused
    BY <2>1 DEF Decode, SpentOK, Uncharged
  <2>3. Prefix \in Seq(Tokens) /\ Len(Prefix) = prefixLen /\ Reached(Prefix) /\ past \in Nat
    BY <2>1, PrefixFacts DEF IInv, StageOK, ControlOK, SharedPath
  <2>4. past' \in Nat /\ past < past'
    BY <2>1, <2>3, ReachedDecode
  <2>5. Reused' = Reused /\ Reused \in Int
    BY <2>1, ReusedFacts DEF Reused, SharedPath
  <2>6. spent' = past' - Reused /\ spent' \in Int /\ spent' >= 0
    <3> DEFINE d == 0 - Reused
    <3>1. /\ spent \in Nat /\ d \in Int /\ spent = past + d
          /\ \A n \in Nat : n + d = n - Reused /\ n \in Int /\ n >= 0
      BY <2>2, <2>3, <2>5 DEF SpentOK
    <3> HIDE DEF d
    <3>2. spent' = past' + d /\ spent' \in Nat
      BY <2>2, <2>3, <2>4, <3>1, DecodeSpends
    <3> QED BY <2>4, <3>1, <3>2, Zenon
  <2> QED BY <2>1, <2>5, <2>6 DEF SpentOK, Uncharged
<1>5. CASE ReadExact
  <2>1. /\ pc = "prefix" /\ past >= prefixLen /\ spent' = spent /\ pc' = "snapshot"
        /\ outcome' = "none" /\ entry' = entry /\ key' = key /\ prefixLen' = prefixLen
    BY <1>5 DEF ReadExact
  <2>2. Len(Prefix) = prefixLen /\ Reached(Prefix) /\ past \in Nat /\ prefixLen \in Nat
    BY <2>1, PrefixFacts DEF IInv, StageOK, ControlOK, SharedPath
  <2>3. past = prefixLen
    BY <2>1, <2>2 DEF Reached
  <2>4. spent' = prefixLen' - Reused'
    BY <2>1, <2>3 DEF SpentOK, Uncharged, Reused
  <2> QED BY <2>1, <2>4 DEF SpentOK, Uncharged
<1> QED BY <1>1, <1>2, <1>3, <1>4, <1>5

(* Capturing and storing decode nothing; the branches start at row one.     *)
LEMMA CaptureKeepsSpent ==
  ASSUME IInv, SpentOK, CaptureForCache \/ RollbackPoint \/ Evict \/ Store
  PROVE  SpentOK'
<1>1. /\ spent' = spent /\ pc \in {"snapshot", "store"} /\ pc' \in {"store", "branch"}
      /\ outcome' = "none"
      /\ entry' = entry /\ key' = key /\ prefixLen' = prefixLen /\ call' = call /\ row' = row
  BY DEF CaptureForCache, RollbackPoint, Evict, Store
<1>2. pc \in SharedPath /\ row = 1
  BY <1>1 DEF IInv, StageOK, SharedPath
<1>3. SuffixLens' = SuffixLens /\ Reused' = Reused /\ rows' = rows
  BY <1>1 DEF SuffixLens, Reused
<1>4. /\ spent = prefixLen - Reused /\ spent \in Int /\ spent >= 0
      /\ Totals(SuffixLens)[row - 1] = 0 /\ row <= Len(rows) + 1
      /\ spent = prefixLen - Reused + Totals(SuffixLens)[row - 1]
  <2>1. Totals(SuffixLens)[0] = 0 /\ Len(rows) \in Nat /\ Reused \in Int /\ prefixLen \in Int
    BY <1>2, SuffixFacts, ReusedFacts
  <2>2. spent = prefixLen - Reused /\ spent \in Int /\ spent >= 0
    BY <1>1 DEF SpentOK, Uncharged
  <2>3. Totals(SuffixLens)[row - 1] = 0
    BY <1>2, <2>1
  <2>4. prefixLen - Reused = prefixLen - Reused + 0
    BY <2>1
  <2> QED BY <1>2, <2>1, <2>2, <2>3, <2>4
<1> QED BY <1>1, <1>3, <1>4 DEF SpentOK, Uncharged

(* A suffix adds its tokens after the prefix.                               *)
LEMMA BranchKeepsSpent ==
  ASSUME IInv, SpentOK, SkipExact \/ FirstBranch \/ NextBranch \/ SuffixDecode \/ SuffixRead
  PROVE  SpentOK'
<1> DEFINE T(n) == Totals(SuffixLens)[n]
<1>1. /\ pc \in {"branch", "suffix"} /\ pc \in SharedPath /\ pc' \in {"branch", "suffix", "idle"}
      /\ entry' = entry /\ key' = key /\ prefixLen' = prefixLen /\ call' = call
      /\ outcome' \in {"none", "raised"}
  BY DEF SkipExact, FirstBranch, NextBranch, SuffixDecode, SuffixRead, SharedPath
<1>2. Reused' = Reused /\ SuffixLens' = SuffixLens /\ rows' = rows
  BY <1>1 DEF Reused, SuffixLens
<1>3. /\ row \in Nat \ {0} /\ past \in Nat /\ Reused \in Int /\ prefixLen \in Nat
      /\ row <= Len(rows) + 1 /\ Len(rows) \in Nat /\ spent \in Int /\ spent >= 0
      /\ DOMAIN rows = 1 .. Len(rows)
  BY <1>1, ReusedFacts, SuffixFacts DEF IInv, ControlOK, SpentOK, Uncharged
<1>4. ASSUME row <= Len(rows)
      PROVE  /\ row \in 1 .. Len(rows) /\ T(row - 1) \in Nat /\ Len(rows[row]) \in Nat
             /\ T(row) = T(row - 1) + (Len(rows[row]) - prefixLen)
             /\ prefixLen <= Len(rows[row])
  <2>1. row \in 1 .. Len(rows) /\ row - 1 \in 0 .. Len(rows)
    BY <1>3, <1>4
  <2> QED BY <1>1, <2>1, SuffixFacts
<1> HIDE DEF T
<1>5. ASSUME pc' = "branch", row' = row + 1, row <= Len(rows), spent' = spent, outcome' = "none",
             spent = prefixLen - Reused + T(row)
      PROVE  SpentOK'
  <2>1. row' - 1 = row /\ row' <= Len(rows') + 1
    BY <1>2, <1>3, <1>5
  <2> QED BY <1>1, <1>2, <1>3, <1>5, <2>1 DEF SpentOK, Uncharged, T
<1>6. ASSUME pc' = "suffix", row' = row, outcome' = "none", spent' \in Int, spent' >= 0,
             spent' = past' - Reused + T(row - 1)
      PROVE  SpentOK'
  BY <1>1, <1>2, <1>3, <1>6 DEF SpentOK, Uncharged, T
<1>7. CASE SkipExact
  <2>1. /\ pc = "branch" /\ pc' = "branch" /\ row' = row + 1 /\ row <= Len(rows)
        /\ spent' = spent /\ outcome' = "none" /\ Len(rows[row]) <= prefixLen
    BY <1>7 DEF SkipExact
  <2>2. spent = prefixLen - Reused + T(row - 1)
    BY <2>1 DEF SpentOK, Uncharged, T
  <2>3. T(row) = T(row - 1)
    BY <1>3, <1>4, <2>1
  <2> QED BY <1>5, <2>1, <2>2, <2>3
<1>8. CASE FirstBranch \/ NextBranch
  <2>1. /\ pc = "branch" /\ row' = row /\ spent' = spent
        /\ \/ pc' = "suffix" /\ past' = prefixLen /\ outcome' = "none"
           \/ Raise
    BY <1>8 DEF FirstBranch, NextBranch
  <2>2. spent = prefixLen - Reused + T(row - 1)
    BY <2>1 DEF SpentOK, Uncharged, T
  <2> QED BY <1>3, <1>6, <2>1, <2>2, RaiseKeepsSpent
<1>9. CASE SuffixDecode
  <2>1. /\ pc = "suffix" /\ pc' = "suffix" /\ row' = row /\ outcome' = "none"
        /\ Decode(rows[row]) /\ past < Len(rows[row])
    BY <1>9 DEF SuffixDecode
  <2>2. spent' = spent + (past' - past) /\ spent = past - Reused + T(row - 1)
    BY <2>1 DEF Decode, SpentOK, Uncharged, T
  <2>3. row \in DOMAIN rows /\ Reached(rows[row]) /\ rows[row] \in Seq(Tokens)
    BY <2>1, RowType DEF IInv, StageOK, Branches
  <2>4. past' \in Nat /\ past < past'
    BY <1>3, <2>1, <2>3, ReachedDecode
  <2>5. row <= Len(rows)
    BY <1>3, <2>3
  <2>6. T(row - 1) \in Nat
    BY <1>4, <2>5
  <2>7. spent' \in Int /\ spent' >= 0 /\ spent' = past' - Reused + T(row - 1)
    <3> DEFINE d == T(row - 1) - Reused
    <3>1. /\ spent \in Nat /\ d \in Int /\ spent = past + d
          /\ \A n \in Nat : n + d = n - Reused + T(row - 1) /\ n \in Int /\ n >= 0
      BY <1>3, <2>2, <2>6
    <3> HIDE DEF d
    <3>2. spent' = past' + d /\ spent' \in Nat
      BY <1>3, <2>2, <2>4, <3>1, DecodeSpends
    <3> QED BY <2>4, <3>1, <3>2, Zenon
  <2> QED BY <1>6, <2>1, <2>7
<1>10. CASE SuffixRead
  <2>1. /\ pc = "suffix" /\ pc' = "branch" /\ row' = row + 1 /\ outcome' = "none"
        /\ spent' = spent /\ past >= Len(rows[row])
    BY <1>10 DEF SuffixRead
  <2>2. row \in DOMAIN rows /\ Reached(rows[row]) /\ spent = past - Reused + T(row - 1)
    BY <2>1 DEF IInv, StageOK, Branches, SpentOK, Uncharged, T
  <2>3. row <= Len(rows)
    BY <1>3, <2>2
  <2>4. /\ T(row - 1) \in Nat /\ Len(rows[row]) \in Nat
        /\ T(row) = T(row - 1) + (Len(rows[row]) - prefixLen)
    BY <1>4, <2>3
  <2>5. past = Len(rows[row])
    BY <1>3, <2>1, <2>2, <2>4 DEF Reached
  <2>6. spent = prefixLen - Reused + T(row)
    BY <1>3, <2>2, <2>4, <2>5
  <2> QED BY <1>5, <2>1, <2>3, <2>6
<1> QED BY <1>7, <1>8, <1>9, <1>10

(* The formula a finished call is charged by is what it has decoded.        *)
LEMMA FinishKeepsSpent == ASSUME IInv, SpentOK, Finish PROVE SpentOK'
<1>1. pc = "branch" /\ pc \in SharedPath /\ row > Len(rows) /\ pc' = "idle"
  BY DEF Finish, SharedPath
<1>2. row \in Nat /\ row <= Len(rows) + 1 /\ Len(rows) \in Nat
  BY <1>1, SuffixFacts DEF SpentOK, Uncharged, IInv, ControlOK
<1>3. row - 1 = Len(rows)
  BY <1>1, <1>2
<1>4. spent = Physical /\ spent \in Int
  BY <1>1, <1>3, SuffixFacts DEF SpentOK, Uncharged
<1>5. CASE Raise /\ spent' = spent
  BY <1>5, RaiseKeepsSpent
<1>6. CASE Return /\ spent' = spent - Physical
  BY <1>4, <1>6 DEF SpentOK, Uncharged
<1> QED BY <1>5, <1>6 DEF Finish

(* No step leaves a decode off the books, or charges more than was decoded. *)
LEMMA SpentKeeps == ASSUME IInv, SpentOK, [Next]_vars PROVE SpentOK'
<1>1. CASE NativeFault
  BY <1>1, RaiseKeepsSpent DEF NativeFault
<1>2. CASE ClearCache \/ ResetMetrics \/ Close
  <2>1. pc = "idle" /\ pc' = "idle" /\ outcome' = outcome /\ spent' = spent
    BY <1>2 DEF ClearCache, ResetMetrics, Close
  <2> QED BY <2>1 DEF SpentOK, Uncharged
<1>3. CASE UNCHANGED vars
  BY <1>3 DEF SpentOK, Uncharged, Reused, SuffixLens
<1> QED BY <1>1, <1>2, <1>3, ArriveKeepsSpent, FreshKeepsSpent, PrefixKeepsSpent,
           CaptureKeepsSpent, BranchKeepsSpent, FinishKeepsSpent
        DEF Next, Work, Arrive

-----------------------------------------------------------------------------
(* The books as a whole. *)

(* The bound on the calls between two resets. *)
LEMMA CallsKeep ==
  ASSUME calls \in 0 .. MaxCalls, [Next]_vars
  PROVE  calls' \in 0 .. MaxCalls
<1>1. calls' \in {calls, 0} \/ (calls < MaxCalls /\ calls' = calls + 1)
  <2>1. ASSUME NEW c \in Calls, Reject(c) \/ BatchCall(c) \/ FallbackCall(c) \/ SharedCall(c)
        PROVE  calls < MaxCalls /\ calls' = calls + 1
    BY <2>1 DEF Reject, BatchCall, FallbackCall, SharedCall, Begin
  <2>2. ASSUME Work PROVE calls' = calls
    BY <2>2 DEF Work, FreshRow, FreshReject, FreshReturn, FreshDecode, FreshRead, NoLookup,
       Miss, Hit, Restore, PrefixDecode, ReadExact, CaptureForCache, RollbackPoint, Evict,
       Store, SkipExact, FirstBranch, NextBranch, SuffixDecode, SuffixRead, Finish, NativeFault
  <2>3. CASE ClearCache \/ ResetMetrics \/ Close
    BY <2>3 DEF ClearCache, ResetMetrics, Close
  <2> QED BY <2>1, <2>2, <2>3 DEF Next, Arrive
<1> QED BY <1>1, LimitsAssumption

(* A call has no outcome before it ends. *)
LEMMA OutcomeKeeps ==
  ASSUME OutcomeOK, [Next]_vars
  PROVE  OutcomeOK'
<1>1. CASE Arrive
  BY <1>1 DEF Arrive, Reject, BatchCall, FallbackCall, SharedCall, OutcomeOK
<1>2. CASE Work
  <2>1. outcome' = "none" \/ pc' = "idle"
    BY <1>2 DEF Work, FreshRow, FreshReject, FreshReturn, FreshDecode, FreshRead, NoLookup,
       Miss, Hit, Restore, PrefixDecode, ReadExact, CaptureForCache, RollbackPoint, Evict,
       Store, SkipExact, FirstBranch, NextBranch, SuffixDecode, SuffixRead, Finish, NativeFault
  <2> QED BY <2>1 DEF OutcomeOK
<1>3. CASE ClearCache \/ ResetMetrics \/ Close \/ UNCHANGED vars
  BY <1>3 DEF ClearCache, ResetMetrics, Close, OutcomeOK
<1> QED BY <1>1, <1>2, <1>3 DEF Next

(* The books of a new runtime balance. *)
LEMMA InitBooks == Init => Books
<1> SUFFICES ASSUME Init PROVE Books
  OBVIOUS
<1>1. ContextOK
  BY LimitsAssumption DEF Init, ContextOK, EmptyState
<1>2. EntriesOK
  <2>1. SizesOf(<<>>) = <<>>
    BY DEF SizesOf
  <2>2. Total(<<>>) = 0
    <3>1. <<>> \in Seq(Int) /\ Len(<<>>) = 0
      OBVIOUS
    <3> QED BY <3>1, TotalsFacts
  <2> QED BY <2>1, <2>2 DEF Init, EntriesOK, HeldOK
<1>3. CountersOK /\ metrics["logical"] = metrics["physical"] + metrics["reused"]
  BY LimitsAssumption DEF Init, CountersOK, Zero, Counters
<1>4. spent >= 0 /\ Uncharged
  BY DEF Init, Uncharged
<1>5. OutcomeOK
  BY DEF Init, OutcomeOK
<1> QED BY <1>1, <1>2, <1>3, <1>4, <1>5 DEF Books, LedgerOK

(* Every step keeps the books. *)
LEMMA BooksKeep ==
  ASSUME IInv, IInv', Books, [Next]_vars
  PROVE  Books'
<1>1. ContextOK'
  BY ContextKeeps DEF Books
<1>2. EntriesOK'
  BY EntriesKeep DEF Books
<1>3. Balanced(metrics')
  BY MetricsKeep DEF Books, LedgerOK, CountersOK, Balanced
<1>4. SpentOK'
  BY SpentKeeps DEF Books, LedgerOK, CountersOK, SpentOK
<1>5. calls' \in 0 .. MaxCalls
  BY CallsKeep DEF Books, LedgerOK, CountersOK
<1>6. LedgerOK'
  BY <1>3, <1>4, <1>5 DEF LedgerOK, CountersOK, Balanced, SpentOK
<1>7. OutcomeOK'
  BY OutcomeKeeps DEF Books
<1> QED BY <1>1, <1>2, <1>6, <1>7 DEF Books

(* The books are kept by every step, relative to the invariant above.       *)
THEOREM BooksAreKept == ASSUME HintsStrict PROVE Spec => [](IInv /\ Books)
<1>1. Init => IInv /\ Books
  BY InitIInv, InitBooks
<1>2. IInv /\ Books /\ [Next]_vars => IInv' /\ Books'
  BY HintsStrict, NextKeeps, BooksKeep
<1> QED BY <1>1, <1>2, PTL DEF Spec

(* The adapter's flags, sequence, cache and counters have their types and the native
   sequence stays within the context, after failed calls too. *)
THEOREM TypeCorrect == ASSUME HintsStrict PROVE Spec => []TypeOK
<1>1. IInv /\ Books => TypeOK
  BY ContextHolds DEF TypeOK, IInv, Books, LedgerOK
<1> QED BY <1>1, HintsStrict, BooksAreKept, PTL

(* Byte count, keys and charges agree with what is held and what was decoded. *)
THEOREM BooksAreBalanced == ASSUME HintsStrict PROVE Spec => []BooksBalance
<1>1. IInv /\ Books => BooksBalance
  <2> SUFFICES ASSUME IInv, Books PROVE BooksBalance
    OBVIOUS
  <2>1. SizesOf(cache) = [i \in DOMAIN cache |-> Size(cache[i].state)]
    BY DEF SizesOf, Books, EntriesOK, HeldOK
  <2> QED BY <2>1 DEF BooksBalance, Books, EntriesOK, HeldOK, LedgerOK, Uncharged
<1> QED BY <1>1, HintsStrict, BooksAreKept, PTL

-----------------------------------------------------------------------------
(* The adapter implements the oracle: every step is one of the oracle, or   *)
(* one that its caller does not see.                                        *)

(* What a caller can tell apart of a step.                                  *)
StaysPending == pc # "idle" /\ pc' # "idle" /\ UNCHANGED <<closed, call>>
StaysIdle    == pc = "idle" /\ UNCHANGED <<pc, closed, call, outcome, results>>
Refuses      == pc = "idle" /\ UNCHANGED closed /\ Raise
Accepts      == pc = "idle" /\ ~closed /\ UNCHANGED closed /\ pc' # "idle"
Answers      == pc # "idle" /\ UNCHANGED <<closed, call, results>> /\ Return
Fails        == pc # "idle" /\ UNCHANGED <<closed, call>> /\ Raise
Shuts        == pc = "idle" /\ ~closed /\ closed' /\ UNCHANGED <<pc, call, outcome, results>>

(* To its caller a step of a call goes on, answers or fails. *)
LEMMA WorkKinds == ASSUME Work PROVE StaysPending \/ Answers \/ Fails
<1>1. CASE FreshRow \/ FreshReject \/ FreshReturn \/ FreshDecode
  BY <1>1 DEF FreshRow, FreshReject, FreshReturn, FreshDecode, StaysPending, Answers, Fails
<1>2. CASE FreshRead
  BY <1>2 DEF FreshRead, StaysPending, Fails
<1>3. CASE NoLookup \/ Miss \/ Hit \/ Restore \/ PrefixDecode \/ ReadExact
  BY <1>3 DEF NoLookup, Miss, Hit, Restore, PrefixDecode, ReadExact, StaysPending
<1>4. CASE CaptureForCache \/ RollbackPoint \/ Evict \/ Store
  BY <1>4 DEF CaptureForCache, RollbackPoint, Evict, Store, StaysPending
<1>5. CASE SkipExact \/ FirstBranch \/ NextBranch \/ SuffixDecode \/ SuffixRead
  BY <1>5 DEF SkipExact, FirstBranch, NextBranch, SuffixDecode, SuffixRead, StaysPending, Fails
<1>6. CASE Finish
  BY <1>6 DEF Finish, Answers, Fails
<1>7. CASE NativeFault
  <2>1. pc # "idle"
    BY <1>7 DEF NativeFault, InNativeOperation
  <2> QED BY <1>7, <2>1 DEF NativeFault, Fails
<1> QED BY <1>1, <1>2, <1>3, <1>4, <1>5, <1>6, <1>7 DEF Work

(* These are all the steps there are. *)
LEMMA StepKinds ==
  ASSUME [Next]_vars
  PROVE  \/ StaysPending \/ StaysIdle \/ Answers \/ Fails \/ Shuts \/ UNCHANGED vars
         \/ \E c \in Calls : call' = c /\ (Refuses \/ Accepts)
<1>1. ASSUME NEW c \in Calls, Reject(c) PROVE call' = c /\ Refuses
  BY <1>1 DEF Reject, Begin, Refuses
<1>2. ASSUME NEW c \in Calls, BatchCall(c) \/ FallbackCall(c) \/ SharedCall(c)
      PROVE  call' = c /\ Accepts
  BY <1>2 DEF BatchCall, FallbackCall, SharedCall, Begin, Rejected, Accepts
<1>3. CASE ClearCache \/ ResetMetrics
  BY <1>3 DEF ClearCache, ResetMetrics, StaysIdle
<1>4. CASE Close
  BY <1>4 DEF Close, Shuts
<1> QED BY <1>1, <1>2, <1>3, <1>4, WorkKinds DEF Next, Arrive

(* A new runtime is a new oracle. *)
LEMMA OracleInit == Init => Oracle!Init
BY DEF Init, Oracle!Init

(* Each kind of step is the oracle's, or leaves what it shows alone. *)
LEMMA OracleStep ==
  ASSUME IInv, IInv', OutcomeOK, OutcomeOK', [Next]_vars
  PROVE  [Oracle!Next]_(Oracle!vars)
<1> USE DEF Oracle!Next, Oracle!vars
<1>1. CASE StaysPending
  <2>1. outcome = "none" /\ outcome' = "none"
    BY <1>1 DEF StaysPending, OutcomeOK
  <2> QED BY <1>1, <2>1 DEF StaysPending
<1>2. CASE StaysIdle
  BY <1>2 DEF StaysIdle
<1>3. CASE UNCHANGED vars
  BY <1>3
<1>4. CASE Answers
  <2>1. results = [r \in DOMAIN rows |-> Fresh(rows[r])]
    <3>1. \A r \in DOMAIN rows : results[r] = Fresh(rows[r])
      BY <1>4 DEF Answers, IInv, RowsOK
    <3>2. results \in Seq(States \cup {None}) /\ DOMAIN results = DOMAIN rows
      BY DEF IInv, ControlOK, RowsOK
    <3>3. results = [r \in DOMAIN results |-> results[r]]
      BY <3>2
    <3> QED BY <3>1, <3>2, <3>3
  <2>2. \A t : Oracle!Fresh(t) = Fresh(t)
    BY DEF Fresh, FreshAt, Oracle!Fresh, Oracle!FreshAt
  <2>3. Oracle!Answer
    BY <1>4, <2>1, <2>2 DEF Answers, Oracle!Answer
  <2> QED BY <2>3
<1>5. CASE Fails
  <2>1. outcome = "none"
    BY <1>5 DEF Fails, OutcomeOK
  <2>2. Oracle!Fail
    BY <1>5, <2>1 DEF Fails, Oracle!Fail
  <2> QED BY <2>2
<1>6. CASE Shuts
  <2>1. Oracle!Shut
    BY <1>6 DEF Shuts, Oracle!Shut, IInv, ControlOK
  <2> QED BY <2>1
<1>7. ASSUME NEW c \in Calls, call' = c, Refuses
      PROVE  Oracle!Next
  <2>1. Oracle!Refuse(c.rows)
    BY <1>7 DEF Refuses, Oracle!Refuse
  <2> QED BY <2>1
<1>8. ASSUME NEW c \in Calls, call' = c, Accepts
      PROVE  Oracle!Next
  <2>1. outcome' = "none"
    BY <1>8 DEF Accepts, OutcomeOK
  <2>2. Oracle!Ask(c.rows)
    BY <1>8, <2>1 DEF Accepts, Oracle!Ask
  <2> QED BY <2>2
<1> QED BY <1>1, <1>2, <1>3, <1>4, <1>5, <1>6, <1>7, <1>8, StepKinds

(* No caller ever sees anything that fresh evaluation could not have shown it:
   the safety part of ImplementsFreshOracle. *)
THEOREM ImplementsOracleSafely == ASSUME HintsStrict PROVE Spec => OracleSafety
<1>1. Init => Oracle!Init
  BY OracleInit
<1>2. IInv /\ IInv' /\ Books /\ Books' /\ [Next]_vars => [Oracle!Next]_(Oracle!vars)
  BY OracleStep DEF Books
<1> QED BY <1>1, <1>2, HintsStrict, BooksAreKept, PTL DEF Spec, OracleSafety

-----------------------------------------------------------------------------
(* The cache is the most recent part of the history. *)

Keys == Seq(Tokens)

(* The last keys used are those of the entries, in the same order.          *)
TailIs(n) ==
  /\ n \in Nat /\ n + Len(cache) = Len(recency)
  /\ \A i \in 1 .. Len(cache) : cache[i].key = recency[n + i]

(* The keys of the entries. *)
LEMMA EntryKeys ==
  ASSUME ControlOK
  PROVE  /\ DOMAIN cache = 1 .. Len(cache) /\ Len(cache) \in Nat
         /\ \A i \in 1 .. Len(cache) : cache[i].key \in Keys
<1> DEFINE E == [key : Seq(Tokens), state : States, size : Nat]
<1>1. cache \in Seq(E)
  BY DEF ControlOK
<1>2. DOMAIN cache = 1 .. Len(cache) /\ Len(cache) \in Nat /\ \A i \in 1 .. Len(cache) : cache[i] \in E
  <2> HIDE DEF E
  <2> QED BY <1>1
<1> QED BY <1>2 DEF Keys

(* Said entry by entry, which is how steps change it. *)
LEMMA MostRecentIsTail ==
  ASSUME ControlOK, recency \in Seq(Keys)
  PROVE  HoldsMostRecent <=> \E n \in Nat : TailIs(n)
<1> DEFINE keys == [i \in DOMAIN cache |-> cache[i].key]
<1>1. /\ DOMAIN cache = 1 .. Len(cache) /\ Len(cache) \in Nat /\ Len(recency) \in Nat
      /\ \A i \in 1 .. Len(cache) : cache[i].key \in Keys
  BY EntryKeys
<1>2. keys \in Seq(Keys) /\ Len(keys) = Len(cache) /\ \A i \in 1 .. Len(cache) : keys[i] = cache[i].key
  <2>1. keys \in [1 .. Len(cache) -> Keys]
    BY <1>1
  <2>2. keys \in Seq(Keys) /\ Len(keys) = Len(cache)
    BY <1>1, <2>1
  <2> QED BY <1>1, <2>2
<1> HIDE DEF keys
<1>3. ASSUME NEW n \in 0 .. Len(recency)
      PROVE  /\ SubSeq(recency, n + 1, Len(recency)) \in Seq(Keys)
             /\ Len(SubSeq(recency, n + 1, Len(recency))) = Len(recency) - n
             /\ \A i \in 1 .. Len(recency) - n : SubSeq(recency, n + 1, Len(recency))[i] = recency[n + i]
  BY <1>1
<1>4. ASSUME NEW n \in 0 .. Len(recency), keys = SubSeq(recency, n + 1, Len(recency))
      PROVE  TailIs(n)
  <2>1. n + Len(cache) = Len(recency) /\ n \in Nat
    BY <1>1, <1>2, <1>3, <1>4
  <2>2. ASSUME NEW i \in 1 .. Len(cache) PROVE cache[i].key = recency[n + i]
    <3>1. i \in 1 .. Len(recency) - n
      BY <1>1, <2>1
    <3> QED BY <1>2, <1>3, <1>4, <3>1
  <2> QED BY <2>1, <2>2 DEF TailIs
<1>5. ASSUME NEW n \in Nat, TailIs(n)
      PROVE  n \in 0 .. Len(recency) /\ keys = SubSeq(recency, n + 1, Len(recency))
  <2>1. n \in 0 .. Len(recency) /\ Len(cache) = Len(recency) - n
    BY <1>1, <1>5 DEF TailIs
  <2>2. \A i \in 1 .. Len(keys) : keys[i] = SubSeq(recency, n + 1, Len(recency))[i]
    BY <1>2, <1>3, <1>5, <2>1 DEF TailIs
  <2>3. Len(keys) = Len(SubSeq(recency, n + 1, Len(recency)))
    BY <1>2, <1>3, <2>1
  <2> QED BY <1>2, <1>3, <2>1, <2>2, <2>3, SeqEqual
<1> QED BY <1>4, <1>5 DEF HoldsMostRecent, keys

(* A key used again moves to the end of the history, a new one is added.    *)
LEMMA UsedAgainKnown ==
  ASSUME recency \in Seq(Keys), \A i, j \in DOMAIN recency : recency[i] = recency[j] => i = j,
         NEW p \in DOMAIN recency
  PROVE  UsedAgain(recency[p]) = Moved(recency, p)
<1>1. {i \in DOMAIN recency : recency[i] = recency[p]} = {p}
  OBVIOUS
<1> QED BY <1>1 DEF UsedAgain, Moved

(* A key that was never used, or was cleared away, is added. *)
LEMMA UsedAgainNew ==
  ASSUME NEW k, \A i \in DOMAIN recency : recency[i] # k
  PROVE  UsedAgain(k) = Append(recency, k)
<1>1. {i \in DOMAIN recency : recency[i] = k} = {}
  OBVIOUS
<1> QED BY <1>1 DEF UsedAgain

(* Histories stay free of repetitions.                                      *)
NoRepeats(s) == s \in Seq(Keys) /\ \A i, j \in DOMAIN s : s[i] = s[j] => i = j

(* Moving a key repeats none. *)
LEMMA MovedNoRepeats ==
  ASSUME NEW s, NoRepeats(s), NEW p \in DOMAIN s
  PROVE  NoRepeats(Moved(s, p))
<1> DEFINE n == Len(s)  t == Moved(s, p)
<1>1. s \in Seq(Keys)
  BY DEF NoRepeats
<1>2. /\ t \in Seq(Keys) /\ Len(t) = n
      /\ \A j \in DOMAIN s : t[j] = s[Origin(n, p, j)]
  BY <1>1, MovedAt
<1>3. DOMAIN s = 1 .. n /\ n \in Nat /\ DOMAIN t = 1 .. n
  BY <1>1, <1>2
<1> HIDE DEF n, t
<1>4. /\ \A j \in 1 .. n : Origin(n, p, j) \in 1 .. n
      /\ \A j, k \in 1 .. n : Origin(n, p, j) = Origin(n, p, k) => j = k
  <2>1. p \in 1 .. n /\ n \in Nat
    BY <1>3
  <2> QED BY <2>1, OriginFacts
<1>5. ASSUME NEW j \in 1 .. n, NEW k \in 1 .. n, t[j] = t[k] PROVE j = k
  <2>1. s[Origin(n, p, j)] = s[Origin(n, p, k)]
    BY <1>2, <1>3, <1>5
  <2>2. Origin(n, p, j) = Origin(n, p, k)
    BY <1>3, <1>4, <2>1 DEF NoRepeats
  <2> QED BY <1>4, <2>2
<1> QED BY <1>2, <1>3, <1>5 DEF NoRepeats, t

(* Adding a new key repeats none. *)
LEMMA AppendNoRepeats ==
  ASSUME NEW s, NoRepeats(s), NEW k \in Keys, \A i \in DOMAIN s : s[i] # k
  PROVE  NoRepeats(Append(s, k))
<1>1. s \in Seq(Keys)
  BY DEF NoRepeats
<1>2. /\ Append(s, k) \in Seq(Keys) /\ DOMAIN Append(s, k) = 1 .. Len(s) + 1 /\ Len(s) \in Nat
      /\ \A i \in 1 .. Len(s) : Append(s, k)[i] = s[i] /\ i \in DOMAIN s
      /\ Append(s, k)[Len(s) + 1] = k
  BY <1>1
<1>3. ASSUME NEW i \in 1 .. Len(s) + 1, NEW j \in 1 .. Len(s) + 1, Append(s, k)[i] = Append(s, k)[j]
      PROVE  i = j
  <2>1. (i = Len(s) + 1 \/ i \in 1 .. Len(s)) /\ (j = Len(s) + 1 \/ j \in 1 .. Len(s))
    BY <1>2
  <2> QED BY <1>2, <1>3, <2>1 DEF NoRepeats
<1> QED BY <1>2, <1>3 DEF NoRepeats

-----------------------------------------------------------------------------
(* The three kinds of change. *)

(* What the history looks like from step to step.                           *)
RecentOK == NoRepeats(recency) /\ \E n \in Nat : TailIs(n)

(* A hit moves the entry and its key to the end.                            *)
LEMMA HitRecent ==
  ASSUME ControlOK, RecentOK, NEW i \in DOMAIN cache,
         cache' = Touched(i), recency' = UsedAgain(cache[i].key)
  PROVE  RecentOK'
<1> DEFINE m == Len(cache)  l == Len(recency)
<1>1. PICK n \in Nat : TailIs(n)
  BY DEF RecentOK
<1>2. /\ DOMAIN cache = 1 .. m /\ m \in Nat /\ recency \in Seq(Keys) /\ l \in Nat
      /\ DOMAIN recency = 1 .. l /\ n + m = l /\ i \in 1 .. m
      /\ \A j \in 1 .. m : cache[j].key = recency[n + j]
  BY <1>1, EntryKeys DEF RecentOK, NoRepeats, TailIs
<1>3. /\ Len(cache') = m /\ \A j \in 1 .. m : cache'[j] = cache[Origin(m, i, j)]
      /\ DOMAIN cache' = 1 .. m
  <2> DEFINE E == [key : Seq(Tokens), state : States, size : Nat]
  <2>1. cache \in Seq(E)
    BY DEF ControlOK
  <2> HIDE DEF E
  <2>2. /\ Touched(i) \in Seq(E) /\ Len(Touched(i)) = Len(cache)
        /\ \A j \in DOMAIN cache : Touched(i)[j] = cache[Origin(Len(cache), i, j)]
    BY <2>1, TouchedAt
  <2> QED BY <1>2, <2>2
<1> HIDE DEF m, l
<1>4. n + i \in 1 .. l /\ cache[i].key = recency[n + i]
  BY <1>2
<1>5. recency' = Moved(recency, n + i)
  BY <1>2, <1>4, UsedAgainKnown DEF RecentOK, NoRepeats
<1>6. NoRepeats(recency')
  BY <1>2, <1>4, <1>5, MovedNoRepeats DEF RecentOK
<1>7. /\ Len(recency') = l
      /\ \A j \in 1 .. l : recency'[j] = recency[Origin(l, n + i, j)]
  BY <1>2, <1>4, <1>5, MovedAt DEF l
<1>8. ASSUME NEW j \in 1 .. m PROVE cache'[j].key = recency'[n + j]
  <2>1. Origin(m, i, j) \in 1 .. m
    BY <1>2, OriginFacts
  <2>2. n + j \in 1 .. l /\ Origin(l, n + i, n + j) = n + Origin(m, i, j)
    BY <1>2 DEF Origin
  <2>3. cache'[j].key = recency[n + Origin(m, i, j)]
    BY <1>2, <1>3, <2>1
  <2>4. recency'[n + j] = recency[n + Origin(m, i, j)]
    BY <1>7, <2>2
  <2> QED BY <2>3, <2>4
<1>9. TailIs(n)'
  BY <1>2, <1>3, <1>7, <1>8 DEF TailIs
<1> QED BY <1>6, <1>9 DEF RecentOK

(* Evicting the first entry moves the border by one.                        *)
LEMMA EvictRecent ==
  ASSUME ControlOK, RecentOK, cache # <<>>, cache' = Tail(cache), recency' = recency
  PROVE  RecentOK'
<1> DEFINE m == Len(cache)  l == Len(recency)
<1>1. PICK n \in Nat : TailIs(n)
  BY DEF RecentOK
<1>2. /\ m \in Nat /\ l \in Nat /\ n + m = l /\ m > 0
      /\ \A j \in 1 .. m : cache[j].key = recency[n + j]
      /\ Len(cache') = m - 1 /\ \A j \in 1 .. m - 1 : cache'[j] = cache[j + 1]
  <2> DEFINE E == [key : Seq(Tokens), state : States, size : Nat]
  <2>1. cache \in Seq(E)
    BY DEF ControlOK
  <2> HIDE DEF E
  <2>2. /\ m \in Nat /\ m > 0 /\ Len(cache') = m - 1
        /\ \A j \in 1 .. m - 1 : cache'[j] = cache[j + 1]
    BY <2>1
  <2>3. recency \in Seq(Keys)
    BY DEF RecentOK, NoRepeats
  <2> QED BY <1>1, <2>2, <2>3 DEF TailIs
<1> HIDE DEF m, l
<1>3. ASSUME NEW j \in 1 .. m - 1 PROVE cache'[j].key = recency[(n + 1) + j]
  <2>1. j + 1 \in 1 .. m /\ n + (j + 1) = (n + 1) + j
    BY <1>2
  <2> QED BY <1>2, <2>1
<1>4. n + 1 \in Nat /\ (n + 1) + (m - 1) = l
  BY <1>2
<1>5. TailIs(n + 1)'
  BY <1>2, <1>3, <1>4 DEF TailIs, l
<1> QED BY <1>4, <1>5 DEF RecentOK, NoRepeats

(* A new entry: its key was forgotten, or never used.                       *)
LEMMA StoreRecent ==
  ASSUME ControlOK, RecentOK, NEW k \in Keys, CachedAt(k) = {}, NEW e, e.key = k,
         cache' = Append(cache, e), recency' = UsedAgain(k)
  PROVE  RecentOK'
<1> DEFINE m == Len(cache)  l == Len(recency)
<1>1. PICK n \in Nat : TailIs(n)
  BY DEF RecentOK
<1>2. /\ m \in Nat /\ l \in Nat /\ n + m = l /\ DOMAIN cache = 1 .. m /\ DOMAIN recency = 1 .. l
      /\ recency \in Seq(Keys)
      /\ \A j \in 1 .. m : cache[j].key = recency[n + j]
  BY <1>1, EntryKeys DEF RecentOK, NoRepeats, TailIs
<1>3. Len(cache') = m + 1 /\ cache'[m + 1] = e /\ \A j \in 1 .. m : cache'[j] = cache[j]
  <2> DEFINE E == [key : Seq(Tokens), state : States, size : Nat]
  <2>1. cache \in Seq(E \cup {e}) /\ e \in E \cup {e}
    <3>1. cache \in Seq(E)
      BY DEF ControlOK
    <3> HIDE DEF E
    <3> QED BY <3>1
  <2> HIDE DEF E
  <2> QED BY <2>1
<1> HIDE DEF m, l
<1>4. CASE \A q \in DOMAIN recency : recency[q] # k
  <2>1. recency' = Append(recency, k)
    BY <1>4, UsedAgainNew
  <2>2. NoRepeats(recency')
    BY <1>4, <2>1, AppendNoRepeats DEF RecentOK
  <2>3. Len(recency') = l + 1 /\ recency'[l + 1] = k /\ \A j \in 1 .. l : recency'[j] = recency[j]
    BY <1>2, <2>1 DEF l
  <2>4. ASSUME NEW j \in 1 .. m + 1 PROVE cache'[j].key = recency'[n + j]
    <3>1. CASE j = m + 1
      <4>1. n + j = l + 1
        BY <1>2, <3>1
      <4> QED BY <1>3, <2>3, <3>1, <4>1
    <3>2. CASE j \in 1 .. m
      <4>1. n + j \in 1 .. l
        BY <1>2, <3>2
      <4> QED BY <1>2, <1>3, <2>3, <3>2, <4>1
    <3> QED BY <1>2, <3>1, <3>2
  <2>5. n + (m + 1) = l + 1
    BY <1>2
  <2>6. TailIs(n)'
    BY <1>3, <2>3, <2>4, <2>5 DEF TailIs
  <2> QED BY <2>2, <2>6 DEF RecentOK
<1>5. ASSUME NEW p \in DOMAIN recency, recency[p] = k PROVE RecentOK'
  <2>1. recency' = Moved(recency, p)
    BY <1>2, <1>5, UsedAgainKnown DEF RecentOK, NoRepeats
  <2>2. NoRepeats(recency')
    BY <1>5, <2>1, MovedNoRepeats DEF RecentOK
  <2>3. Len(recency') = l /\ \A j \in 1 .. l : recency'[j] = recency[Origin(l, p, j)]
    BY <1>2, <1>5, <2>1, MovedAt DEF l
  <2>4. p \in 1 .. l /\ p <= n
    <3>1. p \in 1 .. l
      BY <1>2, <1>5
    <3>2. ASSUME p > n PROVE FALSE
      <4>1. p - n \in 1 .. m /\ n + (p - n) = p
        BY <1>2, <3>1, <3>2
      <4>2. cache[p - n].key = k /\ p - n \in DOMAIN cache
        BY <1>2, <1>5, <4>1
      <4> QED BY <4>2 DEF CachedAt
    <3> QED BY <1>2, <3>1, <3>2
  <2>5. ASSUME NEW j \in 1 .. m + 1 PROVE cache'[j].key = recency'[(n - 1) + j]
    <3>0. (n - 1) + j \in 1 .. l
      BY <1>2, <2>4
    <3>1. CASE j = m + 1
      <4>1. Origin(l, p, (n - 1) + j) = p
        BY <1>2, <2>4, <3>1 DEF Origin
      <4> QED BY <1>3, <1>5, <2>3, <3>0, <3>1, <4>1
    <3>2. CASE j \in 1 .. m
      <4>1. Origin(l, p, (n - 1) + j) = n + j
        BY <1>2, <2>4, <3>2 DEF Origin
      <4> QED BY <1>2, <1>3, <2>3, <3>0, <3>2, <4>1
    <3> QED BY <1>2, <3>1, <3>2
  <2>6. n - 1 \in Nat /\ (n - 1) + (m + 1) = l
    BY <1>2, <2>4
  <2>7. TailIs(n - 1)'
    BY <1>3, <2>3, <2>5, <2>6 DEF TailIs
  <2> QED BY <2>2, <2>6, <2>7 DEF RecentOK
<1> QED BY <1>4, <1>5

(* Counters go up by what an action says.                                   *)
LEMMA HitsCounted ==
  ASSUME metrics \in [Counters -> Nat]
  PROVE  /\ Hit => metrics'["hits"] > metrics["hits"]
         /\ Miss => metrics'["hits"] = metrics["hits"]
<1>1. "hits" \in Counters /\ metrics["hits"] \in Nat
  BY DEF Counters
<1> HIDE DEF Counters
<1>2. ASSUME Hit PROVE metrics'["hits"] = metrics["hits"] + 1
  BY <1>1, <1>2 DEF Hit
<1>3. ASSUME Miss PROVE metrics'["hits"] = metrics["hits"]
  BY <1>1, <1>3 DEF Miss, Count
<1>4. metrics["hits"] + 1 > metrics["hits"]
  BY <1>1
<1> QED BY <1>2, <1>3, <1>4

(* Every step keeps the cache the recent part of the history.               *)
LEMMA RecentKeeps ==
  ASSUME IInv, Books, RecentOK, RecencyNext
  PROVE  RecentOK'
<1> DEFINE Used == FoundCached \/ NewlyStored
<1>0. /\ Next /\ ControlOK
      /\ recency' = IF CacheEmptied THEN <<>> ELSE IF Used THEN UsedAgain(key) ELSE recency
  <2>1. CacheEmptied => ~FoundCached /\ ~NewlyStored
    BY DEF CacheEmptied, FoundCached, NewlyStored
  <2>2. recency' = CASE CacheEmptied                -> <<>>
                     [] FoundCached \/ NewlyStored  -> UsedAgain(key)
                     [] OTHER                       -> recency
    BY DEF RecencyNext
  <2>3. recency' = IF CacheEmptied THEN <<>> ELSE IF Used THEN UsedAgain(key) ELSE recency
    BY <2>1, <2>2
  <2> QED BY <2>3 DEF RecencyNext, IInv
<1>1. ASSUME cache' = cache, recency' = recency PROVE RecentOK'
  BY <1>1 DEF RecentOK, NoRepeats, TailIs
<1>2. CASE CacheEmptied
  <2>1. cache' = <<>> /\ recency' = <<>>
    BY <1>0, <1>2 DEF CacheEmptied
  <2>2. NoRepeats(<<>>)
    BY DEF NoRepeats
  <2>3. TailIs(0)'
    BY <2>1 DEF TailIs
  <2> QED BY <2>1, <2>2, <2>3 DEF RecentOK
<1>3. CASE Hit
  <2>1. pc = "lookup" /\ ~CacheEmptied /\ FoundCached
    BY <1>3, HitsCounted DEF Hit, CacheEmptied, FoundCached, Books, LedgerOK, CountersOK
  <2>2. PICK i \in DOMAIN cache : cache[i].key = key /\ cache' = Touched(i)
    BY <1>3 DEF Hit, CachedAt
  <2>3. recency' = UsedAgain(cache[i].key)
    BY <1>0, <2>1, <2>2
  <2> QED BY <1>0, <2>2, <2>3, HitRecent
<1>4. CASE Evict
  <2>1. cache # <<>> /\ cache' = Tail(cache) /\ recency' = recency
    BY <1>0, <1>4 DEF Evict, CacheEmptied, FoundCached, NewlyStored
  <2> QED BY <1>0, <2>1, EvictRecent
<1>5. CASE Store
  <2>0. pc = "store" /\ pc' = "branch" /\ ~CacheEmptied /\ ~FoundCached /\ cacheBytes \in Int
    BY <1>5 DEF Store, CacheEmptied, FoundCached, IInv, ControlOK
  <2>1. CachedAt(key) = {}
    BY <2>0 DEF Books, EntriesOK
  <2>2. CASE UNCHANGED store
    <3>1. ~NewlyStored
      BY <2>0, <2>2 DEF NewlyStored
    <3> QED BY <1>0, <1>1, <2>0, <2>2, <3>1
  <2>3. CASE /\ cache' = Append(cache, [key |-> key, state |-> snap, size |-> Size(snap)])
             /\ cacheBytes' = cacheBytes + Size(snap)
    <3>1. pc \in SharedPath /\ key = Prefix /\ snap = Fresh(Prefix)
      BY <2>0 DEF IInv, StageOK, PlanOK, SharedPath
    <3>2. key \in Keys /\ Len(snap.toks) \in 1 .. NCtx
      BY <3>1, PrefixFacts DEF IInv, Keys
    <3>3. Size(snap) \in Nat \ {0}
      BY <3>2, LimitsAssumption DEF Size
    <3>4. cacheBytes + Size(snap) > cacheBytes
      BY <2>0, <3>3
    <3>5. NewlyStored
      BY <2>0, <2>3, <3>4 DEF NewlyStored
    <3>6. recency' = UsedAgain(key)
      BY <1>0, <2>0, <3>5
    <3> DEFINE e == [key |-> key, state |-> snap, size |-> Size(snap)]
    <3>7. e.key = key /\ cache' = Append(cache, e)
      BY <2>3
    <3> HIDE DEF e
    <3> QED BY <1>0, <2>1, <3>2, <3>6, <3>7, StoreRecent
  <2> QED BY <1>5, <2>1, <2>2, <2>3 DEF Store
<1>6. CASE ~CacheEmptied /\ ~Hit /\ ~Evict /\ ~Store
  <2>1. cache' = cache
    <3>1. ASSUME NEW c \in Calls, Reject(c) \/ BatchCall(c) \/ FallbackCall(c) \/ SharedCall(c)
          PROVE  cache' = cache
      BY <3>1 DEF Reject, BatchCall, FallbackCall, SharedCall, Begin
    <3>2. ASSUME Work PROVE cache' = cache
      BY <1>6, <3>2 DEF Work, FreshRow, FreshReject, FreshReturn, FreshDecode, FreshRead,
         NoLookup, Miss, Restore, PrefixDecode, ReadExact, CaptureForCache, RollbackPoint,
         SkipExact, FirstBranch, NextBranch, SuffixDecode, SuffixRead, Finish, NativeFault
    <3>3. CASE ClearCache \/ Close
      BY <1>6, <3>3 DEF ClearCache, Close, CacheEmptied
    <3>4. CASE ResetMetrics
      BY <3>4 DEF ResetMetrics
    <3> QED BY <1>0, <3>1, <3>2, <3>3, <3>4 DEF Next, Arrive
  <2>2. ~FoundCached
    <3>1. ASSUME pc = "lookup" PROVE metrics' = metrics \/ Miss
      <4>1. Work
        BY <1>0, <3>1 DEF Next, Arrive, Reject, BatchCall, FallbackCall, SharedCall, Begin,
           ClearCache, ResetMetrics, Close
      <4>2. NoLookup \/ Miss
        BY <1>6, <3>1, <4>1 DEF Work, FreshRow, FreshReject, FreshReturn, FreshDecode, FreshRead,
           Restore, PrefixDecode, ReadExact, CaptureForCache, RollbackPoint,
           SkipExact, FirstBranch, NextBranch, SuffixDecode, SuffixRead, Finish, NativeFault,
           InNativeOperation
      <4> QED BY <4>2 DEF NoLookup
    <3>2. ~(metrics["hits"] > metrics["hits"])
      <4>1. metrics["hits"] \in Nat
        BY DEF Books, LedgerOK, CountersOK, Counters
      <4> QED BY <4>1
    <3>3. metrics \in [Counters -> Nat]
      BY DEF Books, LedgerOK, CountersOK
    <3> QED BY <3>1, <3>2, <3>3, HitsCounted DEF FoundCached
  <2>3. ~NewlyStored
    <3>1. ASSUME pc = "store" PROVE pc' = "idle" \/ cacheBytes' = cacheBytes
      BY <1>0, <1>6, <3>1 DEF Next, Arrive, Reject, BatchCall, FallbackCall, SharedCall, Begin,
         ClearCache, ResetMetrics, Close, Work, FreshRow, FreshReject, FreshReturn, FreshDecode,
         FreshRead, NoLookup, Miss, Restore, PrefixDecode, ReadExact, CaptureForCache,
         RollbackPoint, SkipExact, FirstBranch, NextBranch, SuffixDecode, SuffixRead, Finish,
         NativeFault
    <3>2. ~(cacheBytes > cacheBytes)
      BY <1>0 DEF ControlOK
    <3> QED BY <3>1, <3>2 DEF NewlyStored
  <2> QED BY <1>0, <1>1, <1>6, <2>1, <2>2, <2>3
<1> QED BY <1>2, <1>3, <1>4, <1>5, <1>6

(* A new runtime has no history. *)
LEMMA InitRecent == RecencyInit => RecentOK
<1> SUFFICES ASSUME RecencyInit PROVE RecentOK
  OBVIOUS
<1>1. cache = <<>> /\ recency = <<>>
  BY DEF RecencyInit, Init
<1>2. NoRepeats(<<>>)
  BY DEF NoRepeats
<1>3. TailIs(0)
  BY <1>1 DEF TailIs
<1> QED BY <1>1, <1>2, <1>3 DEF RecentOK

(* The cache is what remains of the most recent keys.                       *)
THEOREM CacheHoldsMostRecent == ASSUME HintsStrict PROVE RecencySpec => []HoldsMostRecent
<1> DEFINE Inv == IInv /\ Books /\ RecentOK
<1>1. RecencyInit => Inv
  BY InitIInv, InitBooks, InitRecent DEF RecencyInit
<1>2. Inv /\ [RecencyNext]_<<vars, recency>> => Inv'
  <2>1. ASSUME Inv, RecencyNext PROVE Inv'
    <3>1. [Next]_vars
      BY <2>1 DEF RecencyNext
    <3>2. IInv'
      BY <2>1, <3>1, HintsStrict, NextKeeps
    <3> QED BY <2>1, <3>1, <3>2, BooksKeep, RecentKeeps
  <2>2. ASSUME Inv, UNCHANGED <<vars, recency>> PROVE Inv'
    <3>1. [Next]_vars
      BY <2>2
    <3>2. IInv'
      BY <2>2, <3>1, HintsStrict, NextKeeps
    <3>3. RecentOK'
      BY <2>2 DEF RecentOK, NoRepeats, TailIs
    <3> QED BY <2>2, <3>1, <3>2, <3>3, BooksKeep
  <2> QED BY <2>1, <2>2
<1>3. Inv => HoldsMostRecent
  <2> SUFFICES ASSUME Inv PROVE HoldsMostRecent
    OBVIOUS
  <2>1. ControlOK /\ recency \in Seq(Keys) /\ \E n \in Nat : TailIs(n)
    BY DEF IInv, RecentOK, NoRepeats
  <2> QED BY <2>1, MostRecentIsTail
<1> QED BY <1>1, <1>2, <1>3, PTL DEF RecencySpec
=============================================================================
