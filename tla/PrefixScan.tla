----------------------------- MODULE PrefixScan -----------------------------
(***************************************************************************)
(* _longest_common_prefix as the loop it is, and what the plan made from   *)
(* its result means for fresh evaluation and for the cache key.            *)
(***************************************************************************)
EXTENDS PrefixPlan

CONSTANTS Batches,   \* batches of prompts
          Hints,     \* reusable-prefix hints
          Continuations   \* what other decisions may append to the same prefix

TokensIn(rows) == UNION {{rows[r][i] : i \in DOMAIN rows[r]} : r \in DOMAIN rows}

(* The adapter refuses a call without rows before it plans anything.        *)
ASSUME ScanAssumption ==
  /\ \A rows \in Batches : rows # <<>> /\ rows \in Seq(Seq(TokensIn(rows)))
  /\ Hints \subseteq Nat \cup {NoHint}
  /\ \A x \in Continuations : x \in Seq(TokensIn(<<x>>))

VARIABLES batch, hint, index, common   \* common: the loop's result, once returned

scanVars == <<batch, hint, index, common>>

ScanInit ==
  /\ batch \in Batches /\ hint \in Hints
  /\ index = 0 /\ common = NoHint

Limit == Shortest(batch)

AgreesInLast(i) == batch[Len(batch)][i] = batch[1][i]   \* faulty: one row for all

Agree(i) == \A r \in DOMAIN batch : batch[r][i] = batch[1][i]

Advance ==
  /\ common = NoHint /\ index < Limit /\ Agree(index + 1)
  /\ index' = index + 1
  /\ UNCHANGED <<batch, hint, common>>

Differ ==
  /\ common = NoHint /\ index < Limit /\ ~Agree(index + 1)
  /\ common' = index
  /\ UNCHANGED <<batch, hint, index>>

Exhaust ==
  /\ common = NoHint /\ index >= Limit
  /\ common' = Limit
  /\ UNCHANGED <<batch, hint, index>>

ScanNext == Advance \/ Differ \/ Exhaust

ScanSpec == ScanInit /\ [][ScanNext]_scanVars

-----------------------------------------------------------------------------
Returned == common # NoHint

Plan == SharedPrefixPlan(common, hint)

(* The state of a fresh evaluation of t that has been interrupted after its *)
(* first k batches.                                                         *)
AfterBatches(t, k) ==
  LET run[i \in 0 .. k] ==
        IF i = 0 THEN EmptyState ELSE DecodeChunk(run[i - 1], t, (i - 1) * NBatch)
  IN  run[k]

BatchesOf(t) == (Len(t) + NBatch - 1) \div NBatch

(* A planned prefix is a state that the fresh evaluation of every row       *)
(* passes through, so that each row can be finished from it batch by batch. *)
PlanIsOnEveryFreshPath ==
  Returned /\ Plan.prefixLen > 0 =>
    \A r \in DOMAIN batch :
      /\ \E k \in 1 .. BatchesOf(batch[r]) :
           AfterBatches(batch[r], k) = FreshAt(batch[1], Plan.prefixLen)
      /\ AfterBatches(batch[r], BatchesOf(batch[r])) = Fresh(batch[r])

(* The plan is as long as it can be: what the loop returns is the longest   *)
(* prefix of all rows, and within it, and within the hint where that is     *)
(* usable, there is no later batch boundary than the planned one.           *)
PlanIsLongest ==
  Returned =>
    /\ common = CommonPrefixLen(batch)
    /\ common >= NBatch =>
         \/ Plan.cacheLen # NoHint /\ hint < Plan.cacheLen + NBatch
         \/ common < Plan.prefixLen + NBatch

(* The cache key of a batch is made of hinted tokens only: another decision *)
(* over the same hinted prefix, whatever follows it, has the same key.      *)
KeyIndependentOfCandidates ==
  Returned /\ hint # NoHint /\ common >= hint =>
    \A x, y \in Continuations :
      LET stable == SubSeq(batch[1], 1, hint)
          other  == << stable \o x, stable \o y >>
          again  == SharedPrefixPlan(CommonPrefixLen(other), hint)
      IN  Plan.cacheLen # NoHint =>
            /\ again.cacheLen = Plan.cacheLen
            /\ SubSeq(other[1], 1, again.cacheLen) = SubSeq(batch[1], 1, Plan.cacheLen)

-----------------------------------------------------------------------------
(* Why they hold: the loop has gone over tokens that all rows share.        *)
ScanInv ==
  /\ batch \in Batches /\ hint \in Hints
  /\ index \in 0 .. Limit
  /\ \A i \in 1 .. index : Agree(i)
  /\ Returned => common = CommonPrefixLen(batch)
=============================================================================
