----------------------------- MODULE PrefixPlan -----------------------------
(***************************************************************************)
(* The pure part of shared-prefix scoring: how many leading tokens of a    *)
(* batch of prompts are decoded once, which of them form the key of the    *)
(* repeated-state cache, and what it means for a native state to be the    *)
(* one a fresh evaluation reaches.                                         *)
(*                                                                         *)
(* The state of a native sequence depends on the tokens decoded so far and *)
(* on how they were split into batches (floating point reductions and      *)
(* recurrent layers see the split), so it is abstracted to the tokens and  *)
(* the positions at which a batch started.                                 *)
(***************************************************************************)
EXTENDS Integers, Sequences, FiniteSetsExt

CONSTANTS NBatch,   \* tokens per native decode batch (config.n_batch)
          NoHint    \* Python's None: no reusable-prefix hint, or no cache key

ASSUME NBatchAssumption == NBatch \in Nat \ {0}
ASSUME NoHintAssumption == NoHint \notin Int

-----------------------------------------------------------------------------
(* Leading positions on which every row of the batch carries one token. *)
Shortest(rows) == Min({Len(rows[r]) : r \in DOMAIN rows})

Mismatches(rows) ==
  {i \in 1 .. Shortest(rows) : \E r \in DOMAIN rows : rows[r][i] # rows[1][i]}

CommonPrefixLen(rows) ==
  IF rows = <<>> THEN 0
  ELSE IF Mismatches(rows) = {} THEN Shortest(rows)
  ELSE Min(Mismatches(rows)) - 1

Unaligned(n) == n    \* faulty: forgets the batch boundary

(* Round down to a complete native batch. *)
Aligned(n) == (n \div NBatch) * NBatch

Lower(m, n) == IF m <= n THEN m ELSE n

(* Faulty plans: one that rejects a prefix of exactly one batch, one that   *)
(* keys the cache by all common tokens, one that decodes past the key.      *)
PlanTooShy(common, hint) ==
  LET reusable == IF hint = NoHint THEN 0 ELSE Aligned(Lower(common, hint))
  IN  IF common <= NBatch THEN [prefixLen |-> 0, cacheLen |-> NoHint]
      ELSE IF reusable > 0 THEN [prefixLen |-> reusable, cacheLen |-> reusable]
      ELSE [prefixLen |-> Aligned(common), cacheLen |-> NoHint]

PlanKeysWholePrefix(common, hint) ==
  [prefixLen |-> Aligned(common),
   cacheLen |-> IF hint = NoHint \/ common < NBatch THEN NoHint ELSE Aligned(common)]

PlanDecodesPastKey(common, hint) ==
  LET reusable == IF hint = NoHint THEN 0 ELSE Aligned(Lower(common, hint))
  IN  [prefixLen |-> Aligned(common),
       cacheLen |-> IF reusable > 0 THEN reusable ELSE NoHint]

(* The prefix to decode once and the part of it to remember across calls. *)
SharedPrefixPlan(common, hint) ==
  LET reusable == IF hint = NoHint THEN 0 ELSE Aligned(Lower(common, hint))
  IN  IF common < NBatch THEN [prefixLen |-> 0, cacheLen |-> NoHint]
      ELSE IF reusable > 0 THEN [prefixLen |-> reusable, cacheLen |-> reusable]
      ELSE [prefixLen |-> Aligned(common), cacheLen |-> NoHint]

-----------------------------------------------------------------------------
(* A native sequence holding the first n tokens of t after batches that     *)
(* began at every multiple of NBatch: the state of a fresh evaluation.      *)
FreshAt(t, n) ==
  [toks |-> SubSeq(t, 1, n), starts |-> {i \in 0 .. n - 1 : i % NBatch = 0}]

Fresh(t) == FreshAt(t, Len(t))

EmptyState == [toks |-> <<>>, starts |-> {}]

(* One native decode of the tokens of t that begin at position n. *)
ChunkEnd(t, n) == Lower(n + NBatch, Len(t))

DecodeChunk(s, t, n) ==
  [toks |-> s.toks \o SubSeq(t, n + 1, ChunkEnd(t, n)),
   starts |-> s.starts \cup {n}]

=============================================================================
