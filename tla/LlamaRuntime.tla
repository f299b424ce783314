---------------------------- MODULE LlamaRuntime ----------------------------
(***************************************************************************)
(* The native runtime adapter: one scoring context with one sequence, the  *)
(* repeated-state cache, and the calls that score prompts on them.  One    *)
(* call is in progress at a time (the backend holds its lock around each); *)
(* a call is a chain of native operations, any of which may fail and leave *)
(* the ones already performed behind.                                      *)
(*                                                                         *)
(* A row of logits is abstracted to the native state it was computed from. *)
(***************************************************************************)
EXTENDS PrefixPlan, SequencesExt, Totals

CONSTANTS Tokens,      \* token ids
          Calls,       \* the scoring calls a caller may make
          NCtx,        \* context capacity in tokens
          MaxEntries,  \* repeated_state_cache_max_entries
          MaxBytes,    \* repeated_state_cache_max_bytes
          StateBytes,  \* size of the snapshot of a state of n tokens
          None,        \* Python's None, for states and result rows
          MaxCalls     \* bound: calls between two resets of the metrics

States == [toks : Seq(Tokens), starts : SUBSET Nat]

ASSUME CallsAssumption == \A c \in Calls :
          /\ c.kind \in {"batch", "shared"}
          /\ c.rows \in Seq(Seq(Tokens))
          /\ c.hint \in Nat \cup {NoHint}
ASSUME LimitsAssumption ==
  /\ NCtx \in Nat \ {0}
  /\ MaxEntries \in Nat /\ MaxBytes \in Nat
  /\ StateBytes \in [1 .. NCtx -> Nat \ {0}]
  /\ MaxCalls \in Nat \ {0}
ASSUME NoneAssumption == None \notin States

VARIABLES
  closed,      \* _closed
  pc,          \* where the call in progress stands
  call,        \* its arguments
  outcome,     \* how the last call ended: "ok" or "raised"; "none" until then
  prefixLen,   \* local of the shared-prefix call
  key,         \* cache_key, NoHint when there is none
  entry,       \* state of the cache entry the lookup found, or None
  snap,        \* prefix_state, or None
  row,         \* the row being evaluated
  live,        \* live_prefix_state
  results,     \* logits per row, None where not read yet
  seq,         \* native sequence 0
  past,        \* position of the next token to decode
  logits,      \* native output of the latest decode, or None
  cache,       \* _repeated_state_cache, least recently used first
  cacheBytes,  \* _repeated_state_cache_bytes
  metrics,     \* _metrics
  spent,       \* history: tokens decoded by this call and not yet charged
  calls        \* calls since the metrics were reset

native  == <<seq, past, logits>>
locals  == <<call, prefixLen, key, entry, snap, row, live, results>>
store   == <<cache, cacheBytes>>
ledger  == <<metrics, spent, calls>>
vars == <<closed, pc, outcome, native, locals, store, ledger>>

Counters ==
  {"logical", "physical", "reused", "fresh_calls", "shared_prefix_calls",
   "shared_prefix_fallbacks", "snapshots", "snapshot_bytes", "restores",
   "restore_bytes", "hits", "misses", "hit_tokens", "evictions",
   "store_skips"}

Zero == [c \in Counters |-> 0]

Init ==
  /\ closed = FALSE /\ pc = "idle" /\ outcome = "none"
  /\ call = [kind |-> "batch", rows |-> <<>>, hint |-> NoHint]
  /\ prefixLen = 0 /\ key = NoHint /\ entry = None /\ snap = None
  /\ row = 1 /\ live = FALSE /\ results = <<>>
  /\ seq = EmptyState /\ past = 0 /\ logits = None
  /\ cache = <<>> /\ cacheBytes = 0
  /\ metrics = Zero /\ spent = 0 /\ calls = 0

-----------------------------------------------------------------------------
(* Helpers *)
rows == call.rows

Size(s) == StateBytes[Len(s.toks)]

Valid(r) == r # <<>> /\ Len(r) <= NCtx

CacheEnabled == MaxEntries > 0 /\ MaxBytes > 0

CachedAt(k) == {i \in DOMAIN cache : cache[i].key = k}

Touched(i) == Append(RemoveAt(cache, i), cache[i])   \* move_to_end

CacheKey(prefix, n) ==
  IF CacheEnabled /\ n # NoHint /\ 0 < n /\ n <= Len(prefix)
    THEN SubSeq(prefix, 1, n) ELSE NoHint

TokensOf(rs, skip) ==      \* tokens of the rows past the first skip of each
  Total([r \in DOMAIN rs |-> Len(rs[r]) - skip])

Count(c, n) == [metrics EXCEPT ![c] = @ + n]

Raise == pc' = "idle" /\ outcome' = "raised"

Return == pc' = "idle" /\ outcome' = "ok"

GoTo(l) == pc' = l /\ outcome' = "none"

(* One native batch of target; the output buffer now belongs to it. *)
Decode(target) ==
  /\ seq' = DecodeChunk(seq, target, past)
  /\ logits' = seq'
  /\ past' = ChunkEnd(target, past)
  /\ spent' = spent + (past' - past)

Restored(s) ==
  [metrics EXCEPT !["restores"] = @ + 1, !["restore_bytes"] = @ + Size(s)]

Captured(s) ==
  [metrics EXCEPT !["snapshots"] = @ + 1, !["snapshot_bytes"] = @ + Size(s)]

-----------------------------------------------------------------------------
RejectedWhenInvalid(c) ==   \* faulty: forgets _require_open
  c.kind = "shared" /\ (c.rows = <<>> \/ \E r \in DOMAIN c.rows : ~Valid(c.rows[r]))

(* A call arrives.  A closed runtime, and a shared call with no rows or a   *)
(* row that does not fit, raise before anything is touched.                 *)
Rejected(c) ==
  \/ closed
  \/ c.kind = "shared" /\ (c.rows = <<>> \/ \E r \in DOMAIN c.rows : ~Valid(c.rows[r]))

Begin(c) ==
  /\ pc = "idle" /\ calls < MaxCalls
  /\ calls' = calls + 1
  /\ call' = c
  /\ spent' = 0 /\ row' = 1 /\ live' = FALSE
  /\ results' = [r \in DOMAIN c.rows |-> None]
  /\ entry' = None /\ snap' = None
  /\ UNCHANGED <<closed, cache, cacheBytes, logits>>

Reject(c) ==
  /\ Begin(c) /\ Rejected(c)
  /\ Raise
  /\ prefixLen' = 0 /\ key' = NoHint
  /\ UNCHANGED <<seq, past, metrics>>

BatchCall(c) ==
  /\ Begin(c) /\ ~Rejected(c) /\ c.kind = "batch"
  /\ GoTo("fresh")
  /\ prefixLen' = 0 /\ key' = NoHint
  /\ UNCHANGED <<seq, past, metrics>>

PlanOf(c) == SharedPrefixPlan(CommonPrefixLen(c.rows), c.hint)

FallbackCall(c) ==
  /\ Begin(c) /\ ~Rejected(c) /\ c.kind = "shared"
  /\ PlanOf(c).prefixLen < 1
  /\ GoTo("fresh")
  /\ prefixLen' = 0 /\ key' = NoHint
  /\ metrics' = Count("shared_prefix_fallbacks", 1)
  /\ UNCHANGED <<seq, past>>

SharedCall(c) ==
  /\ Begin(c) /\ ~Rejected(c) /\ c.kind = "shared"
  /\ PlanOf(c).prefixLen >= 1
  /\ GoTo("lookup")
  /\ prefixLen' = PlanOf(c).prefixLen
  /\ key' = CacheKey(SubSeq(c.rows[1], 1, prefixLen'), PlanOf(c).cacheLen)
  /\ seq' = EmptyState /\ past' = 0
  /\ UNCHANGED metrics

-----------------------------------------------------------------------------
(* Fresh evaluation, row after row: clear, decode from 0, charge, read.     *)
FreshRow ==
  /\ pc = "fresh" /\ row <= Len(rows) /\ Valid(rows[row])
  /\ GoTo("freshDecode")
  /\ seq' = EmptyState /\ past' = 0
  /\ UNCHANGED <<closed, logits, locals, store, ledger>>

FreshReject ==      \* _validate of a later row of a plain batch
  /\ pc = "fresh" /\ row <= Len(rows) /\ ~Valid(rows[row])
  /\ Raise
  /\ UNCHANGED <<closed, native, locals, store, ledger>>

FreshReturn ==
  /\ pc = "fresh" /\ row > Len(rows)
  /\ Return
  /\ UNCHANGED <<closed, native, locals, store, ledger>>

FreshDecode ==
  /\ pc = "freshDecode" /\ past < Len(rows[row])
  /\ Decode(rows[row])
  /\ GoTo("freshDecode")
  /\ UNCHANGED <<closed, locals, store, metrics, calls>>

(* The row is charged before its logits are read, so a failed read leaves  *)
(* a charged row behind.                                                   *)
FreshRead ==
  /\ pc = "freshDecode" /\ past = Len(rows[row])
  /\ metrics' = [metrics EXCEPT !["logical"] = @ + past,
                                !["physical"] = @ + past,
                                !["fresh_calls"] = @ + 1]
  /\ spent' = spent - past
  /\ \/ /\ results' = [results EXCEPT ![row] = logits]
        /\ row' = row + 1
        /\ GoTo("fresh")
     \/ Raise /\ UNCHANGED <<results, row>>
  /\ UNCHANGED <<closed, native, call, prefixLen, key, entry, snap, live, store, calls>>

-----------------------------------------------------------------------------
(* The shared prefix: from the cache when the key is there, else decoded.  *)
NoLookup ==
  /\ pc = "lookup" /\ key = NoHint
  /\ GoTo("prefix")
  /\ UNCHANGED <<closed, native, locals, store, ledger>>

Miss ==
  /\ pc = "lookup" /\ key # NoHint /\ CachedAt(key) = {}
  /\ metrics' = Count("misses", 1)
  /\ GoTo("prefix")
  /\ UNCHANGED <<closed, native, locals, store, spent, calls>>

Hit ==
  /\ pc = "lookup" /\ key # NoHint
  /\ \E i \in CachedAt(key) : entry' = cache[i].state /\ cache' = Touched(i)
  /\ metrics' = [metrics EXCEPT !["hits"] = @ + 1, !["hit_tokens"] = @ + Len(key)]
  /\ GoTo("restore")
  /\ UNCHANGED <<closed, native, call, prefixLen, key, snap, row, live, results,
                 cacheBytes, spent, calls>>

(* Restoring a sequence does not write the output buffer of the context.   *)
Restore ==
  /\ pc = "restore"
  /\ seq' = entry /\ past' = Len(key)
  /\ metrics' = Restored(entry)
  /\ GoTo("prefix")
  /\ UNCHANGED <<closed, logits, locals, store, spent, calls>>

Prefix == SubSeq(rows[1], 1, prefixLen)

PrefixDecode ==
  /\ pc = "prefix" /\ past < prefixLen
  /\ Decode(Prefix)
  /\ GoTo("prefix")
  /\ UNCHANGED <<closed, locals, store, metrics, calls>>

(* Rows that end with the prefix are read from the context as it stands.   *)
ReadExact ==
  /\ pc = "prefix" /\ past >= prefixLen
  /\ results' = [r \in DOMAIN rows |->
                   IF Len(rows[r]) = prefixLen THEN logits ELSE results[r]]
  /\ GoTo("snapshot")
  /\ UNCHANGED <<closed, native, call, prefixLen, key, entry, snap, row, live,
                 store, ledger>>

-----------------------------------------------------------------------------
(* A rollback point for the suffixes, which the cold path also stores.     *)
Branches == {r \in DOMAIN rows : Len(rows[r]) > prefixLen}

Reused == IF entry = None THEN 0 ELSE Len(key)   \* cache_reused_tokens

Cold == key # NoHint /\ entry = None

ForksInThree ==   \* faulty: off by one in the number of suffixes
  \E r, s, t \in Branches : r # s /\ s # t /\ r # t

(* Otherwise a rollback point is needed only between several suffixes, and *)
(* the cached state already is one when it covers the whole prefix.        *)
Forks == \E r, s \in Branches : r # s

CoveredByEntry == entry # None /\ Reused = prefixLen

NeedsCapture == Forks /\ ~CoveredByEntry

CaptureForCache ==
  /\ pc = "snapshot" /\ Cold
  /\ snap' = seq
  /\ metrics' = Captured(seq)
  /\ GoTo("store")
  /\ UNCHANGED <<closed, native, call, prefixLen, key, entry, row, live, results,
                 store, spent, calls>>

RollbackPoint ==
  /\ pc = "snapshot" /\ ~Cold
  /\ IF NeedsCapture
       THEN snap' = seq /\ metrics' = Captured(seq)
       ELSE snap' = (IF Forks THEN entry ELSE None) /\ UNCHANGED metrics
  /\ live' = TRUE
  /\ GoTo("branch")
  /\ UNCHANGED <<closed, native, call, prefixLen, key, entry, row, results, store,
                 spent, calls>>

Storable == CacheEnabled /\ Size(snap) <= MaxBytes /\ CachedAt(key) = {}

FullByBytes == cacheBytes + Size(snap) > MaxBytes   \* faulty: forgets max_entries

Full == Len(cache) >= MaxEntries \/ cacheBytes + Size(snap) > MaxBytes

EvictNewest ==   \* faulty: popitem from the wrong end
  /\ pc = "store" /\ Storable /\ cache # <<>> /\ Full
  /\ cache' = Front(cache)
  /\ cacheBytes' = cacheBytes - Last(cache).size
  /\ metrics' = Count("evictions", 1)
  /\ GoTo("store")
  /\ UNCHANGED <<closed, native, locals, spent, calls>>

Evict ==
  /\ pc = "store" /\ Storable /\ cache # <<>> /\ Full
  /\ cache' = Tail(cache)
  /\ cacheBytes' = cacheBytes - Head(cache).size
  /\ metrics' = Count("evictions", 1)
  /\ GoTo("store")
  /\ UNCHANGED <<closed, native, locals, spent, calls>>

Fits == Storable /\ cacheBytes + Size(snap) <= MaxBytes

(* Present already: refresh its recency.  Otherwise insert, or skip a      *)
(* state that cannot fit.                                                  *)
Store ==
  /\ pc = "store" /\ ~(Storable /\ cache # <<>> /\ Full)
  /\ IF CachedAt(key) # {}
       THEN /\ \E i \in CachedAt(key) : cache' = Touched(i)
            /\ UNCHANGED <<cacheBytes, metrics>>
     ELSE IF Fits
       THEN /\ cache' = Append(cache, [key |-> key, state |-> snap, size |-> Size(snap)])
            /\ cacheBytes' = cacheBytes + Size(snap)
            /\ UNCHANGED metrics
     ELSE /\ metrics' = Count("store_skips", 1)
          /\ UNCHANGED store
  /\ live' = TRUE
  /\ GoTo("branch")
  /\ UNCHANGED <<closed, native, call, prefixLen, key, entry, snap, row, results,
                 spent, calls>>

-----------------------------------------------------------------------------
(* The suffixes, in row order, each from the state after the prefix.       *)
SkipExact ==
  /\ pc = "branch" /\ row <= Len(rows) /\ Len(rows[row]) <= prefixLen
  /\ row' = row + 1
  /\ GoTo("branch")
  /\ UNCHANGED <<closed, native, call, prefixLen, key, entry, snap, live, results,
                 store, ledger>>

FirstBranch ==
  /\ pc = "branch" /\ row \in Branches /\ live
  /\ past' = prefixLen
  /\ GoTo("suffix")
  /\ UNCHANGED <<closed, seq, logits, locals, store, ledger>>

NextBranch ==
  /\ pc = "branch" /\ row \in Branches /\ ~live
  /\ IF snap = None
       THEN Raise /\ UNCHANGED <<seq, past, metrics>>
       ELSE /\ seq' = snap /\ past' = prefixLen
            /\ metrics' = Restored(snap)
            /\ GoTo("suffix")
  /\ UNCHANGED <<closed, logits, locals, store, spent, calls>>

SuffixDecode ==
  /\ pc = "suffix" /\ past < Len(rows[row])
  /\ Decode(rows[row])
  /\ GoTo("suffix")
  /\ UNCHANGED <<closed, locals, store, metrics, calls>>

SuffixRead ==
  /\ pc = "suffix" /\ past >= Len(rows[row])
  /\ results' = [results EXCEPT ![row] = logits]
  /\ live' = FALSE
  /\ row' = row + 1
  /\ GoTo("branch")
  /\ UNCHANGED <<closed, native, call, prefixLen, key, entry, snap, store, ledger>>

(* All rows must have logits; then the call is charged by formula.         *)
Logical == TokensOf(rows, 0)

(* Faulty charges: whole rows besides the prefix, cached tokens as decoded. *)
PhysicalOfWholeRows == prefixLen - Reused + TokensOf(rows, 0)
PhysicalOfColdCall  == prefixLen + TokensOf(rows, prefixLen)

Physical == prefixLen - Reused + TokensOf(rows, prefixLen)

Finish ==
  /\ pc = "branch" /\ row > Len(rows)
  /\ IF \E r \in DOMAIN rows : results[r] = None
       THEN Raise /\ UNCHANGED <<metrics, spent>>
       ELSE /\ metrics' = [metrics EXCEPT !["logical"] = @ + Logical,
                                          !["physical"] = @ + Physical,
                                          !["reused"] = @ + (Logical - Physical),
                                          !["shared_prefix_calls"] = @ + 1]
            /\ spent' = spent - Physical
            /\ Return
  /\ UNCHANGED <<closed, native, locals, store, calls>>

-----------------------------------------------------------------------------
(* A native decode, capture, restore or read fails: the call raises where  *)
(* it stands and keeps nothing but what it already did.                    *)
InNativeOperation ==
  \/ pc = "freshDecode" /\ past < Len(rows[row])
  \/ pc \in {"restore", "suffix"}
  \/ pc = "prefix" /\ (past < prefixLen \/ Branches # DOMAIN rows)
  \/ pc = "snapshot" /\ (Cold \/ NeedsCapture)
  \/ pc = "branch" /\ row \in Branches /\ ~live /\ snap # None

NativeFault ==
  /\ InNativeOperation
  /\ Raise
  /\ UNCHANGED <<closed, native, locals, store, ledger>>

ClearEntriesOnly ==   \* faulty: the byte count survives
  /\ pc = "idle" /\ cache # <<>>
  /\ cache' = <<>>
  /\ UNCHANGED <<closed, pc, outcome, native, locals, cacheBytes, ledger>>

ClearCache ==
  /\ pc = "idle" /\ cache # <<>>
  /\ cache' = <<>> /\ cacheBytes' = 0
  /\ UNCHANGED <<closed, pc, outcome, native, locals, ledger>>

ResetMetrics ==
  /\ pc = "idle" /\ calls > 0
  /\ metrics' = Zero /\ calls' = 0
  /\ UNCHANGED <<closed, pc, outcome, native, locals, store, spent>>

Close ==
  /\ pc = "idle" /\ ~closed
  /\ closed' = TRUE
  /\ cache' = <<>> /\ cacheBytes' = 0
  /\ UNCHANGED <<pc, outcome, native, locals, ledger>>

Arrive == \E c \in Calls : Reject(c) \/ BatchCall(c) \/ FallbackCall(c) \/ SharedCall(c)

Work ==
  \/ FreshRow \/ FreshReject \/ FreshReturn \/ FreshDecode \/ FreshRead
  \/ NoLookup \/ Miss \/ Hit \/ Restore \/ PrefixDecode \/ ReadExact
  \/ CaptureForCache \/ RollbackPoint \/ Evict \/ Store
  \/ SkipExact \/ FirstBranch \/ NextBranch \/ SuffixDecode \/ SuffixRead \/ Finish
  \/ NativeFault

Next == Arrive \/ Work \/ ClearCache \/ ResetMetrics \/ Close

(* A call runs on the caller's thread: once begun it is not abandoned.     *)
Spec == Init /\ [][Next]_vars /\ WF_vars(Work)

-----------------------------------------------------------------------------
(* Properties *)

Locations == {"idle", "fresh", "freshDecode", "lookup", "restore", "prefix",
              "snapshot", "store", "branch", "suffix"}

ControlOK ==
  /\ closed \in BOOLEAN /\ pc \in Locations /\ live \in BOOLEAN
  /\ outcome \in {"none", "ok", "raised"}
  /\ rows \in Seq(Seq(Tokens))
  /\ prefixLen \in Nat /\ past \in Nat /\ row \in Nat \ {0}
  /\ key \in Seq(Tokens) \cup {NoHint}
  /\ entry \in States \cup {None} /\ snap \in States \cup {None}
  /\ seq \in States /\ logits \in States \cup {None}
  /\ results \in Seq(States \cup {None})
  /\ cache \in Seq([key : Seq(Tokens), state : States, size : Nat])
  /\ cacheBytes \in Int

CountersOK ==
  /\ metrics \in [Counters -> Nat]
  /\ spent \in Int /\ calls \in 0 .. MaxCalls

(* Stale tokens of an earlier, possibly failed, call never add up with new  *)
(* ones: the sequence stays within the context and without gaps.            *)
WithinContext ==
  /\ Len(seq.toks) <= NCtx
  /\ pc \in {"freshDecode", "lookup", "prefix", "suffix"} => Len(seq.toks) = past

(* Type invariant of the adapter: its flags, locals, native sequence, cache *)
(* and counters; no counter of _metrics ever goes below zero.               *)
TypeOK == ControlOK /\ CountersOK /\ WithinContext

(* A call that returns gives every row, at its own index, the logits a      *)
(* fresh evaluation of that row alone would give: same tokens, same batch   *)
(* schedule, whatever calls ran, failed or were cached before.              *)
FreshEquivalence ==
  outcome = "ok" => \A r \in DOMAIN rows : results[r] = Fresh(rows[r])

(* Every state in the repeated-state cache is the one a fresh evaluation of *)
(* its key reaches, and ends on a native batch boundary, so that decoding   *)
(* any prompt that starts with the key can continue from it.                *)
CachedStatesFresh ==
  \A i \in DOMAIN cache :
    /\ cache[i].state = Fresh(cache[i].key)
    /\ cache[i].key # <<>> /\ Len(cache[i].key) % NBatch = 0

(* The cache never exceeds its two limits, not even between the evictions   *)
(* and the insertion of one call.                                           *)
CacheBounded == Len(cache) <= MaxEntries /\ cacheBytes <= MaxBytes

(* The books agree with what happens.  The byte count that evictions are    *)
(* decided on is the sum of what is held, and no key is held twice.  The    *)
(* formulas that charge a call agree with the native decodes it made: a     *)
(* call that returns has charged exactly the tokens it decoded, one that    *)
(* raises never more, and what is not evaluated is reported as reused.      *)
BooksBalance ==
  /\ cacheBytes = Total([i \in DOMAIN cache |-> Size(cache[i].state)])
  /\ \A i, j \in DOMAIN cache : cache[i].key = cache[j].key => i = j
  /\ outcome = "ok" /\ pc = "idle" => spent = 0
  /\ spent >= 0
  /\ metrics["logical"] = metrics["physical"] + metrics["reused"]

(* The two internal errors of shared-prefix scoring, a branch without a     *)
(* rollback point and a row without logits, are never raised.               *)
BranchesNeverStranded ==
  pc = "branch" =>
    /\ row \in Branches /\ ~live => snap # None
    /\ row > Len(rows) => \A r \in DOMAIN rows : results[r] # None

-----------------------------------------------------------------------------
(* The inductive invariant behind the properties above.                    *)

(* The prompt compiler's hints end before every row of the batch does.     *)
HintsStrict ==
  \A c \in Calls : c.hint # NoHint =>
    \A r \in DOMAIN c.rows : c.hint < Len(c.rows[r])

(* The native sequence is at a point of the fresh evaluation of t.         *)
Reached(t) ==
  /\ past <= Len(t) /\ seq = FreshAt(t, past)
  /\ past % NBatch = 0 \/ past = Len(t)

RowsOK ==
  /\ DOMAIN results = DOMAIN rows
  /\ \A r \in DOMAIN rows : results[r] \in {None, Fresh(rows[r])}
  /\ outcome = "ok" => \A r \in DOMAIN rows : results[r] # None

FreshPathOK ==
  /\ pc \in {"fresh", "freshDecode"} =>
       \A r \in DOMAIN rows : r < row => results[r] # None
  /\ pc = "freshDecode" =>
       /\ row \in DOMAIN rows /\ rows[row] # <<>>
       /\ Reached(rows[row])
       /\ past > 0 => logits = seq

SharedPath == {"lookup", "restore", "prefix", "snapshot", "store", "branch", "suffix"}

PlanOK == pc \in SharedPath =>
  /\ rows # <<>> /\ prefixLen > 0 /\ prefixLen % NBatch = 0
  /\ \A r \in DOMAIN rows :
       /\ prefixLen <= Len(rows[r]) /\ Len(rows[r]) <= NCtx
       /\ SubSeq(rows[r], 1, prefixLen) = Prefix
  /\ key # NoHint =>
       key = Prefix /\ \A r \in DOMAIN rows : prefixLen < Len(rows[r])
  /\ entry # None => key # NoHint /\ entry = Fresh(Prefix)
  /\ snap # None => snap = Fresh(Prefix)

StageOK ==
  /\ pc \in {"lookup", "restore", "prefix", "snapshot", "store"} => row = 1
  /\ pc = "lookup" => seq = EmptyState /\ past = 0 /\ entry = None
  /\ pc = "restore" => entry # None
  /\ pc = "prefix" =>
       /\ Reached(Prefix)
       /\ entry # None => past = prefixLen
       /\ entry = None /\ past > 0 => logits = seq
  /\ pc = "snapshot" => seq = Fresh(Prefix)
  /\ pc = "store" => snap # None /\ key # NoHint /\ seq = Fresh(Prefix)
  /\ pc = "branch" /\ live => seq = Fresh(Prefix)
  /\ pc = "suffix" =>
       /\ row \in Branches /\ prefixLen <= past
       /\ Reached(rows[row])
       /\ past > prefixLen => logits = seq

BranchesOK ==
  /\ pc \in {"snapshot", "store", "branch", "suffix"} =>
       \A r \in DOMAIN rows : Len(rows[r]) = prefixLen => results[r] # None
  /\ pc \in {"branch", "suffix"} =>
       /\ \A r \in DOMAIN rows : r < row => results[r] # None
       /\ snap # None \/ ~Forks
  /\ pc = "branch" /\ ~live => \E r \in Branches : r < row

IInv ==
  /\ ControlOK /\ RowsOK /\ FreshPathOK /\ PlanOK /\ StageOK /\ BranchesOK
  /\ CachedStatesFresh /\ CacheBounded

(* The native sequence never outgrows the context: what is decoded or       *)
(* restored is part of a row that fits.                                    *)
ContextOK ==
  /\ Len(seq.toks) <= NCtx
  /\ pc = "freshDecode" => Len(rows[row]) <= NCtx

(* The bytes counted are those of the states held, under one key each; a    *)
(* key that was looked up in vain is not held when its state is stored.    *)
SizesOf(entries) == [i \in DOMAIN entries |-> entries[i].size]

HeldOK ==
  /\ cacheBytes = Total(SizesOf(cache))
  /\ \A i \in DOMAIN cache : cache[i].size = Size(cache[i].state)
  /\ \A i, j \in DOMAIN cache : cache[i].key = cache[j].key => i = j

EntriesOK ==
  /\ HeldOK
  /\ pc \in {"prefix", "snapshot", "store"} /\ Cold => CachedAt(key) = {}
  /\ pc = "store" => Cold

(* At every step of a call: what it has decoded and not charged.           *)
SuffixLens == [r \in DOMAIN rows |-> Len(rows[r]) - prefixLen]

Uncharged ==
  /\ pc \in {"fresh", "lookup", "restore"} => spent = 0
  /\ pc = "freshDecode" => spent = past
  /\ pc = "prefix" => spent = past - Reused
  /\ pc \in {"snapshot", "store"} => spent = prefixLen - Reused
  /\ pc \in {"branch", "suffix"} => row <= Len(rows) + 1
  /\ pc = "branch" => spent = prefixLen - Reused + Totals(SuffixLens)[row - 1]
  /\ pc = "suffix" => spent = past - Reused + Totals(SuffixLens)[row - 1]
  /\ outcome = "ok" => spent = 0

LedgerOK ==
  /\ CountersOK
  /\ metrics["logical"] = metrics["physical"] + metrics["reused"]
  /\ spent >= 0 /\ Uncharged

(* While a call is in progress it has no outcome.                          *)
OutcomeOK == pc # "idle" => outcome = "none"

Books == ContextOK /\ EntriesOK /\ LedgerOK /\ OutcomeOK

-----------------------------------------------------------------------------
(* The mapping: a verdict is pending from the call to its end.              *)
Oracle == INSTANCE FreshOracle WITH
  Requests <- {c.rows : c \in Calls},
  open <- ~closed,
  request <- rows,
  verdict <- CASE pc # "idle" -> "pending"
               [] pc = "idle" /\ outcome = "ok" -> "ok"
               [] OTHER -> "raised",
  answer <- IF outcome = "ok" THEN results ELSE <<>>

(* The adapter implements the oracle: its caller sees fresh evaluations or  *)
(* errors, and every call ends.                                             *)
ImplementsFreshOracle == Oracle!Spec

(* The part of it that no step may break.                                  *)
OracleSafety == Oracle!Init /\ [][Oracle!Next]_(Oracle!vars)

=============================================================================
