# Formal model of Decisio

Decisio chooses one of several candidates by reading the next-token logits of a
local model (`src/decisio`).  Its difficult part is the llama.cpp backend: it
answers a request as if every prompt had been evaluated from scratch, while it
decodes shared prefixes once, restores snapshots of native state and remembers
some of them across decisions.  Around it are a prompt compiler and scorers, and a
demo: a game of Snake whose moves Decisio decides, driven from browser pages
through a threaded server.  Benchmarks compare its scorers, and scripts check what
the repository promises of its own engineering.  This directory holds TLA+ modules of these parts,
the TLC instances that check them, and TLAPS proofs that hold for every instance.

Paths below are relative to the repository, lines are those of the modelled commit.

## Inventory

| Component | State it keeps | Operations | What makes it correct |
|---|---|---|---|
| Shared-prefix planning (`backends/llama_cpp.py:151-187`) | none | `_longest_common_prefix`, `_shared_prefix_plan` | the planned prefix lies on every row's fresh evaluation; the key depends on nothing after the hint |
| Runtime adapter `_NativeLlamaCppRuntime` (`llama_cpp.py:197-713`) | native sequence 0, its output buffer, LRU cache of states, its byte count, counters | `next_token_logits`, shared-prefix scoring, cache lookup/store/clear, metrics, `close` | answers equal fresh evaluation; cache entries are fresh states; limits hold; counters match the work |
| `LlamaCppBackend` (`llama_cpp.py:775-939`) | re-entrant lock, `_closed`, `_runtime` | each runtime operation under the lock, `close` | one native call at a time, none after `close` |
| `DecisionSession` (`session.py`) | `_closed`, two scorers | `choose`, `clear_cache`, `close` | a decision carries its own answer; its metrics are those of its own call (one caller) |
| Prompt compiler (`compiler.py`) | none | compile, reusable-prefix length | same request, same prompt in any candidate order; hint is a strict token prefix |
| Scorers, arithmetic (`scorers/`, `math.py`) | none | `score`, softmax, `stable_argmax` | the choice does not depend on the order of presentation |
| Schema (`schema.py`) | none | validation | only well-formed requests and results exist |
| Benchmark, comparison, `compare` (`benchmark.py`, `comparison.py`, `cli.py`) | a row file for each of eight benchmarks, `comparison.json`, `comparison.md` | score every row with every scorer, in both orders; read back, pair, time, report | tables, summaries and statistics agree with the rows; what an interruption leaves is not taken for a report |
| Qwen/MLX reference backend (`backends/qwen.py`) | none between calls | one padded batch per call | a row of a batch is answered as it would be alone |
| Generation baseline (`baselines/generation.py`) | none | one call, one reply | only a well-formed reply is a choice |
| Snake game (`examples/snake/game.py`) | board, snake, food, RNG, recent heads | `step`, sensors, safety filter | a move reported safe does not kill; food is never on the snake |
| Snake controllers, planner (`play.py`, `planner.py`) | none | `choose_move`, breadth-first search | only safe moves are offered; a verdict means what it says in the game's rules, and a search cut by a bound claims nothing |
| Headless episode, video (`play.py` `main`, `video.py`) | trace file, totals; frames directory, video file | play and record; load, draw, encode | a trace is one game, its summary is that of the trace; a video shows its trace |
| Snake web demo (`web.py`, `static/js`) | session lock, game, trace; per page: `busy`, `running`, `status` | `reset`, `step`, `status`, shutdown | the page shows the server's game; a step is all or nothing |
| Demo download (`demo.py`) | `.part` file, model file | hash, download, verify, rename | what is served has the pinned digest; the installed model is never lost |
| Contract verification (`scripts/verify_operations.py`, `verify_e2e.py`, `verify_stage_environment_policy.py`) | none; they read `.engineering/*.json` | one verdict each | what two accept the third does not contradict; accepted journeys can be run |
| Other scripts, offline benchmarks, profiles, skills, template | files | batch work, documents | not part of the running program |

**How they interact.**  `DecisionSession.choose` resets the backend's counters,
lets `LetterTokenScorer` compile the request (several tokenizer calls) and score
it (one backend call), and reads the counters back.  Each of these takes the
backend's lock on its own; nothing holds it across a `choose`.  The backend
forwards to the runtime adapter, which alone touches native state.  The Snake
demo holds its own lock around a whole step and calls the session inside it.
The generation baseline takes the backend's lock from outside any session.  The
comparison runner drives four scorers over one backend and talks to itself
through files: it re-reads its input for each benchmark and the rows it wrote.
Launches of the demo meet in one directory; an episode leaves a trace for the
video script, which leaves frames for its own next run.

**What is hard here.**  Native state that survives between calls and between the
rows of one call; an output buffer that a restore does not rewrite; eviction by
two limits; failures in the middle of a chain of native operations; work charged
by formula; threads interleaving between locked sections, and a `close` among
them.  In the compiler, tokens that merge across
the end of a reusable text, and templates that render it in their own way; in
the scorers, three orders of the same candidates (caller, letters, tie-break).
In the game, rules written twice, to foretell a move and to make it, and a third time
in the planner, whose search is cut by two bounds; in the demo,
page loops and threads that overtake each other, and a server restarted under
open pages.  Around all of them, files: an input edited while it is compared, a
`.part` file that several launches write, a frames directory used again, and
runs killed between any two writes.  In the contracts, one entry is read by
three scripts that compare it in three ways.
`PROJECT.json` lists each such hazard at its line with the properties
that watch it, or says why none does.

## Modules

| Module | Models |
|---|---|
| `PrefixPlan` | the pure operators: common prefix (reference definition), plan, batch alignment, and *native states* |
| `PrefixScan` | `_longest_common_prefix` as the loop it is, and what the plan made of its result means |
| `LlamaRuntime` | the runtime adapter, one native operation per step |
| `LlamaRecency` | `LlamaRuntime` with a history variable: the keys used, in order |
| `FreshOracle` | the abstract specification: a call raises, or each row gets its fresh evaluation |
| `DecisionSession` | threads, lock, closed flags and metrics over `FreshOracle` |
| `QwenBatch` | the reference backend: padding, mask, readout positions, projection, as functions of the batches of `PrefixScan`, which it extends |
| `Schema`, `GeneratedJson` | what makes a request; what makes a generated choice |
| `PromptCompiler` | `compiler.py`: prompts as sequences of marks, readout slots, the reusable prefix |
| `Scoring` | the four scorers, `math.py` and what `DecisionResult` demands, one decision after another; extends `PromptCompiler`, `Totals` |
| `Totals` | sums over sequences, for charges, cache bytes and the check of a distribution |
| `Statistics` | percentiles, exact p-values and the rotation of scorers |
| `Comparison` | `benchmark.py`, `comparison.py`, the `compare` command, over files; extends `Schema`, `GeneratedJson`, `Statistics` |
| `SnakeGame` | `game.py` and `choose_move` of `play.py` |
| `SnakePlanner` | `planner.py`: one `evaluate` of a position of `SnakeGame`, which it extends |
| `SnakeEpisode` | `main` of `play.py` and `video.py`: trace, summary, frames, video |
| `SnakeWeb` | `web.py` and `app.js`: pages, request threads, session lock, trace file |
| `ModelDownload` | `demo.py`: launches, files and their names, the server's model and its identity |
| `OperatingContract` | `verify_operations.py` and `verify_stage_environment_policy.py`: acceptance conditions |
| `JourneyContract` | `verify_e2e.py`, and edits of the two contract files; extends `OperatingContract` |
| `PrefixPlanProofs`, `LlamaRuntimeProofs`, `DecisionSessionProofs`, `ScoringProofs`, `ComparisonProofs`, `SnakeWebProofs` | TLAPS proofs, each about the module it is named for (`PrefixPlanProofs` about `PrefixScan` and `QwenBatch` too, `LlamaRuntimeProofs` about `LlamaRecency` too, `SnakeWebProofs` about `ModelDownload` too) |
| `SnakeProofs` | TLAPS proofs about `SnakeGame`, `SnakeEpisode` and `SnakePlanner` |
| `TotalsProofs` | TLAPS proofs about sums, and the induction they and others rest on |
| `MC*` with the `.cfg` files | instances for TLC |

**The abstraction of native state.**  What a llama.cpp sequence holds depends on
the tokens decoded and, for recurrent layers and floating-point reductions, on
how they were split into batches (the comments at `llama_cpp.py:176-177` and
`560-562` rest on this).  A state is therefore a record of its tokens and of the
positions where a batch started.  `Fresh(t)` is the state after decoding `t`
from an empty sequence in batches of `NBatch`.  A row of logits is abstracted to
the state it was computed from, so that "equivalent to fresh evaluation" becomes
equality with `Fresh(row)`, which is stricter than the numerical tolerance of
the contract.  `logits` is the output buffer: `Decode` writes it, restore and
clear do not.  llama.cpp itself is thus modelled only by how the adapter uses it.

**`LlamaRuntime` and the code.**  `pc` is where the call in progress stands.

| pc | code | actions |
|---|---|---|
| `idle` | between calls | `Reject`, `BatchCall`, `FallbackCall`, `SharedCall`, `ClearCache`, `ResetMetrics`, `Close` |
| `fresh`, `freshDecode` | 506-518, 548-553, 869-874 | `FreshRow`, `FreshDecode`, `FreshRead`, `FreshReject`, `FreshReturn` |
| `lookup`, `restore` | 564-570 | `NoLookup`, `Miss`, `Hit`, `Restore` |
| `prefix` | 572-584 | `PrefixDecode`, `ReadExact` |
| `snapshot`, `store` | 590-605, 454-484 | `CaptureForCache`, `RollbackPoint`, `Evict`, `Store` |
| `branch`, `suffix` | 607-642 | `SkipExact`, `FirstBranch`, `NextBranch`, `SuffixDecode`, `SuffixRead`, `Finish` |

`NativeFault` lets any native decode, capture, restore or read fail where it
stands.  A decode that fails is taken to leave the sequence as it was, and so is
a restore; every later call clears the sequence before using it, so
nothing depends on that choice.  Token ids to read (`token_ids`) only
select entries of a logits row and are left out with their validation.

`DecisionSession` takes the runtime as `FreshOracle`, so the proof and the run
that relate `LlamaRuntime` to fresh evaluation carry over to the answers threads
receive.  Each locked operation is one atomic step after `Acquire`, except
scoring, which is two (`BeginScore`, `EndScore`) with the lock kept, so that a
`close` can try to come between; and so is `generate`, which the baseline calls on
the backend itself.  `overlapped` is a history variable: the metrics of a
decision are promised only where no other thread was choosing meanwhile, and
`MetricsOfOwnCall` says this much and no more.

**`QwenBatch`.**  A logit is the token asked for and the hidden state it is read
from, and a hidden state is its token with those before it, each at its place, that the
mask lets through.  So a readout one column off, or a padding token that is attended to,
gives another value.  The tokens to score are projected once for all
rows, in one order (the code sorts them; nothing depends on which), and looked up again
for each.  The special tokens of the tokenizer are parameters: the filler may be a
token of the prompts, and there may be none.

**`PromptCompiler` and `Scoring`.**  A text is a sequence of marks, one for each fixed
phrase and each `canonical_json` value: quoting makes a value unmistakable for a
phrase, so nothing finer matters.  The tokenizer and the chat template are
constants about which nothing is assumed; the instances have tokenizers that
merge marks across a boundary or cannot tell some apart, and templates that
repeat or trim the message.  A step of `Scoring` compiles one prompt, asks the
backend once, or concludes; errors (`RejectPrompt`, `RefuseScores`) leave `score()`
as exceptions.  The model behind the backend is fixed the first time it is read
(`model`): it may prefer anything, but it is one function of the tokens, which
is what `LlamaRuntime` establishes.  Scores are integers, or not finite;
`Weight` stands for the rounded exponential and may be equal for different
scores, as in floating point.  The division by the exact sum (`fsum`) keeps
equal weights equal and is left out.

**`SnakeGame`.**  Safe directions, projection and `step` are each translated from their
own lines, so that their agreement is a theorem and not a definition.  Food
appears on any free cell.  The model's decision is any safe direction.
`scripted` is a caller of `step()` with directions of its own, as the controller
benchmark and the tests are; it may die.

**`SnakePlanner`.**  A behaviour is one call of `evaluate`.  A step takes a state from the
queue, tries one direction from it, or ends the search of a first move; the
search keeps its order, since the node bound cuts it at a place that depends on
it.  Parents are not kept, as in the code.  `PlannerAssumption` says what a position to judge
is (`Judgeable`); `GamesCanBeJudged` proves it of every position of a game that goes on.  `SurvivalDepth` and
`ReachableCells` are sets growing by levels where the code has loops.  The
properties do not use the planner's own rules: `Hungry`, `Meals` and `Lives` say
what plays of the game there are with `SafeFrom` of `SnakeGame`, which
`FilterExact` proves to be the rules of `step`.  The benchmark document
(`benchmarks/snake-controller-benchmark-v1.md:22-25`) says that a cut search is never
reported as optimal, and this is what `VerdictsHold` tests.  It also says that a
safe meal is one after which play survives some moves; the code plays these
with no food on the board, so `Lives` does too, and survival among new food is
not claimed.

**`Comparison`.**  `pc` follows one comparison: eight times `load`, `score`, `write`, with
`reload` after each pair; then `pair`, `requests` and `trial` if timing was asked for, and the
two reports.  Every one of these may be the last of a process, by an error of
the code (`RefuseInput`, `RefuseRow`, `ScorerRaises`, `OrdersDiffer`, `PairsDiffer`,
`RefuseRequests`, `TrialRaises`) or by `Interrupt`, which may leave the file being
written incomplete.  `Edit` saves the input file anew at any time.  The digest of
the input is its content.  Percentiles are exact in hundredths; `PValue` is the
p-value times two to the number of discordant rows, so that it is an integer.
What a scorer picks and how long it takes are constants of the instance.

**`SnakeEpisode`.**  A game is its number, its steps and whether the snake lives; what a
move does to the board is in `SnakeGame`.  A frame shows the record it was drawn
from.  A rendering may run while the next episode replaces the trace, since it
has loaded it.

**`SnakeWeb`.**  The game is abstracted to an identity, a number of steps and whether it
is over.  Everything between two awaits of a page is one step; on the server a
move is three (`BeginStep`, `MakeMove`, `RecordMove`) under the session lock.
`handler` is a request from the moment it is sent until its reply is handled, so
requests and replies overtake each other freely.  `StepFails` covers every
exception of a step, `Unreachable` a connection that is refused, `ReplyLost` one that
breaks, and `Restart` a server that is stopped, wherever its threads are, and started
again while pages stay open.  A page's first `status` may come after the reply of
a reset (`fetch = "late"`).  Removing the trace file on reset is taken to succeed.

**`ModelDownload`.**  Files have numbers and are told apart from their names, `model` and
`partial`, as POSIX has it: a launch goes on writing a file whose name was taken
from it, and `Written` puts a chunk at the launch's own offset, leaving a hole where
another launch emptied the file.  The pinned model is a sequence of `Chunk`, and
comparing digests is comparing contents.  `Kill` ends a launch anywhere.  `raced`
remembers that two launches downloaded at the same time.

**`OperatingContract` and `JourneyContract`.**  A rule maps a place in a file, given as the
path of keys, to the values accepted there, and a script accepts when every rule
does.  Values are named for what the scripts tell apart: `"one"` equals `True` by
Python's `==` and not by `is`; `"reordered"` is equal to `"whole"` as a set and not as a
list.  The lists of environments and journeys are sequences of records that
refer to each other by id.  Messages, warnings and missing files are left out.

The operators marked *faulty* in the modules are not used by any specification.
They are variants of the definition that follows them, each a slip one could make in
the code, with which the properties can be tried out: put one in the place of
the definition and TLC reports the property violated (`mutants` in `PROJECT.json`).

## Runs

| Run | Checks | States | Bounds |
|---|---|---|---|
| `prefix_scan` | the plan made of the loop's result is on every fresh path, longest, and keyed by hinted tokens only; a padded batch answers as its rows do alone | 34,920 | all pairs of rows up to 5 and 4 tokens over 2 tokens, triples of short rows whose middle one differs, all hints, `NBatch = 2`; for the padded batch no, 2 or 3 tokens to score per row and three declarations of special tokens |
| `llama_runtime` | types and context, fresh equivalence, cached states, both cache limits, books (byte count, charged work), branches, recency; implements `FreshOracle`, including that every call ends | 402,452 | 12 kinds of calls, `NBatch = 2`, context 7, 2 entries, 5 bytes, 1 call between two metric resets |
| `session_concurrent` | own answers, no native call once freeing has begun, metrics of a decision no other overlapped, every operation returns | 772,770 | 2 choosing threads, 1 that closes and generates, 2 operations each |
| `scoring` | independence of the order of candidates, scores read for the right text, hints that can be shared | 274,722 | 8 backends, 4 requests of 2 to 4 candidates in all or selected orders, 3 letters, 2 decisions |
| `snake_planner` | body and food, safety filter, sensors, policy; verdicts of the search in the game's rules, best moves | 145,137 | 5x5 board, the first meals, and games from 3 cells before the board is full, 4 remembered heads; 130 positions 3 to 24 cells long, 100 nodes, 7 moves deep, horizons 2 and 3 |
| `snake_web` | decisions on the right board, trace of one game, one move at a time, no page stuck in `running`, every move ends | 979,239 | 2 pages, both open with 3 and 1 clicks or one still opening with 2 and 1; 2 requests at once, 2 steps per game, 1 fault |
| `comparison` | the report adds up, exact statistics, comparable trials, no report newer than its rows | 973,686 | 2 comparisons, 1 edit, inputs of up to 5 rows and 11 that are refused, no, 2 or 4 measured rounds after up to 3 of warm-up |
| `snake_demo` | the served model is the pinned one, the old model is kept; a trace is one episode, a video shows its trace | 2,419,217 | 2 launches that start 3 times, 2 chunks; 2 episodes of up to 2 moves, 2 renderings with 1 or 2 frames a row |
| `contracts` | the third script follows from the other two; accepted journeys can be run | 204,346 | the repository's own files, every edit of one entry, list or item, and pairs of edits where the scripts overlap |
| `llama_whole_row` | *violated*: see Findings | - | 2 calls whose hint covers a row |
| `snake_web_log` | *violated*: see Findings | - | 1 page with 3 clicks, no failures |
| `snake_video` | *violated*: see Findings | - | 2 episodes, 2 renderings, 1 frame a row |

*Why the bounds are enough.*  `NBatch = 2` is the smallest size with positions
off a boundary; rows reach three batches and a remainder.  The calls include
keys of one, two and three batches (the last too large to store), rows that end
with the prefix, a hint below a batch, a fallback, an empty batch, a row beyond
the context and a batch with one and with several suffixes.  The two limits bite
separately: three one-batch states fit by bytes but not by entries, two
two-batch states fit by entries but not by bytes.  `MaxCalls` only bounds the
counters: after `ResetMetrics` calls continue, so the cache sees calls in any
number and order.  In `DecisionSession` one conflict needs one operation per
thread; two let a thread meet what its own first operation left.
`Encodes` bounds the tokenizer calls of a compile; one already lets other threads
in before it and after it.

In `scoring`, two decisions are what order independence and agreement of hints
relate; the request with more candidates than letters meets the limit of the
letter scorers.  In `snake_planner` the smallest board the code accepts suffices
for every relation of head, wall, body and food; the late start
(`LateInit`, a snake that a game with luck can grow) reaches the full board,
which no search from the start would.  Every verdict occurs, a meal that traps at
the first move and in the search, both bounds cut searches, and there is food that only a deeper
search would find; the horizon of the reference is two moves past the depth bound.  In `snake_web` three clicks start, pause
and restart a loop, which is how a page gets two; the other page is another user, and
a page that opens late meets a game that was reset.  In `comparison` one comparison leaves
the files that the next one overwrites or stops short of; five rows are answered in every way
by one scorer, so that tables of up to five discordant rows occur.  (`Bounded` keeps
the inputs of the second comparison and of the timed ones short.)  In `snake_demo` the
third start is one that finds what two launches left.  In `contracts` an edit
of one entry shows what each script thinks of it, and two let scripts disagree;
`Related` keeps to the pairs that begin with an entry that two of them read.

*Deadlock.*  Not checked, because every part really stops: the runtime may be
closed with nothing left to count, threads stop when their operations are used up,
a scan or a search ends, a game ends, and decisions, clicks, comparisons, launches,
episodes and edits are bounded.

*Fairness.*  `LlamaRuntime` assumes weak fairness of `Work`: a call in progress
runs on its caller's thread and is never abandoned.  `DecisionSession` assumes weak
fairness of each thread's continuation.  That suffices although
`threading.RLock` is not fair, because the other threads have finitely many
operations, so the lock is eventually left free.  `SnakeWeb` assumes the same of each
page's callbacks and each request thread; nobody need click and nothing need
fail.  The other modules state safety only.

## Proofs

The proofs hold for every value of the constants that the assumptions at the end of
this section allow.  Each result about behaviours has the same shape: an
inductive invariant, kept by one lemma per action, from which the properties
follow.  The invariants are stated in the modules themselves, after the properties, and
those of the game and its planner with their proofs, under the names given below; TLC found
each of them to hold in small instances before it was proved.

**Planning** (`PrefixPlanProofs`), for all batches, hints and `NBatch`:

| Theorem | States |
|---|---|
| `ScanInvariance` | `ScanSpec => []ScanInv` |
| `PlanOnFreshPath` | `ScanSpec => []PlanIsOnEveryFreshPath` |
| `PlanLongest` | `ScanSpec => []PlanIsLongest` |
| `KeyIsOfHint` | `ScanSpec => []KeyIndependentOfCandidates` |
| `BatchAnswersRowByRow` | `ScanSpec => []QwenBatchIsRowByRow` |

Beside these it proves what the operators do: the common
length bounds every row and all rows agree below it (`SharedPrefixFacts`), a
plan is on a batch boundary within the common tokens and its key within the hint
(`PlanFacts`), and a native decode moves a fresh evaluation from one boundary to
the next (`DecodeStep`).  *Argument.*  `ScanInv`: the loop has gone over positions where
all rows agree, and stops at the first where they do not or at the end of the
shortest.  That a row decoded batch by batch is in the planned state after some
number of batches is an induction over that number.  For the padded batch of the reference
backend: up to the end of a row, its padded copy has the row's tokens, the mask
is true at them and its own last index is the last of them, so
nothing that is read depends on the length of other rows; and a token has one place in the
shared list of tokens, whichever rows asked for it.

**Runtime** (`LlamaRuntimeProofs`), for every `NBatch`, `NCtx`, cache limit, snapshot
size and set of calls with strict hints:

| Theorem | States |
|---|---|
| `Invariance` | `Spec => []IInv` |
| `FreshAnswers` | `Spec => []FreshEquivalence` |
| `CacheIsFresh` | `Spec => []CachedStatesFresh` |
| `CacheIsBounded` | `Spec => []CacheBounded` |
| `NoStrandedBranch` | `Spec => []BranchesNeverStranded` |
| `ControlTypes` | `Spec => []ControlOK` |
| `BooksAreKept` | `Spec => [](IInv /\ Books)` |
| `TypeCorrect` | `Spec => []TypeOK` |
| `BooksAreBalanced` | `Spec => []BooksBalance` |
| `ImplementsOracleSafely` | `Spec => OracleSafety` |
| `CacheHoldsMostRecent` | `RecencySpec => []HoldsMostRecent` |

*Argument.*  `FreshEquivalence` speaks of the end of a call only.  `IInv` says
where the native sequence is at each `pc`: always at a point of the fresh
evaluation of the row, or of the prefix, in progress (`Reached`), on a batch
boundary unless it is at the end; that the output buffer belongs to that state
whenever it will be read; that the rollback point and the cache entry are
`Fresh(Prefix)`; and, for branches, that a suffix which is not the first has a
snapshot, because a second suffix makes `Forks` true (`StageOK`, `BranchesOK`).
Cache entries must be fresh states for a hit to re-establish this, which is why
the invariant joins the two.

`BooksBalance` compares counters after a call, but the adapter charges a call by
formulas, at other moments than it decodes.  `Books` says what is
open in between: `Uncharged` relates the work done in this call (`spent`) to where the sequence
stands and to what was charged, at each `pc`; `HeldOK` says that the byte count is the
sum of the entries, that no key occurs twice, and that a key which was looked up in vain is
not there when it is stored.  It rests on `IInv`, for where the sequence is, and
on `TotalsProofs` for what happens to a sum when an entry is added, dropped or moved.

`OracleSafety` is the initial condition and the steps of `FreshOracle` under the
mapping at the end of `LlamaRuntime`.  A call is accepted, its intermediate steps
are stutters, and the step that ends it is `Answer` or `Raise` of the oracle; that the
answer is the right one is `FreshEquivalence` in the state after that step.
That every call ends is the liveness part, which the run checks.

For recency, what the cache holds is always the tail of the list of keys used
(`RecentOK`), and that list has no key twice.  A hit moves one key to the end of both;
eviction shortens the tail from its old end.

**Sums** (`TotalsProofs`).  `Totals` is a recursive function.  Its facts are shown
without a theorem that takes a predicate as parameter: `CountingUp` states
induction for a *set* of numbers, from the well-foundedness of `<`, and
`SumsExist`, `TotalsFacts` apply it to the set of lengths for which the sums exist.
`PartsAddUp`: the sizes of the parts of a finite set, listed once each, add up to its own.

**Session** (`DecisionSessionProofs`), for every set of threads, every prompt and
any number of operations:

| Theorem | States |
|---|---|
| `Invariance` | `Spec => []IInv` |
| `OwnAnswers` | `Spec => []AnswersOwnPrompt` |
| `NativeMemorySafe` | `Spec => []NoUseAfterFree` |
| `OwnMetrics` | `Spec => []MetricsOfOwnCall` |

*Argument.*  The properties speak of results and of two threads at once; `IInv` says
what one thread may rely on in each of its sections.  `LockOK`: who is in native
code holds the lock of an open backend, a request is pending only while somebody is
there, and a session is closed only after its backend.  `AnswersOK`: the request
being scored is the prompt of the thread that scores it.  `MetricsOK`: threads that
choose at the same time are marked `overlapped`, so one that is not has the
counters to itself from reset to read.  `QuietStep` serves the actions that are no
part of a decision.

**Scorers** (`ScoringProofs`), for every tokenizer, template, set of letters, set of
requests, model, and number of candidates and decisions:

| Theorem | States |
|---|---|
| `ScoringInvariance` | `Spec => []ScoringInv` |
| `OrderIsIrrelevant` | `Spec => []OrderDoesNotMatter` |
| `ScoresAreOwn` | `Spec => []ScoredByOwnText` |
| `HintInvariance` | `Spec => []HintInv` |
| `HintsAreShared` | `Spec => []HintsCanBeShared` |

*Argument.*  `OrderDoesNotMatter` relates two decisions that may lie far apart, with the
model asked many things in between.  `DecisionOn(r)` is a decision without an
order: functions on the candidates, from what the model answers for the prompt of
each.  `ScoringInv` says that every decision made is `DecisionOn` of its request
and has asked all that it rests on (`Explained`).  The model only grows, so what
was `DecisionOn` of a request stays so.  The work is in `Conclude`: sequences in the order of
compilation become functions on the candidates, the maximum, the checks on a
`DecisionResult` and the tie-break do not depend on that order; and in that letters are
given out, and candidates rendered, in an order the request alone determines.

`ScoredByOwnText` follows from the same invariant: `DecisionOn` takes a candidate's score
from its own prompt or its own letter, and in the message that prompt shows, the
candidate's description follows its marker (`PromptShape`; for letters,
`OptionsFacts`: the options are pairs in the order in which letters are dealt).

`HintsCanBeShared` is about token ids.  `HintInv` brings it down to single prompts: what is
asked was compiled, and a call's hint is one that all its rows have.  The compiler
counts the tokens that the prompt has in common with those of what is rendered up
to the end of the stable text (`HintFacts`).  That text is a proper beginning of the prompt
(`RenderedBeginning`), so the prompt's tokens cannot all be among its tokens, and
the hint ends before them; and two prompts with one stable text have that text
rendered alike, so their first tokens are the same ones (`HintsAgree`).

**Comparison** (`ComparisonProofs`), for any input files and any number of comparisons,
edits, kills, rounds and repetitions:

| Theorem | States |
|---|---|
| `ReportInvariance` | `Spec => []ReportInv` |
| `ReportIsNotNewer` | `Spec => []ReportNotNewerThanRows` |
| `RowsInvariance` | `Spec => []RowsInv` |
| `ReportsAddUp` | `Spec => []ReportAddsUp` |
| `TrialsInvariance` | `Spec => []TrialsInv` |
| `TrialsAreComparable` | `Spec => []TrialsComparable` |

*Argument.*  `ReportNotNewerThanRows` is not inductive: the step that writes a report needs
that all eight files are of this comparison.  `StageOK` says that there is a summary of
every benchmark written so far, `FilesOK` that its file is of this comparison and counts
the same, `ReportOK` that a report is of this comparison only once this one has
made it.  Until then it is strictly older, so to open, fill or cut short a file
never breaks the property.

`ReportAddsUp` compares counts that were made at different times: summaries while scoring,
tables from files read back, with the input edited in between.  `RowsInv` says
what keeps them together: each file holds the rows its summary counted, with ids that
differ (`SummariesOK`, so the test for a double id in `comparison.py:28-29` never fires),
and what was read is what the file still holds, in pairs
with the same ids (`RecordsOK`); the tables need that all baselines have the ids of the
primary scorer, which is checked before they are made.  Ids that differ
make counting rows by position and counting them by id the same, and the four
entries of a table divide the ids; the families divide the
positions (`PartsAddUp` of `TotalsProofs`).

`TrialsInv` says which trial each one is: the i-th is the turn that `Rotate` gives it.  The rest is
counting, by induction over the rounds: a scorer has one trial in each
(`TrialCount`), and a given place in every fourth (`TurnCount`), so the places are shared
evenly exactly when the measured rounds are a multiple of four (`EvenRounds`).

**Snake game** (`SnakeProofs`), for every board of at least 5 by 5:

| Theorem | States |
|---|---|
| `FilterExact` | `Spec => FilterIsExact` |
| `SensorsForetellAlways` | `Spec => SensorsForetell` |
| `PolicyAlwaysLeavesExit` | `Spec => PolicyLeavesExit` |
| `AlwaysWellFormed` | `Spec => []BodyWellFormed` |

*Argument.*  `Playable` (a living game has a head on the board and food to look for) makes the
two tests of the wall the same, and then the filter and `step` agree case by
case.  For the sensors, the new food is not known when they are computed:
`UncoveredFoodIsIrrelevant` shows that food which the body does not cover changes no
safe direction.  `BodyWellFormed` is inductive with `Playable`: a path with a new
head on a cell it does not cover is a path (`LongerPath`), and so is a path
without its tail (`FrontIsPath`).

**Web demo** (`SnakeWebProofs`), for any number of pages, request threads, clicks, steps,
games and faults:

| Theorem | States |
|---|---|
| `Invariance` | `Spec => []IInv` |
| `DecisionsFit` | `Spec => []DecisionFitsGame` |
| `TraceIsOfThisGame` | `Spec => []TraceOfThisGame` |
| `OneMove` | `Spec => []OneMoveAtATime` |
| `RunningHasWork` | `Spec => []RunningGoesOn` |

*Argument.*  The server's half (`ServerOK`): a thread that is choosing or has moved holds
the lock, so the game it saw is the game it moves, and the trace is one step behind
only in between.  The pages' half follows a request from click to reply
(`RequestsOK`, `AlonePerKind`, `MovesOK`, `RepliesOK`): a page has at most one step and one
status under way, a move that is sent has its request, and the reply of a reset is a
new game.  `LoopOK`: a page that is running shows a game that goes on, unless its
first status came late.

**Planner** (`SnakeProofs`), for every board of at least 5 by 5, every position with a body that
covers no cell twice and food beside it, and all bounds and horizons:

| Theorem | States |
|---|---|
| `PlannerInvariance` | `PlannerSpec => []PlannerInv` |
| `VerdictsAreTrue` | `PlannerSpec => []VerdictsHold` |
| `BestIsBest` | `PlannerSpec => []BestMovesAreBest` |
| `GamesCanBeJudged` | `Spec => [](alive => Judgeable(snake, direction, food))` |

*Argument.*  The plays of the game after a first move are sets, one for each number of moves
(`Hungry`), and the search has to be compared with all of them.  `PlannerInv` therefore says
which part of them the search has seen: what is in the queue is in order of depth
and was reached in as few moves as it can be (`QueueOK`); and what was visited is still
open, or *closed*, which means that each of its moves led to a visited body or to a
meal known to trap, or is as deep as the search goes (`VisitedOK`).  Nothing is
said of what was not visited: that all plays shorter than what is still open were seen
follows by induction over their length (`AllClosed`, `NearerIsSearched`), and is used
when a move is tried, when food is found and when the search gives up.  A search cut by the
node bound has forgotten this (`CutShort`), and its verdict claims nothing.  That
recursive functions such as `Hungry`, `Living` and the two walks over the board have the
values their equations give is proved once for all (`LevelsExist`, `LevelsFacts`), by
induction over the levels; so `SurvivalDepth`, which uses the planner's own rules, reaches its
horizon exactly when the game's rules let the snake live (`SurvivalFacts`), and a body as
long as the board covers it (`BoardFacts`).  For the ranks, the order of keys is
strict (`ExceedsIsOrder`) and one of finitely many is exceeded by none (`TopExists`).

**Download** (`SnakeWebProofs`) **and episodes** (`SnakeProofs`), for any number of launches,
chunks, episodes, steps and frames a row:

| Theorem | States |
|---|---|
| `DownloadInvariance` | `DownloadSpec => []DownloadInv` |
| `PinnedIsServed` | `DownloadSpec => []ServedModelIsPinned` |
| `ModelIsKept` | `DownloadSpec => OldModelKept` |
| `EpisodeInvariance` | `EpisodeSpec => []EpisodeInv` |
| `OneEpisode` | `EpisodeSpec => []TraceIsOneEpisode` |
| `VideoIsOfTrace` | `EpisodeSpec => []VideoShowsTrace` |

These are theorems about each component's own specification; the run `snake_demo`
explores the two side by side, and they share no variable.  *Argument.*  `DownloadInv`: as long
as no two launches have downloaded at once, the one that does writes the very file
that has the `.part` name, and that file holds what it has hashed (`DownloadAlone`); so what
is renamed is pinned, and who goes on to serve finds it (`ServeOK`).  `EpisodeInv`: the
trace file is what the player has appended so far (`TraceOK`), its running totals
are those of the trace (`SumsOK`), and the frames up to the one being copied are the
rows (`FramesOK`); frames beyond them may be older, as the finding `snake_video` shows.

*Assumptions.*  The named ASSUMEs on the constants (positive sizes, snapshots of
positive size, `None` not a state, no thread called `NoThread`, requests with
candidates of different ids and descriptions, a collation that lists each text once,
and the like), which TLC evaluates in the runs; and hypotheses that theorems name.

- `HintsStrict`, for every theorem about the runtime: a hint ends before every row of its batch.
  `HintsAreShared` proves it of every call the scorers make.  Without it those
  theorems are false, which is what `llama_whole_row` shows.
- `AnswersAreNumbers`, for the scorers: a logit is an integer or not finite.
- `WeightsAreNumbers`, for the scorers: the exponential of a difference that is not
  positive is a natural number, as integers stand for floats here.
- `TextsAre`, for own texts and hints: texts are sequences of marks, and tokenizer and
  template take such sequences and give sequences.
- `TokensShowLength`, for hints: the tokens of a text do not begin those of a shorter
  beginning of it.  It holds whenever tokens can be turned back into a text of the
  same length, as those of byte-level tokenizers can.
- `HeadsAreFixed`, for hints: a template that shows a message once and unchanged writes
  before it what depends on the prompt version only (the system message).
- `MessageIsShown`, for own texts: two marks side by side in a message, and not its
  last two, are side by side in what the template shows.  A template may trim the
  end of a message or repeat it.
- `NoFileIsNoRows`, for the report and its tables: what stands for a missing file is not the
  contents of one.

All but the first say what kind of data the constants stand for, and every instance of
the runs has them: its tokenizers cut a text into pieces that are parts of it, or
into a single token for a single mark they do not know, so the tokens have the
length of the text; its templates put the version before the message, and show the
message whole, twice, or without its last mark.

*Only model-checked.*

- Liveness (`EveryCallReturns`, `MoveEnds`, and that every call of the oracle
  ends): the provers do not handle ENABLED.
- `StatisticsExact`: binomial tails and percentiles.  That a sum of binomial coefficients
  counts subsets, and that sorting is done, are inductions over data.
- `StagePolicyFollows` and `JourneysReachable`: they hold of the repository's
  own files and of edits of them, which are data and not a parameter.

## Findings

`llama_whole_row` (`llama_cpp.py:579-584`).  With a hint that covers a whole row, the
first call decodes the prefix and stores it.  The second finds it, restores the
sequence, decodes nothing, and reads that row from the output buffer, which
belongs to the last decode of the first call.  `backends/base.py:41-43` promises
results equivalent to fresh evaluation.  The compiler's hints are strict, so
`choose` does not reach this; callers of the backend's method can.

`snake_web_log` (`static/js/app.js:214-230`).  `examples/snake/README.md:161` says that the live UI keeps
every move in the decision log.  While a page awaits the reply of a reset it is
not busy, and a move may be started.  If the server resets first and the move is shown
before the reply of the reset arrives, that reply empties the log and puts back a
status without the move.  (In the other order a row of the old game enters the
empty log.)  The next status puts the board right again; the row is gone.

`snake_video` (`examples/snake/video.py:533`).  `examples/snake/README.md:229` says that the
video is generated from the actual states and decisions of the test, and its
command (238-241) names the same frames directory every time.  The directory is
never emptied, and ffmpeg goes on as long as there is a next number: rendering a
shorter trace after a longer one makes a video that ends in frames of the older
one.  That the video begins with its own trace, whole and in order, holds (`VideoShowsTrace`).

Some properties are as strong as the code makes them, and say where they stop:

- `ServedModelIsPinned` and `OldModelKept` except launches that download at the same
  time (`raced`): both write one `.part` file, and one may rename what the other
  is still writing.  What they leave is found out by the next launch.
- `MetricsOfOwnCall` excepts decisions that overlap in time.
- `RunningGoesOn` excepts a page whose first status arrives after the reply of a
  reset (`app.js:302`): it may then show a game that is over, with its loop marked
  running.
- The digest of the input is taken after scoring (`benchmark.py:142`): with an edit in
  between, the rows of one file carry the digest of the other.  The report
  promises no more, and no property says more.
- A `close` of the backend that fails while freeing (`llama_cpp.py:928`) has marked it closed,
  and nothing frees the rest.

## Not modelled, and why

The parts of the runtime's `generate` inside its own `Llama` object; only its lock
is shared.  The diagnostic fresh view forwards to methods that are modelled.
Loading a model and its identity record are one-time I/O.  A native
`close` that fails half-way is seen in `DecisionSession` (`FreeRuntime`) and not in
`LlamaRuntime`, because the backend drops its only reference before it calls it.
Numerical tolerance is replaced by equality.

Of the reference backend, loading, synchronisation, memory figures and `generate` are calls
of an external framework.  Of the comparison, mean and throughput figures and the layout of
the report; the commands `score` and `benchmark` are parts of `compare`.  Of the
demo, drawing (pages and video frames), static files and telemetry; distances and
reachable cells of the game, which only enter prompts; a `--model` of one's own,
which is neither hashed nor downloaded.  Shutdown of the web server
closes the backend without the session lock and ends the process: `Restart` is the
server's side and `NoUseAfterFree` the backend's.  A record of the trace is appended whole or
not at all: a kill in the middle of its line leaves a text that `video.py` refuses to load.  A
download longer than the pinned model ends, like one with other contents, in the wrong
digest, and is one of those here.  The `Start` button and the others are
enabled by the state itself, not by how it was last drawn.

Offline benchmarks time and tabulate; they keep no state another part reads.  The
other verification scripts search documents for phrases, call git or print a
diagnosis, each in one pass on its own.  Profiles, skills and the template are
documents and copies.

## Plan

1. *Done:* planning, runtime adapter, cache, backend and session, compiler and
   scorers, reference backend, game, controllers and planner, episode and video, web
   demo, download, comparison, contracts; proofs of the planning, of the runtime with its
   books, its recency and the safety of its refinement, of the session, of the scorers' decisions
   and hints, of the comparison's report, tables and trials, of the padded batch, of the game and its planner, of the web
   demo, of the download and of episodes.
2. `SnakeWeb` composed with `SnakeGame` by a refinement to an abstract server that
   plays one game.

There are a dozen runs; what is added should take the place of what says least, so
that the whole stays quick to check.
