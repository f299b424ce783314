--------------------------- MODULE MCLlamaRuntime ---------------------------
(***************************************************************************)
(* Instances of LlamaRuntime: native batches of two tokens, a context of   *)
(* seven, and calls chosen so that the cache is hit, filled, evicted from  *)
(* by entries and by bytes, and offered a state that is too large.         *)
(***************************************************************************)
EXTENDS LlamaRecency

MCTokens == {1, 2}

\* snapshots of 2, 4 and 6 tokens take 1, 3 and 6 bytes
MCStateBytes == [n \in 1 .. NCtx |-> IF n <= 2 THEN 1 ELSE IF n <= 4 THEN 3 ELSE 6]

MCShared(rs, h) == [kind |-> "shared", rows |-> rs, hint |-> h]
MCBatch(rs)     == [kind |-> "batch", rows |-> rs, hint |-> NoHint]

\* A hint shorter than every row, as the prompt compiler gives it.
MCCompilerCalls == {
  MCShared(<< <<1,1,2>>, <<1,1,1,2,2>> >>, 2),      \* key <<1,1>>
  MCShared(<< <<1,2,1,1>>, <<1,2,2>> >>, 2),        \* key <<1,2>>
  MCShared(<< <<2,1,1,1>> >>, 3),                   \* unaligned, one branch
  MCShared(<< <<1,1,2,1,1>>, <<1,1,2,1,2>> >>, 4),  \* four-token key
  MCShared(<< <<2,2,1,1,2,1>>, <<2,2,1,1,1>>, <<2,2,1,1,2,2,1>> >>, 4),
  MCShared(<< <<1,1,1,2,2,2,1>> >>, 6)}             \* too large to store

\* Without a usable hint: nothing cached, rows that end with the prefix.
MCOtherCalls == {
  MCShared(<< <<1,1>>, <<1,1,2>>, <<1,1>> >>, NoHint),
  MCShared(<< <<1,2>>, <<1,2,1>>, <<1,2,2>> >>, 1),
  MCShared(<< <<1,2>>, <<2,1,1>> >>, 1),             \* falls back
  MCShared(<<>>, NoHint),
  MCBatch(<< <<2,1,2>>, <<1>> >>),
  MCBatch(<< <<1,2>>, <<1,1,1,1,1,1,1,1>> >>)}      \* second row too long

MCCalls == MCCompilerCalls \cup MCOtherCalls

\* A hint that covers one of the rows entirely.
MCWholeRowCalls == {
  MCShared(<< <<1,1>>, <<1,1,2>> >>, 2),
  MCShared(<< <<1,2,1>>, <<1,2,2>> >>, 2)}
=============================================================================
