---------------------------- MODULE MCPrefixScan ----------------------------
(***************************************************************************)
(* All pairs of rows of one to five tokens over two tokens, with every     *)
(* hint up to their length, and triples in which the middle row may be the *)
(* one that differs; native batches of two.  The same batches are given to *)
(* the Transformers backend, with one or two tokens to score for each row. *)
(***************************************************************************)
EXTENDS QwenBatch

ScanRows(n) == UNION {[1 .. m -> {1, 2}] : m \in 1 .. n}
ScanBatches == {<<t, u>> : t \in ScanRows(5), u \in ScanRows(4)}
                 \cup {<<t, u, t>> : t \in ScanRows(3), u \in ScanRows(3)}
ScanHints == (1 .. 5) \cup {NoHint}
ScanSuffixes == {<<>>, <<1>>, <<2>>, <<1, 2>>, <<2, 2>>}

ScanCandidates == {<<>>, <<2, 1>>, <<3, 2, 3>>}
ScanPadAndEos == {<<2, NoToken>>, <<NoToken, 1>>, <<NoToken, NoToken>>}
=============================================================================
