---------------------------- MODULE LlamaRecency ----------------------------
(***************************************************************************)
(* LlamaRuntime with a history variable: the keys that calls looked up     *)
(* with success or stored, each once, the latest use last.  Evictions do   *)
(* not touch it, so it is what a cache without limits would hold.          *)
(***************************************************************************)
EXTENDS LlamaRuntime

VARIABLE recency

RecencyInit == Init /\ recency = <<>>

UsedAgain(k) ==
  LET uses == {i \in DOMAIN recency : recency[i] = k}
  IN  Append(IF uses = {} THEN recency ELSE RemoveAt(recency, CHOOSE i \in uses : TRUE), k)

CacheEmptied == pc = "idle" /\ cache # <<>> /\ cache' = <<>>

FoundCached == pc = "lookup" /\ metrics'["hits"] > metrics["hits"]

NewlyStored == pc = "store" /\ pc' = "branch" /\ cacheBytes' > cacheBytes

RecencyNext ==
  /\ Next
  /\ recency' = CASE CacheEmptied                -> <<>>
                  [] FoundCached \/ NewlyStored  -> UsedAgain(key)
                  [] OTHER                       -> recency

RecencySpec ==
  RecencyInit /\ [][RecencyNext]_<<vars, recency>> /\ WF_vars(Work)

(* The cache holds exactly the most recently used keys, in the order of     *)
(* their last use: what was given up is older than all that is kept.        *)
HoldsMostRecent ==
  \E n \in 0 .. Len(recency) :
    [i \in DOMAIN cache |-> cache[i].key] = SubSeq(recency, n + 1, Len(recency))
=============================================================================
