----------------------------- MODULE FreshOracle -----------------------------
(***************************************************************************)
(* What a scoring runtime promises its callers: a call either raises, or   *)
(* is answered with the fresh evaluation of each of its rows, in their     *)
(* order.  Nothing of the cache, of the shared prefix or of the order of   *)
(* native operations can be seen, and no call is left without an answer.   *)
(***************************************************************************)
EXTENDS PrefixPlan

CONSTANTS Requests

VARIABLES open,     \* FALSE once the runtime is closed
          request,  \* the rows of the last call
          verdict,  \* "pending" while it is evaluated, then "ok" or "raised"
          answer    \* the rows of logits of an answered call, else <<>>

Init == open = TRUE /\ request = <<>> /\ verdict = "raised" /\ answer = <<>>

Ask(rows) ==
  /\ open /\ verdict # "pending"
  /\ request' = rows /\ verdict' = "pending" /\ answer' = <<>>
  /\ UNCHANGED open

Refuse(rows) ==
  /\ verdict # "pending"
  /\ request' = rows /\ verdict' = "raised" /\ answer' = <<>>
  /\ UNCHANGED open

Answer ==
  /\ verdict = "pending"
  /\ verdict' = "ok"
  /\ answer' = [r \in DOMAIN request |-> Fresh(request[r])]
  /\ UNCHANGED <<open, request>>

Fail ==
  /\ verdict = "pending"
  /\ verdict' = "raised"
  /\ UNCHANGED <<open, request, answer>>

Shut == open /\ verdict # "pending" /\ open' = FALSE /\ UNCHANGED <<request, verdict, answer>>

Next == (\E rows \in Requests : Ask(rows) \/ Refuse(rows)) \/ Answer \/ Fail \/ Shut

vars == <<open, request, verdict, answer>>

Spec == Init /\ [][Next]_vars /\ WF_vars(Answer \/ Fail)
=============================================================================
