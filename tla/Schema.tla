------------------------------- MODULE Schema -------------------------------
(***************************************************************************)
(* schema.py: what a request must be to be built at all.                   *)
(* Every refusal is a ValueError, so one predicate stands for all of them; *)
(* that of a decision is in Scoring, which builds it.                      *)
(***************************************************************************)
EXTENDS Integers, Sequences, FiniteSets, SequencesExt

CONSTANTS Strip,   \* the strings, as a function to what is left of each one
                   \* without the white space around it
          NoId,    \* a request without an id
          NaN      \* no finite number; JSON that holds one is refused

IsText(v) == v \in DOMAIN Strip /\ Strip[v] # ""

CandidateAccepted(c) == IsText(c.id) /\ IsText(c.description)

(* A row whose candidates are no list is one without candidates. *)
RequestAccepted(r) ==
  /\ r.state # NaN
  /\ IsText(r.question)
  /\ r.id = NoId \/ IsText(r.id)
  /\ Len(r.candidates) >= 2
  /\ \A i \in DOMAIN r.candidates : CandidateAccepted(r.candidates[i])
  /\ \A i, j \in DOMAIN r.candidates : i # j =>
       /\ r.candidates[i].id # r.candidates[j].id
       /\ Strip[r.candidates[i].description] # Strip[r.candidates[j].description]
=============================================================================
