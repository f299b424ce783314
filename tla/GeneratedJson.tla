---------------------------- MODULE GeneratedJson ----------------------------
(***************************************************************************)
(* baselines/generation.py: the language model writes its choice as JSON.  *)
(* A reply is what json.loads makes of the text: NotJson, or a value, of   *)
(* which only objects matter, as functions from their keys.                *)
(***************************************************************************)
CONSTANTS None,        \* no valid choice
          NotJson,     \* text that json.loads refuses
          NotAnObject  \* any other JSON than an object

GeneratedChoice(reply, ids) ==
  IF reply \notin {NotJson, NotAnObject} /\ DOMAIN reply = {"choice"} /\ reply["choice"] \in ids
  THEN reply["choice"] ELSE None
=============================================================================
