-------------------------- MODULE MCDecisionSession --------------------------
(***************************************************************************)
(* Two threads that choose and clear the cache against each other and      *)
(* against a third that closes, twice when closing failed.                 *)
(***************************************************************************)
EXTENDS DecisionSession

CONSTANTS alice, bob, carol

TwoChoosers == {alice, bob}
OneCloser == {carol}
OneGenerator == {carol}
MCThreads == {alice, bob, carol}
MCPrompts == {<< <<1, 2>> >>, << <<2, 1, 1>> >>}
=============================================================================
