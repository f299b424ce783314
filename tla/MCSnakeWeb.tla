----------------------------- MODULE MCSnakeWeb -----------------------------
(* Small instances of SnakeWeb: two pages, of which one may still be       *)
(* opening, on one server with a failure; and one page with none.          *)
EXTENDS SnakeWeb, TLC

CONSTANTS p1, p2

TwoPages == {p1, p2}
StartsOfTwo == {[opened |-> {p1, p2}, clicks |-> p1 :> 3 @@ p2 :> 1],
                [opened |-> {p2}, clicks |-> p1 :> 2 @@ p2 :> 1]}

OnePage == {p1}
StartsOfOne == {[opened |-> {p1}, clicks |-> p1 :> 3]}
=============================================================================
