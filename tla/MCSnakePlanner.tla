--------------------------- MODULE MCSnakePlanner ---------------------------
(* The smallest board the game accepts.  Games from its start and from near *)
(* their end; and positions to plan from, each just after a meal: a snake   *)
(* whose food appeared on the cells of a tour, its next food on any free    *)
(* cell.                                                                   *)
EXTENDS SnakePlanner

(* A path over the whole board that begins as the game does.  A snake      *)
(* whose food always appears on the next cell of it becomes Late.          *)
Tour == << <<0, 2>>, <<1, 2>>, <<2, 2>>, <<2, 1>>, <<1, 1>>, <<0, 1>>, <<0, 0>>, <<1, 0>>,
           <<2, 0>>, <<3, 0>>, <<4, 0>>, <<4, 1>>, <<3, 1>>, <<3, 2>>, <<4, 2>>, <<4, 3>>,
           <<3, 3>>, <<2, 3>>, <<1, 3>>, <<0, 3>>, <<0, 4>>, <<1, 4>>, <<2, 4>>, <<3, 4>>,
           <<4, 4>> >>
LateLengths == 21 .. 23
Facing(tour) == CHOOSE d \in Directions :
  Ahead(tour[Len(tour) - 1], d) = tour[Len(tour)]

LateInit ==
  \E n \in LateLengths :
    /\ controller \in Controllers
    /\ snake = Reverse(SubSeq(Tour, 1, n)) /\ direction = Facing(SubSeq(Tour, 1, n))
    /\ alive = TRUE /\ score = n - 3 /\ recent = <<Tour[n]>> /\ food \in SpawnFood(snake)
    /\ mode = "model"

Grew(tour, n, meal) ==
  [snake |-> Reverse(SubSeq(tour, 1, n)), direction |-> Facing(SubSeq(tour, 1, n)),
   food |-> meal]

After(tour, lengths) ==
  UNION {{Grew(tour, n, meal) : meal \in Cells \ ToSet(SubSeq(tour, 1, n))} : n \in lengths}

(* A way into the middle of a spiral. *)
Spiral == << <<0, 2>>, <<1, 2>>, <<2, 2>>, <<2, 3>>, <<1, 3>>, <<0, 3>>, <<0, 4>>, <<1, 4>>,
             <<2, 4>>, <<3, 4>>, <<4, 4>>, <<4, 3>>, <<4, 2>>, <<4, 1>>, <<4, 0>>, <<3, 0>>,
             <<2, 0>>, <<1, 0>>, <<0, 0>>, <<0, 1>>, <<1, 1>>, <<2, 1>>, <<3, 1>>, <<3, 2>>,
             <<3, 3>> >>

(* A way into a corner that a first move closes. *)
Corner == << <<0, 2>>, <<1, 2>>, <<2, 2>>, <<3, 2>>, <<4, 2>>, <<4, 3>>, <<3, 3>>, <<2, 3>>,
             <<1, 3>>, <<0, 3>>, <<0, 4>>, <<1, 4>>, <<2, 4>>, <<3, 4>> >>

(* Food at hand in a trap, that can be eaten safely when the tail is gone. *)
Lure == << <<0, 2>>, <<1, 2>>, <<2, 2>>, <<2, 3>>, <<1, 3>>, <<0, 3>>, <<0, 4>>, <<1, 4>>,
           <<2, 4>>, <<3, 4>>, <<3, 3>>, <<3, 2>>, <<3, 1>> >>

MCPositions ==
  After(Tour, {3, 7, 10, 15, 20, 24}) \cup After(Spiral, {11, 16, 19, 21, 23, 24})
    \cup After(Corner, {14}) \cup After(Lure, {13})

(* A game is played, or a position of one is judged.                       *)
PlayInit ==
  /\ Init \/ LateInit
  /\ at = "playing" /\ todo = <<>> /\ actions = <<>> /\ ranks = <<>>
  /\ queue = <<>> /\ visited = {} /\ nodes = 0
  /\ bounded = FALSE /\ trapping = FALSE /\ expanded = NothingExpanded
PlayNext == at = "playing" /\ Next /\ UNCHANGED planner

MCSpec == (PlayInit \/ PlannerInit) /\ [][PlayNext \/ PlannerNext]_<<vars, planner>>

(* Games are followed through their first meals, or to their end.          *)
FewMeals == at = "playing" => score <= 1 \/ score >= 18
=============================================================================
