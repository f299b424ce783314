------------------------------ MODULE SnakeWeb ------------------------------
(***************************************************************************)
(* examples/snake/web.py and static/js/app.js: browser pages that drive    *)
(* one game through a threaded server.                                     *)
(*                                                                         *)
(* A game is known here by which one it is, its number of steps and        *)
(* whether it is over; SnakeGame says what a step does to the board.  A    *)
(* request has a thread of its own from the moment the page sends it until *)
(* the page has its reply; threads run and replies arrive in any order.    *)
(***************************************************************************)
EXTENDS Integers, Sequences, FiniteSets, SequencesExt

CONSTANTS
  Pages, Handlers,  \* browser pages; server threads (a bound on requests at once)
  MaxSteps,         \* the demo's --max-steps
  Starts,           \* pages that have their first status from the start, and
                    \* a bound: clicks of the user of each page
  MaxFaults,        \* bound: requests that fail, and restarts of the server
  None

Games == [id : Nat, steps : Nat, alive : BOOLEAN]

ASSUME WebAssumption ==
  /\ MaxSteps \in Nat \ {0} /\ Starts \subseteq [opened : SUBSET Pages, clicks : [Pages -> Nat]]
  /\ MaxFaults \in Nat /\ None \notin Handlers \cup Games

VARIABLES
  game,      \* SnakeSession.game
  trace,     \* the trace file: moves in the order written
  lock,      \* SnakeSession._lock
  handler,   \* of each thread: whose request, which, how far, on what game
  faults,    \* so far
  fetch,     \* of each page: its first status is "due", "sent", "done" or "late"
  status,    \* of each page: the game it shows, if any
  move,      \* of each page: "none", "sent" or "shown"; busy is move # "none"
  record,    \* of each page: the move it is showing
  running,   \* of each page
  sleepers,  \* of each page: loops in the pause between two moves
  log,       \* of each page: logRows, newest first
  clicks     \* of each page: clicks left

server == <<game, trace, lock>>
page == <<fetch, status, move, record, running, sleepers, log, clicks>>
vars == <<server, handler, page, faults>>

Free == [page |-> None, kind |-> "none", at |-> "free", seen |-> None, reply |-> None]
NewGame(n) == [id |-> n, steps |-> 0, alive |-> TRUE]
Error == [id |-> -1, steps |-> 0, alive |-> FALSE]

Over(g) == ~g.alive \/ g.steps >= MaxSteps

Busy(p) == move[p] # "none"

(* Pages that are not open yet have been loaded and wait for their         *)
(* configuration.                                                          *)
Init ==
  /\ game = NewGame(0) /\ trace = <<>> /\ lock = None /\ faults = 0
  /\ handler = [h \in Handlers |-> Free]
  /\ move = [p \in Pages |-> "none"] /\ record = [p \in Pages |-> None]
  /\ running = [p \in Pages |-> FALSE] /\ sleepers = [p \in Pages |-> 0]
  /\ log = [p \in Pages |-> <<>>]
  /\ \E start \in Starts :
       /\ fetch = [p \in Pages |-> IF p \in start.opened THEN "done" ELSE "due"]
       /\ status = [p \in Pages |-> IF p \in start.opened THEN NewGame(0) ELSE None]
       /\ clicks = start.clicks

-----------------------------------------------------------------------------
(* The page.  JavaScript runs one callback at a time; between two awaits    *)
(* nothing else happens on a page.                                         *)

Idle == {h \in Handlers : handler[h] = Free}

(* Threads have no state but their request: any idle one will do.          *)
Send(p, kind) ==
  /\ Idle # {}
  /\ handler' = [handler EXCEPT ![CHOOSE h \in Idle : TRUE] =
                   [Free EXCEPT !.page = p, !.kind = kind, !.at = "arrived"]]

Replied(h, p, kind) ==
  handler[h].page = p /\ handler[h].kind = kind /\ handler[h].at = "done"

(* Faulty: oneMove() looks at the button and not at busy. *)
MayMoveAnyTime(p) == status[p] # None /\ ~Over(status[p])

MayMove(p) == ~Busy(p) /\ status[p] # None /\ ~Over(status[p])

(* The part of oneMove() up to its first await. *)
StartMove(p) ==
  /\ Send(p, "step")
  /\ move' = [move EXCEPT ![p] = "sent"]
  /\ UNCHANGED record

StayStill == UNCHANGED <<handler, move, record>>

Click(p) == clicks[p] > 0 /\ clicks' = [clicks EXCEPT ![p] = @ - 1]

(* The bootstrap asks for the status when it has the configuration; the     *)
(* buttons work all the while.                                             *)
FetchStatus(p) ==
  /\ fetch[p] = "due"
  /\ fetch' = [fetch EXCEPT ![p] = "sent"]
  /\ Send(p, "status")
  /\ UNCHANGED <<server, faults, status, move, record, running, sleepers, log, clicks>>

(* "1 move"; the button is disabled while a loop is running.  (After a     *)
(* reset that stopped a loop it stays so until drawn again; here it is     *)
(* enabled at once, which only allows more.)                               *)
ClickStep(p) ==
  /\ Click(p) /\ ~running[p] /\ MayMove(p) /\ StartMove(p)
  /\ UNCHANGED <<server, faults, fetch, status, running, sleepers, log>>

(* "Start" and "Pause". *)
ClickToggle(p) ==
  /\ Click(p) /\ status[p] # None /\ ~Over(status[p])
  /\ running' = [running EXCEPT ![p] = ~@]
  /\ IF ~running[p] /\ MayMove(p) THEN StartMove(p) ELSE StayStill
  /\ UNCHANGED <<server, faults, fetch, status, sleepers, log>>

(* reset() does nothing while a move is under way, and does not itself      *)
(* keep moves from starting.                                               *)
ClickReset(p) ==
  /\ Click(p) /\ ~Busy(p)
  /\ running' = [running EXCEPT ![p] = FALSE]
  /\ Send(p, "reset")
  /\ UNCHANGED <<server, faults, fetch, status, move, record, sleepers, log>>

(* The first status arrives, perhaps when a reset has brought a later one  *)
(* (only those are late); without it the page says "Server unavailable".   *)
StatusArrives(p) ==
  \E h \in Handlers :
    /\ Replied(h, p, "status")
    /\ handler' = [handler EXCEPT ![h] = Free]
    /\ IF handler[h].reply = Error
       THEN fetch' = [fetch EXCEPT ![p] = "done"] /\ UNCHANGED status
       ELSE /\ fetch' = [fetch EXCEPT ![p] = IF status[p] = None THEN "done" ELSE "late"]
            /\ status' = [status EXCEPT ![p] = handler[h].reply]
    /\ UNCHANGED <<server, faults, move, record, running, sleepers, log, clicks>>

(* A loop wakes up after its pause. *)
Wake(p) ==
  /\ sleepers[p] > 0
  /\ sleepers' = [sleepers EXCEPT ![p] = @ - 1]
  /\ IF running[p] /\ MayMove(p) THEN StartMove(p) ELSE StayStill
  /\ UNCHANGED <<server, faults, fetch, status, running, log, clicks>>

(* The record of a move arrives and is shown before its result is. *)
MoveArrives(p) ==
  \E h \in Handlers :
    /\ Replied(h, p, "step") /\ handler[h].reply # Error
    /\ handler' = [handler EXCEPT ![h] = Free]
    /\ move' = [move EXCEPT ![p] = "shown"]
    /\ record' = [record EXCEPT ![p] = handler[h].reply]
    /\ UNCHANGED <<server, faults, fetch, status, running, sleepers, log, clicks>>

(* What follows a move that is done, with its status.  *)
Continue(p, shown, keepRunning) ==
  /\ sleepers' = [sleepers EXCEPT ![p] = @ + (IF keepRunning /\ ~Over(shown) THEN 1 ELSE 0)]
  /\ running' = [running EXCEPT ![p] = keepRunning /\ ~Over(shown)]

(* Faulty: a failed move leaves the loop running. *)
MoveFailsQuietly(p) ==
  \E h \in Handlers :
    /\ Replied(h, p, "step") /\ handler[h].reply = Error
    /\ handler' = [handler EXCEPT ![h] = Free]
    /\ move' = [move EXCEPT ![p] = "none"]
    /\ UNCHANGED <<server, faults, fetch, status, running, sleepers, record, log, clicks>>

MoveFails(p) ==
  \E h \in Handlers :
    /\ Replied(h, p, "step") /\ handler[h].reply = Error
    /\ handler' = [handler EXCEPT ![h] = Free]
    /\ move' = [move EXCEPT ![p] = "none"]
    /\ Continue(p, status[p], FALSE)
    /\ UNCHANGED <<server, faults, fetch, status, record, log, clicks>>

(* The pauses of oneMove() are over: the page takes the new state. *)
FinishMove(p) ==
  /\ move[p] = "shown"
  /\ status' = [status EXCEPT ![p] = record[p]]
  /\ log' = [log EXCEPT ![p] = <<[id |-> record[p].id, step |-> record[p].steps]>> \o @]
  /\ move' = [move EXCEPT ![p] = "none"] /\ record' = [record EXCEPT ![p] = None]
  /\ Continue(p, record[p], running[p])
  /\ UNCHANGED <<server, handler, faults, fetch, clicks>>

(* The game after a reset arrives; a failed reset changes nothing. *)
ResetArrives(p) ==
  \E h \in Handlers :
    /\ Replied(h, p, "reset")
    /\ handler' = [handler EXCEPT ![h] = Free]
    /\ IF handler[h].reply = Error
       THEN UNCHANGED <<status, log>>
       ELSE /\ status' = [status EXCEPT ![p] = handler[h].reply]
            /\ log' = [log EXCEPT ![p] = <<>>]
    /\ UNCHANGED <<server, faults, fetch, move, record, running, sleepers, clicks>>

-----------------------------------------------------------------------------
(* The server *)

Reply(h, r) == handler' = [handler EXCEPT ![h].at = "done", ![h].reply = r]

Acquire(h, kind) ==
  handler[h].at = "arrived" /\ handler[h].kind = kind /\ lock = None

(* Faulty: the trace of the last game stays. *)
ResetKeepsTrace(h) ==
  /\ Acquire(h, "reset")
  /\ game' = NewGame(game.id + 1)
  /\ Reply(h, game')
  /\ UNCHANGED <<lock, trace, page, faults>>

(* reset(): all under the lock. *)
Reset(h) ==
  /\ Acquire(h, "reset")
  /\ game' = NewGame(game.id + 1) /\ trace' = <<>>
  /\ Reply(h, game')
  /\ UNCHANGED <<lock, page, faults>>

(* status() *)
ReadStatus(h) ==
  /\ Acquire(h, "status")
  /\ Reply(h, game)
  /\ UNCHANGED <<server, page, faults>>

(* step() of a game that is over raises: 409. *)
RefuseStep(h) ==
  /\ Acquire(h, "step") /\ Over(game)
  /\ Reply(h, Error)
  /\ UNCHANGED <<server, page, faults>>

(* Faulty: the lock is given back while the model is asked. *)
BeginStepUnlocked(h) ==
  /\ Acquire(h, "step") /\ ~Over(game)
  /\ handler' = [handler EXCEPT ![h].at = "choosing", ![h].seen = game]
  /\ UNCHANGED <<server, page, faults>>

(* The request is built from the game as it is now. *)
BeginStep(h) ==
  /\ Acquire(h, "step") /\ ~Over(game)
  /\ lock' = h
  /\ handler' = [handler EXCEPT ![h].at = "choosing", ![h].seen = game]
  /\ UNCHANGED <<game, trace, page, faults>>

(* The decision is there: game.step(). *)
MakeMove(h) ==
  /\ handler[h].at = "choosing"
  /\ \E lives \in BOOLEAN :
       game' = [game EXCEPT !.steps = @ + 1, !.alive = lives]
  /\ handler' = [handler EXCEPT ![h].at = "moved"]
  /\ UNCHANGED <<trace, lock, page, faults>>

(* Metrics are read, the record is written, the reply is made. *)
RecordMove(h) ==
  /\ handler[h].at = "moved"
  /\ trace' = Append(trace, [id |-> game.id, step |-> game.steps])
  /\ Reply(h, game) /\ lock' = None
  /\ UNCHANGED <<game, page, faults>>

Fault == faults < MaxFaults /\ faults' = faults + 1

(* Faulty: a step that fails never gives the lock back. *)
StepFailsHolding(h) ==
  /\ Fault /\ handler[h].at \in {"choosing", "moved"}
  /\ Reply(h, Error)
  /\ UNCHANGED <<server, page>>

(* The scorer, the metrics or the trace file raise; what was done stays.    *)
StepFails(h) ==
  /\ Fault /\ handler[h].at \in {"choosing", "moved"}
  /\ Reply(h, Error) /\ lock' = None
  /\ UNCHANGED <<game, trace, page>>

(* The connection cannot be made. *)
Unreachable(h) ==
  /\ Fault /\ handler[h].at = "arrived"
  /\ Reply(h, Error)
  /\ UNCHANGED <<server, page>>

(* The connection breaks before the reply is read. *)
ReplyLost(h) ==
  /\ Fault /\ handler[h].at = "done" /\ handler[h].reply # Error
  /\ Reply(h, Error)
  /\ UNCHANGED <<server, page>>

(* Faulty: a new server appends to the trace of the last one. *)
RestartAppending ==
  /\ Fault
  /\ game' = NewGame(game.id + 1) /\ lock' = None
  /\ handler' = [h \in Handlers |->
       IF handler[h].at \in {"free", "done"} THEN handler[h]
       ELSE [handler[h] EXCEPT !.at = "done", !.seen = None, !.reply = Error]]
  /\ UNCHANGED <<trace, page>>

(* Ctrl-C ends the server with its threads, wherever they are; it is       *)
(* started again while the pages stay open.                                *)
Restart ==
  /\ Fault
  /\ game' = NewGame(game.id + 1) /\ trace' = <<>> /\ lock' = None
  /\ handler' = [h \in Handlers |->
       IF handler[h].at \in {"free", "done"} THEN handler[h]
       ELSE [handler[h] EXCEPT !.at = "done", !.seen = None, !.reply = Error]]
  /\ UNCHANGED page

-----------------------------------------------------------------------------

User(p) == ClickStep(p) \/ ClickToggle(p) \/ ClickReset(p)
PageGoesOn(p) ==
  FetchStatus(p) \/ StatusArrives(p) \/ Wake(p) \/ MoveArrives(p) \/ MoveFails(p)
    \/ FinishMove(p) \/ ResetArrives(p)
ThreadGoesOn(h) ==
  ReadStatus(h) \/ Reset(h) \/ RefuseStep(h) \/ BeginStep(h) \/ MakeMove(h) \/ RecordMove(h)

Next ==
  \/ \E p \in Pages : User(p) \/ PageGoesOn(p)
  \/ \E h \in Handlers : ThreadGoesOn(h) \/ StepFails(h) \/ Unreachable(h) \/ ReplyLost(h)
  \/ Restart

(* Pages and threads go on; users need not click and nothing need fail.     *)
Spec ==
  /\ Init /\ [][Next]_vars
  /\ \A p \in Pages : WF_vars(PageGoesOn(p))
  /\ \A h \in Handlers : WF_vars(ThreadGoesOn(h))

-----------------------------------------------------------------------------
(* Properties *)

(* The move made is the one decided for this very game at this very step,  *)
(* whatever other pages ask meanwhile.                                     *)
DecisionFitsGame ==
  \A h \in Handlers : handler[h].at = "choosing" =>
    lock = h /\ handler[h].seen = game

(* The trace holds moves of the current game only, each once and in order, *)
(* though not those whose recording failed.                                *)
TraceOfThisGame ==
  /\ \A k \in DOMAIN trace : trace[k].id = game.id /\ trace[k].step <= game.steps
  /\ \A j, k \in DOMAIN trace : j < k => trace[j].step < trace[k].step

(* A page has at most one move under way, whatever is clicked and however  *)
(* many of its loops wake up; and busy says so.                            *)
OneMoveAtATime ==
  \A p \in Pages :
    Cardinality({h \in Handlers : handler[h].page = p /\ handler[h].kind = "step"})
      = IF move[p] = "sent" THEN 1 ELSE 0

(* A page that says it is running has a move or a pause under way: it never *)
(* shows "Pause" while nothing would ever happen.  (Unless its very first  *)
(* status comes so late that it replaces that of a reset: a loop that then *)
(* finds an old game which is over ends without saying so.)                *)
RunningGoesOn ==
  \A p \in Pages : running[p] => Busy(p) \/ sleepers[p] > 0 \/ fetch[p] = "late"

(* Every move a page starts ends, and gives the page back its buttons.     *)
MoveEnds == \A p \in Pages : Busy(p) ~> ~Busy(p)

(* examples/snake/README.md:161: the live UI keeps every move in the       *)
(* decision log.  When nothing is under way, every move of the server's    *)
(* game that was recorded is in the log of the page (stated for one page). *)
LogKeepsEveryMove ==
  (\A p \in Pages : ~Busy(p)) /\ Idle = Handlers =>
    \A p \in Pages : ToSet(trace) \subseteq ToSet(log[p])

-----------------------------------------------------------------------------
(* The inductive invariant behind the first four properties.               *)

Requests ==
  [page : Pages \cup {None}, kind : {"none", "status", "step", "reset"},
   at : {"free", "arrived", "choosing", "moved", "done"},
   seen : Games \cup {None}, reply : Games \cup {None, Error}]

ServerTypes ==
  /\ game \in Games /\ trace \in Seq([id : Nat, step : Nat])
  /\ lock \in Handlers \cup {None}
  /\ handler \in [Handlers -> Requests]

PageTypes ==
  /\ fetch \in [Pages -> {"due", "sent", "done", "late"}]
  /\ status \in [Pages -> Games \cup {None}]
  /\ move \in [Pages -> {"none", "sent", "shown"}]
  /\ record \in [Pages -> Games \cup {None}]
  /\ running \in [Pages -> BOOLEAN] /\ sleepers \in [Pages -> Nat]

(* A thread inside a step holds the lock, so that the game it saw stays;   *)
(* what it has moved and not yet recorded is newer than all of the trace.  *)
ServerOK ==
  /\ \A h \in Handlers : handler[h].at \in {"choosing", "moved"} =>
       lock = h /\ handler[h].kind = "step"
  /\ \A h \in Handlers : handler[h].at = "choosing" => handler[h].seen = game
  /\ \A h \in Handlers : handler[h].at = "moved" =>
       \A k \in DOMAIN trace : trace[k].step < game.steps
  /\ TraceOfThisGame

(* A reply is there when a request is done; that of a reset is a new game. *)
RepliesOK ==
  \A h \in Handlers : handler[h].at = "done" =>
    /\ handler[h].reply \in Games \cup {Error}
    /\ handler[h].kind = "reset" /\ handler[h].reply # Error =>
         handler[h].reply.steps = 0 /\ handler[h].reply.alive

(* A page has the requests out that its state says: one move while it      *)
(* waits for one, one status before its first has come.                    *)
RequestsOK ==
  \A h \in Handlers : \A p \in Pages : handler[h].page = p =>
    /\ handler[h].kind = "step" => move[p] = "sent"
    /\ handler[h].kind = "status" => fetch[p] = "sent"

AlonePerKind ==
  \A h, i \in Handlers :
    /\ handler[h].page = handler[i].page /\ handler[h].kind = handler[i].kind
    /\ handler[h].kind \in {"step", "status"}
    => h = i

MovesOK ==
  \A p \in Pages :
    /\ move[p] = "sent" =>
         \E h \in Handlers : handler[h].page = p /\ handler[h].kind = "step"
    /\ move[p] = "shown" => record[p] # None

(* A page that is running shows a game that goes on.                       *)
LoopOK ==
  /\ \A p \in Pages : running[p] =>
       status[p] # None /\ (Over(status[p]) => fetch[p] = "late")
  /\ RunningGoesOn

IInv ==
  /\ ServerTypes /\ PageTypes
  /\ ServerOK /\ RepliesOK /\ RequestsOK /\ AlonePerKind /\ MovesOK /\ LoopOK
=============================================================================
