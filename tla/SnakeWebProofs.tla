--------------------------- MODULE SnakeWebProofs ---------------------------
(***************************************************************************)
(* Proofs about SnakeWeb, for every set of pages and server threads, every *)
(* number of steps, clicks and failures.                                   *)
(*                                                                         *)
(* IInv is preserved by every step; each lemma below proves it for one     *)
(* action.  A step of a page leaves the server alone and the other way     *)
(* round, apart from the requests they hand each other, so each has to     *)
(* show half of the invariant (PageStep, ServerStep).                      *)
(*                                                                         *)
(* The last part is about ModelDownload, the launches that put the model   *)
(* in place which the server opens.                                        *)
(***************************************************************************)
EXTENDS SnakeWeb, ModelDownload, FiniteSetTheorems, SequenceTheorems, TLAPS

USE DEF server, page, vars

-----------------------------------------------------------------------------
(* An error is not a game, and neither is None.                            *)
LEMMA GameFacts ==
  /\ Error \notin Games /\ None \notin Games
  /\ \A n \in Nat : NewGame(n) \in Games /\ ~Over(NewGame(n))
  /\ MaxSteps \in Nat /\ None \notin Handlers
BY WebAssumption DEF Error, Games, NewGame, Over

(* A page that sends a request occupies a thread that was free.            *)
LEMMA SendFacts ==
  ASSUME ServerTypes, NEW p \in Pages, NEW kind \in {"status", "step", "reset"}, Send(p, kind)
  PROVE  /\ handler' \in [Handlers -> Requests]
         /\ \E h \in Handlers :
              /\ handler[h].kind = "none" /\ handler'[h].page = p
              /\ handler'[h].kind = kind /\ handler'[h].at = "arrived"
              /\ \A i \in Handlers : i # h => handler'[i] = handler[i]
<1>1. PICK h \in Idle : h = CHOOSE i \in Idle : TRUE
  BY DEF Send
<1> DEFINE new == [Free EXCEPT !.page = p, !.kind = kind, !.at = "arrived"]
<1>2. h \in Handlers /\ handler[h] = Free /\ handler' = [handler EXCEPT ![h] = new]
  BY <1>1 DEF Send, Idle
<1>3. new \in Requests /\ new.page = p /\ new.kind = kind /\ new.at = "arrived"
  BY DEF Requests, Free
<1>4. handler[h].kind = "none"
  BY <1>2 DEF Free
<1> HIDE DEF new
<1> QED BY <1>2, <1>3, <1>4 DEF ServerTypes

(* A thread whose reply the page has read is free again.                   *)
LEMMA TakeFacts ==
  ASSUME ServerTypes, NEW h \in Handlers, handler' = [handler EXCEPT ![h] = Free]
  PROVE  /\ handler' \in [Handlers -> Requests]
         /\ handler'[h].kind = "none" /\ handler'[h].at = "free"
         /\ \A i \in Handlers : i # h => handler'[i] = handler[i]
<1>1. Free \in Requests /\ Free.kind = "none" /\ Free.at = "free"
  BY DEF Free, Requests
<1> QED BY <1>1 DEF ServerTypes

(* A thread goes on inside a step.                                         *)
LEMMA InsideFacts ==
  ASSUME ServerTypes, NEW h \in Handlers, NEW next \in {"choosing", "moved"},
         NEW g \in Games \cup {None},
         handler' = [handler EXCEPT ![h].at = next, ![h].seen = g]
  PROVE  /\ handler' \in [Handlers -> Requests]
         /\ handler'[h].page = handler[h].page /\ handler'[h].kind = handler[h].kind
         /\ handler'[h].at = next /\ handler'[h].seen = g
         /\ \A i \in Handlers : i # h => handler'[i] = handler[i]
<1> DEFINE new == [handler[h] EXCEPT !.at = next, !.seen = g]
<1>1. handler[h] \in Requests
  BY DEF ServerTypes
<1>2. /\ new \in Requests /\ new.page = handler[h].page /\ new.kind = handler[h].kind
      /\ new.at = next /\ new.seen = g
  BY <1>1 DEF Requests
<1>3. handler' = [handler EXCEPT ![h] = new]
  BY DEF ServerTypes
<1> HIDE DEF new
<1> QED BY <1>2, <1>3 DEF ServerTypes

(* A thread has its reply.                                                 *)
LEMMA ReplyFacts ==
  ASSUME ServerTypes, NEW h \in Handlers, NEW r \in Games \cup {Error}, Reply(h, r)
  PROVE  /\ handler' \in [Handlers -> Requests]
         /\ handler'[h].page = handler[h].page /\ handler'[h].kind = handler[h].kind
         /\ handler'[h].at = "done" /\ handler'[h].reply = r
         /\ \A i \in Handlers : i # h => handler'[i] = handler[i]
<1> DEFINE new == [handler[h] EXCEPT !.at = "done", !.reply = r]
<1>1. handler[h] \in Requests
  BY DEF ServerTypes
<1>2. /\ new \in Requests /\ new.page = handler[h].page /\ new.kind = handler[h].kind
      /\ new.at = "done" /\ new.reply = r
  BY <1>1 DEF Requests
<1>3. handler' = [handler EXCEPT ![h] = new]
  BY DEF ServerTypes, Reply
<1> HIDE DEF new
<1> QED BY <1>2, <1>3 DEF ServerTypes

(* Entries of the trace are numbered.                                      *)
LEMMA TraceFacts ==
  ASSUME ServerTypes
  PROVE  /\ Len(trace) \in Nat /\ DOMAIN trace = 1..Len(trace)
         /\ \A k \in DOMAIN trace : trace[k].step \in Nat
<1>1. trace \in Seq([id : Nat, step : Nat])
  BY DEF ServerTypes
<1>2. Len(trace) \in Nat /\ DOMAIN trace = 1..Len(trace)
  BY <1>1
<1>3. ASSUME NEW S, trace \in Seq(S), NEW k \in 1..Len(trace) PROVE trace[k] \in S
  BY <1>3
<1>4. \A k \in DOMAIN trace : trace[k] \in [id : Nat, step : Nat]
  BY <1>1, <1>2, <1>3
<1> QED BY <1>2, <1>4

(* A thread that is done with a request has a reply to it.                 *)
LEMMA DoneFacts ==
  ASSUME IInv, NEW h \in Handlers, handler[h].at = "done"
  PROVE  /\ handler[h].reply \in Games \cup {Error}
         /\ handler[h].kind = "reset" /\ handler[h].reply # Error => ~Over(handler[h].reply)
<1>1. handler[h].reply \in Games \cup {Error}
  BY DEF IInv, RepliesOK
<1>2. handler[h].kind = "reset" /\ handler[h].reply # Error =>
        handler[h].reply.steps = 0 /\ handler[h].reply.alive
  BY DEF IInv, RepliesOK
<1> QED BY <1>1, <1>2, WebAssumption DEF Over

(* A step of a page, seen from the server.                                 *)
LEMMA PageStep ==
  ASSUME IInv, UNCHANGED server, handler' \in [Handlers -> Requests],
         \A h \in Handlers :
           handler'[h] = handler[h] \/ handler'[h].at \in {"free", "arrived"}
  PROVE  ServerTypes' /\ ServerOK' /\ RepliesOK'
<1>1. ServerTypes'
  BY DEF IInv, ServerTypes
<1>2. ServerOK'
  BY DEF IInv, ServerOK, TraceOfThisGame
<1>3. RepliesOK'
  BY DEF IInv, RepliesOK
<1> QED BY <1>1, <1>2, <1>3

(* A step of the server, seen from the pages.                              *)
LEMMA ServerStep ==
  ASSUME IInv, UNCHANGED page,
         \A h \in Handlers : handler'[h].page = handler[h].page /\ handler'[h].kind = handler[h].kind
  PROVE  PageTypes' /\ RequestsOK' /\ AlonePerKind' /\ MovesOK' /\ LoopOK'
<1>1. PageTypes'
  BY DEF IInv, PageTypes
<1>2. RequestsOK'
  BY DEF IInv, RequestsOK
<1>3. AlonePerKind'
  BY DEF IInv, AlonePerKind
<1>4. MovesOK'
  BY DEF IInv, MovesOK
<1>5. LoopOK'
  BY DEF IInv, LoopOK, RunningGoesOn, Busy, Over
<1> QED BY <1>1, <1>2, <1>3, <1>4, <1>5

-----------------------------------------------------------------------------
(* Pages *)

(* A page without a move under way starts one; what becomes of its loop    *)
(* does not matter, since now there is work under way.                     *)
LEMMA StartKeeps ==
  ASSUME IInv, NEW p \in Pages, StartMove(p), MayMove(p), UNCHANGED <<server, fetch, status>>,
         running' \in [Pages -> BOOLEAN], sleepers' \in [Pages -> Nat],
         \A q \in Pages : q # p => running'[q] = running[q] /\ sleepers'[q] = sleepers[q]
  PROVE  IInv'
<1>1. /\ handler' \in [Handlers -> Requests]
      /\ \E h \in Handlers :
           /\ handler[h].kind = "none" /\ handler'[h].page = p
           /\ handler'[h].kind = "step" /\ handler'[h].at = "arrived"
           /\ \A i \in Handlers : i # h => handler'[i] = handler[i]
  BY SendFacts DEF IInv, StartMove
<1>2. PICK h \in Handlers :
        /\ handler[h].kind = "none" /\ handler'[h].page = p
        /\ handler'[h].kind = "step" /\ handler'[h].at = "arrived"
        /\ \A i \in Handlers : i # h => handler'[i] = handler[i]
  BY <1>1
<1>3. /\ move' \in [Pages -> {"none", "sent", "shown"}] /\ move'[p] = "sent" /\ move[p] = "none"
      /\ \A q \in Pages : q # p => move'[q] = move[q]
      /\ UNCHANGED record /\ status[p] # None /\ ~Over(status[p])
  BY DEF IInv, PageTypes, StartMove, MayMove, Busy
<1>4. PageTypes'
  BY <1>3 DEF IInv, PageTypes
<1>5. ServerTypes' /\ ServerOK' /\ RepliesOK'
  BY <1>1, <1>2, PageStep
<1>6. RequestsOK'
  BY <1>2, <1>3 DEF IInv, RequestsOK
<1>7. AlonePerKind'
  BY <1>2, <1>3 DEF IInv, RequestsOK, AlonePerKind
<1>8. MovesOK'
  BY <1>2, <1>3 DEF IInv, MovesOK
<1>9. LoopOK'
  BY <1>3 DEF IInv, LoopOK, RunningGoesOn, Busy, Over
<1> QED BY <1>4, <1>5, <1>6, <1>7, <1>8, <1>9 DEF IInv

(* A loop is switched or wakes up without a move.                          *)
LEMMA StayKeeps ==
  ASSUME IInv, StayStill, UNCHANGED <<server, fetch, status>>,
         running' \in [Pages -> BOOLEAN], sleepers' \in [Pages -> Nat], LoopOK'
  PROVE  IInv'
<1>1. PageTypes'
  BY DEF IInv, PageTypes, StayStill
<1>2. ServerTypes' /\ ServerOK' /\ RepliesOK'
  BY PageStep DEF IInv, ServerTypes, StayStill
<1>3. RequestsOK' /\ AlonePerKind' /\ MovesOK'
  BY DEF IInv, RequestsOK, AlonePerKind, MovesOK, StayStill
<1> QED BY <1>1, <1>2, <1>3 DEF IInv

(* The first status is asked for.                                          *)
LEMMA FetchStatusKeeps ==
  ASSUME IInv, NEW p \in Pages, FetchStatus(p)
  PROVE  IInv'
<1>1. /\ handler' \in [Handlers -> Requests]
      /\ \E h \in Handlers :
           /\ handler[h].kind = "none" /\ handler'[h].page = p
           /\ handler'[h].kind = "status" /\ handler'[h].at = "arrived"
           /\ \A i \in Handlers : i # h => handler'[i] = handler[i]
  BY SendFacts DEF IInv, FetchStatus
<1>2. PICK h \in Handlers :
        /\ handler[h].kind = "none" /\ handler'[h].page = p
        /\ handler'[h].kind = "status" /\ handler'[h].at = "arrived"
        /\ \A i \in Handlers : i # h => handler'[i] = handler[i]
  BY <1>1
<1>3. /\ UNCHANGED <<server, status, move, record, running, sleepers>>
      /\ fetch[p] = "due" /\ fetch' = [fetch EXCEPT ![p] = "sent"]
  BY DEF FetchStatus
<1>4. /\ fetch' \in [Pages -> {"due", "sent", "done", "late"}] /\ fetch'[p] = "sent"
      /\ \A q \in Pages : q # p => fetch'[q] = fetch[q]
  BY <1>3 DEF IInv, PageTypes
<1>5. PageTypes'
  BY <1>3, <1>4 DEF IInv, PageTypes
<1>6. ServerTypes' /\ ServerOK' /\ RepliesOK'
  BY <1>1, <1>2, <1>3, PageStep
<1>7. RequestsOK' /\ AlonePerKind'
  BY <1>2, <1>3, <1>4 DEF IInv, RequestsOK, AlonePerKind
<1>8. MovesOK'
  BY <1>2, <1>3 DEF IInv, MovesOK
<1>9. LoopOK'
  BY <1>3, <1>4 DEF IInv, LoopOK, RunningGoesOn, Busy, Over
<1> QED BY <1>5, <1>6, <1>7, <1>8, <1>9 DEF IInv

(* A move is started by hand.                                              *)
LEMMA ClickStepKeeps ==
  ASSUME IInv, NEW p \in Pages, ClickStep(p)
  PROVE  IInv'
<1>1. running' \in [Pages -> BOOLEAN] /\ sleepers' \in [Pages -> Nat]
  BY DEF IInv, PageTypes, ClickStep
<1> QED BY <1>1, StartKeeps DEF ClickStep

(* The loop is started, with a move if none is under way, or paused.       *)
LEMMA ClickToggleKeeps ==
  ASSUME IInv, NEW p \in Pages, ClickToggle(p)
  PROVE  IInv'
<1>1. /\ UNCHANGED <<server, fetch, status, sleepers>> /\ status[p] # None /\ ~Over(status[p])
      /\ IF ~running[p] /\ MayMove(p) THEN StartMove(p) ELSE StayStill
  BY DEF ClickToggle
<1>2. /\ running' \in [Pages -> BOOLEAN] /\ sleepers' \in [Pages -> Nat]
      /\ running'[p] = ~running[p] /\ \A q \in Pages : q # p => running'[q] = running[q]
  BY <1>1 DEF IInv, PageTypes, ClickToggle
<1>3. CASE ~running[p] /\ MayMove(p)
  BY <1>1, <1>2, <1>3, StartKeeps
<1>4. CASE ~(~running[p] /\ MayMove(p))
  <2>1. running'[p] => Busy(p)
    BY <1>1, <1>2, <1>4 DEF MayMove
  <2>2. LoopOK'
    BY <1>1, <1>2, <1>4, <2>1 DEF IInv, LoopOK, RunningGoesOn, Busy, Over, StayStill
  <2> QED BY <1>1, <1>2, <1>4, <2>2, StayKeeps
<1> QED BY <1>3, <1>4

(* A reset is asked for.                                                   *)
LEMMA ClickResetKeeps ==
  ASSUME IInv, NEW p \in Pages, ClickReset(p)
  PROVE  IInv'
<1>1. /\ handler' \in [Handlers -> Requests]
      /\ \E h \in Handlers :
           /\ handler[h].kind = "none" /\ handler'[h].page = p
           /\ handler'[h].kind = "reset" /\ handler'[h].at = "arrived"
           /\ \A i \in Handlers : i # h => handler'[i] = handler[i]
  BY SendFacts DEF IInv, ClickReset
<1>2. PICK h \in Handlers :
        /\ handler[h].kind = "none" /\ handler'[h].page = p
        /\ handler'[h].kind = "reset" /\ handler'[h].at = "arrived"
        /\ \A i \in Handlers : i # h => handler'[i] = handler[i]
  BY <1>1
<1>3. /\ UNCHANGED <<server, fetch, status, move, record, sleepers>>
      /\ running' = [running EXCEPT ![p] = FALSE]
  BY DEF ClickReset
<1>4. /\ running' \in [Pages -> BOOLEAN] /\ ~running'[p]
      /\ \A q \in Pages : q # p => running'[q] = running[q]
  BY <1>3 DEF IInv, PageTypes
<1>5. PageTypes'
  BY <1>3, <1>4 DEF IInv, PageTypes
<1>6. ServerTypes' /\ ServerOK' /\ RepliesOK'
  BY <1>1, <1>2, <1>3, PageStep
<1>7. RequestsOK' /\ AlonePerKind'
  BY <1>2, <1>3 DEF IInv, RequestsOK, AlonePerKind
<1>8. MovesOK'
  BY <1>2, <1>3 DEF IInv, MovesOK
<1>9. LoopOK'
  BY <1>3, <1>4 DEF IInv, LoopOK, RunningGoesOn, Busy, Over
<1> QED BY <1>5, <1>6, <1>7, <1>8, <1>9 DEF IInv

(* A loop wakes up; one that finds a move under way goes to sleep for good. *)
LEMMA WakeKeeps ==
  ASSUME IInv, NEW p \in Pages, Wake(p)
  PROVE  IInv'
<1>1. /\ UNCHANGED <<server, fetch, status, running>>
      /\ IF running[p] /\ MayMove(p) THEN StartMove(p) ELSE StayStill
  BY DEF Wake
<1>2. /\ running' \in [Pages -> BOOLEAN] /\ sleepers' \in [Pages -> Nat]
      /\ \A q \in Pages : q # p => sleepers'[q] = sleepers[q]
  BY <1>1 DEF IInv, PageTypes, Wake
<1>3. CASE running[p] /\ MayMove(p)
  BY <1>1, <1>2, <1>3, StartKeeps
<1>4. CASE ~(running[p] /\ MayMove(p))
  <2>1. running[p] => Busy(p) \/ fetch[p] = "late"
    BY <1>4 DEF IInv, LoopOK, MayMove
  <2>2. LoopOK'
    BY <1>1, <1>2, <1>4, <2>1 DEF IInv, LoopOK, RunningGoesOn, Busy, Over, StayStill
  <2> QED BY <1>1, <1>2, <1>4, <2>2, StayKeeps
<1> QED BY <1>3, <1>4

(* A reply to a page is read: nothing of it is out any more, but if it is  *)
(* of a move, that is no longer waited for.                                *)
LEMMA ReadKeeps ==
  ASSUME IInv, NEW p \in Pages, NEW h \in Handlers, handler[h].page = p,
         handler' = [handler EXCEPT ![h] = Free],
         UNCHANGED server, PageTypes', LoopOK',
         \A q \in Pages : q # p => UNCHANGED <<fetch[q], move[q], record[q]>>,
         handler[h].kind = "status" \/ UNCHANGED fetch[p],
         IF handler[h].kind = "step" THEN move'[p] # "sent" ELSE UNCHANGED <<move[p], record[p]>>,
         move'[p] = "shown" => record'[p] # None
  PROVE  IInv'
<1>1. /\ handler' \in [Handlers -> Requests]
      /\ handler'[h].kind = "none" /\ handler'[h].at = "free"
      /\ \A i \in Handlers : i # h => handler'[i] = handler[i]
  BY TakeFacts DEF IInv
<1>2. ServerTypes' /\ ServerOK' /\ RepliesOK'
  BY <1>1, PageStep
<1>3. RequestsOK'
  BY <1>1 DEF IInv, RequestsOK, AlonePerKind
<1>4. AlonePerKind'
  BY <1>1 DEF IInv, AlonePerKind
<1>5. MovesOK'
  <2>1. ASSUME NEW q \in Pages, move'[q] = "sent"
        PROVE  \E i \in Handlers : handler'[i].page = q /\ handler'[i].kind = "step"
    <3>1. move[q] = "sent" /\ (q = p => handler[h].kind # "step")
      BY <2>1
    <3>2. PICK i \in Handlers : handler[i].page = q /\ handler[i].kind = "step"
      BY <3>1 DEF IInv, MovesOK
    <3>3. i # h
      BY <3>1, <3>2
    <3> QED BY <1>1, <3>2, <3>3
  <2>2. ASSUME NEW q \in Pages, move'[q] = "shown" PROVE record'[q] # None
    BY <2>2 DEF IInv, MovesOK
  <2> QED BY <2>1, <2>2 DEF MovesOK
<1> QED BY <1>2, <1>3, <1>4, <1>5 DEF IInv

(* The first status arrives; a page without one was not running.           *)
LEMMA StatusArrivesKeeps ==
  ASSUME IInv, NEW p \in Pages, StatusArrives(p)
  PROVE  IInv'
<1>1. PICK h \in Handlers : StatusArrives(p)!(h)
  BY DEF StatusArrives
<1>2. /\ handler[h].page = p /\ handler[h].kind = "status" /\ handler[h].at = "done"
      /\ handler' = [handler EXCEPT ![h] = Free]
      /\ UNCHANGED <<server, move, record, running, sleepers>>
  BY <1>1 DEF Replied
<1>3. handler[h].reply \in Games \cup {Error} /\ fetch[p] = "sent" /\ None \notin Games
  BY <1>2, DoneFacts, GameFacts DEF IInv, RequestsOK
<1>4. CASE handler[h].reply = Error
  <2>1. fetch' = [fetch EXCEPT ![p] = "done"] /\ UNCHANGED status
    BY <1>1, <1>4
  <2>2. PageTypes'
    BY <1>2, <2>1 DEF IInv, PageTypes
  <2>3. \A q \in Pages : q # p => fetch'[q] = fetch[q]
    BY <2>1 DEF IInv, PageTypes
  <2>4. LoopOK'
    BY <1>2, <1>3, <2>1, <2>3 DEF IInv, LoopOK, RunningGoesOn, Busy, Over
  <2> QED BY <1>2, <2>2, <2>3, <2>4, ReadKeeps DEF IInv, MovesOK
<1>5. CASE handler[h].reply # Error
  <2>1. /\ fetch' = [fetch EXCEPT ![p] = IF status[p] = None THEN "done" ELSE "late"]
        /\ status' = [status EXCEPT ![p] = handler[h].reply]
    BY <1>1, <1>5
  <2>2. PageTypes'
    BY <1>2, <1>3, <1>5, <2>1 DEF IInv, PageTypes
  <2>3. /\ \A q \in Pages : q # p => fetch'[q] = fetch[q] /\ status'[q] = status[q]
        /\ status'[p] = handler[h].reply
        /\ fetch'[p] = IF status[p] = None THEN "done" ELSE "late"
    BY <2>1 DEF IInv, PageTypes
  <2>4. LoopOK'
    BY <1>2, <1>3, <1>5, <2>3 DEF IInv, LoopOK, RunningGoesOn, Busy, Over
  <2> QED BY <1>2, <2>2, <2>3, <2>4, ReadKeeps DEF IInv, MovesOK
<1> QED BY <1>4, <1>5

(* The move that arrives is the only one.                                  *)
LEMMA MoveArrivesKeeps ==
  ASSUME IInv, NEW p \in Pages, MoveArrives(p)
  PROVE  IInv'
<1>1. PICK h \in Handlers : MoveArrives(p)!(h)
  BY DEF MoveArrives
<1>2. /\ handler[h].page = p /\ handler[h].kind = "step" /\ handler[h].at = "done"
      /\ handler[h].reply # Error /\ handler' = [handler EXCEPT ![h] = Free]
      /\ move' = [move EXCEPT ![p] = "shown"]
      /\ record' = [record EXCEPT ![p] = handler[h].reply]
      /\ UNCHANGED <<server, fetch, status, running, sleepers>>
  BY <1>1 DEF Replied
<1>3. handler[h].reply \in Games /\ handler[h].reply # None
  BY <1>2, DoneFacts, GameFacts
<1>4. PageTypes'
  BY <1>2, <1>3 DEF IInv, PageTypes
<1>5. /\ \A q \in Pages : q # p => UNCHANGED <<move[q], record[q]>>
      /\ move'[p] = "shown" /\ record'[p] # None
  BY <1>2, <1>3 DEF IInv, PageTypes
<1>6. LoopOK'
  BY <1>2, <1>5 DEF IInv, LoopOK, RunningGoesOn, Busy, Over
<1> QED BY <1>2, <1>4, <1>5, <1>6, ReadKeeps

(* A failed move stops the loop.                                           *)
LEMMA MoveFailsKeeps ==
  ASSUME IInv, NEW p \in Pages, MoveFails(p)
  PROVE  IInv'
<1>1. PICK h \in Handlers : MoveFails(p)!(h)
  BY DEF MoveFails
<1>2. /\ handler[h].page = p /\ handler[h].kind = "step"
      /\ handler' = [handler EXCEPT ![h] = Free] /\ move' = [move EXCEPT ![p] = "none"]
      /\ running' = [running EXCEPT ![p] = FALSE] /\ sleepers' = [sleepers EXCEPT ![p] = @ + 0]
      /\ UNCHANGED <<server, fetch, status, record>>
  BY <1>1 DEF Replied, Continue
<1>3. PageTypes'
  BY <1>2 DEF IInv, PageTypes
<1>4. /\ \A q \in Pages : q # p => UNCHANGED <<move[q], running[q], sleepers[q]>>
      /\ move'[p] = "none" /\ ~running'[p]
  BY <1>2 DEF IInv, PageTypes
<1>5. LoopOK'
  BY <1>2, <1>4 DEF IInv, LoopOK, RunningGoesOn, Busy, Over
<1> QED BY <1>2, <1>3, <1>4, <1>5, ReadKeeps

(* A new game is not over, so the loop may run on.                         *)
LEMMA ResetArrivesKeeps ==
  ASSUME IInv, NEW p \in Pages, ResetArrives(p)
  PROVE  IInv'
<1>1. PICK h \in Handlers : ResetArrives(p)!(h)
  BY DEF ResetArrives
<1>2. /\ handler[h].page = p /\ handler[h].kind = "reset" /\ handler[h].at = "done"
      /\ handler' = [handler EXCEPT ![h] = Free]
      /\ UNCHANGED <<server, fetch, move, record, running, sleepers>>
  BY <1>1 DEF Replied
<1>3. handler[h].reply \in Games \cup {Error} /\ None \notin Games
  BY <1>2, DoneFacts, GameFacts
<1>4. CASE handler[h].reply = Error
  <2>1. UNCHANGED status
    BY <1>1, <1>4
  <2>2. PageTypes' /\ LoopOK'
    BY <1>2, <2>1 DEF IInv, PageTypes, LoopOK, RunningGoesOn, Busy, Over
  <2> QED BY <1>2, <2>2, ReadKeeps DEF IInv, MovesOK
<1>5. CASE handler[h].reply # Error
  <2>1. status' = [status EXCEPT ![p] = handler[h].reply]
    BY <1>1, <1>5
  <2>2. PageTypes'
    BY <1>2, <1>3, <1>5, <2>1 DEF IInv, PageTypes
  <2>3. /\ \A q \in Pages : q # p => status'[q] = status[q]
        /\ status'[p] # None /\ ~Over(status'[p])
    BY <1>2, <1>3, <1>5, <2>1, DoneFacts DEF IInv, PageTypes
  <2>4. LoopOK'
    BY <1>2, <2>3 DEF IInv, LoopOK, RunningGoesOn, Busy, Over
  <2> QED BY <1>2, <2>2, <2>4, ReadKeeps DEF IInv, MovesOK
<1> QED BY <1>4, <1>5

(* The move is over; the loop goes on if the game does.                    *)
LEMMA FinishMoveKeeps ==
  ASSUME IInv, NEW p \in Pages, FinishMove(p)
  PROVE  IInv'
<1> DEFINE on == running[p] /\ ~Over(record[p])
<1>1. /\ move[p] = "shown" /\ move' = [move EXCEPT ![p] = "none"]
      /\ status' = [status EXCEPT ![p] = record[p]] /\ record' = [record EXCEPT ![p] = None]
      /\ sleepers' = [sleepers EXCEPT ![p] = @ + (IF on THEN 1 ELSE 0)]
      /\ running' = [running EXCEPT ![p] = on]
      /\ UNCHANGED <<server, handler, fetch>>
  BY DEF FinishMove, Continue
<1>2. record[p] \in Games \cup {None} /\ record[p] # None /\ on \in BOOLEAN
  BY <1>1 DEF IInv, PageTypes, MovesOK
<1>3. /\ \A q \in Pages : q # p =>
           UNCHANGED <<move[q], status[q], record[q], sleepers[q], running[q]>>
      /\ move'[p] = "none" /\ status'[p] = record[p] /\ running'[p] = on
      /\ on => sleepers'[p] > 0
  <2> HIDE DEF on
  <2> QED BY <1>1, <1>2 DEF IInv, PageTypes
<1>4. PageTypes'
  <2> HIDE DEF on
  <2> QED BY <1>1, <1>2 DEF IInv, PageTypes
<1>5. ServerTypes' /\ ServerOK' /\ RepliesOK'
  BY <1>1, PageStep DEF IInv, ServerTypes
<1>6. RequestsOK' /\ AlonePerKind'
  BY <1>1, <1>3 DEF IInv, RequestsOK, AlonePerKind
<1>7. MovesOK'
  BY <1>1, <1>3 DEF IInv, MovesOK
<1>8. LoopOK'
  <2> HIDE DEF on
  <2>1. ASSUME NEW q \in Pages, running'[q]
        PROVE  /\ status'[q] # None /\ (Over(status'[q]) => fetch'[q] = "late")
               /\ move'[q] # "none" \/ sleepers'[q] > 0 \/ fetch'[q] = "late"
    <3>1. CASE q = p
      <4>1. on /\ sleepers'[p] > 0 /\ status'[p] = record[p]
        BY <1>3, <2>1, <3>1
      <4>2. ~Over(record[p])
        BY <4>1 DEF on
      <4> QED BY <1>2, <3>1, <4>1, <4>2
    <3>2. CASE q # p
      <4>1. running[q] /\ fetch'[q] = fetch[q]
            /\ UNCHANGED <<move[q], status[q], sleepers[q]>>
        BY <1>1, <1>3, <2>1, <3>2
      <4> QED BY <4>1 DEF IInv, LoopOK, RunningGoesOn, Busy
    <3> QED BY <3>1, <3>2
  <2> QED BY <2>1 DEF LoopOK, RunningGoesOn, Busy
<1> QED BY <1>4, <1>5, <1>6, <1>7, <1>8 DEF IInv

-----------------------------------------------------------------------------
(* The server *)

(* A reply that leaves the game and its trace alone.                       *)
LEMMA AnswerKeeps ==
  ASSUME IInv, NEW h \in Handlers, NEW r \in Games \cup {Error}, Reply(h, r),
         UNCHANGED <<game, trace, page>>, handler[h].kind = "reset" => r = Error,
         lock' # lock => handler[h].at \in {"choosing", "moved"} /\ lock' = None
  PROVE  IInv'
<1>1. /\ handler' \in [Handlers -> Requests]
      /\ handler'[h].page = handler[h].page /\ handler'[h].kind = handler[h].kind
      /\ handler'[h].at = "done" /\ handler'[h].reply = r
      /\ \A i \in Handlers : i # h => handler'[i] = handler[i]
  BY ReplyFacts DEF IInv
<1>2. ServerTypes'
  BY <1>1 DEF IInv, ServerTypes
<1>3. ServerOK'
  BY <1>1 DEF IInv, ServerOK, TraceOfThisGame
<1>4. RepliesOK'
  BY <1>1 DEF IInv, RepliesOK
<1>5. PageTypes' /\ RequestsOK' /\ AlonePerKind' /\ MovesOK' /\ LoopOK'
  BY <1>1, ServerStep
<1> QED BY <1>2, <1>3, <1>4, <1>5 DEF IInv

(* A status is read under the lock.                                        *)
LEMMA ReadStatusKeeps == ASSUME IInv, NEW h \in Handlers, ReadStatus(h) PROVE IInv'
<1>1. game \in Games \cup {Error} /\ Reply(h, game) /\ handler[h].kind = "status"
  BY DEF IInv, ServerTypes, ReadStatus, Acquire
<1>2. UNCHANGED <<game, trace, page>> /\ lock' = lock
  BY DEF ReadStatus
<1> QED BY <1>1, <1>2, AnswerKeeps

(* A step of a game that is over is refused.                               *)
LEMMA RefuseStepKeeps == ASSUME IInv, NEW h \in Handlers, RefuseStep(h) PROVE IInv'
<1>1. Reply(h, Error) /\ UNCHANGED <<game, trace, page>> /\ lock' = lock
  BY DEF RefuseStep
<1> QED BY <1>1, AnswerKeeps

(* A step that fails gives the lock back.                                  *)
LEMMA StepFailsKeeps == ASSUME IInv, NEW h \in Handlers, StepFails(h) PROVE IInv'
<1>1. /\ Reply(h, Error) /\ UNCHANGED <<game, trace, page>>
      /\ handler[h].at \in {"choosing", "moved"} /\ lock' = None
  BY DEF StepFails
<1> QED BY <1>1, AnswerKeeps

(* A connection that cannot be made.                                       *)
LEMMA UnreachableKeeps == ASSUME IInv, NEW h \in Handlers, Unreachable(h) PROVE IInv'
<1>1. Reply(h, Error) /\ UNCHANGED <<game, trace, page>> /\ lock' = lock
  BY DEF Unreachable
<1> QED BY <1>1, AnswerKeeps

(* A reply that is lost.                                                   *)
LEMMA ReplyLostKeeps == ASSUME IInv, NEW h \in Handlers, ReplyLost(h) PROVE IInv'
<1>1. Reply(h, Error) /\ UNCHANGED <<game, trace, page>> /\ lock' = lock
  BY DEF ReplyLost
<1> QED BY <1>1, AnswerKeeps

(* A reset finds nobody inside a step.                                     *)
LEMMA ResetKeeps ==
  ASSUME IInv, NEW h \in Handlers, Reset(h)
  PROVE  IInv'
<1> DEFINE new == NewGame(game.id + 1)
<1>1. new \in Games /\ new.steps = 0 /\ new.alive
  <2>1. game.id + 1 \in Nat
    BY DEF IInv, ServerTypes, Games
  <2> QED BY <2>1, GameFacts DEF NewGame
<1>2. /\ lock = None /\ game' = new /\ trace' = <<>> /\ Reply(h, new) /\ UNCHANGED <<lock, page>>
  BY DEF Reset, Acquire
<1> HIDE DEF new
<1>3. /\ handler' \in [Handlers -> Requests]
      /\ handler'[h].page = handler[h].page /\ handler'[h].kind = handler[h].kind
      /\ handler'[h].at = "done" /\ handler'[h].reply = new
      /\ \A i \in Handlers : i # h => handler'[i] = handler[i]
  BY <1>1, <1>2, ReplyFacts DEF IInv
<1>4. ServerTypes'
  BY <1>1, <1>2, <1>3 DEF IInv, ServerTypes
<1>5. ServerOK'
  <2>1. \A i \in Handlers : handler'[i].at \notin {"choosing", "moved"}
    BY <1>2, <1>3, GameFacts DEF IInv, ServerOK
  <2> QED BY <1>2, <2>1 DEF ServerOK, TraceOfThisGame
<1>6. RepliesOK'
  BY <1>1, <1>3, GameFacts DEF IInv, RepliesOK
<1>7. PageTypes' /\ RequestsOK' /\ AlonePerKind' /\ MovesOK' /\ LoopOK'
  BY <1>2, <1>3, ServerStep
<1> QED BY <1>4, <1>5, <1>6, <1>7 DEF IInv

(* A step begins with the lock, which nobody inside a step can have.       *)
LEMMA BeginStepKeeps ==
  ASSUME IInv, NEW h \in Handlers, BeginStep(h)
  PROVE  IInv'
<1>1. /\ lock = None /\ lock' = h /\ UNCHANGED <<game, trace, page>>
      /\ handler' = [handler EXCEPT ![h].at = "choosing", ![h].seen = game]
  BY DEF BeginStep, Acquire
<1>2. /\ handler' \in [Handlers -> Requests]
      /\ handler'[h].page = handler[h].page /\ handler'[h].kind = handler[h].kind
      /\ handler'[h].at = "choosing" /\ handler'[h].seen = game
      /\ \A i \in Handlers : i # h => handler'[i] = handler[i]
  BY <1>1, InsideFacts DEF IInv, ServerTypes
<1>3. ServerTypes'
  BY <1>1, <1>2 DEF IInv, ServerTypes
<1>4. ServerOK'
  <2>1. \A i \in Handlers : i # h => handler'[i].at \notin {"choosing", "moved"}
    BY <1>1, <1>2, GameFacts DEF IInv, ServerOK
  <2>2. TraceOfThisGame'
    BY <1>1 DEF IInv, ServerOK, TraceOfThisGame
  <2>3. handler[h].kind = "step"
    BY DEF BeginStep, Acquire
  <2>4. \A i \in Handlers : handler'[i].at = "moved" => FALSE
    BY <1>2, <2>1
  <2> QED BY <1>1, <1>2, <2>1, <2>2, <2>3, <2>4 DEF ServerOK
<1>5. RepliesOK'
  BY <1>2 DEF IInv, RepliesOK
<1>6. PageTypes' /\ RequestsOK' /\ AlonePerKind' /\ MovesOK' /\ LoopOK'
  BY <1>1, <1>2, ServerStep
<1> QED BY <1>3, <1>4, <1>5, <1>6 DEF IInv

(* The move makes the game newer than its trace.                           *)
LEMMA MakeMoveKeeps ==
  ASSUME IInv, NEW h \in Handlers, MakeMove(h)
  PROVE  IInv'
<1>1. /\ handler[h].at = "choosing" /\ UNCHANGED <<trace, lock, page>>
      /\ handler' = [handler EXCEPT ![h].at = "moved"]
  BY DEF MakeMove
<1>2. game' \in Games /\ game'.id = game.id /\ game'.steps = game.steps + 1 /\ game.steps \in Nat
  <2>1. PICK lives \in BOOLEAN : game' = [game EXCEPT !.steps = game.steps + 1, !.alive = lives]
    BY DEF MakeMove
  <2>2. game \in [id : Nat, steps : Nat, alive : BOOLEAN] /\ game.steps + 1 \in Nat
    BY DEF IInv, ServerTypes, Games
  <2>3. game' \in [id : Nat, steps : Nat, alive : BOOLEAN]
    BY <2>1, <2>2
  <2> QED BY <2>1, <2>2, <2>3 DEF Games
<1>3. /\ handler' \in [Handlers -> Requests]
      /\ handler'[h].page = handler[h].page /\ handler'[h].kind = handler[h].kind
      /\ handler'[h].at = "moved" /\ handler'[h].seen = handler[h].seen
      /\ \A i \in Handlers : i # h => handler'[i] = handler[i]
  <2>1. handler[h].seen \in Games \cup {None}
    BY DEF IInv, ServerTypes, Requests
  <2>2. handler' = [handler EXCEPT ![h].at = "moved", ![h].seen = handler[h].seen]
    BY <1>1 DEF IInv, ServerTypes, Requests
  <2> QED BY <2>1, <2>2, InsideFacts DEF IInv
<1>4. ServerTypes'
  BY <1>1, <1>2, <1>3 DEF IInv, ServerTypes
<1>5. /\ lock' = h /\ \A i \in Handlers : i # h => handler'[i].at \notin {"choosing", "moved"}
  BY <1>1, <1>3 DEF IInv, ServerOK
<1>6. ServerOK'
  <2>1. \A k \in DOMAIN trace :
          trace[k].step \in Nat /\ trace[k].step <= game.steps /\ trace[k].id = game.id
    <3>1. \A k \in DOMAIN trace : trace[k].step \in Nat
      BY TraceFacts DEF IInv
    <3>2. TraceOfThisGame
      BY DEF IInv, ServerOK
    <3> QED BY <3>1, <3>2 DEF TraceOfThisGame
  <2>2. \A k \in DOMAIN trace' :
          trace'[k].step < game'.steps /\ trace'[k].step <= game'.steps /\ trace'[k].id = game'.id
    BY <1>1, <1>2, <2>1
  <2>3. TraceOfThisGame'
    BY <1>1, <2>2 DEF IInv, ServerOK, TraceOfThisGame
  <2>4. \A i \in Handlers : handler'[i].at \in {"choosing", "moved"} => i = h
    BY <1>5
  <2>5. handler'[h].kind = "step" /\ handler'[h].at # "choosing"
    BY <1>1, <1>3 DEF IInv, ServerOK
  <2> QED BY <1>5, <2>2, <2>3, <2>4, <2>5 DEF ServerOK
<1>7. RepliesOK'
  BY <1>3 DEF IInv, RepliesOK
<1>8. PageTypes' /\ RequestsOK' /\ AlonePerKind' /\ MovesOK' /\ LoopOK'
  BY <1>1, <1>3, ServerStep
<1> QED BY <1>4, <1>6, <1>7, <1>8 DEF IInv

(* The record is newer than all before it.                                 *)
LEMMA RecordMoveKeeps ==
  ASSUME IInv, NEW h \in Handlers, RecordMove(h)
  PROVE  IInv'
<1> DEFINE entry == [id |-> game.id, step |-> game.steps]
<1>1. /\ handler[h].at = "moved" /\ trace' = Append(trace, entry) /\ Reply(h, game)
      /\ lock' = None /\ UNCHANGED <<game, page>>
  BY DEF RecordMove
<1>2. game \in Games /\ entry \in [id : Nat, step : Nat] /\ trace \in Seq([id : Nat, step : Nat])
  BY DEF IInv, ServerTypes, Games
<1>3. /\ handler' \in [Handlers -> Requests]
      /\ handler'[h].page = handler[h].page /\ handler'[h].kind = handler[h].kind
      /\ handler'[h].at = "done" /\ handler'[h].reply = game
      /\ \A i \in Handlers : i # h => handler'[i] = handler[i]
  BY <1>1, <1>2, ReplyFacts DEF IInv
<1>4. /\ entry.id = game.id /\ entry.step = game.steps /\ game.steps \in Nat
  BY <1>2 DEF Games
<1> HIDE DEF entry
<1>5. ServerTypes'
  BY <1>1, <1>2, <1>3 DEF IInv, ServerTypes
<1>6. \A i \in Handlers : handler'[i].at \notin {"choosing", "moved"}
  BY <1>1, <1>3 DEF IInv, ServerOK
<1>7. TraceOfThisGame'
  <2>1. /\ \A k \in DOMAIN trace : trace[k].id = game.id /\ trace[k].step < game.steps
        /\ \A k \in DOMAIN trace : trace[k].step \in Nat
        /\ \A j, k \in DOMAIN trace : j < k => trace[j].step < trace[k].step
    <3>1. TraceOfThisGame /\ \A k \in DOMAIN trace : trace[k].step < game.steps
      BY <1>1 DEF IInv, ServerOK
    <3> QED BY <3>1, TraceFacts DEF IInv, TraceOfThisGame
  <2>2. /\ DOMAIN trace = 1..Len(trace) /\ DOMAIN trace' = 1..(Len(trace) + 1) /\ Len(trace) \in Nat
        /\ \A k \in DOMAIN trace : trace'[k] = trace[k]
        /\ trace'[Len(trace) + 1] = entry
    BY <1>1, <1>2
  <2>3. ASSUME NEW k \in DOMAIN trace' PROVE trace'[k].id = game.id /\ trace'[k].step <= game.steps
    BY <1>4, <2>1, <2>2, <2>3
  <2>4. ASSUME NEW j \in DOMAIN trace', NEW k \in DOMAIN trace', j < k
        PROVE  trace'[j].step < trace'[k].step
    <3>1. j \in DOMAIN trace /\ j < Len(trace) + 1
      BY <2>2, <2>4
    <3>2. CASE k \in DOMAIN trace
      BY <2>1, <2>2, <2>4, <3>1, <3>2
    <3>3. CASE k = Len(trace) + 1
      BY <1>4, <2>1, <2>2, <3>1, <3>3
    <3> QED BY <2>2, <3>2, <3>3
  <2> QED BY <1>1, <2>3, <2>4 DEF TraceOfThisGame
<1>8. ServerOK'
  BY <1>6, <1>7 DEF ServerOK
<1>9. RepliesOK' /\ PageTypes' /\ RequestsOK' /\ AlonePerKind' /\ MovesOK' /\ LoopOK'
  <2>1. handler[h].kind = "step"
    BY <1>1 DEF IInv, ServerOK
  <2>2. RepliesOK'
    BY <1>2, <1>3, <2>1 DEF IInv, RepliesOK
  <2> QED BY <1>1, <1>3, <2>2, ServerStep
<1> QED BY <1>5, <1>8, <1>9 DEF IInv

(* A new server has a new game, an empty trace and no threads.             *)
LEMMA RestartKeeps == ASSUME IInv, Restart PROVE IInv'
<1> DEFINE cut(h) == [handler[h] EXCEPT !.at = "done", !.seen = None, !.reply = Error]
<1>1. /\ game' = NewGame(game.id + 1) /\ trace' = <<>> /\ lock' = None /\ UNCHANGED page
      /\ handler' = [h \in Handlers |->
            IF handler[h].at \in {"free", "done"} THEN handler[h] ELSE cut(h)]
  BY DEF Restart
<1>2. ASSUME NEW h \in Handlers
      PROVE  /\ handler'[h] \in Requests
             /\ handler'[h].page = handler[h].page /\ handler'[h].kind = handler[h].kind
             /\ handler'[h].at \in {"free", "done"}
             /\ handler'[h] = handler[h] \/ handler'[h].reply = Error
  <2>1. handler[h] \in Requests
    BY DEF IInv, ServerTypes
  <2>2. /\ cut(h) \in Requests /\ cut(h).page = handler[h].page /\ cut(h).kind = handler[h].kind
        /\ cut(h).at = "done" /\ cut(h).reply = Error
    BY <2>1 DEF Requests
  <2> HIDE DEF cut
  <2> QED BY <1>1, <2>1, <2>2
<1>3. handler' \in [Handlers -> Requests]
  <2> HIDE DEF cut
  <2> QED BY <1>1, <1>2
<1>4. game' \in Games
  <2>1. game.id + 1 \in Nat
    BY DEF IInv, ServerTypes, Games
  <2> QED BY <1>1, <2>1, GameFacts
<1>5. ServerTypes'
  <2>1. trace' = <<>> /\ lock' = None
    BY <1>1
  <2> QED BY <1>3, <1>4, <2>1 DEF ServerTypes
<1>6. ServerOK'
  <2>1. trace' = <<>>
    BY <1>1
  <2>2. \A h \in Handlers : handler'[h].at \notin {"choosing", "moved"}
    BY <1>2
  <2> QED BY <2>1, <2>2 DEF ServerOK, TraceOfThisGame
<1>7. RepliesOK'
  BY <1>2 DEF IInv, RepliesOK
<1>8. PageTypes' /\ RequestsOK' /\ AlonePerKind' /\ MovesOK' /\ LoopOK'
  BY <1>1, <1>2, ServerStep
<1> QED BY <1>5, <1>6, <1>7, <1>8 DEF IInv

-----------------------------------------------------------------------------
(* Nothing happens.                                                        *)
LEMMA StutterKeeps == ASSUME IInv, UNCHANGED vars PROVE IInv'
<1>1. handler' \in [Handlers -> Requests]
  BY DEF IInv, ServerTypes
<1>2. ServerTypes' /\ ServerOK' /\ RepliesOK'
  BY <1>1, PageStep
<1>3. PageTypes' /\ RequestsOK' /\ AlonePerKind' /\ MovesOK' /\ LoopOK'
  BY ServerStep
<1> QED BY <1>1, <1>2, <1>3 DEF IInv

(* A new server, with pages that wait for it or already show its game.     *)
LEMMA InitIInv == Init => IInv
<1> SUFFICES ASSUME Init PROVE IInv
  OBVIOUS
<1> USE DEF Init
<1>1. Free \in Requests /\ Free.kind = "none" /\ Free.at = "free"
  BY DEF Free, Requests
<1>2. ServerTypes /\ PageTypes
  BY <1>1, GameFacts DEF ServerTypes, PageTypes
<1>3. ServerOK /\ RepliesOK
  BY <1>1 DEF ServerOK, RepliesOK, TraceOfThisGame
<1>4. RequestsOK /\ AlonePerKind /\ MovesOK
  BY <1>1 DEF RequestsOK, AlonePerKind, MovesOK
<1>5. LoopOK
  BY DEF LoopOK, RunningGoesOn
<1> QED BY <1>2, <1>3, <1>4, <1>5 DEF IInv

(* Every step of every page and thread preserves the invariant.            *)
LEMMA NextKeeps == IInv /\ [Next]_vars => IInv'
<1> SUFFICES ASSUME IInv, [Next]_vars PROVE IInv'
  OBVIOUS
<1>1. CASE UNCHANGED vars
  BY <1>1, StutterKeeps
<1>2. ASSUME NEW p \in Pages, User(p) PROVE IInv'
  BY <1>2, ClickStepKeeps, ClickToggleKeeps, ClickResetKeeps DEF User
<1>3. ASSUME NEW p \in Pages, PageGoesOn(p) PROVE IInv'
  BY <1>3, FetchStatusKeeps, StatusArrivesKeeps, WakeKeeps, MoveArrivesKeeps, MoveFailsKeeps,
     FinishMoveKeeps, ResetArrivesKeeps DEF PageGoesOn
<1>4. ASSUME NEW h \in Handlers, ThreadGoesOn(h) PROVE IInv'
  BY <1>4, ReadStatusKeeps, ResetKeeps, RefuseStepKeeps, BeginStepKeeps, MakeMoveKeeps,
     RecordMoveKeeps DEF ThreadGoesOn
<1>5. ASSUME NEW h \in Handlers, StepFails(h) \/ Unreachable(h) \/ ReplyLost(h) PROVE IInv'
  BY <1>5, StepFailsKeeps, UnreachableKeeps, ReplyLostKeeps
<1>6. CASE Restart
  BY <1>6, RestartKeeps
<1> QED BY <1>1, <1>2, <1>3, <1>4, <1>5, <1>6 DEF Next

(* The inductive invariant holds throughout.                               *)
THEOREM Invariance == Spec => []IInv
<1>1. Init => IInv
  BY InitIInv
<1>2. IInv /\ [Next]_vars => IInv'
  BY NextKeeps
<1> QED BY <1>1, <1>2, PTL DEF Spec

(* A decision is played on the very board it was asked for, although it    *)
(* takes seconds and other pages step and reset meanwhile                  *)
(* (SnakeSession.step, web.py:240-263).                                    *)
THEOREM DecisionsFit == Spec => []DecisionFitsGame
<1>1. IInv => DecisionFitsGame
  BY DEF IInv, ServerOK, DecisionFitsGame
<1> QED BY <1>1, Invariance, PTL

(* The trace file holds moves of the current game only, in order, whatever *)
(* fails, is reset or restarted.                                           *)
THEOREM TraceIsOfThisGame == Spec => []TraceOfThisGame
<1>1. IInv => TraceOfThisGame
  BY DEF IInv, ServerOK
<1> QED BY <1>1, Invariance, PTL

(* busy keeps every page to one move at a time, and is true to it          *)
(* (oneMove, app.js:154).                                                  *)
THEOREM OneMove == Spec => []OneMoveAtATime
<1>1. IInv => OneMoveAtATime
  <2> SUFFICES ASSUME IInv, NEW p \in Pages
               PROVE  Cardinality({h \in Handlers : handler[h].page = p /\ handler[h].kind = "step"})
                        = IF move[p] = "sent" THEN 1 ELSE 0
    BY DEF OneMoveAtATime
  <2> DEFINE out == {h \in Handlers : handler[h].page = p /\ handler[h].kind = "step"}
  <2>1. CASE move[p] = "sent"
    <3>1. PICK h \in Handlers : handler[h].page = p /\ handler[h].kind = "step"
      BY <2>1 DEF IInv, MovesOK
    <3>2. out = {h}
      BY <3>1 DEF IInv, AlonePerKind
    <3> QED BY <2>1, <3>2, FS_Singleton
  <2>2. CASE move[p] # "sent"
    <3>1. out = {}
      BY <2>2 DEF IInv, RequestsOK
    <3> QED BY <2>2, <3>1, FS_EmptySet
  <2> QED BY <2>1, <2>2
<1> QED BY <1>1, Invariance, PTL

(* A page that shows "Pause" has something under way                       *)
(* (runLoop, app.js:187-212).                                              *)
THEOREM RunningHasWork == Spec => []RunningGoesOn
<1>1. IInv => RunningGoesOn
  BY DEF IInv, LoopOK
<1> QED BY <1>1, Invariance, PTL

-----------------------------------------------------------------------------
(* ModelDownload: files *)

(* The pinned model is the content of a file.                              *)
LEMMA PinnedFacts == Pinned \in Contents /\ Len(Pinned) = Chunks
BY DownloadAssumption DEF Pinned, Contents

(* Writing a chunk anywhere makes the content of a file.                   *)
LEMMA WrittenFacts ==
  ASSUME NEW file \in Contents, NEW offset \in Nat, NEW chunk \in {Chunk, Other}
  PROVE  /\ Written(file, offset, chunk) \in Contents
         /\ offset = Len(file) => Written(file, offset, chunk) = Append(file, chunk)
<1>1. Len(file) \in Nat /\ DOMAIN file = 1 .. Len(file)
      /\ \A i \in 1 .. Len(file) : file[i] \in {Chunk, Other, Hole}
  BY DEF Contents
<1> DEFINE n == IF offset < Len(file) THEN Len(file) ELSE offset + 1
           w == [i \in 1 .. n |-> IF i = offset + 1 THEN chunk
                                  ELSE IF i <= Len(file) THEN file[i] ELSE Hole]
<1>2. n \in Nat
  BY <1>1
<1>3. \A i \in 1 .. n : w[i] \in {Chunk, Other, Hole}
  BY <1>1
<1>4. w \in Contents
  <2> HIDE DEF n
  <2> QED BY <1>2, <1>3 DEF Contents
<1>5. ASSUME offset = Len(file) PROVE w = Append(file, chunk)
  <2>1. n = Len(file) + 1
    BY <1>5, <1>1
  <2>2. /\ DOMAIN w = 1 .. Len(file) + 1 /\ w[Len(file) + 1] = chunk
        /\ \A i \in 1 .. Len(file) : w[i] = file[i]
    BY <1>1, <1>5, <2>1
  <2> DEFINE S == {Chunk, Other, Hole}
             a == Append(file, chunk)
  <2>3. file \in Seq(S) /\ chunk \in S
    BY DEF Contents
  <2>4. a \in Seq(S) /\ Len(a) = Len(file) + 1 /\ a[Len(file) + 1] = chunk
        /\ \A i \in 1 .. Len(file) : a[i] = file[i]
    <3> HIDE DEF S
    <3> QED BY <2>3
  <2>5. w \in Seq(S) /\ Len(w) = Len(file) + 1
    <3>1. w \in Seq(S)
      BY <1>4 DEF Contents
    <3> HIDE DEF S, w, n
    <3> QED BY <1>1, <2>2, <3>1
  <2>6. \A i \in 1 .. Len(w) : w[i] = a[i]
    <3> HIDE DEF S, w, a
    <3> QED BY <1>1, <2>2, <2>4, <2>5
  <2>7. w = a
    <3> HIDE DEF S, w, a
    <3> QED BY <2>4, <2>5, <2>6, SeqEqual
  <2> QED BY <2>7
<1>6. Written(file, offset, chunk) = w
  BY DEF Written
<1> QED BY <1>4, <1>5, <1>6

(* A step of one launch leaves the others where they are, and a behaviour  *)
(* without a race has one that downloads, or none.                         *)
LEMMA GoToFacts ==
  ASSUME DownloadTypes, NEW l \in Launches, NEW next \in Places, GoTo(l, next)
  PROVE  /\ at' \in [Launches -> Places] /\ raced' \in BOOLEAN
         /\ at'[l] = next /\ \A k \in Launches : k # l => at'[k] = at[k]
         /\ ~raced' => \/ \A k \in Launches : at'[k] = "idle"
                       \/ /\ ~raced
                          /\ \A j, k \in Launches :
                               at'[j] \in Downloading /\ at'[k] \in Downloading => j = k
<1>1. at \in [Launches -> Places] /\ raced \in BOOLEAN
  BY DEF DownloadTypes
<1>2. /\ at' = [at EXCEPT ![l] = next]
      /\ raced' = IF \A k \in Launches : at'[k] = "idle" THEN FALSE
                  ELSE raced \/ \E j, k \in Launches : /\ j # k
                                  /\ at'[j] \in Downloading /\ at'[k] \in Downloading
  BY DEF GoTo
<1>3. at' \in [Launches -> Places] /\ at'[l] = next
      /\ \A k \in Launches : k # l => at'[k] = at[k]
  BY <1>1, <1>2
<1>4. CASE \A k \in Launches : at'[k] = "idle"
  BY <1>2, <1>3, <1>4
<1>5. CASE ~ \A k \in Launches : at'[k] = "idle"
  <2>1. raced' = (raced \/ \E j, k \in Launches : /\ j # k
                                  /\ at'[j] \in Downloading /\ at'[k] \in Downloading)
    BY <1>2, <1>5
  <2> QED BY <1>1, <1>3, <2>1, Zenon
<1> QED BY <1>4, <1>5

-----------------------------------------------------------------------------
(* ModelDownload: every step keeps the invariant *)

(* A step that changes nothing but where its launch is, and goes on to     *)
(* replace the model or to serve only when it may.                         *)
LEMMA WalkKeeps ==
  ASSUME DownloadInv, NEW l \in Launches, NEW next \in Places, GoTo(l, next),
         UNCHANGED <<files, output, received, loaded, identity>>,
         next \notin {"unlink", "open", "identify", "serving"},
         next = "replace" => received[l] = Pinned,
         next \in {"stream", "compare", "replace"} => at[l] \in {"stream", "compare", "replace"},
         next = "serve" /\ ~raced => (model = NoFile \/ content[model] = Pinned)
  PROVE  DownloadInv'
<1>1. /\ model' = model /\ partial' = partial /\ content' = content /\ output' = output
      /\ received' = received /\ loaded' = loaded /\ identity' = identity
  BY DEF files
<1>2. /\ at' \in [Launches -> Places] /\ raced' \in BOOLEAN
      /\ at'[l] = next /\ \A k \in Launches : k # l => at'[k] = at[k]
      /\ ~raced' => \/ \A k \in Launches : at'[k] = "idle"
                    \/ /\ ~raced
                       /\ \A j, k \in Launches :
                            at'[j] \in Downloading /\ at'[k] \in Downloading => j = k
  BY GoToFacts DEF DownloadInv
<1>3. DownloadTypes'
  BY <1>1, <1>2 DEF DownloadInv, DownloadTypes
<1>4. NamesDiffer'
  BY <1>1 DEF DownloadInv, NamesDiffer
<1>5. HashedOK'
  BY <1>1, <1>2 DEF DownloadInv, HashedOK
<1>6. DownloadAlone'
  BY <1>1, <1>2 DEF DownloadInv, DownloadAlone, Downloading
<1>7. ServeOK'
  BY <1>1, <1>2 DEF DownloadInv, ServeOK
<1> QED BY <1>3, <1>4, <1>5, <1>6, <1>7 DEF DownloadInv

(* A launch starts, with nothing hashed or loaded.                         *)
LEMMA LaunchKeeps ==
  ASSUME DownloadInv, NEW l \in Launches, NEW force \in BOOLEAN, Launch(l, force)
  PROVE  DownloadInv'
<1> DEFINE next == IF model # NoFile /\ ~force THEN "hash" ELSE "unlink"
<1>0. next \in {"hash", "unlink"} /\ next \in Places
  BY DEF Places, Downloading
<1> HIDE DEF next
<1>1. /\ model' = model /\ partial' = partial /\ content' = content /\ output' = output
      /\ received' = [received EXCEPT ![l] = <<>>] /\ loaded' = [loaded EXCEPT ![l] = <<>>]
      /\ identity' = [identity EXCEPT ![l] = <<>>]
      /\ GoTo(l, next)
  BY DEF Launch, files, next
<1>2. /\ at' \in [Launches -> Places] /\ raced' \in BOOLEAN
      /\ at'[l] = next /\ \A k \in Launches : k # l => at'[k] = at[k]
      /\ ~raced' => \/ \A k \in Launches : at'[k] = "idle"
                    \/ /\ ~raced
                       /\ \A j, k \in Launches :
                            at'[j] \in Downloading /\ at'[k] \in Downloading => j = k
  BY <1>0, <1>1, GoToFacts DEF DownloadInv
<1>3. /\ received \in [Launches -> Contents] /\ loaded \in [Launches -> Contents]
      /\ identity \in [Launches -> Contents] /\ <<>> \in Contents
  BY DEF DownloadInv, DownloadTypes, Contents
<1>4. /\ received' \in [Launches -> Contents] /\ loaded' \in [Launches -> Contents]
      /\ identity' \in [Launches -> Contents]
      /\ received'[l] = <<>>
      /\ \A k \in Launches : k # l => /\ received'[k] = received[k] /\ loaded'[k] = loaded[k]
                                      /\ identity'[k] = identity[k]
  BY <1>1, <1>3
<1>5. DownloadTypes'
  BY <1>1, <1>2, <1>4 DEF DownloadInv, DownloadTypes
<1>6. NamesDiffer'
  BY <1>1 DEF DownloadInv, NamesDiffer
<1>7. HashedOK'
  BY <1>0, <1>2, <1>4 DEF DownloadInv, HashedOK
<1>8. DownloadAlone'
  BY <1>0, <1>1, <1>2, <1>4 DEF DownloadInv, DownloadAlone, Downloading
<1>9. ServeOK'
  BY <1>0, <1>1, <1>2, <1>4 DEF DownloadInv, ServeOK
<1> QED BY <1>5, <1>6, <1>7, <1>8, <1>9 DEF DownloadInv

(* The installed model is served only when it is the pinned one.           *)
LEMMA HashInstalledKeeps ==
  ASSUME DownloadInv, NEW l \in Launches, HashInstalled(l)
  PROVE  DownloadInv'
<1>1. CASE model # NoFile /\ content[model] = Pinned
  <2>1. GoTo(l, "serve") /\ UNCHANGED <<files, output, received, loaded, identity>>
    BY <1>1 DEF HashInstalled
  <2>2. "serve" \in Places
    BY DEF Places
  <2> QED BY <1>1, <2>1, <2>2, WalkKeeps
<1>2. CASE ~(model # NoFile /\ content[model] = Pinned)
  <2>1. GoTo(l, "refused") /\ UNCHANGED <<files, output, received, loaded, identity>>
    BY <1>2 DEF HashInstalled
  <2>2. "refused" \in Places
    BY DEF Places
  <2> QED BY <2>1, <2>2, WalkKeeps
<1> QED BY <1>1, <1>2

(* The response is over.                                                   *)
LEMMA EndOfStreamKeeps ==
  ASSUME DownloadInv, NEW l \in Launches, EndOfStream(l)
  PROVE  DownloadInv'
<1>1. /\ GoTo(l, "compare") /\ UNCHANGED <<files, output, received, loaded, identity>>
      /\ at[l] = "stream"
  BY DEF EndOfStream
<1>2. "compare" \in Places
  BY DEF Places, Downloading
<1> QED BY <1>1, <1>2, WalkKeeps

(* The response breaks off.                                                *)
LEMMA StreamFailsKeeps ==
  ASSUME DownloadInv, NEW l \in Launches, StreamFails(l)
  PROVE  DownloadInv'
<1>1. GoTo(l, "cleanup") /\ UNCHANGED <<files, output, received, loaded, identity>>
  BY DEF StreamFails
<1>2. "cleanup" \in Places
  BY DEF Places, Downloading
<1> QED BY <1>1, <1>2, WalkKeeps

(* What was hashed is the pinned model, or is given up.                    *)
LEMMA CompareKeeps ==
  ASSUME DownloadInv, NEW l \in Launches, Compare(l)
  PROVE  DownloadInv'
<1>1. CASE received[l] = Pinned
  <2>1. /\ GoTo(l, "replace") /\ UNCHANGED <<files, output, received, loaded, identity>>
        /\ at[l] = "compare"
    BY <1>1 DEF Compare
  <2>2. "replace" \in Places
    BY DEF Places, Downloading
  <2> QED BY <1>1, <2>1, <2>2, WalkKeeps
<1>2. CASE received[l] # Pinned
  <2>1. GoTo(l, "cleanup") /\ UNCHANGED <<files, output, received, loaded, identity>>
    BY <1>2 DEF Compare
  <2>2. "cleanup" \in Places
    BY DEF Places, Downloading
  <2> QED BY <2>1, <2>2, WalkKeeps
<1> QED BY <1>1, <1>2

(* A launch ends where it is.                                              *)
LEMMA KillKeeps ==
  ASSUME DownloadInv, NEW l \in Launches, Kill(l)
  PROVE  DownloadInv'
<1>1. GoTo(l, "idle") /\ UNCHANGED <<files, output, received, loaded, identity>>
  BY DEF Kill
<1>2. "idle" \in Places
  BY DEF Places
<1> QED BY <1>1, <1>2, WalkKeeps

(* The steps that take a name from a file.  Without a race no other launch *)
(* is writing one when the .part name goes.                                *)
LEMMA NameGoesKeeps ==
  ASSUME DownloadInv, NEW l \in Launches, NEW next \in {"open", "idle"}, GoTo(l, next),
         UNCHANGED <<content, output, received, loaded, identity>>,
         next = "open" => received[l] = <<>>,
         \/ model' \in {model, NoFile} /\ partial' = partial /\ at[l] = "refused" /\ next = "idle"
         \/ model' = model /\ partial' = NoFile /\ at[l] \in {"unlink", "cleanup"}
  PROVE  DownloadInv'
<1>1. /\ content' = content /\ output' = output
      /\ received' = received /\ loaded' = loaded /\ identity' = identity
  OBVIOUS
<1>2. /\ at' \in [Launches -> Places] /\ raced' \in BOOLEAN
      /\ at'[l] = next /\ \A k \in Launches : k # l => at'[k] = at[k]
      /\ ~raced' => \/ \A k \in Launches : at'[k] = "idle"
                    \/ /\ ~raced
                       /\ \A j, k \in Launches :
                            at'[j] \in Downloading /\ at'[k] \in Downloading => j = k
  <2>1. next \in Places
    BY DEF Places, Downloading
  <2> QED BY <2>1, GoToFacts DEF DownloadInv
<1>3. model' \in {model, NoFile} /\ partial' \in {partial, NoFile}
  OBVIOUS
<1>4. DownloadTypes'
  BY <1>1, <1>2, <1>3 DEF DownloadInv, DownloadTypes
<1>5. NamesDiffer'
  BY <1>3 DEF DownloadInv, NamesDiffer
<1>6. HashedOK'
  BY <1>1, <1>2 DEF DownloadInv, HashedOK
<1>7. DownloadAlone'
  BY <1>1, <1>2 DEF DownloadInv, DownloadAlone, Downloading
<1>8. ServeOK'
  BY <1>1, <1>2, <1>3 DEF DownloadInv, ServeOK
<1> QED BY <1>4, <1>5, <1>6, <1>7, <1>8 DEF DownloadInv

(* The model may be removed by hand.                                       *)
LEMMA TakeAdviceKeeps ==
  ASSUME DownloadInv, NEW l \in Launches, TakeAdvice(l)
  PROVE  DownloadInv'
<1>1. /\ at[l] = "refused" /\ GoTo(l, "idle") /\ model' \in {model, NoFile}
      /\ partial' = partial /\ UNCHANGED <<content, output, received, loaded, identity>>
  BY DEF TakeAdvice
<1> QED BY <1>1, NameGoesKeeps

(* What an earlier download left is removed.                               *)
LEMMA UnlinkKeeps ==
  ASSUME DownloadInv, NEW l \in Launches, Unlink(l)
  PROVE  DownloadInv'
<1>1. /\ at[l] = "unlink" /\ partial' = NoFile /\ GoTo(l, "open") /\ model' = model
      /\ UNCHANGED <<content, output, received, loaded, identity>>
  BY DEF Unlink
<1>2. received[l] = <<>>
  BY <1>1 DEF DownloadInv, HashedOK
<1> QED BY <1>1, <1>2, NameGoesKeeps

(* A failed download removes what it left.                                 *)
LEMMA CleanupKeeps ==
  ASSUME DownloadInv, NEW l \in Launches, Cleanup(l)
  PROVE  DownloadInv'
<1>1. /\ at[l] = "cleanup" /\ partial' = NoFile /\ GoTo(l, "idle") /\ model' = model
      /\ UNCHANGED <<content, output, received, loaded, identity>>
  BY DEF Cleanup
<1> QED BY <1>1, NameGoesKeeps

(* What opening the file with the .part name does to the files.            *)
LEMMA OpenFacts ==
  ASSUME DownloadInv, NEW l \in Launches, Open(l)
  PROVE  /\ content' \in Seq(Contents) /\ partial' \in DOMAIN content' /\ model' = model
         /\ partial' \in Nat /\ content'[partial'] = <<>>
         /\ model # NoFile => /\ model \in DOMAIN content' /\ model # partial'
                              /\ content'[model] = content[model]
<1>1. /\ content \in Seq(Contents) /\ model \in DOMAIN content \cup {NoFile}
      /\ partial \in DOMAIN content \cup {NoFile} /\ (model # NoFile => model # partial)
      /\ <<>> \in Contents /\ NoFile \notin Nat /\ model' = model
  BY DownloadAssumption DEF DownloadInv, DownloadTypes, NamesDiffer, Contents, Open
<1>2. CASE partial = NoFile
  <2>1. content' = Append(content, <<>>) /\ partial' = Len(content) + 1
    BY <1>2 DEF Open
  <2> DEFINE c == Append(content, <<>>)
             n == Len(content) + 1
  <2>2. /\ c \in Seq(Contents) /\ n \in DOMAIN c /\ n \in Nat /\ c[n] = <<>>
        /\ \A i \in DOMAIN content : i \in DOMAIN c /\ i # n /\ c[i] = content[i]
    BY <1>1
  <2>3. content' = c /\ partial' = n
    BY <2>1
  <2> HIDE DEF c, n
  <2> QED BY <1>1, <2>2, <2>3
<1>3. CASE partial # NoFile
  <2>1. content' = [content EXCEPT ![partial] = <<>>] /\ partial' = partial
    BY <1>3 DEF Open
  <2> DEFINE c == [content EXCEPT ![partial] = <<>>]
  <2>2. /\ c \in Seq(Contents) /\ DOMAIN c = DOMAIN content /\ c[partial] = <<>>
        /\ partial \in DOMAIN content /\ partial \in Nat
        /\ \A i \in DOMAIN content : i # partial => c[i] = content[i]
    BY <1>1, <1>3
  <2>3. content' = c
    BY <2>1
  <2> HIDE DEF c
  <2> QED BY <1>1, <2>1, <2>2, <2>3
<1> QED BY <1>2, <1>3

(* The file that is written is new or emptied, as what was hashed.         *)
LEMMA OpenKeeps ==
  ASSUME DownloadInv, NEW l \in Launches, Open(l)
  PROVE  DownloadInv'
<1>1. /\ at[l] = "open" /\ GoTo(l, "stream") /\ output' = [output EXCEPT ![l] = partial']
      /\ received' = received /\ loaded' = loaded /\ identity' = identity
  BY DEF Open
<1>2. /\ content' \in Seq(Contents) /\ partial' \in DOMAIN content' /\ model' = model
      /\ partial' \in Nat /\ content'[partial'] = <<>>
      /\ model # NoFile => /\ model \in DOMAIN content' /\ model # partial'
                           /\ content'[model] = content[model]
  BY OpenFacts
<1>3. /\ at' \in [Launches -> Places] /\ raced' \in BOOLEAN
      /\ at'[l] = "stream" /\ \A k \in Launches : k # l => at'[k] = at[k]
      /\ ~raced' => \/ \A k \in Launches : at'[k] = "idle"
                    \/ /\ ~raced
                       /\ \A j, k \in Launches :
                            at'[j] \in Downloading /\ at'[k] \in Downloading => j = k
  <2>1. "stream" \in Places
    BY DEF Places, Downloading
  <2> QED BY <1>1, <2>1, GoToFacts DEF DownloadInv
<1>4. /\ output' \in [Launches -> Nat \cup {NoFile}] /\ output'[l] = partial'
      /\ \A k \in Launches : k # l => output'[k] = output[k]
  <2>1. output \in [Launches -> Nat \cup {NoFile}]
    BY DEF DownloadInv, DownloadTypes
  <2> QED BY <1>1, <1>2, <2>1
<1>5. DownloadTypes'
  <2>1. model' \in DOMAIN content' \cup {NoFile} /\ partial' \in DOMAIN content' \cup {NoFile}
    BY <1>2 DEF DownloadInv, DownloadTypes
  <2> QED BY <1>1, <1>2, <1>3, <1>4, <2>1 DEF DownloadInv, DownloadTypes
<1>6. NamesDiffer'
  BY <1>2 DEF NamesDiffer
<1>7. HashedOK'
  BY <1>1, <1>3 DEF DownloadInv, HashedOK
<1>8. DownloadAlone'
  <2>1. received[l] = <<>>
    BY <1>1 DEF DownloadInv, HashedOK
  <2>2. partial' # NoFile
    BY <1>2, DownloadAssumption
  <2> QED BY <1>1, <1>2, <1>3, <1>4, <2>1, <2>2 DEF DownloadInv, DownloadAlone, Downloading
<1>9. ServeOK'
  BY <1>1, <1>2, <1>3 DEF DownloadInv, ServeOK
<1> QED BY <1>5, <1>6, <1>7, <1>8, <1>9 DEF DownloadInv

(* What a chunk that arrives does to the files.                            *)
LEMMA ReceiveFacts ==
  ASSUME DownloadInv, NEW l \in Launches, Receive(l)
  PROVE  /\ content' \in Seq(Contents) /\ DOMAIN content' = DOMAIN content
         /\ received' \in [Launches -> Contents]
         /\ \A k \in Launches : k # l => received'[k] = received[k]
         /\ \A i \in DOMAIN content : i # output[l] => content'[i] = content[i]
         /\ output[l] \in DOMAIN content /\ content[output[l]] = received[l]
              => content'[output[l]] = received'[l]
<1>1. PICK chunk \in {Chunk, Other} :
        /\ content' = [content EXCEPT ![output[l]] = Written(@, Len(received[l]), chunk)]
        /\ received' = [received EXCEPT ![l] = Append(@, chunk)]
  BY DEF Receive
<1>2. content \in Seq(Contents) /\ received \in [Launches -> Contents] /\ received[l] \in Contents
  BY DEF DownloadInv, DownloadTypes
<1>3. Len(received[l]) \in Nat /\ Append(received[l], chunk) \in Contents
  BY <1>2 DEF Contents
<1>4. received' \in [Launches -> Contents] /\ received'[l] = Append(received[l], chunk)
      /\ \A k \in Launches : k # l => received'[k] = received[k]
  BY <1>1, <1>2, <1>3
<1> DEFINE file == content[output[l]]
           new == Written(file, Len(received[l]), chunk)
<1>5. CASE output[l] \notin DOMAIN content
  <2>1. content' = content
    BY <1>1, <1>2, <1>5
  <2> QED BY <1>2, <1>4, <1>5, <2>1
<1>6. CASE output[l] \in DOMAIN content
  <2>1. file \in Contents
    <3> HIDE DEF Contents
    <3> QED BY <1>2, <1>6
  <2>2. new \in Contents /\ (file = received[l] => new = Append(received[l], chunk))
    BY <1>3, <2>1, WrittenFacts
  <2>3. content' = [content EXCEPT ![output[l]] = new]
    BY <1>1
  <2> HIDE DEF new, file
  <2>4. /\ content' \in Seq(Contents) /\ DOMAIN content' = DOMAIN content
        /\ content'[output[l]] = new
        /\ \A i \in DOMAIN content : i # output[l] => content'[i] = content[i]
    BY <1>2, <1>6, <2>2, <2>3
  <2> QED BY <1>4, <2>2, <2>4 DEF file
<1> QED BY <1>5, <1>6

(* A chunk is hashed, and written to a file that is not the model.         *)
LEMMA ReceiveKeeps ==
  ASSUME DownloadInv, NEW l \in Launches, Receive(l)
  PROVE  DownloadInv'
<1>1. /\ at[l] = "stream" /\ model' = model /\ partial' = partial /\ at' = at
      /\ output' = output /\ loaded' = loaded /\ identity' = identity /\ raced' = raced
  BY DEF Receive
<1>2. /\ content' \in Seq(Contents) /\ DOMAIN content' = DOMAIN content
      /\ received' \in [Launches -> Contents]
      /\ \A k \in Launches : k # l => received'[k] = received[k]
      /\ \A i \in DOMAIN content : i # output[l] => content'[i] = content[i]
      /\ output[l] \in DOMAIN content /\ content[output[l]] = received[l]
           => content'[output[l]] = received'[l]
  BY ReceiveFacts
<1>3. model \in DOMAIN content \cup {NoFile} /\ partial \in DOMAIN content \cup {NoFile}
  BY DEF DownloadInv, DownloadTypes
<1>4. DownloadTypes'
  BY <1>1, <1>2, <1>3 DEF DownloadInv, DownloadTypes
<1>5. NamesDiffer'
  BY <1>1 DEF DownloadInv, NamesDiffer
<1>6. HashedOK'
  BY <1>1, <1>2 DEF DownloadInv, HashedOK
<1>7. ~raced => /\ partial # NoFile /\ output[l] = partial /\ content[partial] = received[l]
                /\ \A k \in Launches : k # l => at[k] \notin Downloading
  BY <1>1 DEF DownloadInv, DownloadAlone, Downloading
<1>8. DownloadAlone'
  BY <1>1, <1>2, <1>3, <1>7 DEF DownloadInv, DownloadAlone, Downloading
<1>9. ServeOK'
  <2>1. ~raced /\ model # NoFile => content'[model] = content[model]
    BY <1>2, <1>3, <1>7 DEF DownloadInv, NamesDiffer
  <2> QED BY <1>1, <2>1 DEF DownloadInv, ServeOK
<1> QED BY <1>4, <1>5, <1>6, <1>8, <1>9 DEF DownloadInv

(* Without a race the file that becomes the model is the pinned one.       *)
LEMMA ReplaceFacts ==
  ASSUME DownloadInv, NEW l \in Launches, at[l] = "replace", ~raced
  PROVE  /\ partial # NoFile /\ content[partial] = Pinned
         /\ \A k \in Launches : k # l => at[k] \notin Downloading
BY DEF DownloadInv, DownloadAlone, HashedOK, Downloading

(* The file that becomes the model is one nobody writes any more.          *)
LEMMA ReplaceKeeps ==
  ASSUME DownloadInv, NEW l \in Launches, Replace(l)
  PROVE  DownloadInv'
<1>1. CASE partial = NoFile
  <2>1. GoTo(l, "idle") /\ UNCHANGED <<files, output, received, loaded, identity>>
    BY <1>1 DEF Replace, files
  <2>2. "idle" \in Places
    BY DEF Places
  <2> QED BY <2>1, <2>2, WalkKeeps
<1>2. CASE partial # NoFile
  <2>1. /\ at[l] = "replace" /\ GoTo(l, "serve") /\ model' = partial /\ partial' = NoFile
        /\ content' = content /\ output' = output
        /\ received' = received /\ loaded' = loaded /\ identity' = identity
    BY <1>2 DEF Replace
  <2>2. /\ at' \in [Launches -> Places] /\ raced' \in BOOLEAN
        /\ at'[l] = "serve" /\ \A k \in Launches : k # l => at'[k] = at[k]
        /\ ~raced' => \/ \A k \in Launches : at'[k] = "idle"
                      \/ /\ ~raced
                         /\ \A j, k \in Launches :
                              at'[j] \in Downloading /\ at'[k] \in Downloading => j = k
    <3>1. "serve" \in Places
      BY DEF Places
    <3> QED BY <2>1, <3>1, GoToFacts DEF DownloadInv
  <2>3. ~raced' => ~raced
    BY <2>2
  <2>4. DownloadTypes'
    BY <2>1, <2>2 DEF DownloadInv, DownloadTypes
  <2>5. NamesDiffer'
    BY <1>2, <2>1 DEF NamesDiffer
  <2>6. HashedOK'
    BY <2>1, <2>2 DEF DownloadInv, HashedOK
  <2>7. DownloadAlone'
    <3>1. ~raced => \A k \in Launches : k # l => at[k] \notin Downloading
      BY <2>1, ReplaceFacts
    <3> QED BY <2>1, <2>2, <2>3, <3>1 DEF DownloadAlone, Downloading
  <2>8. ServeOK'
    <3>1. ~raced => content[partial] = Pinned
      BY <2>1, ReplaceFacts
    <3> QED BY <2>1, <2>2, <2>3, <3>1 DEF DownloadInv, ServeOK
  <2> QED BY <2>4, <2>5, <2>6, <2>7, <2>8 DEF DownloadInv
<1> QED BY <1>1, <1>2

(* The server loads the file that has the model's name.                    *)
LEMMA ServeKeeps ==
  ASSUME DownloadInv, NEW l \in Launches, Serve(l)
  PROVE  DownloadInv'
<1>1. CASE model = NoFile
  <2>1. GoTo(l, "idle") /\ UNCHANGED <<files, output, received, loaded, identity>>
    BY <1>1 DEF Serve
  <2>2. "idle" \in Places
    BY DEF Places
  <2> QED BY <2>1, <2>2, WalkKeeps
<1>2. CASE model # NoFile
  <2>1. /\ at[l] = "serve" /\ GoTo(l, "identify") /\ loaded' = [loaded EXCEPT ![l] = content[model]]
        /\ model' = model /\ partial' = partial /\ content' = content /\ output' = output
        /\ received' = received /\ identity' = identity
    BY <1>2 DEF Serve, files
  <2>2. /\ at' \in [Launches -> Places] /\ raced' \in BOOLEAN
        /\ at'[l] = "identify" /\ \A k \in Launches : k # l => at'[k] = at[k]
        /\ ~raced' => \/ \A k \in Launches : at'[k] = "idle"
                      \/ /\ ~raced
                         /\ \A j, k \in Launches :
                              at'[j] \in Downloading /\ at'[k] \in Downloading => j = k
    <3>1. "identify" \in Places
      BY DEF Places
    <3> QED BY <2>1, <3>1, GoToFacts DEF DownloadInv
  <2>3. content[model] \in Contents /\ loaded \in [Launches -> Contents]
    <3>1. content \in Seq(Contents) /\ model \in DOMAIN content /\ loaded \in [Launches -> Contents]
      BY <1>2 DEF DownloadInv, DownloadTypes
    <3> HIDE DEF Contents
    <3> QED BY <3>1
  <2>4. /\ loaded' \in [Launches -> Contents] /\ loaded'[l] = content[model]
        /\ \A k \in Launches : k # l => loaded'[k] = loaded[k]
    BY <2>1, <2>3
  <2>5. DownloadTypes'
    BY <2>1, <2>2, <2>4 DEF DownloadInv, DownloadTypes
  <2>6. NamesDiffer'
    BY <2>1 DEF DownloadInv, NamesDiffer
  <2>7. HashedOK'
    BY <2>1, <2>2 DEF DownloadInv, HashedOK
  <2>8. DownloadAlone'
    BY <2>1, <2>2 DEF DownloadInv, DownloadAlone, Downloading
  <2>9. ServeOK'
    BY <1>2, <2>1, <2>2, <2>4 DEF DownloadInv, ServeOK
  <2> QED BY <2>5, <2>6, <2>7, <2>8, <2>9 DEF DownloadInv
<1> QED BY <1>1, <1>2

(* The file that has the model's name is hashed for the identity.          *)
LEMMA IdentifyKeeps ==
  ASSUME DownloadInv, NEW l \in Launches, Identify(l)
  PROVE  DownloadInv'
<1>1. CASE model = NoFile
  <2>1. GoTo(l, "idle") /\ UNCHANGED <<files, output, received, loaded, identity>>
    BY <1>1 DEF Identify
  <2>2. "idle" \in Places
    BY DEF Places
  <2> QED BY <2>1, <2>2, WalkKeeps
<1>2. CASE model # NoFile
  <2>1. /\ at[l] = "identify" /\ GoTo(l, "serving")
        /\ identity' = [identity EXCEPT ![l] = content[model]]
        /\ model' = model /\ partial' = partial /\ content' = content /\ output' = output
        /\ received' = received /\ loaded' = loaded
    BY <1>2 DEF Identify, files
  <2>2. /\ at' \in [Launches -> Places] /\ raced' \in BOOLEAN
        /\ at'[l] = "serving" /\ \A k \in Launches : k # l => at'[k] = at[k]
        /\ ~raced' => \/ \A k \in Launches : at'[k] = "idle"
                      \/ /\ ~raced
                         /\ \A j, k \in Launches :
                              at'[j] \in Downloading /\ at'[k] \in Downloading => j = k
    <3>1. "serving" \in Places
      BY DEF Places
    <3> QED BY <2>1, <3>1, GoToFacts DEF DownloadInv
  <2>3. content[model] \in Contents /\ identity \in [Launches -> Contents]
    <3>1. content \in Seq(Contents) /\ model \in DOMAIN content /\ identity \in [Launches -> Contents]
      BY <1>2 DEF DownloadInv, DownloadTypes
    <3> HIDE DEF Contents
    <3> QED BY <3>1
  <2>4. /\ identity' \in [Launches -> Contents] /\ identity'[l] = content[model]
        /\ \A k \in Launches : k # l => identity'[k] = identity[k]
    BY <2>1, <2>3
  <2>5. DownloadTypes'
    BY <2>1, <2>2, <2>4 DEF DownloadInv, DownloadTypes
  <2>6. NamesDiffer'
    BY <2>1 DEF DownloadInv, NamesDiffer
  <2>7. HashedOK'
    BY <2>1, <2>2 DEF DownloadInv, HashedOK
  <2>8. DownloadAlone'
    BY <2>1, <2>2 DEF DownloadInv, DownloadAlone, Downloading
  <2>9. ServeOK'
    BY <1>2, <2>1, <2>2, <2>4 DEF DownloadInv, ServeOK
  <2> QED BY <2>5, <2>6, <2>7, <2>8, <2>9 DEF DownloadInv
<1> QED BY <1>1, <1>2

(* No launch has started.                                                  *)
LEMMA DownloadInitInv == DownloadInit => DownloadInv
<1> SUFFICES ASSUME DownloadInit PROVE DownloadInv
  OBVIOUS
<1>1. /\ at = [l \in Launches |-> "idle"] /\ output = [l \in Launches |-> NoFile]
      /\ received = [l \in Launches |-> <<>>] /\ loaded = [l \in Launches |-> <<>>]
      /\ identity = [l \in Launches |-> <<>>] /\ raced = FALSE /\ partial = NoFile
  BY DEF DownloadInit
<1>2. content \in Seq(Contents) /\ model \in DOMAIN content \cup {NoFile}
      /\ NamesDiffer
  <2>1. Pinned \in Contents /\ <<Other>> \in Contents
    BY PinnedFacts DEF Contents
  <2>2. /\ content \in {<<>>, <<Pinned>>, <<<<Other>>>>}
        /\ model = IF content = <<>> THEN NoFile ELSE 1
    BY DEF DownloadInit
  <2>3. NamesDiffer
    BY <1>1, DownloadAssumption, <2>2 DEF NamesDiffer
  <2>4. CASE content = <<>>
    BY <2>2, <2>3, <2>4
  <2>5. CASE content \in {<<Pinned>>, <<<<Other>>>>}
    <3>0. PICK c \in Contents : content = <<c>>
      BY <2>1, <2>5
    <3> HIDE DEF Contents
    <3>1. content \in Seq(Contents) /\ 1 \in DOMAIN content /\ content # <<>>
      BY <3>0
    <3> QED BY <2>2, <2>3, <3>1
  <2> QED BY <2>2, <2>4, <2>5
<1>3. DownloadTypes
  <2>1. <<>> \in Contents
    BY DEF Contents
  <2> QED BY <1>1, <1>2, <2>1 DEF DownloadTypes, Places
<1>4. HashedOK /\ DownloadAlone /\ ServeOK
  BY <1>1 DEF HashedOK, DownloadAlone, ServeOK, Downloading
<1> QED BY <1>2, <1>3, <1>4 DEF DownloadInv

(* Every step of every launch preserves the invariant.                     *)
LEMMA DownloadNextKeeps == DownloadInv /\ [DownloadNext]_downloadVars => DownloadInv'
<1>1. ASSUME DownloadInv, DownloadNext PROVE DownloadInv'
  <2> PICK l \in Launches :
        \/ \E force \in BOOLEAN : Launch(l, force)
        \/ HashInstalled(l) \/ TakeAdvice(l) \/ Unlink(l) \/ Open(l) \/ Receive(l)
        \/ EndOfStream(l) \/ StreamFails(l) \/ Compare(l) \/ Cleanup(l) \/ Replace(l)
        \/ Serve(l) \/ Identify(l) \/ Kill(l)
    BY <1>1 DEF DownloadNext
  <2> QED BY <1>1, LaunchKeeps, HashInstalledKeeps, TakeAdviceKeeps, UnlinkKeeps, OpenKeeps,
             ReceiveKeeps, EndOfStreamKeeps, StreamFailsKeeps, CompareKeeps, CleanupKeeps,
             ReplaceKeeps, ServeKeeps, IdentifyKeeps, KillKeeps
<1>2. ASSUME DownloadInv, UNCHANGED downloadVars PROVE DownloadInv'
  BY <1>2 DEF DownloadInv, downloadVars, files, DownloadTypes, NamesDiffer, HashedOK,
              DownloadAlone, ServeOK
<1> QED BY <1>1, <1>2

(* The invariant that the two results below rest on.                       *)
THEOREM DownloadInvariance == DownloadSpec => []DownloadInv
<1> QED BY DownloadInitInv, DownloadNextKeeps, PTL DEF DownloadSpec

(* A web server serves the pinned model and says so, whatever was          *)
(* installed, broken off or killed before, unless launches have been       *)
(* downloading at the same time.                                           *)
THEOREM PinnedIsServed == DownloadSpec => []ServedModelIsPinned
<1>1. DownloadInv => ServedModelIsPinned
  BY DEF DownloadInv, ServeOK, ServedModelIsPinned
<1> QED BY <1>1, DownloadInvariance, PTL

(* What any step does to the model, as long as no launches have raced.     *)
LEMMA ModelStep ==
  ASSUME DownloadInv, NEW l \in Launches, ~raced,
         \/ \E force \in BOOLEAN : Launch(l, force)
         \/ HashInstalled(l) \/ TakeAdvice(l) \/ Unlink(l) \/ Open(l) \/ Receive(l)
         \/ EndOfStream(l) \/ StreamFails(l) \/ Compare(l) \/ Cleanup(l) \/ Replace(l)
         \/ Serve(l) \/ Identify(l) \/ Kill(l)
  PROVE  \/ UNCHANGED <<model, content>>
         \/ model' = model /\ (model # NoFile => content'[model] = content[model])
         \/ model' # NoFile /\ content'[model'] = Pinned
         \/ TakeAdvice(l)
<1>1. CASE Open(l)
  BY <1>1, OpenFacts
<1>2. CASE Receive(l)
  <2>1. at[l] = "stream" /\ model' = model
    BY <1>2 DEF Receive
  <2>2. output[l] = partial /\ (model # NoFile => model # partial /\ model \in DOMAIN content)
    BY <2>1 DEF DownloadInv, DownloadAlone, NamesDiffer, DownloadTypes
  <2> QED BY <1>2, <2>1, <2>2, ReceiveFacts
<1>3. CASE Replace(l)
  <2>1. at[l] = "replace" /\ content' = content
    BY <1>3 DEF Replace
  <2>2. partial # NoFile /\ content[partial] = Pinned
    BY <2>1, ReplaceFacts
  <2>3. model' = partial
    BY <1>3, <2>2 DEF Replace
  <2> QED BY <2>1, <2>2, <2>3
<1>4. CASE \/ \E force \in BOOLEAN : Launch(l, force)
           \/ HashInstalled(l) \/ Unlink(l) \/ EndOfStream(l) \/ StreamFails(l) \/ Compare(l)
           \/ Cleanup(l) \/ Serve(l) \/ Identify(l) \/ Kill(l)
  BY <1>4 DEF Launch, HashInstalled, Unlink, EndOfStream, StreamFails, Compare, Cleanup,
              Serve, Identify, Kill, files
<1> QED BY <1>1, <1>2, <1>3, <1>4

(* Without such a race the installed model is replaced only by the pinned  *)
(* one, in one step, or removed by hand; a download that fails, is         *)
(* tampered with or killed leaves the old one.                             *)
THEOREM ModelIsKept == DownloadSpec => OldModelKept
<1>1. DownloadInv /\ [DownloadNext]_downloadVars =>
        [ \/ UNCHANGED <<model, content>> \/ raced \/ raced'
          \/ model' = model /\ (model # NoFile => content'[model] = content[model])
          \/ model' # NoFile /\ content'[model'] = Pinned
          \/ \E l \in Launches : TakeAdvice(l) ]_<<model, content>>
  <2> SUFFICES ASSUME DownloadInv, DownloadNext, ~raced
               PROVE  \/ UNCHANGED <<model, content>>
                      \/ model' = model /\ (model # NoFile => content'[model] = content[model])
                      \/ model' # NoFile /\ content'[model'] = Pinned
                      \/ \E l \in Launches : TakeAdvice(l)
    BY DEF downloadVars, files
  <2> PICK l \in Launches :
        \/ \E force \in BOOLEAN : Launch(l, force)
        \/ HashInstalled(l) \/ TakeAdvice(l) \/ Unlink(l) \/ Open(l) \/ Receive(l)
        \/ EndOfStream(l) \/ StreamFails(l) \/ Compare(l) \/ Cleanup(l) \/ Replace(l)
        \/ Serve(l) \/ Identify(l) \/ Kill(l)
    BY DEF DownloadNext
  <2> QED BY ModelStep
<1> QED BY <1>1, DownloadInvariance, PTL DEF DownloadSpec, OldModelKept

=============================================================================
