--------------------------- MODULE DecisionSession ---------------------------
(***************************************************************************)
(* A DecisionSession and its LlamaCppBackend, called from several threads. *)
(* The backend holds one lock around each of its operations; the session   *)
(* has none, and a choose() is a chain of backend operations with the lock *)
(* given up between them.  The runtime under the lock is the abstract one  *)
(* of FreshOracle, which LlamaRuntime implements.                          *)
(*                                                                         *)
(* _metrics is abstracted to the scoring calls counted since the last      *)
(* reset, by the thread that made them.                                    *)
(***************************************************************************)
EXTENDS PrefixPlan

CONSTANTS Threads, Choosers, Closers,  \* who calls choose and clear_cache, close
          Generators,                  \* who calls generate() of the backend itself
          Prompts,                     \* rows a choose() may compile to
          NoThread,
          Encodes,                     \* bound: tokenizer calls per choose()
          MaxOps                       \* bound: operations per thread

ASSUME SessionAssumption ==
  /\ Choosers \subseteq Threads /\ Closers \subseteq Threads
  /\ Generators \subseteq Threads /\ NoThread \notin Threads
  /\ Encodes \in Nat \ {0} /\ MaxOps \in Nat

VARIABLES
  open, request, verdict, answer,   \* the native runtime
  lock,           \* the thread that holds the backend's lock
  backendClosed,  \* backend._closed, and _runtime is None
  sessionClosed,  \* session._closed
  charged,        \* calls counted in _metrics, per thread
  pc, prompt, encodes, result, budget,  \* of each thread
  overlapped      \* history: another choose() ran during the thread's own

runtime == <<open, request, verdict, answer>>
asked   == <<prompt, overlapped>>
thread  == <<pc, asked, encodes, result, budget>>
vars == <<runtime, lock, backendClosed, sessionClosed, charged, thread>>

Runtime == INSTANCE FreshOracle WITH Requests <- Prompts

Uncharged == [t \in Threads |-> 0]
NoResult == [status |-> "none", rows |-> <<>>, metrics |-> Uncharged]
Error    == [NoResult EXCEPT !.status = "raised"]
Done     == [NoResult EXCEPT !.status = "ok"]

Init ==
  /\ Runtime!Init
  /\ lock = NoThread
  /\ backendClosed = FALSE /\ sessionClosed = FALSE
  /\ charged = Uncharged
  /\ pc = [t \in Threads |-> "ready"]
  /\ prompt = [t \in Threads |-> <<>>]
  /\ encodes = [t \in Threads |-> 0]
  /\ result = [t \in Threads |-> NoResult]
  /\ budget = [t \in Threads |-> MaxOps]
  /\ overlapped = [t \in Threads |-> FALSE]

-----------------------------------------------------------------------------
GoTo(t, l) == pc' = [pc EXCEPT ![t] = l] /\ UNCHANGED result

EndWith(t, r) ==
  /\ pc' = [pc EXCEPT ![t] = "ready"]
  /\ result' = [result EXCEPT ![t] = r]

(* An operation starts; the session looks at its own flag, without a lock, *)
(* and raises or (for close) returns at once when it is closed.            *)
Start(t, section, whenClosed) ==
  /\ pc[t] = "ready" /\ budget[t] > 0
  /\ budget' = [budget EXCEPT ![t] = @ - 1]
  /\ IF sessionClosed
       THEN EndWith(t, whenClosed)
       ELSE /\ pc' = [pc EXCEPT ![t] = section]
            /\ result' = [result EXCEPT ![t] = NoResult]
  /\ UNCHANGED <<runtime, lock, backendClosed, sessionClosed, charged>>

Choosing == {t \in Threads : pc[t] \in {"reset", "compile", "score", "native", "read"}}

Choose(t) ==
  /\ t \in Choosers
  /\ \E rows \in Prompts : prompt' = [prompt EXCEPT ![t] = rows]
  /\ encodes' = [encodes EXCEPT ![t] = Encodes]
  /\ overlapped' = [u \in Threads |-> IF u = t THEN Choosing # {} ELSE overlapped[u] \/ u \in Choosing]
  /\ Start(t, "reset", Error)

(* candidates or state that make no ChoiceRequest: the backend is not       *)
(* touched, not even its metrics.                                           *)
RejectRequest(t) ==
  /\ t \in Choosers /\ pc[t] = "ready" /\ budget[t] > 0
  /\ ~sessionClosed
  /\ budget' = [budget EXCEPT ![t] = @ - 1]
  /\ EndWith(t, Error)
  /\ UNCHANGED <<runtime, lock, backendClosed, sessionClosed, charged, asked, encodes>>

ClearCache(t) == t \in Choosers /\ Start(t, "clear", Error) /\ UNCHANGED <<asked, encodes>>

Close(t) == t \in Closers /\ Start(t, "close", Done) /\ UNCHANGED <<asked, encodes>>

(* The generation baseline shares the backend, and knows no session.       *)
Generate(t) ==
  /\ t \in Generators /\ pc[t] = "ready" /\ budget[t] > 0
  /\ budget' = [budget EXCEPT ![t] = @ - 1]
  /\ pc' = [pc EXCEPT ![t] = "generate"] /\ result' = [result EXCEPT ![t] = NoResult]
  /\ UNCHANGED <<runtime, lock, backendClosed, sessionClosed, charged, asked, encodes>>

-----------------------------------------------------------------------------
(* Sections under the backend's lock.                                      *)
Sections == {"reset", "compile", "score", "read", "clear", "generate", "close"}

Acquire(t) ==
  /\ pc[t] \in Sections /\ lock = NoThread
  /\ lock' = t
  /\ UNCHANGED <<runtime, backendClosed, sessionClosed, charged, thread>>

Inside(t, section) == lock = t /\ pc[t] = section

Release == lock' = NoThread

FindClosedHolding(t) ==   \* faulty: the raise skips the release of the lock
  /\ lock = t /\ pc[t] \in Sections \ {"close"} /\ backendClosed
  /\ EndWith(t, Error)
  /\ UNCHANGED <<runtime, lock, backendClosed, sessionClosed, charged, asked, encodes, budget>>

(* _runtime_or_raise: whatever the section, a closed backend raises.       *)
FindClosed(t) ==
  /\ lock = t /\ pc[t] \in Sections \ {"close"} /\ backendClosed
  /\ EndWith(t, Error) /\ Release
  /\ UNCHANGED <<runtime, backendClosed, sessionClosed, charged, asked, encodes, budget>>

ResetNothing(t) ==   \* faulty: the metrics of the last choose() stay
  /\ Inside(t, "reset") /\ ~backendClosed
  /\ GoTo(t, "compile") /\ Release
  /\ UNCHANGED <<runtime, backendClosed, sessionClosed, charged, asked, encodes, budget>>

ResetMetrics(t) ==
  /\ Inside(t, "reset") /\ ~backendClosed
  /\ charged' = Uncharged
  /\ GoTo(t, "compile") /\ Release
  /\ UNCHANGED <<runtime, backendClosed, sessionClosed, asked, encodes, budget>>

(* One tokenizer call; compiling may also find the prompt unusable.        *)
Encode(t) ==
  /\ Inside(t, "compile") /\ ~backendClosed
  /\ encodes' = [encodes EXCEPT ![t] = @ - 1]
  /\ \/ GoTo(t, IF encodes[t] > 1 THEN "compile" ELSE "score")
     \/ EndWith(t, Error)
  /\ Release
  /\ UNCHANGED <<runtime, backendClosed, sessionClosed, charged, asked, budget>>

(* The lock is kept from the first native operation to the answer.         *)
BeginScore(t) ==
  /\ Inside(t, "score") /\ ~backendClosed
  /\ Runtime!Ask(prompt[t])
  /\ GoTo(t, "native")
  /\ UNCHANGED <<lock, backendClosed, sessionClosed, charged, asked, encodes, budget>>

EndScore(t) ==
  /\ pc[t] = "native"
  /\ \/ /\ Runtime!Answer
        /\ pc' = [pc EXCEPT ![t] = "read"]
        /\ result' = [result EXCEPT ![t].rows = answer']
        /\ charged' = [charged EXCEPT ![t] = @ + 1]
     \/ /\ Runtime!Fail
        /\ EndWith(t, Error)
        /\ charged' \in {charged, [charged EXCEPT ![t] = @ + 1]}
  /\ Release
  /\ UNCHANGED <<backendClosed, sessionClosed, asked, encodes, budget>>

BeginGenerateUnlocked(t) ==   \* faulty: the lock covers the check only
  /\ Inside(t, "generate") /\ ~backendClosed
  /\ GoTo(t, "generating") /\ Release
  /\ UNCHANGED <<runtime, backendClosed, sessionClosed, charged, asked, encodes, budget>>

(* generate() keeps the lock likewise.  It has a native context of its own *)
(* and counts nothing.                                                     *)
BeginGenerate(t) ==
  /\ Inside(t, "generate") /\ ~backendClosed
  /\ GoTo(t, "generating")
  /\ UNCHANGED <<runtime, lock, backendClosed, sessionClosed, charged, asked, encodes, budget>>

EndGenerate(t) ==
  /\ pc[t] = "generating"
  /\ \E outcome \in {Done, Error} : EndWith(t, outcome)
  /\ Release
  /\ UNCHANGED <<runtime, backendClosed, sessionClosed, charged, asked, encodes, budget>>

ReadLastAnswer(t) ==   \* faulty: the rows are fetched after the lock was given up
  /\ Inside(t, "read") /\ ~backendClosed
  /\ EndWith(t, [status |-> "ok", rows |-> answer, metrics |-> charged])
  /\ Release
  /\ UNCHANGED <<runtime, backendClosed, sessionClosed, charged, asked, encodes, budget>>

ReadMetrics(t) ==
  /\ Inside(t, "read") /\ ~backendClosed
  /\ EndWith(t, [status |-> "ok", rows |-> result[t].rows, metrics |-> charged])
  /\ Release
  /\ UNCHANGED <<runtime, backendClosed, sessionClosed, charged, asked, encodes, budget>>

Clear(t) ==
  /\ Inside(t, "clear") /\ ~backendClosed
  /\ EndWith(t, Done) /\ Release
  /\ UNCHANGED <<runtime, backendClosed, sessionClosed, charged, asked, encodes, budget>>

(* The backend is marked closed before the runtime is freed, and stays so   *)
(* when freeing it raises.                                                  *)
FreeRuntime(t) ==
  /\ Inside(t, "close") /\ ~backendClosed
  /\ backendClosed' = TRUE
  /\ \/ Runtime!Shut /\ GoTo(t, "mark")
     \/ EndWith(t, Error) /\ UNCHANGED runtime
  /\ Release
  /\ UNCHANGED <<sessionClosed, charged, asked, encodes, budget>>

AlreadyFreed(t) ==
  /\ Inside(t, "close") /\ backendClosed
  /\ GoTo(t, "mark") /\ Release
  /\ UNCHANGED <<runtime, backendClosed, sessionClosed, charged, asked, encodes, budget>>

MarkClosedFirst(t) ==   \* faulty: the session's flag does not wait for the backend
  /\ pc[t] \in {"close", "mark"} /\ lock # t
  /\ sessionClosed' = TRUE
  /\ EndWith(t, Done)
  /\ UNCHANGED <<runtime, lock, backendClosed, charged, asked, encodes, budget>>

MarkClosed(t) ==
  /\ pc[t] = "mark"
  /\ sessionClosed' = TRUE
  /\ EndWith(t, Done)
  /\ UNCHANGED <<runtime, lock, backendClosed, charged, asked, encodes, budget>>

Continue(t) ==
  \/ Acquire(t) \/ FindClosed(t) \/ ResetMetrics(t) \/ Encode(t)
  \/ BeginScore(t) \/ EndScore(t) \/ ReadMetrics(t) \/ Clear(t)
  \/ BeginGenerate(t) \/ EndGenerate(t)
  \/ FreeRuntime(t) \/ AlreadyFreed(t) \/ MarkClosed(t)

Next == \E t \in Threads :
  Choose(t) \/ RejectRequest(t) \/ ClearCache(t) \/ Close(t) \/ Generate(t) \/ Continue(t)

(* A thread inside an operation keeps running; the lock may be refused any  *)
(* number of times, but the others call only finitely often.                *)
Spec == Init /\ [][Next]_vars /\ \A t \in Threads : WF_vars(Continue(t))

-----------------------------------------------------------------------------
(* Properties *)

(* A choose() that returns carries the fresh evaluation of the prompt it    *)
(* compiled itself, never the answer to another thread's call.              *)
AnswersOwnPrompt ==
  \A t \in Threads : result[t].rows # <<>> =>
    result[t].rows = [r \in DOMAIN prompt[t] |-> Fresh(prompt[t][r])]

(* Native memory is touched by one thread at a time and never once close()  *)
(* has begun to free it; and a session that reports itself closed leaves    *)
(* no backend behind that a later call could use.                           *)
NoUseAfterFree ==
  LET native == {t \in Threads : pc[t] \in {"native", "generating"}} IN
  /\ \A t, u \in native : t = u
  /\ \A t \in native : lock = t /\ open /\ ~backendClosed
  /\ sessionClosed => backendClosed
  /\ backendClosed => verdict # "pending"

(* The metrics attached to a decision count the scoring call of that        *)
(* decision, once, and no other: whatever ran, failed or was closed before, *)
(* as long as no other thread was choosing at the same time.                *)
MetricsOfOwnCall ==
  \A t \in Threads : result[t].status = "ok" /\ result[t].rows # <<>> /\ ~overlapped[t] =>
    result[t].metrics = [Uncharged EXCEPT ![t] = 1]

(* Every operation returns or raises, close() included, whatever the other  *)
(* threads are in the middle of.                                            *)
EveryCallReturns == \A t \in Threads : pc[t] # "ready" ~> pc[t] = "ready"

-----------------------------------------------------------------------------
(* The inductive invariant behind the first three properties.              *)

TypesOK ==
  /\ open \in BOOLEAN /\ backendClosed \in BOOLEAN /\ sessionClosed \in BOOLEAN
  /\ verdict \in {"pending", "ok", "raised"}
  /\ lock \in Threads \cup {NoThread}
  /\ pc \in [Threads -> Sections \cup {"ready", "native", "generating", "mark"}]
  /\ DOMAIN prompt = Threads /\ DOMAIN result = Threads
  /\ overlapped \in [Threads -> BOOLEAN] /\ charged \in [Threads -> Nat]
  /\ \A t \in Threads : DOMAIN result[t] = {"status", "rows", "metrics"}

(* Whoever is in native code holds the lock, a call is pending only while  *)
(* somebody is, and a closed session has a closed backend.                 *)
LockOK ==
  /\ \A t \in Threads : pc[t] \in {"native", "generating"} =>
       lock = t /\ open /\ ~backendClosed
  /\ verdict = "pending" => \E t \in Threads : pc[t] = "native"
  /\ ~backendClosed => open
  /\ \A t \in Threads : pc[t] = "mark" => backendClosed
  /\ sessionClosed => backendClosed

(* A call in native code is about the prompt of its own thread.            *)
AnswersOK ==
  /\ \A t \in Threads : pc[t] = "native" => request = prompt[t]
  /\ AnswersOwnPrompt

(* Threads that choose at the same time know it; one that does not has the *)
(* counters to itself.                                                     *)
MetricsOK ==
  /\ \A t, u \in Choosing : t # u => overlapped[t]
  /\ \A t \in Threads :
       /\ pc[t] # "ready" => result[t].status = "none"
       /\ pc[t] \in {"compile", "score", "native"} /\ ~overlapped[t] => charged = Uncharged
       /\ pc[t] = "read" /\ ~overlapped[t] => charged = [Uncharged EXCEPT ![t] = 1]
  /\ MetricsOfOwnCall

IInv == TypesOK /\ LockOK /\ AnswersOK /\ MetricsOK
=============================================================================
