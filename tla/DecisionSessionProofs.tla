----------------------- MODULE DecisionSessionProofs -----------------------
(***************************************************************************)
(* Proofs about DecisionSession, for every set of threads, every prompt    *)
(* and any number of operations.                                           *)
(*                                                                         *)
(* IInv is preserved by every step; each lemma below proves it for one     *)
(* action, one step per part of the invariant.                             *)
(***************************************************************************)
EXTENDS DecisionSession, TLAPS

USE DEF runtime, asked, thread, vars, Sections, Release, Inside

-----------------------------------------------------------------------------
(* A step that is none of a decision keeps what is known about decisions.   *)
LEMMA QuietStep ==
  ASSUME IInv, NEW t \in Threads,
         UNCHANGED <<request, asked, charged>>, TypesOK',
         \A u \in Threads : u # t => pc'[u] = pc[u] /\ result'[u] = result[u],
         pc'[t] \notin {"reset", "compile", "score", "native", "read"},
         pc'[t] # "ready" => result'[t].status = "none",
         result'[t] = result[t] \/ result'[t].rows = <<>>
  PROVE  AnswersOK' /\ MetricsOK'
<1>1. AnswersOK'
  <2>1. \A u \in Threads : pc'[u] = "native" => pc[u] = "native"
    OBVIOUS
  <2>2. (\A u \in Threads : pc[u] = "native" => request = prompt[u])'
    BY <2>1 DEF IInv, AnswersOK
  <2>3. \A u \in Threads : result'[u] = result[u] \/ result'[u].rows = <<>>
    OBVIOUS
  <2>4. AnswersOwnPrompt'
    BY <2>3 DEF IInv, AnswersOK, AnswersOwnPrompt
  <2> QED BY <2>2, <2>4 DEF AnswersOK
<1>2. Choosing' \subseteq Choosing
  BY DEF Choosing
<1>3. MetricsOK'
  <2>1. \A u, w \in Choosing' : u # w => overlapped'[u]
    BY <1>2 DEF IInv, MetricsOK
  <2>2. \A u \in Threads :
          /\ pc'[u] # "ready" => result'[u].status = "none"
          /\ pc'[u] \in {"compile", "score", "native"} /\ ~overlapped'[u]
               => charged' = Uncharged
          /\ pc'[u] = "read" /\ ~overlapped'[u] => charged' = [Uncharged EXCEPT ![u] = 1]
    BY DEF IInv, MetricsOK
  <2>3. MetricsOfOwnCall'
    BY DEF IInv, MetricsOK, MetricsOfOwnCall, Uncharged
  <2> QED BY <2>1, <2>2, <2>3 DEF MetricsOK, Uncharged
<1> QED BY <1>1, <1>3

(* A choice begins, or is refused by a closed session: whoever is choosing *)
(* already learns of it.                                                   *)
LEMMA ChooseKeeps ==
  ASSUME IInv, NEW t \in Threads, Choose(t)
  PROVE  IInv'
<1>1. TypesOK'
  BY DEF IInv, TypesOK, Choose, Start, EndWith, NoResult, Error
<1>2. LockOK'
  BY DEF IInv, TypesOK, LockOK, Choose, Start, EndWith
<1>3. AnswersOK'
  BY DEF IInv, TypesOK, AnswersOK, AnswersOwnPrompt, Choose, Start, EndWith, NoResult, Error
<1>4. MetricsOK'
  BY DEF IInv, TypesOK, LockOK, MetricsOK, MetricsOfOwnCall, Choosing, Choose, Start,
    EndWith, NoResult, Error, Uncharged
<1> QED BY <1>1, <1>2, <1>3, <1>4 DEF IInv

(* A request that is refused leaves nothing behind.                        *)
LEMMA RejectRequestKeeps ==
  ASSUME IInv, NEW t \in Threads, RejectRequest(t)
  PROVE  IInv'
<1>1. TypesOK'
  BY DEF IInv, TypesOK, RejectRequest, EndWith, NoResult, Error
<1>2. LockOK'
  BY DEF IInv, LockOK, RejectRequest, EndWith
<1>3. AnswersOK'
  BY DEF IInv, AnswersOK, AnswersOwnPrompt, RejectRequest, EndWith, NoResult, Error
<1>4. MetricsOK'
  BY DEF IInv, MetricsOK, MetricsOfOwnCall, Choosing, RejectRequest, EndWith, Error
<1> QED BY <1>1, <1>2, <1>3, <1>4 DEF IInv

(* clear_cache() begins.                                                   *)
LEMMA ClearCacheKeeps ==
  ASSUME IInv, NEW t \in Threads, ClearCache(t)
  PROVE  IInv'
<1>1. TypesOK'
  BY DEF IInv, TypesOK, ClearCache, Start, EndWith, NoResult, Error
<1>2. LockOK'
  BY DEF IInv, TypesOK, LockOK, ClearCache, Start, EndWith
<1>3. /\ UNCHANGED <<request, asked, charged>>
      /\ \A u \in Threads : u # t => pc'[u] = pc[u] /\ result'[u] = result[u]
  BY DEF IInv, TypesOK, ClearCache, Start, EndWith, NoResult, Error, Done, Uncharged
<1>4. /\ pc'[t] \notin {"reset", "compile", "score", "native", "read"}
      /\ pc'[t] # "ready" => result'[t].status = "none"
      /\ result'[t] = result[t] \/ result'[t].rows = <<>>
  BY DEF IInv, TypesOK, MetricsOK, ClearCache, Start, EndWith, NoResult, Error, Done,
    Uncharged
<1> QED BY <1>1, <1>2, <1>3, <1>4, QuietStep DEF IInv

(* close() begins.                                                         *)
LEMMA CloseKeeps ==
  ASSUME IInv, NEW t \in Threads, Close(t)
  PROVE  IInv'
<1>1. TypesOK'
  BY DEF IInv, TypesOK, Close, Start, EndWith, NoResult, Done
<1>2. LockOK'
  BY DEF IInv, TypesOK, LockOK, Close, Start, EndWith
<1>3. /\ UNCHANGED <<request, asked, charged>>
      /\ \A u \in Threads : u # t => pc'[u] = pc[u] /\ result'[u] = result[u]
  BY DEF IInv, TypesOK, Close, Start, EndWith, NoResult, Error, Done, Uncharged
<1>4. /\ pc'[t] \notin {"reset", "compile", "score", "native", "read"}
      /\ pc'[t] # "ready" => result'[t].status = "none"
      /\ result'[t] = result[t] \/ result'[t].rows = <<>>
  BY DEF IInv, TypesOK, MetricsOK, Close, Start, EndWith, NoResult, Error, Done, Uncharged
<1> QED BY <1>1, <1>2, <1>3, <1>4, QuietStep DEF IInv

(* generate() begins.                                                      *)
LEMMA GenerateKeeps ==
  ASSUME IInv, NEW t \in Threads, Generate(t)
  PROVE  IInv'
<1>1. TypesOK'
  BY DEF IInv, TypesOK, Generate, NoResult
<1>2. LockOK'
  BY DEF IInv, LockOK, Generate
<1>3. AnswersOK'
  BY DEF IInv, AnswersOK, AnswersOwnPrompt, Generate, NoResult
<1>4. MetricsOK'
  BY DEF IInv, TypesOK, MetricsOK, MetricsOfOwnCall, Choosing, Generate, NoResult
<1> QED BY <1>1, <1>2, <1>3, <1>4 DEF IInv

(* The lock is taken only when nobody is in native code.                   *)
LEMMA AcquireKeeps ==
  ASSUME IInv, NEW t \in Threads, Acquire(t)
  PROVE  IInv'
<1>1. TypesOK'
  BY DEF IInv, TypesOK, Acquire
<1>2. LockOK'
  BY SessionAssumption DEF IInv, LockOK, Acquire
<1>3. AnswersOK'
  BY DEF IInv, AnswersOK, AnswersOwnPrompt, Acquire
<1>4. MetricsOK'
  BY DEF IInv, MetricsOK, MetricsOfOwnCall, Choosing, Acquire
<1> QED BY <1>1, <1>2, <1>3, <1>4 DEF IInv

(* A closed backend raises, and the lock is given up.                      *)
LEMMA FindClosedKeeps ==
  ASSUME IInv, NEW t \in Threads, FindClosed(t)
  PROVE  IInv'
<1>1. TypesOK'
  BY DEF IInv, TypesOK, FindClosed, EndWith, NoResult, Error
<1>2. LockOK'
  BY DEF IInv, LockOK, FindClosed, EndWith
<1>3. AnswersOK'
  BY DEF IInv, AnswersOK, AnswersOwnPrompt, FindClosed, EndWith, NoResult, Error
<1>4. MetricsOK'
  BY DEF IInv, TypesOK, MetricsOK, MetricsOfOwnCall, Choosing, FindClosed, EndWith, Error,
    Uncharged
<1> QED BY <1>1, <1>2, <1>3, <1>4 DEF IInv

(* The counters are cleared: another thread that is choosing knows it is   *)
(* not alone.                                                              *)
LEMMA ResetMetricsKeeps ==
  ASSUME IInv, NEW t \in Threads, ResetMetrics(t)
  PROVE  IInv'
<1>1. TypesOK'
  BY DEF IInv, TypesOK, ResetMetrics, GoTo, Uncharged
<1>2. LockOK'
  BY DEF IInv, LockOK, ResetMetrics, GoTo
<1>3. AnswersOK'
  BY DEF IInv, AnswersOK, AnswersOwnPrompt, ResetMetrics, GoTo
<1>4. MetricsOK'
  BY DEF IInv, MetricsOK, MetricsOfOwnCall, Choosing, ResetMetrics, GoTo
<1> QED BY <1>1, <1>2, <1>3, <1>4 DEF IInv

(* A tokenizer call.                                                       *)
LEMMA EncodeKeeps ==
  ASSUME IInv, NEW t \in Threads, Encode(t)
  PROVE  IInv'
<1>1. TypesOK'
  BY DEF IInv, TypesOK, Encode, GoTo, EndWith, NoResult, Error
<1>2. LockOK'
  BY DEF IInv, TypesOK, LockOK, Encode, GoTo, EndWith
<1>3. AnswersOK'
  BY SessionAssumption DEF IInv, TypesOK, AnswersOK, AnswersOwnPrompt, Encode, GoTo,
    EndWith, NoResult, Error
<1>4. MetricsOK'
  BY SessionAssumption DEF IInv, TypesOK, MetricsOK, MetricsOfOwnCall, Choosing, Encode,
    GoTo, EndWith, NoResult, Error, Uncharged
<1> QED BY <1>1, <1>2, <1>3, <1>4 DEF IInv

(* Native scoring begins, on the prompt of the thread itself.              *)
LEMMA BeginScoreKeeps ==
  ASSUME IInv, NEW t \in Threads, BeginScore(t)
  PROVE  IInv'
<1>1. TypesOK'
  BY DEF IInv, TypesOK, BeginScore, GoTo, Runtime!Ask
<1>2. LockOK'
  BY DEF IInv, TypesOK, LockOK, BeginScore, GoTo, Runtime!Ask
<1>3. AnswersOK'
  BY DEF IInv, LockOK, AnswersOK, AnswersOwnPrompt, BeginScore, GoTo, Runtime!Ask
<1>4. MetricsOK'
  BY DEF IInv, MetricsOK, MetricsOfOwnCall, Choosing, BeginScore, GoTo
<1> QED BY <1>1, <1>2, <1>3, <1>4 DEF IInv

(* Native scoring ends; no other thread can have asked meanwhile.          *)
LEMMA EndScoreKeeps ==
  ASSUME IInv, NEW t \in Threads, EndScore(t)
  PROVE  IInv'
<1>1. TypesOK'
  BY SessionAssumption DEF IInv, TypesOK, EndScore, EndWith, NoResult, Error, Uncharged,
    Runtime!Answer, Runtime!Fail
<1>2. LockOK'
  BY DEF IInv, TypesOK, LockOK, EndScore, EndWith, Runtime!Answer, Runtime!Fail
<1>3. \A u \in Threads : u # t => pc[u] # "native"
  BY DEF IInv, LockOK, EndScore
<1>4. /\ \A u \in Threads : u # t => pc'[u] = pc[u] /\ result'[u] = result[u]
      /\ pc[t] = "native" /\ UNCHANGED <<prompt, overlapped, request>>
  BY DEF IInv, TypesOK, EndScore, EndWith, Runtime!Answer, Runtime!Fail
<1>5. \A tokens : Runtime!Fresh(tokens) = Fresh(tokens)
  BY DEF Fresh, FreshAt, Runtime!Fresh, Runtime!FreshAt
<1>6. \/ /\ pc'[t] = "read"
         /\ result'[t].rows = [r \in DOMAIN request |-> Fresh(request[r])]
         /\ result'[t].status = result[t].status
         /\ charged' = [charged EXCEPT ![t] = @ + 1]
      \/ pc'[t] = "ready" /\ result'[t] = Error
  BY <1>5 DEF IInv, TypesOK, EndScore, EndWith, Runtime!Answer
<1>7. result'[t] = Error => result'[t].rows = <<>> /\ result'[t].status = "raised"
  BY DEF Error, NoResult
<1>8. AnswersOK'
  BY <1>4, <1>6, <1>7 DEF IInv, AnswersOK, AnswersOwnPrompt
<1>9. MetricsOK'
  <2>1. \A u, w \in Choosing' : u # w => overlapped'[u]
    BY <1>4 DEF IInv, MetricsOK, Choosing
  <2>2. \A u \in Threads : u # t /\ u \in Choosing => overlapped[u] /\ overlapped[t]
    BY <1>4 DEF IInv, MetricsOK, Choosing
  <2>3. ASSUME NEW u \in Threads
        PROVE  /\ pc'[u] # "ready" => result'[u].status = "none"
               /\ pc'[u] \in {"compile", "score", "native"} /\ ~overlapped'[u]
                    => charged' = Uncharged'
               /\ pc'[u] = "read" /\ ~overlapped'[u]
                    => charged' = [Uncharged' EXCEPT ![u] = 1]
    <3>1. CASE u # t
      BY <1>4, <3>1 DEF IInv, MetricsOK, Choosing
    <3>2. CASE u = t /\ pc'[t] = "ready"
      BY <3>2
    <3>3. CASE u = t /\ pc'[t] = "read"
      <4>1. ~overlapped[t] => charged = Uncharged
        BY <1>4 DEF IInv, MetricsOK
      <4>2. charged' = [charged EXCEPT ![t] = @ + 1] /\ result'[t].status = "none"
        BY <1>4, <1>6, <3>3 DEF IInv, MetricsOK
      <4>3. Uncharged[t] + 1 = 1
        BY DEF Uncharged
      <4>4. ~overlapped[t] => charged' = [Uncharged EXCEPT ![t] = 1]
        BY <4>1, <4>2, <4>3
      <4> QED BY <1>4, <3>3, <4>2, <4>4
    <3> QED BY <1>6, <3>1, <3>2, <3>3
  <2>4. MetricsOfOwnCall'
    BY <1>4, <1>6, <1>7 DEF IInv, MetricsOK, MetricsOfOwnCall
  <2> QED BY <2>1, <2>3, <2>4 DEF MetricsOK
<1> QED BY <1>1, <1>2, <1>8, <1>9 DEF IInv

(* The decision is returned with the counters as they are.                 *)
LEMMA ReadMetricsKeeps ==
  ASSUME IInv, NEW t \in Threads, ReadMetrics(t)
  PROVE  IInv'
<1>1. TypesOK'
  BY DEF IInv, TypesOK, ReadMetrics, EndWith
<1>2. LockOK'
  BY DEF IInv, LockOK, ReadMetrics, EndWith
<1>3. AnswersOK'
  BY DEF IInv, AnswersOK, AnswersOwnPrompt, ReadMetrics, EndWith
<1>4. MetricsOK'
  BY DEF IInv, TypesOK, MetricsOK, MetricsOfOwnCall, Choosing, ReadMetrics, EndWith
<1> QED BY <1>1, <1>2, <1>3, <1>4 DEF IInv

(* The cache is cleared.                                                   *)
LEMMA ClearKeeps ==
  ASSUME IInv, NEW t \in Threads, Clear(t)
  PROVE  IInv'
<1>1. TypesOK'
  BY DEF IInv, TypesOK, Clear, EndWith, NoResult, Done
<1>2. LockOK'
  BY DEF IInv, LockOK, Clear, EndWith
<1>3. AnswersOK'
  BY DEF IInv, AnswersOK, AnswersOwnPrompt, Clear, EndWith, NoResult, Done
<1>4. MetricsOK'
  BY DEF IInv, TypesOK, MetricsOK, MetricsOfOwnCall, Choosing, Clear, EndWith, NoResult,
    Done
<1> QED BY <1>1, <1>2, <1>3, <1>4 DEF IInv

(* Native generation begins.                                               *)
LEMMA BeginGenerateKeeps ==
  ASSUME IInv, NEW t \in Threads, BeginGenerate(t)
  PROVE  IInv'
<1>1. TypesOK'
  BY DEF IInv, TypesOK, BeginGenerate, GoTo
<1>2. LockOK'
  BY DEF IInv, LockOK, BeginGenerate, GoTo
<1>3. AnswersOK'
  BY DEF IInv, AnswersOK, AnswersOwnPrompt, BeginGenerate, GoTo
<1>4. MetricsOK'
  BY DEF IInv, MetricsOK, MetricsOfOwnCall, Choosing, BeginGenerate, GoTo
<1> QED BY <1>1, <1>2, <1>3, <1>4 DEF IInv

(* Native generation ends.                                                 *)
LEMMA EndGenerateKeeps ==
  ASSUME IInv, NEW t \in Threads, EndGenerate(t)
  PROVE  IInv'
<1>1. TypesOK'
  BY DEF IInv, TypesOK, EndGenerate, EndWith, NoResult, Error, Done
<1>2. LockOK'
  BY DEF IInv, TypesOK, LockOK, EndGenerate, EndWith
<1>3. AnswersOK'
  BY DEF IInv, AnswersOK, AnswersOwnPrompt, EndGenerate, EndWith, NoResult, Error, Done
<1>4. MetricsOK'
  BY DEF IInv, TypesOK, MetricsOK, MetricsOfOwnCall, Choosing, EndGenerate, EndWith,
    NoResult, Error, Done, Uncharged
<1> QED BY <1>1, <1>2, <1>3, <1>4 DEF IInv

(* The runtime is freed, by the only thread that holds the lock.           *)
LEMMA FreeRuntimeKeeps ==
  ASSUME IInv, NEW t \in Threads, FreeRuntime(t)
  PROVE  IInv'
<1>1. TypesOK'
  BY DEF IInv, TypesOK, FreeRuntime, GoTo, EndWith, NoResult, Error, Runtime!Shut
<1>2. LockOK'
  BY DEF IInv, TypesOK, LockOK, FreeRuntime, GoTo, EndWith, Runtime!Shut
<1>3. /\ UNCHANGED <<request, asked, charged>>
      /\ \A u \in Threads : u # t => pc'[u] = pc[u] /\ result'[u] = result[u]
  BY DEF IInv, TypesOK, FreeRuntime, GoTo, EndWith, NoResult, Error, Uncharged, Runtime!Shut
<1>4. /\ pc'[t] \notin {"reset", "compile", "score", "native", "read"}
      /\ pc'[t] # "ready" => result'[t].status = "none"
      /\ result'[t] = result[t] \/ result'[t].rows = <<>>
  BY DEF IInv, TypesOK, MetricsOK, FreeRuntime, GoTo, EndWith, NoResult, Error, Uncharged,
    Runtime!Shut
<1> QED BY <1>1, <1>2, <1>3, <1>4, QuietStep DEF IInv

(* close() finds the backend closed.                                       *)
LEMMA AlreadyFreedKeeps ==
  ASSUME IInv, NEW t \in Threads, AlreadyFreed(t)
  PROVE  IInv'
<1>1. TypesOK'
  BY DEF IInv, TypesOK, AlreadyFreed, GoTo
<1>2. LockOK'
  BY DEF IInv, LockOK, AlreadyFreed, GoTo
<1>3. AnswersOK'
  BY DEF IInv, AnswersOK, AnswersOwnPrompt, AlreadyFreed, GoTo
<1>4. MetricsOK'
  BY DEF IInv, MetricsOK, MetricsOfOwnCall, Choosing, AlreadyFreed, GoTo
<1> QED BY <1>1, <1>2, <1>3, <1>4 DEF IInv

(* The session is marked closed after its backend.                         *)
LEMMA MarkClosedKeeps ==
  ASSUME IInv, NEW t \in Threads, MarkClosed(t)
  PROVE  IInv'
<1>1. TypesOK'
  BY DEF IInv, TypesOK, MarkClosed, EndWith, NoResult, Done
<1>2. LockOK'
  BY DEF IInv, LockOK, MarkClosed, EndWith
<1>3. AnswersOK'
  BY DEF IInv, AnswersOK, AnswersOwnPrompt, MarkClosed, EndWith, NoResult, Done
<1>4. MetricsOK'
  BY DEF IInv, TypesOK, MetricsOK, MetricsOfOwnCall, Choosing, MarkClosed, EndWith,
    NoResult, Done
<1> QED BY <1>1, <1>2, <1>3, <1>4 DEF IInv

(* Nothing happens.                                                        *)
LEMMA StutterKeeps == ASSUME IInv, UNCHANGED vars PROVE IInv'
<1>1. TypesOK'
  BY DEF IInv, TypesOK
<1>2. LockOK'
  BY DEF IInv, LockOK
<1>3. AnswersOK'
  BY DEF IInv, AnswersOK, AnswersOwnPrompt
<1>4. MetricsOK'
  BY DEF IInv, MetricsOK, MetricsOfOwnCall, Choosing, Uncharged
<1> QED BY <1>1, <1>2, <1>3, <1>4 DEF IInv

(* A new session on a new backend.                                         *)
LEMMA InitIInv == Init => IInv
<1> SUFFICES ASSUME Init PROVE IInv
  OBVIOUS
<1> USE DEF Init, Runtime!Init
<1>1. TypesOK
  BY DEF TypesOK, NoResult, Uncharged
<1>2. LockOK
  BY DEF LockOK
<1>3. AnswersOK
  BY DEF AnswersOK, AnswersOwnPrompt, NoResult
<1>4. MetricsOK
  BY DEF MetricsOK, MetricsOfOwnCall, Choosing, NoResult
<1> QED BY <1>1, <1>2, <1>3, <1>4 DEF IInv

(* Every step of every thread preserves the invariant.                     *)
LEMMA NextKeeps == IInv /\ [Next]_vars => IInv'
<1> SUFFICES ASSUME IInv, [Next]_vars PROVE IInv'
  OBVIOUS
<1>1. CASE UNCHANGED vars
  BY <1>1, StutterKeeps
<1>2. ASSUME NEW t \in Threads,
             \/ Choose(t)
             \/ RejectRequest(t)
             \/ ClearCache(t)
             \/ Close(t)
             \/ Generate(t)
      PROVE  IInv'
  BY <1>2, ChooseKeeps, RejectRequestKeeps, ClearCacheKeeps, CloseKeeps, GenerateKeeps
<1>3. ASSUME NEW t \in Threads, Continue(t) PROVE IInv'
  BY <1>3, AcquireKeeps, FindClosedKeeps, ResetMetricsKeeps, EncodeKeeps, BeginScoreKeeps,
    EndScoreKeeps, ReadMetricsKeeps, ClearKeeps, BeginGenerateKeeps, EndGenerateKeeps,
    FreeRuntimeKeeps, AlreadyFreedKeeps, MarkClosedKeeps DEF Continue
<1> QED BY <1>1, <1>2, <1>3 DEF Next

(* The inductive invariant holds throughout.                               *)
THEOREM Invariance == Spec => []IInv
<1>1. Init => IInv
  BY InitIInv
<1>2. IInv /\ [Next]_vars => IInv'
  BY NextKeeps
<1> QED BY <1>1, <1>2, PTL DEF Spec

(* A decision carries the fresh evaluation of the prompt its own thread    *)
(* compiled, however many threads choose, generate and close               *)
(* (session.py:93-117).                                                    *)
THEOREM OwnAnswers == Spec => []AnswersOwnPrompt
<1>1. IInv => AnswersOwnPrompt
  BY DEF IInv, AnswersOK
<1> QED BY <1>1, Invariance, PTL

(* Native memory is used by one thread at a time and never after close()   *)
(* has begun to free it (the lock and the closed flag of                   *)
(* llama_cpp.py:857-939).                                                  *)
THEOREM NativeMemorySafe == Spec => []NoUseAfterFree
<1>1. IInv => NoUseAfterFree
  <2> SUFFICES ASSUME IInv PROVE NoUseAfterFree
    OBVIOUS
  <2>1. \A t \in Threads :
          pc[t] \in {"native", "generating"} => lock = t /\ open /\ ~backendClosed
    BY DEF IInv, LockOK
  <2>2. backendClosed => verdict # "pending"
    BY DEF IInv, LockOK
  <2> QED BY <2>1, <2>2 DEF IInv, LockOK, NoUseAfterFree
<1> QED BY <1>1, Invariance, PTL

(* A decision that no other overlapped reports its own scoring call and no *)
(* more, although reset, score and read are three locked sections          *)
(* (session.py:104-112).                                                   *)
THEOREM OwnMetrics == Spec => []MetricsOfOwnCall
<1>1. IInv => MetricsOfOwnCall
  BY DEF IInv, MetricsOK
<1> QED BY <1>1, Invariance, PTL
=============================================================================
