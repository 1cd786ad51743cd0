------------------------ MODULE HttpTransportProofs ------------------------
(***************************************************************************)
(* Proofs about HttpTransport, for every number of threads and tokens,     *)
(* every retry_unauthorized, every set of answers and any length of run.   *)
(***************************************************************************)
EXTENDS HttpTransport, TLAPS

LEMMA NoReplyTyped == NoReply \in Reply
BY DEF NoReply, Reply

LEMMA AnswersTyped == \A r \in Answers : r \in Reply
BY AnswersAssumption

(* Every variable keeps its type, whatever the callers, the provider and   *)
(* the server do.                                                          *)
THEOREM TypeCorrect == Spec => []TypeOK
<1> USE DEF TypeOK
<1>1. Init => TypeOK
  BY NoReplyTyped DEF Init
<1>2. TypeOK /\ [Next]_vars => TypeOK'
  <2> SUFFICES ASSUME TypeOK, [Next]_vars
               PROVE  TypeOK'
    OBVIOUS
  <2> USE DEF Goto, End, callVars, history
  <2>1. UNCHANGED vars => TypeOK'
    BY DEF vars
  <2>2. ASSUME NEW t \in Thread, Reject(t)
        PROVE  TypeOK'
    BY <2>2, NoReplyTyped DEF Reject, Begin
  <2>3. ASSUME NEW t \in Thread, NEW auth \in BOOLEAN, Call(t, auth)
        PROVE  TypeOK'
    BY <2>3, NoReplyTyped DEF Call, Begin
  <2>4. ASSUME NEW t \in Thread, StaticToken(t) \/ NoStaticToken(t)
        PROVE  TypeOK'
    BY <2>4 DEF StaticToken, NoStaticToken
  <2>5. ASSUME NEW t \in Thread, AcquireTokenLock(t) \/ InnerRequest(t)
        PROVE  TypeOK'
    BY <2>5 DEF AcquireTokenLock, InnerRequest
  <2>6. ASSUME NEW t \in Thread, NEW read \in BOOLEAN, InnerAnswer(t, read)
        PROVE  TypeOK'
    BY <2>6 DEF InnerAnswer
  <2>7. ASSUME NEW t \in Thread, NEW tok \in Token, ProviderReturns(t, tok)
        PROVE  TypeOK'
    BY <2>7 DEF ProviderReturns, ReleaseTokenLock
  <2>8. ASSUME NEW t \in Thread, NEW how \in ProviderFailure, ProviderFails(t, how)
        PROVE  TypeOK'
    <3>1. FailureOutcome(t, how) \in {"ApiException", "ValueError", "OtherError"}
      BY DEF FailureOutcome, ProviderFailure
    <3> QED
      BY <2>8, <3>1 DEF ProviderFails, ReleaseTokenLock
  <2>9. ASSUME NEW t \in Thread, NEW r \in Answers, NEW executed \in BOOLEAN,
               Exchange(t, r, executed)
        PROVE  TypeOK'
    <3>1. r \in Reply /\ r.says \in BOOLEAN
      BY AnswersTyped DEF Reply
    <3>2. CodeZero(r) \in BOOLEAN
      BY DEF CodeZero
    <3> QED
      BY <2>9, <3>1, <3>2 DEF Exchange
  <2>10. ASSUME NEW t \in Thread, Answer(t) \/ Retry(t) \/ Fail(t)
         PROVE  TypeOK'
    <3>1. RaisedError(reply[t]) \in {"ApiException", "OtherError"}
      BY DEF RaisedError
    <3> QED
      BY <2>10, <3>1, NoReplyTyped DEF Answer, Retry, Fail, KeepBody
  <2> QED
    BY <2>1, <2>2, <2>3, <2>4, <2>5, <2>6, <2>7, <2>8, <2>9, <2>10
       DEF Next, Proceed, Finished
<1> QED
  BY <1>1, <1>2, PTL DEF Spec

(* The provider is never entered by two threads at once.                   *)
THEOREM TokenLockExcludes == Spec => []TokenLock
<1> USE DEF TokenLock, InProvider
<1>1. Init => TokenLock
  BY DEF Init
<1>2. TypeOK /\ TokenLock /\ [Next]_vars => TokenLock'
  <2> SUFFICES ASSUME TypeOK, TokenLock, [Next]_vars
               PROVE  TokenLock'
    OBVIOUS
  <2> USE DEF TypeOK, Goto, End, callVars, history, ReleaseTokenLock
  <2>1. CASE UNCHANGED vars
    BY <2>1 DEF vars
  <2>2. ASSUME NEW t \in Thread, NEW auth \in BOOLEAN, Reject(t) \/ Call(t, auth)
        PROVE  TokenLock'
    BY <2>2 DEF Reject, Call, Begin
  <2>3. ASSUME NEW t \in Thread, StaticToken(t) \/ NoStaticToken(t)
        PROVE  TokenLock'
    BY <2>3 DEF StaticToken, NoStaticToken
  <2>4. ASSUME NEW t \in Thread, AcquireTokenLock(t)
        PROVE  TokenLock'
    BY <2>4 DEF AcquireTokenLock, TokenLockFree
  <2>5. ASSUME NEW t \in Thread, NEW read \in BOOLEAN, InnerRequest(t) \/ InnerAnswer(t, read)
        PROVE  TokenLock'
    BY <2>5 DEF InnerRequest, InnerAnswer
  <2>6. ASSUME NEW t \in Thread, NEW tok \in Token, ProviderReturns(t, tok)
        PROVE  TokenLock'
    BY <2>6 DEF ProviderReturns
  <2>7. ASSUME NEW t \in Thread, NEW how \in ProviderFailure, ProviderFails(t, how)
        PROVE  TokenLock'
    BY <2>7 DEF ProviderFails
  <2>8. ASSUME NEW t \in Thread, NEW r \in Answers, NEW executed \in BOOLEAN,
               Exchange(t, r, executed)
        PROVE  TokenLock'
    BY <2>8 DEF Exchange
  <2>9. ASSUME NEW t \in Thread, Answer(t) \/ Retry(t) \/ Fail(t)
        PROVE  TokenLock'
    BY <2>9 DEF Answer, Retry, Fail, KeepBody
  <2> QED
    BY <2>1, <2>2, <2>3, <2>4, <2>5, <2>6, <2>7, <2>8, <2>9
       DEF Next, Proceed, Finished
<1> QED
  BY <1>1, <1>2, TypeCorrect, PTL DEF Spec

----------------------------------------------------------------------------
(* What every thread's request has done so far: the inductive invariant    *)
(* behind the next three theorems.                                         *)
Preparing(t) == pc[t] \in {"token", "provider", "inner", "provided", "send"}

(* Each attempt costs one send, and the retries are counted before them.   *)
AttemptsCounted(t) ==
    /\ attempt[t] <= RetryUnauthorized
    /\ Preparing(t) => sends[t] <= attempt[t]
    /\ ~Preparing(t) => sends[t] <= attempt[t] + 1

(* Only a request with a provider waits for a token with a response open,  *)
(* and the provider's return or failure closes it.                         *)
ResponseOwned(t) ==
    t \in open => /\ pc[t] \notin {"idle", "send"}
                  /\ pc[t] = "token" => provider

(* An executed attempt that nothing has misreported ends its request.      *)
ExecutionCounted(t) ==
    \/ misled[t]
    \/ executions[t] = 0
    \/ /\ executions[t] = 1
       /\ ~Preparing(t)
       /\ pc[t] = "handle" => ~ShouldRetry(reply[t])

RequestInv ==
    \A t \in Thread : AttemptsCounted(t) /\ ResponseOwned(t) /\ ExecutionCounted(t)

LEMMA RequestInvHolds == Spec => []RequestInv
<1> USE DEF RequestInv, AttemptsCounted, ResponseOwned, ExecutionCounted, Preparing
<1>1. Init => RequestInv
  BY TransportAssumption DEF Init
<1>2. TypeOK /\ RequestInv /\ [Next]_vars => RequestInv'
  <2> SUFFICES ASSUME TypeOK, RequestInv, [Next]_vars
               PROVE  RequestInv'
    OBVIOUS
  <2> USE TransportAssumption
          DEF TypeOK, Goto, End, callVars, history, ReleaseTokenLock
  <2>1. CASE UNCHANGED vars
    BY <2>1 DEF vars
  <2>2. ASSUME NEW t \in Thread, NEW auth \in BOOLEAN, Reject(t) \/ Call(t, auth)
        PROVE  RequestInv'
    BY <2>2 DEF Reject, Call, Begin
  <2>3. ASSUME NEW t \in Thread, StaticToken(t) \/ NoStaticToken(t)
        PROVE  RequestInv'
    BY <2>3 DEF StaticToken, NoStaticToken
  <2>4. ASSUME NEW t \in Thread, AcquireTokenLock(t)
        PROVE  RequestInv'
    BY <2>4 DEF AcquireTokenLock
  <2>5. ASSUME NEW t \in Thread, NEW read \in BOOLEAN, InnerRequest(t) \/ InnerAnswer(t, read)
        PROVE  RequestInv'
    BY <2>5 DEF InnerRequest, InnerAnswer
  <2>6. ASSUME NEW t \in Thread, NEW tok \in Token, ProviderReturns(t, tok)
        PROVE  RequestInv'
    BY <2>6 DEF ProviderReturns
  <2>7. ASSUME NEW t \in Thread, NEW how \in ProviderFailure, ProviderFails(t, how)
        PROVE  RequestInv'
    BY <2>7 DEF ProviderFails
  <2>8. ASSUME NEW t \in Thread, NEW r \in Answers, NEW executed \in BOOLEAN,
               Exchange(t, r, executed)
        PROVE  RequestInv'
    <3>1. executed /\ ~r.says => ~ShouldRetry(r)
      BY <2>8 DEF Exchange, ShouldRetry
    <3> QED
      BY <2>8, <3>1 DEF Exchange
  <2>9. ASSUME NEW t \in Thread, Answer(t) \/ Fail(t)
        PROVE  RequestInv'
    BY <2>9 DEF Answer, Fail
  <2>10. ASSUME NEW t \in Thread, Retry(t)
         PROVE  RequestInv'
    <3> SUFFICES ASSUME NEW u \in Thread
                 PROVE  /\ AttemptsCounted(u)'
                        /\ ResponseOwned(u)'
                        /\ ExecutionCounted(u)'
      OBVIOUS
    <3>1. AttemptsCounted(u)'
      BY <2>10 DEF Retry, CanRetry
    <3>2. ResponseOwned(u)'
      BY <2>10 DEF Retry, CanRetry
    <3>3. CASE u = t
      <4>1. misled[t] \/ executions[t] = 0
        BY <2>10 DEF Retry, CanRetry
      <4> QED
        BY <2>10, <3>1, <3>2, <3>3, <4>1 DEF Retry
    <3>4. CASE u # t
      BY <2>10, <3>1, <3>2, <3>4 DEF Retry
    <3> QED
      BY <3>3, <3>4
  <2> QED
    BY <2>1, <2>2, <2>3, <2>4, <2>5, <2>6, <2>7, <2>8, <2>9, <2>10
       DEF Next, Proceed, Finished
<1> QED
  BY <1>1, <1>2, TypeCorrect, PTL DEF Spec

(* No request is sent more than 1 + retry_unauthorized times.              *)
THEOREM SendBudgetHolds == Spec => []SendBudget
<1>1. TypeOK /\ RequestInv => SendBudget
  BY TransportAssumption
     DEF TypeOK, RequestInv, AttemptsCounted, SendBudget
<1> QED
  BY <1>1, TypeCorrect, RequestInvHolds, PTL

(* No response outlives its request or is open when the next is sent.      *)
THEOREM ResponsesAreClosed == Spec => []ResponsesClosed
<1>1. TypeOK /\ RequestInv => ResponsesClosed
  BY DEF TypeOK, RequestInv, ResponseOwned, ResponsesClosed
<1> QED
  BY <1>1, TypeCorrect, RequestInvHolds, PTL

(* An executed request is sent again only if its answer's text misled.     *)
THEOREM ExecutedAtMostOnce == Spec => []AtMostOnce
<1>1. RequestInv => AtMostOnce
  BY DEF RequestInv, ExecutionCounted, AtMostOnce
<1> QED
  BY <1>1, RequestInvHolds, PTL

----------------------------------------------------------------------------
(* A request nobody else's overlaps is the only one in progress, and what  *)
(* it returned came with its own body.                                     *)
SoloInv ==
    /\ \A t \in Thread : pc[t] # "idle" => outcome[t] = "none"
    /\ \A t \in solo :
          /\ \A u \in Thread : u # t => pc[u] = "idle"
          /\ outcome[t] = "ok" => lastBody = Own(t)

LEMMA SoloInvHolds == Spec => []SoloInv
<1> USE DEF SoloInv
<1>1. Init => SoloInv
  BY DEF Init
<1>2. TypeOK /\ SoloInv /\ [Next]_vars => SoloInv'
  <2> SUFFICES ASSUME TypeOK, SoloInv, [Next]_vars
               PROVE  SoloInv'
    OBVIOUS
  <2> USE DEF TypeOK, Goto, End, callVars, history, ReleaseTokenLock
  <2>1. CASE UNCHANGED vars
    BY <2>1 DEF vars
  <2>2. ASSUME NEW t \in Thread, NEW auth \in BOOLEAN, Reject(t) \/ Call(t, auth)
        PROVE  SoloInv'
    BY <2>2 DEF Reject, Call, Begin
  <2>3. ASSUME NEW t \in Thread, StaticToken(t) \/ NoStaticToken(t)
        PROVE  SoloInv'
    BY <2>3 DEF StaticToken, NoStaticToken
  <2>4. ASSUME NEW t \in Thread, AcquireTokenLock(t)
        PROVE  SoloInv'
    BY <2>4 DEF AcquireTokenLock
  <2>5. ASSUME NEW t \in Thread, NEW read \in BOOLEAN, InnerRequest(t) \/ InnerAnswer(t, read)
        PROVE  SoloInv'
    BY <2>5 DEF InnerRequest, InnerAnswer
  <2>6. ASSUME NEW t \in Thread, NEW tok \in Token, ProviderReturns(t, tok)
        PROVE  SoloInv'
    BY <2>6 DEF ProviderReturns
  <2>7. ASSUME NEW t \in Thread, NEW how \in ProviderFailure, ProviderFails(t, how)
        PROVE  SoloInv'
    <3>1. FailureOutcome(t, how) # "ok"
      BY DEF FailureOutcome, ProviderFailure
    <3> QED
      BY <2>7, <3>1 DEF ProviderFails
  <2>8. ASSUME NEW t \in Thread, NEW r \in Answers, NEW executed \in BOOLEAN,
               Exchange(t, r, executed)
        PROVE  SoloInv'
    BY <2>8 DEF Exchange
  <2>9. ASSUME NEW t \in Thread, Answer(t)
        PROVE  SoloInv'
    <3>1. reply[t].read = "whole"
      BY <2>9 DEF Answer, Reply
    <3> QED
      BY <2>9, <3>1 DEF Answer, KeepBody
  <2>10. ASSUME NEW t \in Thread, Retry(t) \/ Fail(t)
         PROVE  SoloInv'
    <3>1. RaisedError(reply[t]) # "ok"
      BY DEF RaisedError
    <3> QED
      BY <2>10, <3>1 DEF Retry, Fail, KeepBody
  <2> QED
    BY <2>1, <2>2, <2>3, <2>4, <2>5, <2>6, <2>7, <2>8, <2>9, <2>10
       DEF Next, Proceed, Finished
<1> QED
  BY <1>1, <1>2, TypeCorrect, PTL DEF Spec

(* After a request no other overlapped, last_response_body is its own.     *)
THEOREM LastBodyIsOwnHolds == Spec => []LastBodyIsOwn
<1>1. SoloInv => LastBodyIsOwn
  BY DEF SoloInv, LastBodyIsOwn
<1> QED
  BY <1>1, SoloInvHolds, PTL
============================================================================
