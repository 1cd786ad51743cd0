------------------------ MODULE LuminalClientProofs ------------------------
(***************************************************************************)
(* Proofs about LuminalClient, for every number of threads, every retry    *)
(* count, refresh ratio, clock and behaviour of the token endpoint.        *)
(***************************************************************************)
EXTENDS LuminalClient, TLAPS

(* The types of the variables the proofs speak of.                         *)
ClientTyped ==
    /\ provider = TRUE
    /\ bearer \in Nat
    /\ tokenHolder \in SUBSET Thread
    /\ pc \in [Thread -> {"idle", "token", "provider", "inner", "provided", "send", "handle"}]
    /\ authorized \in [Thread -> BOOLEAN]
    /\ attempt \in [Thread -> Nat]
    /\ header \in [Thread -> Nat]
    /\ token \in C!TokenRecord
    /\ acquired \in Nat \cup {-1}
    /\ cacheHolder \in SUBSET Thread
    /\ time \in Nat
    /\ issued \in 1..MaxIssued
    /\ cpc \in [Thread -> {"out", "peek", "stamp", "lifetime", "judge", "wait", "recheck",
                           "fetch", "store", "date", "return", "raise", "null"}]
    /\ force \in [Thread -> BOOLEAN]
    /\ seen \in [Thread -> C!TokenRecord]
    /\ seenAt \in [Thread -> Nat \cup {-1}]
    /\ result \in [Thread -> Nat]

(* The transport's lock keeps all threads but one out of the cache.        *)
OneInCache ==
    /\ \A t \in Thread : t \in tokenHolder <=> H!InProvider(t)
    /\ \A t \in Thread : cpc[t] # "out" <=> H!InProvider(t)
    /\ \A t, u \in tokenHolder : t = u

(* What the thread in the cache has read, fetched and stored so far.       *)
CallInCache(t) ==
    /\ cpc[t] # "out" => (force[t] <=> attempt[t] > 0)
    /\ cpc[t] \in {"stamp", "lifetime", "judge"} => ~force[t] /\ seen[t] = token
    /\ cpc[t] = "judge" => seenAt[t] = acquired
    /\ cpc[t] \in {"store", "date"} =>
          /\ seen[t].serial <= issued
          /\ seen[t].access => seen[t].serial > bearer
    /\ cpc[t] = "date" => token = seen[t]
    /\ (cpc[t] = "return" /\ result[t] # 0) =>
          /\ token.access /\ result[t] = token.serial
          /\ force[t] => result[t] > bearer

(* Tokens are given in the order they were issued.                         *)
InOrder ==
    /\ bearer <= issued
    /\ token.serial <= issued
    /\ token.access => token.serial > 0 /\ token.serial >= bearer

(* The token a request holds is one that was given, and a request that     *)
(* retries holds one.                                                      *)
HoldsToken(t) ==
    /\ header[t] <= bearer
    /\ (pc[t] \in {"send", "handle"} /\ authorized[t]) => header[t] > 0
    /\ (pc[t] \in {"token", "provider", "inner", "provided"} /\ attempt[t] > 0) => header[t] > 0

ClientInv ==
    /\ ClientTyped
    /\ OneInCache
    /\ InOrder
    /\ \A t \in Thread : CallInCache(t) /\ HoldsToken(t)

----------------------------------------------------------------------------
LEMMA ClientInvInit == Init => ClientInv
<1> SUFFICES ASSUME Init
             PROVE  ClientInv
  OBVIOUS
<1> USE DEF Init, H!Init, C!InitIssued, C!None, C!TokenRecord, NoToken, StaticSerial
<1>1. ClientTyped
  BY ClientAssumption DEF ClientTyped
<1>2. OneInCache
  BY DEF OneInCache, H!InProvider
<1>3. InOrder
  BY DEF InOrder
<1>4. \A t \in Thread : CallInCache(t) /\ HoldsToken(t)
  BY DEF CallInCache, HoldsToken
<1> QED
  BY <1>1, <1>2, <1>3, <1>4 DEF ClientInv

(* A step of the transport alone, outside the provider.                    *)
LEMMA TransportKeepsInv ==
    ASSUME ClientInv, NEW t \in Thread, Request(t) \/ TransportStep(t)
    PROVE  ClientInv'
<1> USE DEF cacheVars, H!Goto, H!End, H!callVars, H!history, NoToken
<1> DEFINE Moves == /\ UNCHANGED <<provider, bearer, tokenHolder, cacheVars>>
                    /\ pc[t] \in {"idle", "send", "handle"}
<1>1. ClientTyped' /\ Moves /\ pc'[t] \in {"idle", "token", "send", "handle"}
  <2> USE DEF ClientInv, ClientTyped
  <2>1. CASE Request(t)
    <3>1. CASE H!Reject(t)
      BY <2>1, <3>1 DEF Request, H!Reject, H!Begin
    <3>2. ASSUME NEW auth \in BOOLEAN, H!Call(t, auth)
          PROVE  ClientTyped' /\ Moves /\ pc'[t] \in {"idle", "token", "send", "handle"}
      BY <2>1, <3>2 DEF Request, H!Call, H!Begin
    <3> QED
      BY <2>1, <3>1, <3>2 DEF Request
  <2>2. CASE TransportStep(t)
    <3>1. CASE \E r \in Answers, executed \in BOOLEAN : H!Exchange(t, r, executed)
      BY <2>2, <3>1 DEF TransportStep, H!Exchange
    <3>2. CASE H!Answer(t) \/ H!Fail(t)
      BY <2>2, <3>2 DEF TransportStep, H!Answer, H!Fail
    <3>3. CASE H!Retry(t)
      BY <2>2, <3>3 DEF TransportStep, H!Retry
    <3> QED
      BY <2>2, <3>1, <3>2, <3>3 DEF TransportStep
  <2> QED
    BY <2>1, <2>2
<1>2. \A u \in Thread : u # t => /\ pc'[u] = pc[u]
                                 /\ attempt'[u] = attempt[u]
                                 /\ header'[u] = header[u]
                                 /\ authorized'[u] = authorized[u]
  BY DEF ClientInv, ClientTyped, Request, TransportStep, H!Reject, H!Call, H!Begin,
         H!Exchange, H!Answer, H!Retry, H!Fail
<1>3. OneInCache'
  BY <1>1, <1>2 DEF ClientInv, ClientTyped, OneInCache, H!InProvider
<1>4. InOrder'
  BY <1>1 DEF ClientInv, InOrder
<1>5. cpc[t] = "out"
  BY <1>1 DEF ClientInv, OneInCache, H!InProvider
<1>6. \A u \in Thread : CallInCache(u)'
  BY <1>1, <1>2, <1>5 DEF ClientInv, CallInCache
<1>7. HoldsToken(t)'
  BY <1>1 DEF ClientInv, ClientTyped, HoldsToken, Request, TransportStep, H!Reject, H!Call,
              H!Begin, H!Exchange, H!Answer, H!Retry, H!Fail, H!CanRetry
<1>8. \A u \in Thread : HoldsToken(u)'
  BY <1>1, <1>2, <1>7 DEF ClientInv, HoldsToken
<1> QED
  BY <1>1, <1>3, <1>4, <1>6, <1>8 DEF ClientInv

(* The thread in the cache is alone there.                                 *)
LEMMA AloneInCache ==
    ASSUME ClientInv, NEW t \in Thread, cpc[t] # "out", NEW u \in Thread, u # t
    PROVE  cpc[u] = "out"
BY DEF ClientInv, OneInCache

(* While one thread is in the cache nobody else has anything at stake.     *)
LEMMA OthersOut ==
    ASSUME NEW u \in Thread, cpc'[u] = "out"
    PROVE  CallInCache(u)'
BY DEF CallInCache

(* The provider is entered: the token lock was free, so nobody was in the  *)
(* cache.                                                                  *)
LEMMA ProviderCallKeepsInv ==
    ASSUME ClientInv, NEW t \in Thread, ProviderCall(t)
    PROVE  ClientInv'
<1> USE DEF ClientInv, ClientTyped
<1>1. /\ pc[t] = "token" /\ tokenHolder = {} /\ tokenHolder' = tokenHolder \cup {t}
      /\ cpc[t] = "out"
      /\ pc' = [pc EXCEPT ![t] = "provider"]
      /\ cpc' = [cpc EXCEPT ![t] = "peek"]
      /\ force' = [force EXCEPT ![t] = H!Forced(t)]
      /\ UNCHANGED <<provider, bearer, authorized, attempt, header, token, acquired,
                     cacheHolder, time, issued, seen, seenAt, result>>
  BY DEF ProviderCall, H!AcquireTokenLock, H!TokenLockFree, C!Enter, H!Goto, C!Goto, H!callVars
<1>2. ClientTyped'
  BY <1>1 DEF H!Forced
<1>3. OneInCache'
  BY <1>1 DEF OneInCache, H!InProvider
<1>4. InOrder'
  BY <1>1 DEF InOrder
<1>5. \A u \in Thread : CallInCache(u)'
  <2>1. ASSUME NEW u \in Thread, u # t
        PROVE  CallInCache(u)'
    <3>1. cpc[u] = "out"
      BY <1>1 DEF OneInCache
    <3> QED
      BY <1>1, <2>1, <3>1, OthersOut
  <2>2. CallInCache(t)'
    BY <1>1 DEF CallInCache, H!Forced
  <2> QED
    BY <2>1, <2>2
<1>6. \A u \in Thread : HoldsToken(u)'
  BY <1>1 DEF HoldsToken
<1> QED
  BY <1>2, <1>3, <1>4, <1>5, <1>6

(* A step of the cache that stays inside it.                               *)
LEMMA CacheStepKeepsInv ==
    ASSUME ClientInv, NEW t \in Thread, CacheStep(t)
    PROVE  ClientInv'
<1> USE DEF ClientInv
<1>1. UNCHANGED <<provider, bearer, tokenHolder, pc, authorized, attempt, header>>
  BY DEF CacheStep, transportVars
<1> DEFINE Steps == /\ ClientTyped'
                    /\ cpc[t] # "out" /\ cpc'[t] # "out"
                    /\ \A u \in Thread : u # t => cpc'[u] = cpc[u]
                    /\ InOrder'
                    /\ CallInCache(t)'
<1> USE DEF ClientTyped, InOrder, CallInCache, C!Goto, C!Return, C!locals, C!TokenRecord
<1>2. ASSUME C!Peek(t)
      PROVE  Steps
  BY <1>1, <1>2 DEF C!Peek
<1>3. ASSUME C!CheckStamp(t) \/ C!ReadStamp(t)
      PROVE  Steps
  BY <1>1, <1>3 DEF C!CheckStamp, C!ReadStamp
<1>4. ASSUME C!ReuseUnlocked(t)
      PROVE  Steps
  BY <1>1, <1>4 DEF C!ReuseUnlocked, C!Access
<1>5. ASSUME C!GoLock(t)
      PROVE  Steps
  BY <1>1, <1>5 DEF C!GoLock
<1>6. ASSUME C!AcquireCacheLock(t)
      PROVE  Steps
  BY <1>1, <1>6 DEF C!AcquireCacheLock
<1>7. ASSUME C!ReuseLocked(t)
      PROVE  Steps
  BY <1>1, <1>7 DEF C!ReuseLocked, C!Access
<1>8. ASSUME C!Store(t)
      PROVE  Steps
  BY <1>1, <1>8 DEF C!Store
<1>9. ASSUME C!Date(t)
      PROVE  Steps
  <2>1. C!None \in C!TokenRecord /\ C!None.serial = 0 /\ ~C!None.access
    BY DEF C!None
  <2>2. /\ cpc[t] = "date" /\ acquired' = time
        /\ cacheHolder' = cacheHolder \ {t}
        /\ UNCHANGED <<token, time, issued, force, seen, seenAt>>
    BY <1>9 DEF C!Date
  <2>3. CASE seen[t] = C!None
    <3>1. cpc' = [cpc EXCEPT ![t] = "null"] /\ UNCHANGED result
      BY <1>9, <2>3 DEF C!Date
    <3> QED
      BY <1>1, <2>2, <3>1
  <2>4. CASE seen[t] # C!None
    <3>1. /\ cpc' = [cpc EXCEPT ![t] = "return"]
          /\ result' = [result EXCEPT ![t] = IF seen[t].access THEN seen[t].serial ELSE 0]
      BY <1>9, <2>4 DEF C!Date, C!Access
    <3>2. token = seen[t] /\ (token.access => token.serial > bearer)
      BY <2>2
    <3>3. ClientTyped' /\ InOrder'
      BY <1>1, <2>2, <3>1
    <3>4. CallInCache(t)'
      BY <1>1, <2>2, <3>1, <3>2
    <3> QED
      BY <2>2, <3>1, <3>3, <3>4
  <2> QED
    BY <2>3, <2>4
<1>10. Steps
  BY <1>2, <1>3, <1>4, <1>5, <1>6, <1>7, <1>8, <1>9 DEF CacheStep
<1>11. OneInCache'
  BY <1>1, <1>10 DEF OneInCache, H!InProvider
<1>12. \A u \in Thread : u # t => CallInCache(u)'
  BY <1>10, AloneInCache, OthersOut
<1>13. \A u \in Thread : HoldsToken(u)'
  BY <1>1 DEF HoldsToken
<1> QED
  BY <1>10, <1>11, <1>12, <1>13

(* The token request leaves, and its answer arrives.                       *)
LEMMA TokenRequestKeepsInv ==
    ASSUME ClientInv, NEW t \in Thread, TokenRequest(t) \/ TokenAnswer(t)
    PROVE  ClientInv'
<1> USE DEF ClientInv, H!Goto, C!Goto, C!locals, H!callVars, H!history
<1>1. /\ UNCHANGED <<provider, bearer, tokenHolder, authorized, attempt, header,
                     token, acquired, time, force, seenAt, result>>
      /\ H!InProvider(t)
      /\ \E step \in {"inner", "provided"} : pc' = [pc EXCEPT ![t] = step]
  BY DEF TokenRequest, TokenAnswer, H!InnerRequest, H!InnerAnswer, C!StartFetch,
         C!Fetched, C!FetchedNull, C!FetchFails, H!InProvider
<1> DEFINE Steps == /\ ClientTyped'
                    /\ cpc[t] # "out" /\ cpc'[t] # "out"
                    /\ \A u \in Thread : u # t => cpc'[u] = cpc[u]
                    /\ InOrder'
                    /\ CallInCache(t)'
<1>2. ASSUME TokenRequest(t)
      PROVE  Steps
  BY <1>1, <1>2 DEF TokenRequest, C!StartFetch, ClientTyped, InOrder, CallInCache
<1>3. ASSUME NEW access \in BOOLEAN, NEW expires \in Expiry, C!Fetched(t, access, expires)
      PROVE  Steps
  <2>1. [serial |-> issued + 1, access |-> access, expires |-> expires] \in C!TokenRecord
    BY ClientAssumption DEF C!TokenRecord, ClientTyped
  <2> DEFINE new == [serial |-> issued + 1, access |-> access, expires |-> expires]
  <2>2. /\ issued' = issued + 1 /\ cpc[t] = "fetch"
        /\ issued < MaxIssued /\ cacheHolder' = cacheHolder
        /\ seen' = [seen EXCEPT ![t] = new]
        /\ cpc' = [cpc EXCEPT ![t] = "store"]
    BY <1>3 DEF C!Fetched
  <2>3. new \in C!TokenRecord /\ new.serial = issued + 1
    BY <2>1
  <2> HIDE DEF new
  <2>4. ClientTyped'
    BY <1>1, <2>2, <2>3, ClientAssumption DEF ClientTyped
  <2>5. InOrder'
    BY <1>1, <2>2 DEF ClientTyped, InOrder, C!TokenRecord
  <2>6. seen'[t].serial = issued + 1 /\ seen'[t].serial > bearer
    BY <2>2, <2>3 DEF ClientTyped, InOrder
  <2>7. CallInCache(t)'
    BY <1>1, <2>2, <2>6 DEF ClientTyped, CallInCache
  <2> QED
    BY <2>2, <2>4, <2>5, <2>7 DEF ClientTyped
<1>4. ASSUME C!FetchedNull(t)
      PROVE  Steps
  <2>1. C!None \in C!TokenRecord /\ C!None.serial = 0 /\ ~C!None.access
    BY DEF C!None, C!TokenRecord
  <2> QED
    BY <1>1, <1>4, <2>1 DEF C!FetchedNull, ClientTyped, InOrder, CallInCache
<1>5. ASSUME C!FetchFails(t)
      PROVE  Steps
  BY <1>1, <1>5 DEF C!FetchFails, ClientTyped, InOrder, CallInCache
<1>6. Steps
  BY <1>2, <1>3, <1>4, <1>5 DEF TokenAnswer
<1>7. OneInCache'
  BY <1>1, <1>6 DEF OneInCache, H!InProvider, ClientTyped
<1>8. \A u \in Thread : u # t => CallInCache(u)'
  BY <1>6, AloneInCache, OthersOut
<1>9. \A u \in Thread : HoldsToken(u)'
  BY <1>1 DEF HoldsToken, ClientTyped, H!InProvider
<1> QED
  BY <1>6, <1>7, <1>8, <1>9

(* The cache returns: the token it gives is the newest, and newer than     *)
(* every token given before when the caller asked for a new one.           *)
LEMMA ProviderDoneKeepsInv ==
    ASSUME ClientInv, NEW t \in Thread, ProviderDone(t)
    PROVE  ClientInv'
<1> USE DEF ClientInv, H!Goto, C!Goto, H!End, H!ReleaseTokenLock, NoToken
<1>1. /\ cpc[t] \in {"return", "raise", "null"}
      /\ cpc' = [cpc EXCEPT ![t] = "out"]
      /\ tokenHolder' = tokenHolder \ {t}
      /\ pc[t] \in {"provider", "provided"}
      /\ UNCHANGED <<provider, authorized, attempt, token, acquired, time, issued>>
  BY DEF ProviderDone, C!Leave, H!ProviderReturns, H!ProviderFails
<1>2. \/ /\ cpc[t] = "return" /\ result[t] # 0
         /\ bearer' = result[t]
         /\ header' = [header EXCEPT ![t] = result[t]]
         /\ pc' = [pc EXCEPT ![t] = "send"]
      \/ /\ UNCHANGED <<bearer, header>>
         /\ pc' = [pc EXCEPT ![t] = "idle"]
  BY DEF ProviderDone, H!ProviderReturns, H!ProviderFails
<1>3. ClientTyped'
  <2>1. C!None \in C!TokenRecord
    BY DEF C!None, C!TokenRecord
  <2> QED
    BY <1>1, <1>2, <2>1 DEF ProviderDone, C!Leave, ClientTyped
<1>4. OneInCache'
  BY <1>1, <1>2 DEF OneInCache, H!InProvider, ClientTyped
<1>5. (cpc[t] = "return" /\ result[t] # 0) =>
         /\ token.access /\ result[t] = token.serial
         /\ result[t] >= bearer /\ result[t] > 0
  BY DEF CallInCache, InOrder, ClientTyped
<1>6. InOrder' /\ bearer' >= bearer
  BY <1>1, <1>2, <1>5 DEF InOrder, ClientTyped, C!TokenRecord
<1>7. \A u \in Thread : CallInCache(u)'
  <2>1. \A u \in Thread : cpc'[u] = "out"
    BY <1>1, AloneInCache DEF ClientTyped
  <2> QED
    BY <2>1, OthersOut
<1>8. \A u \in Thread : HoldsToken(u)'
  BY <1>1, <1>2, <1>5, <1>6 DEF HoldsToken, ClientTyped
<1> QED
  BY <1>3, <1>4, <1>6, <1>7, <1>8

LEMMA ClientInvHolds == Spec => []ClientInv
<1>1. ClientInv /\ [Next]_vars => ClientInv'
  <2> SUFFICES ASSUME ClientInv, [Next]_vars
               PROVE  ClientInv'
    OBVIOUS
  <2>1. CASE Clock \/ Finished \/ UNCHANGED vars
    <3>1. /\ UNCHANGED <<provider, bearer, tokenHolder, pc, authorized, attempt, header,
                         token, acquired, issued, cpc, force, seen, seenAt, result>>
          /\ ClientTyped => time' \in Nat /\ cacheHolder' = cacheHolder
      BY <2>1 DEF Clock, Finished, H!Finished, vars, transportVars, cacheVars, C!Tick,
                  C!SetBack, C!locals, H!vars, H!callVars, H!history, ClientTyped
    <3> QED
      BY <3>1 DEF ClientInv, ClientTyped, OneInCache, H!InProvider, InOrder, CallInCache,
                  HoldsToken
  <2>2. ASSUME NEW t \in Thread, Request(t) \/ Proceed(t)
        PROVE  ClientInv'
    BY <2>2, TransportKeepsInv, ProviderCallKeepsInv, CacheStepKeepsInv,
       TokenRequestKeepsInv, ProviderDoneKeepsInv DEF Proceed
  <2> QED
    BY <2>1, <2>2 DEF Next
<1> QED
  BY <1>1, ClientInvInit, PTL DEF Spec

----------------------------------------------------------------------------
(* What the cache reads without its own lock is whole, because the         *)
(* transport's _token_lock lets nobody else into the cache.                *)
THEOREM UnlockedReadsHold == Spec => []UnlockedReadsAreWhole
<1>1. ClientInv => UnlockedReadsAreWhole
  <2> SUFFICES ASSUME ClientInv, NEW t \in Thread, cpc[t] \in {"stamp", "lifetime", "judge"}
               PROVE  /\ seen[t] = token
                      /\ cpc[t] = "judge" => seenAt[t] = acquired
                      /\ \A u \in Thread : cpc[u] \notin {"store", "date"}
    BY DEF UnlockedReadsAreWhole
  <2>1. \A u \in Thread : cpc[u] \notin {"store", "date"}
    BY AloneInCache
  <2> QED
    BY <2>1 DEF ClientInv, CallInCache
<1> QED
  BY <1>1, ClientInvHolds, PTL

(* Every step but the provider's return leaves a thread in the provider    *)
(* there.                                                                  *)
LEMMA StaysInProvider ==
    ASSUME ClientInv, NEW t \in Thread, H!InProvider(t), [Next]_vars, ~ProviderDone(t)
    PROVE  pc'[t] # "send"
<1> USE DEF ClientInv, ClientTyped, H!InProvider, H!Goto
<1>1. CASE Clock \/ Finished \/ UNCHANGED vars
  BY <1>1 DEF Clock, Finished, H!Finished, vars, transportVars, H!vars
<1>2. ASSUME NEW u \in Thread, Request(u) \/ TransportStep(u)
      PROVE  pc'[t] # "send"
  BY <1>2 DEF Request, TransportStep, H!Reject, H!Call, H!Begin, H!End, H!Exchange,
              H!Answer, H!Retry, H!Fail
<1>3. ASSUME NEW u \in Thread, ProviderCall(u) \/ CacheStep(u)
      PROVE  pc'[t] # "send"
  BY <1>3 DEF ProviderCall, CacheStep, transportVars, H!AcquireTokenLock
<1>4. ASSUME NEW u \in Thread, TokenRequest(u) \/ TokenAnswer(u)
      PROVE  pc'[t] # "send"
  BY <1>4 DEF TokenRequest, TokenAnswer, H!InnerRequest, H!InnerAnswer
<1>5. ASSUME NEW u \in Thread, u # t, ProviderDone(u)
      PROVE  pc'[t] # "send"
  BY <1>5 DEF ProviderDone, H!ProviderReturns, H!ProviderFails, H!End
<1> QED
  BY <1>1, <1>2, <1>3, <1>4, <1>5 DEF Next, Proceed

(* A retry carries a token newer than the refused one: the cache gives a   *)
(* forced caller a token issued after every token given before.            *)
THEOREM RetriesCarryNewTokens == Spec => NewTokenOnRetry
<1>1. ClientInv /\ [Next]_vars =>
         [\A t \in Thread :
             (H!InProvider(t) /\ pc'[t] = "send" /\ attempt[t] > 0) => header'[t] > header[t]]_vars
  <2> SUFFICES ASSUME ClientInv, [Next]_vars, NEW t \in Thread,
                      H!InProvider(t), pc'[t] = "send", attempt[t] > 0
               PROVE  header'[t] > header[t]
    OBVIOUS
  <2>1. ProviderDone(t)
    BY StaysInProvider
  <2>2. /\ cpc[t] = "return" /\ result[t] # 0
        /\ header' = [header EXCEPT ![t] = result[t]]
    BY <2>1 DEF ProviderDone, H!ProviderReturns, H!ProviderFails, H!End, H!Goto, NoToken,
                ClientInv, ClientTyped
  <2>3. result[t] > bearer /\ bearer >= header[t]
    BY <2>2 DEF ClientInv, ClientTyped, CallInCache, HoldsToken
  <2> QED
    BY <2>2, <2>3 DEF ClientInv, ClientTyped
<1> QED
  BY <1>1, ClientInvHolds, PTL DEF Spec, NewTokenOnRetry

----------------------------------------------------------------------------
(* The refinement: each step of the client is a step of BearerSource or    *)
(* changes none of its variables.                                          *)
Simulates == [Source!Next]_Source!vars

LEMMA RequestSimulates ==
    ASSUME ClientInv, NEW t \in Thread, Request(t)
    PROVE  Simulates
<1> USE DEF ClientInv, ClientTyped
<1>1. /\ pc[t] = "idle" /\ bearer' = bearer
      /\ header' = [header EXCEPT ![t] = 0]
      /\ attempt' = [attempt EXCEPT ![t] = 0]
      /\ \E step \in {"idle", "token", "send"} : pc' = [pc EXCEPT ![t] = step]
  <2>1. CASE H!Reject(t)
    BY <2>1 DEF H!Reject, H!Begin, H!End, H!Goto, NoToken
  <2>2. ASSUME NEW auth \in BOOLEAN, H!Call(t, auth)
        PROVE  /\ pc[t] = "idle" /\ bearer' = bearer
               /\ header' = [header EXCEPT ![t] = 0]
               /\ attempt' = [attempt EXCEPT ![t] = 0]
               /\ \E step \in {"idle", "token", "send"} : pc' = [pc EXCEPT ![t] = step]
    BY <2>2 DEF H!Call, H!Begin, H!Goto, NoToken
  <2> QED
    BY <2>1, <2>2 DEF Request
<1>2. /\ Asking(t) = "no" /\ Asking(t)' \in {"no", "any"}
      /\ \A u \in Thread : u # t => Asking(u)' = Asking(u)
  BY <1>1 DEF Asking, H!InProvider
<1>3. Source!Begin(t)
  BY <1>1, <1>2 DEF Source!Begin
<1> QED
  BY <1>3 DEF Simulates, Source!Next

LEMMA TransportStepSimulates ==
    ASSUME ClientInv, NEW t \in Thread, TransportStep(t)
    PROVE  Simulates
<1> USE DEF ClientInv, ClientTyped, H!Goto
<1>1. CASE H!Retry(t)
  <2>1. /\ pc[t] = "handle" /\ authorized[t] /\ UNCHANGED <<bearer, header>>
        /\ attempt' = [attempt EXCEPT ![t] = attempt[t] + 1]
        /\ pc' = [pc EXCEPT ![t] = "token"]
    BY <1>1 DEF H!Retry, H!CanRetry
  <2>2. header[t] > 0
    BY <2>1 DEF HoldsToken
  <2>3. /\ Asking(t) = "no" /\ Asking(t)' = "new"
        /\ \A u \in Thread : u # t => Asking(u)' = Asking(u)
    BY <2>1 DEF Asking, H!InProvider
  <2>4. Source!AskNew(t)
    BY <2>1, <2>2, <2>3 DEF Source!AskNew
  <2> QED
    BY <2>4 DEF Simulates, Source!Next
<1>2. CASE ~H!Retry(t)
  <2>1. /\ pc[t] \in {"send", "handle"} /\ UNCHANGED <<bearer, header, attempt>>
        /\ \E step \in {"handle", "idle"} : pc' = [pc EXCEPT ![t] = step]
    BY <1>2 DEF TransportStep, H!Exchange, H!Answer, H!Fail, H!End
  <2>2. \A u \in Thread : Asking(u)' = Asking(u)
    BY <2>1 DEF Asking, H!InProvider
  <2> QED
    BY <2>1, <2>2 DEF Simulates, Source!vars
<1> QED
  BY <1>1, <1>2

(* Between entering the provider and its return the client is busy on      *)
(* behalf of one step of BearerSource still to come.                       *)
LEMMA InsideSimulates ==
    ASSUME ClientInv, NEW t \in Thread,
           ProviderCall(t) \/ CacheStep(t) \/ TokenRequest(t) \/ TokenAnswer(t)
    PROVE  Simulates
<1> USE DEF ClientInv, ClientTyped, H!Goto
<1>1. CASE CacheStep(t)
  BY <1>1 DEF CacheStep, transportVars, Simulates, Source!vars, Asking, H!InProvider
<1>2. CASE ProviderCall(t) \/ TokenRequest(t) \/ TokenAnswer(t)
  <2>1. /\ pc[t] \in {"token", "provider", "inner"}
        /\ UNCHANGED <<bearer, header, attempt>>
        /\ \E step \in {"provider", "inner", "provided"} : pc' = [pc EXCEPT ![t] = step]
    BY <1>2 DEF ProviderCall, TokenRequest, TokenAnswer, H!AcquireTokenLock,
                H!InnerRequest, H!InnerAnswer, H!callVars
  <2>2. \A u \in Thread : Asking(u)' = Asking(u)
    BY <2>1 DEF Asking, H!InProvider
  <2> QED
    BY <2>1, <2>2 DEF Simulates, Source!vars
<1> QED
  BY <1>1, <1>2

LEMMA ProviderDoneSimulates ==
    ASSUME ClientInv, NEW t \in Thread, ProviderDone(t)
    PROVE  Simulates
<1> USE DEF ClientInv, ClientTyped, H!Goto, H!End, NoToken
<1>1. /\ pc[t] \in {"provider", "provided"} /\ UNCHANGED attempt
      /\ \E step \in {"send", "idle"} : pc' = [pc EXCEPT ![t] = step]
  BY DEF ProviderDone, H!ProviderReturns, H!ProviderFails
<1>2. /\ Asking(t) = IF attempt[t] > 0 THEN "new" ELSE "any"
      /\ Asking(t)' = "no"
      /\ \A u \in Thread : u # t => Asking(u)' = Asking(u)
  BY <1>1 DEF Asking, H!InProvider
<1>3. CASE UNCHANGED <<bearer, header>>
  <2>1. Source!Deny(t)
    BY <1>2, <1>3 DEF Source!Deny
  <2> QED
    BY <2>1 DEF Simulates, Source!Next
<1>4. CASE ~UNCHANGED <<bearer, header>>
  <2>1. /\ cpc[t] = "return" /\ result[t] # 0
        /\ bearer' = result[t]
        /\ header' = [header EXCEPT ![t] = result[t]]
    BY <1>4 DEF ProviderDone, H!ProviderReturns, H!ProviderFails
  <2>2. /\ result[t] \in Nat /\ result[t] > 0 /\ result[t] >= bearer
        /\ attempt[t] > 0 => result[t] > bearer
    BY <2>1 DEF CallInCache, InOrder, C!TokenRecord
  <2>3. Source!Give(t)
    BY <1>2, <2>1, <2>2 DEF Source!Give
  <2> QED
    BY <2>3 DEF Simulates, Source!Next
<1> QED
  BY <1>3, <1>4

(* The transport, the cache and their two locks together implement         *)
(* BearerSource.                                                           *)
THEOREM ImplementsBearerSourceHolds == Spec => ImplementsBearerSource
<1>1. Init => Source!Init
  BY DEF Init, H!Init, NoToken, StaticSerial, Source!Init, Asking, H!InProvider
<1>2. ClientInv /\ [Next]_vars => [Source!Next]_Source!vars
  <2> SUFFICES ASSUME ClientInv, [Next]_vars
               PROVE  Simulates
    BY DEF Simulates
  <2>1. CASE Clock \/ Finished \/ UNCHANGED vars
    BY <2>1 DEF Clock, Finished, H!Finished, vars, transportVars, H!vars, H!callVars,
                Simulates, Source!vars, Asking, H!InProvider
  <2>2. ASSUME NEW t \in Thread, Request(t) \/ Proceed(t)
        PROVE  Simulates
    BY <2>2, RequestSimulates, TransportStepSimulates, InsideSimulates,
       ProviderDoneSimulates DEF Proceed
  <2> QED
    BY <2>1, <2>2 DEF Next
<1> QED
  BY <1>1, <1>2, ClientInvHolds, PTL DEF Spec, ImplementsBearerSource, Source!Spec

----------------------------------------------------------------------------
(* The other refinement: what the client's transport does is what          *)
(* HttpTransport may do with some provider.                                *)
LEMMA CacheReturnsToken ==
    ASSUME ClientInv, NEW t \in Thread, ProviderDone(t), cpc[t] = "return", result[t] # NoToken
    PROVE  result[t] \in Token
<1>1. result[t] = token.serial /\ token.serial <= issued
  BY DEF ClientInv, CallInCache, InOrder, NoToken
<1>2. /\ result[t] \in Nat /\ result[t] # 0 /\ issued \in 1..MaxIssued
  BY DEF ClientInv, ClientTyped, NoToken
<1> QED
  BY <1>1, <1>2, ClientAssumption DEF Token

LEMMA StepOfTransport ==
    ASSUME ClientInv, NEW t \in Thread, Request(t) \/ Proceed(t)
    PROVE  H!Next \/ UNCHANGED H!vars
<1>1. CASE Request(t)
  BY <1>1 DEF Request, H!Next
<1>2. CASE TransportStep(t)
  BY <1>2 DEF TransportStep, H!Next, H!Proceed
<1>3. CASE ProviderCall(t)
  BY <1>3 DEF ProviderCall, H!Next, H!Proceed
<1>4. CASE CacheStep(t)
  BY <1>4 DEF CacheStep, transportVars, H!vars, H!callVars, H!history
<1>5. CASE TokenRequest(t) \/ TokenAnswer(t)
  BY <1>5 DEF TokenRequest, TokenAnswer, H!Next, H!Proceed
<1>6. CASE ProviderDone(t)
  <2>1. CASE cpc[t] = "return" /\ result[t] # NoToken
    <3>1. H!ProviderReturns(t, result[t])
      BY <1>6, <2>1 DEF ProviderDone
    <3> QED
      BY <1>6, <2>1, <3>1, CacheReturnsToken DEF H!Next, H!Proceed
  <2>2. CASE ~(cpc[t] = "return" /\ result[t] # NoToken)
    <3>1. \E how \in H!ProviderFailure : H!ProviderFails(t, how)
      BY <1>6, <2>2 DEF ProviderDone, H!ProviderFailure
    <3> QED
      BY <3>1 DEF H!Next, H!Proceed
  <2> QED
    BY <2>1, <2>2
<1> QED
  BY <1>1, <1>2, <1>3, <1>4, <1>5, <1>6 DEF Proceed

(* With the cache as its provider, called back by the cache for the token  *)
(* requests, the transport behaves as HttpTransport says.                  *)
THEOREM ImplementsTransportHolds == Spec => ImplementsTransport
<1>1. Init => H!Init
  BY DEF Init
<1>2. ClientInv /\ [Next]_vars => [H!Next]_H!vars
  <2> SUFFICES ASSUME ClientInv, [Next]_vars
               PROVE  H!Next \/ UNCHANGED H!vars
    OBVIOUS
  <2>1. CASE Clock \/ UNCHANGED vars
    BY <2>1 DEF Clock, vars, transportVars, H!vars, H!callVars, H!history
  <2>2. CASE Finished
    BY <2>2 DEF Finished, H!Next
  <2>3. ASSUME NEW t \in Thread, Request(t) \/ Proceed(t)
        PROVE  H!Next \/ UNCHANGED H!vars
    BY <2>3, StepOfTransport
  <2> QED
    BY <2>1, <2>2, <2>3 DEF Next
<1> QED
  BY <1>1, <1>2, ClientInvHolds, PTL DEF Spec, ImplementsTransport, H!Spec

(* The results about the transport alone.                                  *)
Transport == INSTANCE HttpTransportProofs

LEMMA TransportAssumptions == Transport!TransportAssumption /\ Transport!AnswersAssumption
<1>1. NoToken \notin Token
  BY ClientAssumption DEF NoToken, Token
<1> QED
  BY <1>1, ClientAssumption DEF Transport!TransportAssumption, Transport!AnswersAssumption,
                                Transport!Reply, H!Reply

(* H and Transport are two names of one specification.                     *)
LEMMA SameTransport ==
    /\ H!Init <=> Transport!Init
    /\ [H!Next]_H!vars <=> [Transport!Next]_Transport!vars
<1> USE DEF H!vars, Transport!vars, H!callVars, Transport!callVars, H!history,
            Transport!history, H!Goto, Transport!Goto, H!End, Transport!End, H!NoReply,
            Transport!NoReply, H!Forced, Transport!Forced, H!NoBody, Transport!NoBody,
            H!Own, Transport!Own, H!Inner, Transport!Inner
<1>1. ASSUME NEW t \in Thread
      PROVE  H!Begin(t) <=> Transport!Begin(t)
  BY DEF H!Begin, Transport!Begin
<1>2. ASSUME NEW t \in Thread
      PROVE  H!Proceed(t) <=> Transport!Proceed(t)
  BY DEF H!Proceed, Transport!Proceed, H!StaticToken, Transport!StaticToken,
         H!NoStaticToken, Transport!NoStaticToken, H!AcquireTokenLock,
         Transport!AcquireTokenLock, H!TokenLockFree, Transport!TokenLockFree,
         H!InnerRequest, Transport!InnerRequest, H!InnerAnswer, Transport!InnerAnswer,
         H!ProviderReturns, Transport!ProviderReturns, H!ReleaseTokenLock,
         Transport!ReleaseTokenLock, H!ProviderFails, Transport!ProviderFails,
         H!ProviderFailure, Transport!ProviderFailure, H!FailureOutcome,
         Transport!FailureOutcome, H!Exchange, Transport!Exchange, H!Refused,
         Transport!Refused, H!CodeZero, Transport!CodeZero, H!Answer, Transport!Answer,
         H!KeepBody, Transport!KeepBody, H!Retry, Transport!Retry, H!Decided,
         Transport!Decided, H!CanRetry, Transport!CanRetry, H!ShouldRetry,
         Transport!ShouldRetry, H!Fail, Transport!Fail, H!RaisedError, Transport!RaisedError
<1>3. H!Next <=> Transport!Next
  BY <1>1, <1>2 DEF H!Next, Transport!Next, H!Reject, Transport!Reject, H!Call,
                    Transport!Call, H!Finished, Transport!Finished
<1>4. H!vars = Transport!vars /\ (UNCHANGED H!vars <=> UNCHANGED Transport!vars)
  OBVIOUS
<1>5. H!Init <=> Transport!Init
  BY DEF H!Init, Transport!Init
<1> QED
  BY <1>3, <1>4, <1>5

LEMMA SpecOfTransport == Spec => Transport!Spec
BY SameTransport, ImplementsTransportHolds, PTL DEF ImplementsTransport, H!Spec, Transport!Spec

(* So a client's request, too, is executed at most once unless its answer  *)
(* says "unauthorized", is sent no oftener than retry_unauthorized allows, *)
(* and leaves no response open.                                            *)
THEOREM ClientKeepsTransport ==
    Spec => [](H!TokenLock /\ H!SendBudget /\ H!AtMostOnce /\ H!ResponsesClosed)
<1>1. /\ Transport!TokenLock <=> H!TokenLock
      /\ Transport!SendBudget <=> H!SendBudget
      /\ Transport!AtMostOnce <=> H!AtMostOnce
      /\ Transport!ResponsesClosed <=> H!ResponsesClosed
  BY DEF H!TokenLock, Transport!TokenLock, H!InProvider, Transport!InProvider,
         H!SendBudget, Transport!SendBudget, H!AtMostOnce, Transport!AtMostOnce,
         H!ResponsesClosed, Transport!ResponsesClosed
<1>2. Transport!Spec => [](/\ Transport!TokenLock /\ Transport!SendBudget
                          /\ Transport!AtMostOnce /\ Transport!ResponsesClosed)
  BY TransportAssumptions, Transport!TokenLockExcludes, Transport!SendBudgetHolds,
     Transport!ExecutedAtMostOnce, Transport!ResponsesAreClosed, PTL
<1> QED
  BY <1>1, <1>2, SpecOfTransport, PTL

(* Every variable of the client keeps its type.                            *)
THEOREM ClientTypes == Spec => []TypeOK
<1>1. Transport!TypeOK <=> H!TypeOK
  BY DEF H!TypeOK, Transport!TypeOK, H!Own, Transport!Own, H!Inner, Transport!Inner,
         H!NoBody, Transport!NoBody, H!Reply, Transport!Reply
<1>2. Spec => []H!TypeOK
  BY <1>1, TransportAssumptions, SpecOfTransport, Transport!TypeCorrect, PTL
<1>3. ClientInv => C!TypeOK /\ \A t \in Thread : cpc[t] # "out" <=> H!InProvider(t)
  BY DEF ClientInv, ClientTyped, OneInCache, C!TypeOK
<1>4. H!TypeOK /\ ClientInv => TypeOK
  BY <1>3 DEF TypeOK
<1> QED
  BY <1>2, <1>4, ClientInvHolds, PTL
============================================================================
