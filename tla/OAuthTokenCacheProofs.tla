----------------------- MODULE OAuthTokenCacheProofs -----------------------
(***************************************************************************)
(* Proofs about OAuthTokenCache, for any threads, refresh ratio, answers of *)
(* the token endpoint and behaviour of the clock.                          *)
(***************************************************************************)
EXTENDS OAuthTokenCache, TLAPS

(* Between its request and its write a thread that holds the lock has the  *)
(* newest token issued, or None.                                           *)
StoresNewest == \A t \in Thread : cpc[t] = "store" => seen[t].serial \in {0, issued}

(* Whoever is about to write apart, the cache holds the newest token: from *)
(* the write of the token on, before that of its stamp.                    *)
HeldIsNewest == (\A t \in Thread : cpc[t] # "store") => token.serial \in {0, issued}

CacheInv ==
    /\ TypeOK
    /\ SingleFlight
    /\ StoresNewest
    /\ HeldIsNewest

----------------------------------------------------------------------------
LEMMA NoneIsToken == None \in TokenRecord
BY DEF None, TokenRecord

LEMMA AccessIsSerial == ASSUME NEW tok \in TokenRecord PROVE Access(tok) \in Nat
BY DEF Access, TokenRecord

LEMMA CacheInvInit == Init => CacheInv
<1> SUFFICES ASSUME Init
             PROVE  CacheInv
  OBVIOUS
<1> USE DEF Init, InitIssued
<1>1. TypeOK
  BY NoneIsToken DEF TypeOK
<1>2. SingleFlight
  BY DEF SingleFlight, InLock
<1>3. StoresNewest /\ HeldIsNewest
  BY DEF StoresNewest, HeldIsNewest, None
<1> QED
  BY <1>1, <1>2, <1>3 DEF CacheInv

(* Every step keeps the types.                                             *)
LEMMA StepKeepsTypes ==
    ASSUME TypeOK, NEW t \in Thread, Step(t)
    PROVE  TypeOK'
<1> USE CacheAssumption, NoneIsToken DEF TypeOK, Goto, Return, locals
<1>1. ASSUME NEW forced \in BOOLEAN, Enter(t, forced)
      PROVE  TypeOK'
  BY <1>1 DEF Enter
<1>2. ASSUME Peek(t)
      PROVE  TypeOK'
  BY <1>2 DEF Peek
<1>3. ASSUME CheckStamp(t) \/ ReadStamp(t)
      PROVE  TypeOK'
  BY <1>3 DEF CheckStamp, ReadStamp
<1>4. ASSUME ReuseUnlocked(t)
      PROVE  TypeOK'
  <2>1. Access(seen[t]) \in Nat
    BY AccessIsSerial
  <2> QED
    BY <1>4, <2>1 DEF ReuseUnlocked
<1>5. ASSUME GoLock(t)
      PROVE  TypeOK'
  BY <1>5 DEF GoLock
<1>6. ASSUME AcquireCacheLock(t)
      PROVE  TypeOK'
  BY <1>6 DEF AcquireCacheLock
<1>7. ASSUME ReuseLocked(t)
      PROVE  TypeOK'
  <2>1. Access(token) \in Nat
    BY AccessIsSerial
  <2> QED
    BY <1>7, <2>1 DEF ReuseLocked
<1>8. ASSUME StartFetch(t)
      PROVE  TypeOK'
  BY <1>8 DEF StartFetch
<1>9. ASSUME NEW access \in BOOLEAN, NEW expires \in Expiry, Fetched(t, access, expires)
      PROVE  TypeOK'
  <2>1. [serial |-> issued + 1, access |-> access, expires |-> expires] \in TokenRecord
    BY DEF TokenRecord
  <2> QED
    BY <1>9, <2>1 DEF Fetched
<1>10. ASSUME FetchedNull(t)
       PROVE  TypeOK'
  BY <1>10 DEF FetchedNull
<1>11. ASSUME FetchFails(t)
       PROVE  TypeOK'
  BY <1>11 DEF FetchFails
<1>12. ASSUME Store(t)
       PROVE  TypeOK'
  BY <1>12 DEF Store
<1>13. ASSUME Date(t)
       PROVE  TypeOK'
  <2>1. Access(seen[t]) \in Nat
    BY AccessIsSerial
  <2>2. CASE seen[t] = None
    BY <1>13, <2>2 DEF Date
  <2>3. CASE seen[t] # None
    BY <1>13, <2>1, <2>3 DEF Date
  <2> QED
    BY <2>2, <2>3
<1>14. ASSUME Leave(t)
       PROVE  TypeOK'
  BY <1>14 DEF Leave
<1> QED
  BY <1>1, <1>2, <1>3, <1>4, <1>5, <1>6, <1>7, <1>8, <1>9, <1>10, <1>11, <1>12,
     <1>13, <1>14 DEF Step

(* A step of one thread leaves the others where they are, and takes and    *)
(* frees the lock where it enters and leaves the part of the call under it. *)
LEMMA StepMovesOne ==
    ASSUME TypeOK, NEW t \in Thread, Step(t)
    PROVE  /\ \A u \in Thread : u # t => cpc'[u] = cpc[u] /\ seen'[u] = seen[u]
           /\ \/ /\ cacheHolder = {} /\ cacheHolder' = {t} /\ InLock(t)'
              \/ /\ cacheHolder' = cacheHolder /\ (InLock(t) <=> InLock(t)')
              \/ /\ cacheHolder' = cacheHolder \ {t} /\ ~InLock(t)'
<1> USE DEF TypeOK, Goto, Return, locals, InLock
<1>1. CASE \E forced \in BOOLEAN : Enter(t, forced)
  BY <1>1 DEF Enter
<1>2. CASE Peek(t) \/ CheckStamp(t) \/ ReadStamp(t) \/ GoLock(t)
  BY <1>2 DEF Peek, CheckStamp, ReadStamp, GoLock
<1>3. CASE ReuseUnlocked(t) \/ ReuseLocked(t)
  BY <1>3 DEF ReuseUnlocked, ReuseLocked
<1>4. CASE AcquireCacheLock(t)
  BY <1>4 DEF AcquireCacheLock, CacheLockFree
<1>5. CASE StartFetch(t) \/ FetchedNull(t) \/ FetchFails(t)
  BY <1>5 DEF StartFetch, FetchedNull, FetchFails
<1>6. CASE \E access \in BOOLEAN, expires \in Expiry : Fetched(t, access, expires)
  BY <1>6 DEF Fetched
<1>7. CASE Store(t)
  BY <1>7 DEF Store
<1>8. CASE Date(t)
  BY <1>8 DEF Date
<1>9. CASE Leave(t)
  BY <1>9 DEF Leave
<1> QED
  BY <1>1, <1>2, <1>3, <1>4, <1>5, <1>6, <1>7, <1>8, <1>9 DEF Step

LEMMA StepKeepsSingleFlight ==
    ASSUME TypeOK, SingleFlight, NEW t \in Thread, Step(t)
    PROVE  SingleFlight'
BY StepMovesOne DEF SingleFlight, InLock

(* Only the thread that holds the lock has tokens issued, and writes them. *)
LEMMA StepKeepsNewest ==
    ASSUME CacheInv, NEW t \in Thread, Step(t)
    PROVE  StoresNewest' /\ HeldIsNewest'
<1> DEFINE Others == \A u \in Thread : u # t => cpc'[u] = cpc[u] /\ seen'[u] = seen[u]
<1>a. Others
  BY StepMovesOne DEF CacheInv
<1>b. ASSUME InLock(t), NEW u \in Thread, u # t
      PROVE  cpc[u] # "store"
  BY <1>b DEF CacheInv, SingleFlight, InLock
<1> USE DEF CacheInv, TypeOK, Goto, Return, locals, StoresNewest, HeldIsNewest
<1>1. CASE \E access \in BOOLEAN, expires \in Expiry : Fetched(t, access, expires)
  <2>1. /\ cpc[t] = "fetch" /\ cpc'[t] = "store"
        /\ issued' = issued + 1 /\ seen'[t].serial = issued'
    BY <1>1 DEF Fetched
  <2>2. \A u \in Thread : u # t => cpc'[u] # "store"
    BY <1>a, <1>b, <2>1 DEF InLock
  <2> QED
    BY <2>1, <2>2
<1>2. CASE FetchedNull(t)
  <2>1. /\ cpc[t] = "fetch" /\ cpc'[t] = "store" /\ seen'[t].serial = 0
    BY <1>2 DEF FetchedNull, None
  <2>2. \A u \in Thread : u # t => cpc'[u] # "store"
    BY <1>a, <1>b, <2>1 DEF InLock
  <2> QED
    BY <2>1, <2>2
<1>3. CASE Store(t)
  <2>1. /\ cpc[t] = "store" /\ cpc'[t] = "date" /\ token' = seen[t] /\ issued' = issued
    BY <1>3 DEF Store
  <2>2. \A u \in Thread : u # t => cpc'[u] # "store"
    BY <1>a, <1>b, <2>1 DEF InLock
  <2> QED
    BY <2>1, <2>2
<1>4. ASSUME cpc[t] # "store", cpc'[t] # "store", token' = token, issued' = issued
      PROVE  StoresNewest' /\ HeldIsNewest'
  BY <1>a, <1>4
<1>5. CASE \E forced \in BOOLEAN : Enter(t, forced)
  BY <1>4, <1>5 DEF Enter
<1>6. CASE Peek(t) \/ CheckStamp(t) \/ ReadStamp(t) \/ GoLock(t) \/ AcquireCacheLock(t)
  BY <1>4, <1>6 DEF Peek, CheckStamp, ReadStamp, GoLock, AcquireCacheLock
<1>7. CASE ReuseUnlocked(t) \/ ReuseLocked(t) \/ StartFetch(t) \/ FetchFails(t)
  BY <1>4, <1>7 DEF ReuseUnlocked, ReuseLocked, StartFetch, FetchFails
<1>8. CASE Date(t)
  BY <1>4, <1>8 DEF Date
<1>9. CASE Leave(t)
  BY <1>4, <1>9 DEF Leave
<1> QED
  BY <1>1, <1>2, <1>3, <1>5, <1>6, <1>7, <1>8, <1>9 DEF Step

LEMMA ClockKeepsInv ==
    ASSUME CacheInv, Tick \/ SetBack
    PROVE  CacheInv'
<1>1. time' \in Nat /\ UNCHANGED <<token, acquired, cacheHolder, issued, cpc, locals>>
  BY DEF CacheInv, TypeOK, Tick, SetBack
<1> QED
  BY <1>1 DEF CacheInv, TypeOK, SingleFlight, InLock, StoresNewest, HeldIsNewest, locals

LEMMA CacheInvNext == CacheInv /\ [Next]_cacheVars => CacheInv'
<1> SUFFICES ASSUME CacheInv, [Next]_cacheVars
             PROVE  CacheInv'
  OBVIOUS
<1>1. CASE UNCHANGED cacheVars
  BY <1>1 DEF cacheVars, locals, CacheInv, TypeOK, SingleFlight, InLock, StoresNewest,
              HeldIsNewest
<1>2. CASE Tick \/ SetBack
  BY <1>2, ClockKeepsInv
<1>3. ASSUME NEW t \in Thread, Step(t)
      PROVE  CacheInv'
  BY <1>3, StepKeepsTypes, StepKeepsSingleFlight, StepKeepsNewest DEF CacheInv
<1> QED
  BY <1>1, <1>2, <1>3 DEF Next

(* The inductive invariant the results below rest on.                      *)
THEOREM CacheInvariant == Spec => []CacheInv
<1>1. Init => CacheInv
  BY CacheInvInit
<1>2. CacheInv /\ [Next]_cacheVars => CacheInv'
  BY CacheInvNext
<1> QED
  BY <1>1, <1>2, PTL DEF Spec

(* Every variable keeps its type, whatever the endpoint issues.            *)
THEOREM CacheTypes == Spec => []TypeOK
<1>1. CacheInv => TypeOK
  BY DEF CacheInv
<1> QED
  BY <1>1, CacheInvariant, PTL

(* The lock of _OAuthTokenCache: at most one token request at a time, and  *)
(* no path through __call__, the failing ones included, keeps it.          *)
THEOREM OneFetchAtATime == Spec => []SingleFlight
<1>1. CacheInv => SingleFlight
  BY DEF CacheInv
<1> QED
  BY <1>1, CacheInvariant, PTL

(* However the calls interleave, the cache never goes back to a token      *)
(* older than one it has been given.                                       *)
THEOREM CacheHoldsNewest == Spec => []NewestIsKept
<1>1. CacheInv => NewestIsKept
  BY DEF CacheInv, NewestIsKept, HeldIsNewest
<1> QED
  BY <1>1, CacheInvariant, PTL

----------------------------------------------------------------------------
LEMMA MillisIsNat == ASSUME NEW e \in Nat PROVE Millis(e) \in Nat
BY CacheAssumption DEF Millis

(* What _needs_refresh leaves as reusable has not expired: its lifetime    *)
(* from the stamp on is positive, so a positive share of it remains.       *)
LEMMA FreshIsUnexpired ==
    ASSUME NEW tok \in TokenRecord, NEW at \in Nat \cup {-1}, NEW now \in Nat,
           ~NeedsRefresh(tok, at, now)
    PROVE  now < Millis(tok.expires)
<1> DEFINE ttl       == Millis(tok.expires) - at
           remaining == Millis(tok.expires) - now
<1>1. Millis(tok.expires) \in Nat
  BY MillisIsNat DEF TokenRecord
<1>2. ttl \in Int /\ remaining \in Int
  BY <1>1
<1>3. ttl > 0 /\ ~(remaining * RatioDen <= ttl * RatioNum)
  BY <1>1 DEF NeedsRefresh
<1> HIDE DEF ttl, remaining
<1>4. ttl * RatioNum > 0
  BY <1>2, <1>3, CacheAssumption
<1>5. remaining * RatioDen > 0
  <2>1. ttl * RatioNum \in Int /\ remaining * RatioDen \in Int
    BY <1>2, CacheAssumption
  <2> QED
    BY <1>3, <1>4, <2>1
<1>6. remaining > 0
  BY <1>2, <1>5, CacheAssumption
<1> QED
  BY <1>1, <1>6 DEF remaining

LEMMA StepReusesUnexpired ==
    ASSUME TypeOK, NEW t \in Thread, NEW u \in Thread, Step(u),
           cpc[t] \in {"judge", "recheck"}, cpc'[t] = "return"
    PROVE  result'[t] = Access(seen'[t]) /\ time < Millis(seen'[t].expires)
<1>1. u = t
  BY StepMovesOne
<1> USE DEF TypeOK, Goto, Return, locals
<1>2. CASE ReuseUnlocked(t)
  <2>1. /\ result'[t] = Access(seen[t]) /\ seen'[t] = seen[t]
        /\ ~NeedsRefresh(seen[t], seenAt[t], time)
    BY <1>2 DEF ReuseUnlocked
  <2> QED
    BY <2>1, FreshIsUnexpired
<1>3. CASE ReuseLocked(t)
  <2>1. /\ result'[t] = Access(token) /\ seen'[t] = token
        /\ ~NeedsRefresh(token, acquired, time)
    BY <1>3 DEF ReuseLocked, Reusable
  <2> QED
    BY <2>1, FreshIsUnexpired
<1>4. ReuseUnlocked(t) \/ ReuseLocked(t)
  BY <1>1 DEF Step, Enter, Peek, CheckStamp, ReadStamp, GoLock, AcquireCacheLock, StartFetch,
              Fetched, FetchedNull, FetchFails, Store, Date, Leave
<1> QED
  BY <1>2, <1>3, <1>4

(* Whatever was written between the reads and wherever the clock was set,  *)
(* a token is reused only while it has not expired.                        *)
THEOREM ReusesUnexpired == Spec => NeverReusesExpired
<1> DEFINE Reuse == \A t \in Thread :
                       (cpc[t] \in {"judge", "recheck"} /\ cpc'[t] = "return") =>
                           /\ result'[t] = Access(seen'[t])
                           /\ time < Millis(seen'[t].expires)
<1>1. TypeOK /\ [Next]_cacheVars => [Reuse]_cacheVars
  <2> SUFFICES ASSUME TypeOK, [Next]_cacheVars, cacheVars' # cacheVars,
                      NEW t \in Thread, cpc[t] \in {"judge", "recheck"}, cpc'[t] = "return"
               PROVE  result'[t] = Access(seen'[t]) /\ time < Millis(seen'[t].expires)
    BY DEF cacheVars
  <2>1. CASE Tick \/ SetBack
    BY <2>1 DEF Tick, SetBack
  <2>2. ASSUME NEW u \in Thread, Step(u)
        PROVE  result'[t] = Access(seen'[t]) /\ time < Millis(seen'[t].expires)
    BY <2>2, StepReusesUnexpired
  <2> QED
    BY <2>1, <2>2 DEF Next
<1> QED
  BY <1>1, CacheTypes, PTL DEF Spec, NeverReusesExpired
============================================================================
