-------------------------- MODULE OAuthTokenCache --------------------------
(***************************************************************************)
(* _OAuthTokenCache (client.py): the bearer token provider of a client     *)
(* built with app_id and app_secret.  __call__ first judges the cached     *)
(* token without the lock, then again with it, and otherwise has the token *)
(* endpoint issue one.  The token and the time it was acquired are two     *)
(* attributes, written one after the other and read one after the other.   *)
(***************************************************************************)
EXTENDS Integers, FiniteSets

CONSTANTS
    Thread,           \* the threads that call the provider
    Expiry,           \* the values of expiresTime the endpoint answers with; 0: missing
    RatioNum,         \* token_refresh_ratio is RatioNum / RatioDen
    RatioDen,
    SecondsCeiling,   \* an expiresTime below this (1e12 in the code) is in seconds
    MsPerSecond,      \* 1000 in the code
    MaxTime,          \* bound: the last value of the clock
    MaxIssued         \* bound: the serial of the last token issued

ASSUME CacheAssumption ==
    /\ Expiry \in SUBSET Nat
    /\ RatioNum \in Nat \ {0} /\ RatioDen \in Nat \ {0} /\ RatioNum <= RatioDen
    /\ SecondsCeiling \in Nat /\ MsPerSecond \in Nat \ {0}
    /\ MaxTime \in Nat /\ MaxIssued \in Nat

VARIABLES
    token,         \* self._token
    acquired,      \* self._acquired_at_ms, -1 while it is None
    cacheHolder,   \* the threads that hold self._lock
    time,          \* int(time.time() * 1000)
    issued,        \* the serial of the last token the endpoint issued
    cpc,           \* where each thread is in __call__
    force,         \* the argument of each thread's call
    seen,          \* its local variable `token`
    seenAt,        \* the value of self._acquired_at_ms its ttl is computed from
    result         \* what it returned: the serial of an access token, 0 for None

locals == <<force, seen, seenAt, result>>
cacheVars == <<token, acquired, cacheHolder, time, issued, cpc, locals>>

(* An OAuth2Token: serial tells the tokens apart, access says whether it   *)
(* has an accessToken.  None is the token with serial 0.                   *)
TokenRecord == [serial : Nat, access : BOOLEAN, expires : Nat]
None == [serial |-> 0, access |-> FALSE, expires |-> 0]
(* Mutant: a token without accessToken is taken for one. *)
AccessUnchecked(tok) == IF tok.access THEN tok.serial ELSE -1

Access(tok) == IF tok.access THEN tok.serial ELSE 0

InitIssued(n) ==
    /\ token = None
    /\ acquired = -1
    /\ cacheHolder = {}
    /\ time = 0
    /\ issued = n
    /\ cpc = [t \in Thread |-> "out"]
    /\ force = [t \in Thread |-> FALSE]
    /\ seen = [t \in Thread |-> None]
    /\ seenAt = [t \in Thread |-> -1]
    /\ result = [t \in Thread |-> 0]

Init == InitIssued(0)

Goto(t, step) == cpc' = [cpc EXCEPT ![t] = step]
Return(t, value) ==
    /\ Goto(t, "return")
    /\ result' = [result EXCEPT ![t] = value]
    /\ cacheHolder' = cacheHolder \ {t}

(* expires *= 1000 when expires < 1_000_000_000_000 *)
Millis(expires) == IF expires < SecondsCeiling THEN expires * MsPerSecond ELSE expires

(* Mutant: a token that had expired when it was acquired is not noticed. *)
NeedsRefreshByRatio(tok, at, now) ==
    LET ttl       == Millis(tok.expires) - at
        remaining == Millis(tok.expires) - now
    IN  tok.expires = 0 \/ at = -1 \/ remaining * RatioDen <= ttl * RatioNum

(* _needs_refresh(tok), with self._acquired_at_ms = at and the clock at now. *)
NeedsRefresh(tok, at, now) ==
    LET ttl       == Millis(tok.expires) - at
        remaining == Millis(tok.expires) - now
    IN  \/ tok.expires = 0
        \/ at = -1
        \/ ttl <= 0
        \/ remaining * RatioDen <= ttl * RatioNum

Enter(t, forced) ==
    /\ cpc[t] = "out"
    /\ force' = [force EXCEPT ![t] = forced]
    /\ Goto(t, "peek")
    /\ UNCHANGED <<token, acquired, cacheHolder, time, issued, seen, seenAt, result>>

(* Without the lock: token = self._token ... *)
Peek(t) ==
    /\ cpc[t] = "peek"
    /\ seen' = [seen EXCEPT ![t] = token]
    /\ Goto(t, IF force[t] \/ token = None THEN "wait" ELSE "stamp")
    /\ UNCHANGED <<token, acquired, cacheHolder, time, issued, force, seenAt, result>>

(* ... then self._acquired_at_ms, to see that it is not None ... *)
CheckStamp(t) ==
    /\ cpc[t] = "stamp"
    /\ Goto(t, IF seen[t].expires = 0 \/ acquired = -1 THEN "wait" ELSE "lifetime")
    /\ UNCHANGED <<token, acquired, cacheHolder, time, issued, locals>>

(* ... and once more, to compute ttl ... *)
ReadStamp(t) ==
    /\ cpc[t] = "lifetime"
    /\ seenAt' = [seenAt EXCEPT ![t] = acquired]
    /\ Goto(t, "judge")
    /\ UNCHANGED <<token, acquired, cacheHolder, time, issued, force, seen, result>>

(* ... then the clock. *)
ReuseUnlocked(t) ==
    /\ cpc[t] = "judge"
    /\ ~NeedsRefresh(seen[t], seenAt[t], time)
    /\ Return(t, Access(seen[t]))
    /\ UNCHANGED <<token, acquired, time, issued, force, seen, seenAt>>

GoLock(t) ==
    /\ cpc[t] = "judge"
    /\ NeedsRefresh(seen[t], seenAt[t], time)
    /\ Goto(t, "wait")
    /\ UNCHANGED <<token, acquired, cacheHolder, time, issued, locals>>

(* Mutant: the lock is not taken. *)
CacheLockIgnored == TRUE

CacheLockFree == cacheHolder = {}

AcquireCacheLock(t) ==
    /\ cpc[t] = "wait"
    /\ CacheLockFree
    /\ cacheHolder' = cacheHolder \cup {t}
    /\ Goto(t, "recheck")
    /\ UNCHANGED <<token, acquired, time, issued, locals>>

Reusable == token # None /\ ~NeedsRefresh(token, acquired, time)

(* With the lock the same four reads are one step: only its holder writes. *)
ReuseLocked(t) ==
    /\ cpc[t] = "recheck"
    /\ ~force[t] /\ Reusable
    /\ seen' = [seen EXCEPT ![t] = token]
    /\ Return(t, Access(token))
    /\ UNCHANGED <<token, acquired, time, issued, force, seenAt>>

(* auth.get_token sends its request. *)
StartFetch(t) ==
    /\ cpc[t] = "recheck"
    /\ force[t] \/ ~Reusable
    /\ Goto(t, "fetch")
    /\ UNCHANGED <<token, acquired, cacheHolder, time, issued, locals>>

(* The endpoint answers with a token, with or without an access token and  *)
(* an expiry, or with null data.                                           *)
Fetched(t, access, expires) ==
    /\ cpc[t] = "fetch"
    /\ issued < MaxIssued
    /\ issued' = issued + 1
    /\ seen' = [seen EXCEPT ![t] =
                   [serial |-> issued + 1, access |-> access, expires |-> expires]]
    /\ Goto(t, "store")
    /\ UNCHANGED <<token, acquired, cacheHolder, time, force, seenAt, result>>

FetchedNull(t) ==
    /\ cpc[t] = "fetch"
    /\ seen' = [seen EXCEPT ![t] = None]
    /\ Goto(t, "store")
    /\ UNCHANGED <<token, acquired, cacheHolder, time, issued, force, seenAt, result>>

(* get_token raises: nothing is stored. *)
FetchFails(t) ==
    /\ cpc[t] = "fetch"
    /\ cacheHolder' = cacheHolder \ {t}
    /\ Goto(t, "raise")
    /\ UNCHANGED <<token, acquired, time, issued, locals>>

Store(t) ==
    /\ cpc[t] = "store"
    /\ token' = seen[t]
    /\ Goto(t, "date")
    /\ UNCHANGED <<acquired, cacheHolder, time, issued, locals>>

(* The stamp, and the return of token.access_token: an AttributeError when *)
(* the endpoint's data was null.                                           *)
Date(t) ==
    /\ cpc[t] = "date"
    /\ acquired' = time
    /\ IF seen[t] = None
       THEN /\ Goto(t, "null")
            /\ cacheHolder' = cacheHolder \ {t}
            /\ UNCHANGED result
       ELSE Return(t, Access(seen[t]))
    /\ UNCHANGED <<token, time, issued, force, seen, seenAt>>

(* The call is over, and with it its local variables. *)
Leave(t) ==
    /\ cpc[t] \in {"return", "raise", "null"}
    /\ Goto(t, "out")
    /\ force' = [force EXCEPT ![t] = FALSE]
    /\ seen' = [seen EXCEPT ![t] = None]
    /\ seenAt' = [seenAt EXCEPT ![t] = -1]
    /\ result' = [result EXCEPT ![t] = 0]
    /\ UNCHANGED <<token, acquired, cacheHolder, time, issued>>

(* The wall clock advances, or is set back. *)
Tick ==
    /\ time < MaxTime
    /\ time' = time + 1
    /\ UNCHANGED <<token, acquired, cacheHolder, issued, cpc, locals>>

SetBack ==
    /\ \E earlier \in 0..(time - 1) : time' = earlier
    /\ UNCHANGED <<token, acquired, cacheHolder, issued, cpc, locals>>

Step(t) ==
    \/ \E forced \in BOOLEAN : Enter(t, forced)
    \/ Peek(t)
    \/ CheckStamp(t)
    \/ ReadStamp(t)
    \/ ReuseUnlocked(t)
    \/ GoLock(t)
    \/ AcquireCacheLock(t)
    \/ ReuseLocked(t)
    \/ StartFetch(t)
    \/ \E access \in BOOLEAN, expires \in Expiry : Fetched(t, access, expires)
    \/ FetchedNull(t)
    \/ FetchFails(t)
    \/ Store(t)
    \/ Date(t)
    \/ Leave(t)

Next == Tick \/ SetBack \/ \E t \in Thread : Step(t)

Spec == Init /\ [][Next]_cacheVars

----------------------------------------------------------------------------
InLock(t) == cpc[t] \in {"recheck", "fetch", "store", "date"}

(* Every variable has its type. *)
TypeOK ==
    /\ token \in TokenRecord
    /\ acquired \in Nat \cup {-1}
    /\ cacheHolder \in SUBSET Thread
    /\ time \in Nat
    /\ issued \in Nat
    /\ cpc \in [Thread -> {"out", "peek", "stamp", "lifetime", "judge", "wait", "recheck",
                           "fetch", "store", "date", "return", "raise", "null"}]
    /\ force \in [Thread -> BOOLEAN]
    /\ seen \in [Thread -> TokenRecord]
    /\ seenAt \in [Thread -> Nat \cup {-1}]
    /\ result \in [Thread -> Nat]

(* _lock: one token request at a time, and a failed one frees the lock.    *)
SingleFlight ==
    /\ \A t \in Thread : t \in cacheHolder <=> InLock(t)
    /\ \A t, u \in cacheHolder : t = u

(* The cache never goes back to an older token: whenever no thread is      *)
(* writing, it holds the newest one issued, or none after null data.       *)
NewestIsKept ==
    (\A t \in Thread : cpc[t] \notin {"store", "date"}) => token.serial \in {0, issued}

(* A token is reused only while it has not expired by the clock, although  *)
(* the token and its stamp may be read across another thread's write and   *)
(* the clock may have been set back since the token was acquired.          *)
NeverReusesExpired ==
    [][\A t \in Thread :
          (cpc[t] \in {"judge", "recheck"} /\ cpc'[t] = "return") =>
              /\ result'[t] = Access(seen'[t])
              /\ time < Millis(seen'[t].expires)]_cacheVars

============================================================================
