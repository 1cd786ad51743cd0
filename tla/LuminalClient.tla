--------------------------- MODULE LuminalClient ---------------------------
(***************************************************************************)
(* A LuminalOpenApiClient built with app_id and app_secret: the transport  *)
(* whose bearer token provider is the OAuth token cache, and the cache     *)
(* whose token requests go through that same transport.  A step here is a  *)
(* step of one of the two, or the one step of both in which one calls the  *)
(* other or returns to it.                                                 *)
(***************************************************************************)
EXTENDS Integers, FiniteSets

CONSTANTS Thread, RetryUnauthorized, Answers, MaxCalls,
          Expiry, RatioNum, RatioDen, SecondsCeiling, MsPerSecond, MaxTime, MaxIssued

VARIABLES
    provider, bearer, tokenHolder, lastBody, open, pc, authorized, attempt, header,
    reply, outcome, calls, sends, executions, misled, succeeded, solo,
    token, acquired, cacheHolder, time, issued, cpc, force, seen, seenAt, result

(* Tokens are numbered as they are issued; StaticSerial is the bearer_token *)
(* the client may be given besides app_id and app_secret.                   *)
StaticSerial == 1
NoToken == 0
Token == 1..MaxIssued

H == INSTANCE HttpTransport
C == INSTANCE OAuthTokenCache

ASSUME ClientAssumption ==
    /\ Answers \subseteq H!Reply
    /\ Expiry \in SUBSET Nat
    /\ RetryUnauthorized \in Nat
    /\ MaxCalls \in Nat /\ MaxIssued \in Nat \ {0}

transportVars == <<provider, bearer, tokenHolder, lastBody, open, pc, authorized, attempt,
                   header, reply, outcome, calls, sends, executions, misled, succeeded, solo>>
cacheVars == <<token, acquired, cacheHolder, time, issued, cpc, force, seen, seenAt, result>>
vars == <<transportVars, cacheVars>>

(* __init__ binds the APIs to the transport, then makes the cache its provider. *)
Init ==
    /\ H!Init
    /\ provider = TRUE
    /\ bearer \in {NoToken, StaticSerial}
    /\ C!InitIssued(StaticSerial)

----------------------------------------------------------------------------
(* A caller's request begins. *)
Request(t) ==
    /\ \/ H!Reject(t)
       \/ \E auth \in BOOLEAN : H!Call(t, auth)
    /\ UNCHANGED cacheVars

(* The attempt is sent, and its answer handled. *)
TransportStep(t) ==
    /\ \/ \E r \in Answers, executed \in BOOLEAN : H!Exchange(t, r, executed)
       \/ H!Answer(t)
       \/ H!Retry(t)
       \/ H!Fail(t)
    /\ UNCHANGED cacheVars

(* self._bearer_token_provider(force), inside `with self._token_lock`. *)
ProviderCall(t) ==
    /\ H!AcquireTokenLock(t)
    /\ C!Enter(t, H!Forced(t))

CacheStep(t) ==
    /\ \/ C!Peek(t)
       \/ C!CheckStamp(t)
       \/ C!ReadStamp(t)
       \/ C!ReuseUnlocked(t)
       \/ C!GoLock(t)
       \/ C!AcquireCacheLock(t)
       \/ C!ReuseLocked(t)
       \/ C!Store(t)
       \/ C!Date(t)
    /\ UNCHANGED transportVars

(* self._client.auth.get_token: a request of the cache's own. *)
TokenRequest(t) ==
    /\ C!StartFetch(t)
    /\ H!InnerRequest(t)

TokenAnswer(t) ==
    \/ /\ \/ \E access \in BOOLEAN, expires \in Expiry : C!Fetched(t, access, expires)
          \/ C!FetchedNull(t)
       /\ H!InnerAnswer(t, TRUE)
    \/ /\ C!FetchFails(t)
       /\ \E read \in BOOLEAN : H!InnerAnswer(t, read)

(* The cache returns to the transport. *)
ProviderDone(t) ==
    /\ C!Leave(t)
    /\ \/ /\ cpc[t] = "return" /\ result[t] # NoToken
          /\ H!ProviderReturns(t, result[t])
       \/ /\ cpc[t] = "return" /\ result[t] = NoToken
          /\ H!ProviderFails(t, "None")
       \/ /\ cpc[t] = "raise"
          /\ \E how \in {"ApiException", "OtherError"} : H!ProviderFails(t, how)
       \/ /\ cpc[t] = "null"
          /\ H!ProviderFails(t, "OtherError")

(* The wall clock advances, or is set back. *)
Clock == (C!Tick \/ C!SetBack) /\ UNCHANGED transportVars

Finished == H!Finished /\ UNCHANGED cacheVars

Proceed(t) ==
    \/ TransportStep(t)
    \/ ProviderCall(t)
    \/ CacheStep(t)
    \/ TokenRequest(t)
    \/ TokenAnswer(t)
    \/ ProviderDone(t)

Next == Clock \/ Finished \/ \E t \in Thread : Request(t) \/ Proceed(t)

Spec == Init /\ [][Next]_vars

(* Every exchange, the token request's too, ends within self.timeout, and  *)
(* a thread that can run does.  No caller need begin a request.            *)
FairSpec == Spec /\ \A t \in Thread : WF_vars(Proceed(t))

----------------------------------------------------------------------------
(* Every variable has its type, and the provider is entered exactly while  *)
(* the transport calls it.                                                 *)
TypeOK ==
    /\ H!TypeOK
    /\ C!TypeOK
    /\ \A t \in Thread : cpc[t] # "out" <=> H!InProvider(t)

(* What the cache judges without its own lock is whole: no thread writes   *)
(* the token or its stamp between two of the reads, so a token is reused   *)
(* only if it is the newest one and was judged by its own stamp.  Nothing  *)
(* in the cache ensures this; the transport's _token_lock does.            *)
UnlockedReadsAreWhole ==
    \A t \in Thread :
        cpc[t] \in {"stamp", "lifetime", "judge"} =>
            /\ seen[t] = token
            /\ cpc[t] = "judge" => seenAt[t] = acquired
            /\ \A u \in Thread : cpc[u] \notin {"store", "date"}

(* A refused token is not sent again: the attempt after an unauthorized    *)
(* answer carries a token newer than the one the request carried before.   *)
NewTokenOnRetry ==
    [][\A t \in Thread :
          (H!InProvider(t) /\ pc'[t] = "send" /\ attempt[t] > 0) => header'[t] > header[t]]_vars

Asking(t) ==
    IF pc[t] = "token" \/ H!InProvider(t)
    THEN IF attempt[t] > 0 THEN "new" ELSE "any"
    ELSE "no"

Source == INSTANCE BearerSource WITH
              asking <- [t \in Thread |-> Asking(t)],
              got <- header

(* The client gives its requests tokens as BearerSource says: the cache,   *)
(* its two locks and its token requests amount to one step per request.    *)
ImplementsBearerSource == Source!Spec

(* What HttpTransport supposes of a provider it does not know, the cache   *)
(* satisfies although its token requests go through the same transport, so *)
(* all that is shown of the transport alone holds here.                    *)
ImplementsTransport == H!Spec

(* Every request returns: a token request made inside the provider, under  *)
(* both locks, waits for neither.                                          *)
CallsReturn == \A t \in Thread : pc[t] # "idle" ~> pc[t] = "idle"
============================================================================
