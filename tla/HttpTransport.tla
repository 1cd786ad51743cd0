--------------------------- MODULE HttpTransport ---------------------------
(***************************************************************************)
(* HttpTransport (transport.py): one transport shared by the threads of a  *)
(* program.  _request_serialized obtains a bearer token, sends, reads and  *)
(* classifies the answer, and after an unauthorized one has the bearer     *)
(* token provider issue a new token and sends again.  The provider is any  *)
(* callable that may itself send one unauthorized request through this     *)
(* transport, as the client's OAuth token cache does.                      *)
(***************************************************************************)
EXTENDS Integers, FiniteSets

CONSTANTS
    Thread,              \* the threads that send requests
    Token,               \* the bearer tokens
    NoToken,             \* bearer_token is None
    RetryUnauthorized,   \* retry_unauthorized
    Answers,             \* the replies of the opener, some or all of Reply below
    MaxCalls             \* bound: the number of requests made by the callers

ASSUME TransportAssumption ==
    /\ NoToken \notin Token
    /\ RetryUnauthorized \in Nat
    /\ MaxCalls \in Nat

(***************************************************************************)
(* What the opener may do with an attempt: raise (URLError, a timeout, an  *)
(* OSError), raise an HTTPError that carries an answer, or return an       *)
(* answer.  Reading the answer's body yields all of it, or more than       *)
(* max_response_bytes, or breaks.  503 stands for every status but 200 and *)
(* 401.  The body of an HTTP 200 answer is not JSON, or is not an envelope *)
(* with an integer code, or has code 401, another error code, or code 0    *)
(* with data the decoder takes or not.  `says` holds when the text kept of *)
(* the body contains "unauthorized" or "not logged in".                    *)
(***************************************************************************)
Reply ==
    {r \in [via    : {"raise", "HTTPError", "response"},
            status : {0, 200, 401, 503},
            read   : {"none", "whole", "oversize", "broken"},
            body   : {"none", "not JSON", "no code", "code 401", "error code",
                      "data", "bad data"},
            says   : BOOLEAN] :
        /\ r.via = "raise" <=> r.status = 0
        /\ r.via = "raise" <=> r.read = "none"
        /\ r.via = "HTTPError" => r.status # 200
        /\ r.body # "none" <=> (r.status = 200 /\ r.read = "whole")
        /\ r.says => r.read = "whole" /\ r.body \notin {"code 401", "data"}}

ASSUME AnswersAssumption == Answers \subseteq Reply

VARIABLES
    provider,      \* _bearer_token_provider is not None
    bearer,        \* self.bearer_token
    tokenHolder,   \* the threads that hold self._token_lock
    lastBody,      \* whose body self.last_response_body is
    open,          \* the threads whose last response is not closed yet
    pc,            \* where each thread is in _request_serialized
    authorized,    \* the argument of each thread's request
    attempt,       \* its local variable of that name
    header,        \* the token in its Authorization header
    reply,         \* what the opener did with its last attempt
    outcome,       \* how its request ended: "none" while it runs
    calls,         \* the number of requests made by the callers
    sends,         \* history: the attempts of each thread's request
    executions,    \* history: how often the server executed that request
    misled,        \* history: an executed attempt was answered "unauthorized"
    succeeded,     \* history: an attempt was answered with code 0
    solo           \* history: the thread whose request no other overlaps, if any

callVars == <<authorized, attempt, header, reply, outcome>>
history  == <<sends, executions, misled, succeeded, solo>>
vars == <<provider, bearer, tokenHolder, lastBody, open, pc, callVars, calls, history>>

NoBody == <<"no body">>
Own(t) == <<"request", t>>
Inner(t) == <<"token request", t>>

(* An unauthorized request was not executed; one answered with code 0 was. *)
(* Any other attempt may have been executed, its answer lost or not.       *)
Refused(r) == r.status = 401 \/ r.body = "code 401"
CodeZero(r) == r.body \in {"data", "bad data"}

NoReply == [via |-> "raise", status |-> 0, read |-> "none", body |-> "none", says |-> FALSE]

Init ==
    /\ provider \in BOOLEAN
    /\ bearer \in Token \cup {NoToken}
    /\ tokenHolder = {}
    /\ lastBody = NoBody
    /\ open = {}
    /\ pc = [t \in Thread |-> "idle"]
    /\ authorized = [t \in Thread |-> FALSE]
    /\ attempt = [t \in Thread |-> 0]
    /\ header = [t \in Thread |-> NoToken]
    /\ reply = [t \in Thread |-> NoReply]
    /\ outcome = [t \in Thread |-> "none"]
    /\ calls = 0
    /\ sends = [t \in Thread |-> 0]
    /\ executions = [t \in Thread |-> 0]
    /\ misled = [t \in Thread |-> FALSE]
    /\ succeeded = [t \in Thread |-> FALSE]
    /\ solo = {}

Goto(t, step) == pc' = [pc EXCEPT ![t] = step]

(* Mutant: no `finally`. *)
EndUnclosed(t, how) ==
    /\ Goto(t, "idle")
    /\ outcome' = [outcome EXCEPT ![t] = how]
    /\ UNCHANGED open

(* The request ends; `finally` closes its response. *)
End(t, how) ==
    /\ Goto(t, "idle")
    /\ outcome' = [outcome EXCEPT ![t] = how]
    /\ open' = open \ {t}

----------------------------------------------------------------------------
(* A caller's request begins: last_response_body is cleared. *)
Begin(t) ==
    /\ pc[t] = "idle"
    /\ calls < MaxCalls
    /\ calls' = calls + 1
    /\ lastBody' = NoBody
    /\ attempt' = [attempt EXCEPT ![t] = 0]
    /\ header' = [header EXCEPT ![t] = NoToken]
    /\ reply' = [reply EXCEPT ![t] = NoReply]
    /\ sends' = [sends EXCEPT ![t] = 0]
    /\ executions' = [executions EXCEPT ![t] = 0]
    /\ misled' = [misled EXCEPT ![t] = FALSE]
    /\ succeeded' = [succeeded EXCEPT ![t] = FALSE]
    /\ solo' = IF \A u \in Thread : pc[u] = "idle" THEN {t} ELSE {}
    /\ UNCHANGED <<provider, bearer, tokenHolder>>

(* The path, body or headers are rejected. *)
Reject(t) ==
    /\ Begin(t)
    /\ End(t, "ValueError")
    /\ authorized' = [authorized EXCEPT ![t] = FALSE]

Call(t, auth) ==
    /\ Begin(t)
    /\ authorized' = [authorized EXCEPT ![t] = auth]
    /\ outcome' = [outcome EXCEPT ![t] = "none"]
    /\ Goto(t, IF auth THEN "token" ELSE "send")
    /\ UNCHANGED open

(* _current_bearer_token without a provider. *)
StaticToken(t) ==
    /\ pc[t] = "token"
    /\ ~provider
    /\ bearer # NoToken
    /\ header' = [header EXCEPT ![t] = bearer]
    /\ Goto(t, "send")
    /\ UNCHANGED <<provider, bearer, tokenHolder, lastBody, open, authorized,
                   attempt, reply, outcome, calls, history>>

NoStaticToken(t) ==
    /\ pc[t] = "token"
    /\ ~provider
    /\ bearer = NoToken
    /\ End(t, "ValueError")
    /\ UNCHANGED <<provider, bearer, tokenHolder, lastBody, authorized, attempt,
                   header, reply, calls, history>>

(* Mutant: the retry asks for any token. *)
NeverForced(t) == FALSE

(* Both _current_bearer_token and, on a retry, _refresh_bearer_token call  *)
(* the provider inside `with self._token_lock`.                            *)
Forced(t) == attempt[t] > 0

ReleaseTokenLock(t) == tokenHolder' = tokenHolder \ {t}

(* Mutant: the lock is not taken. *)
TokenLockIgnored == TRUE

TokenLockFree == tokenHolder = {}

AcquireTokenLock(t) ==
    /\ pc[t] = "token"
    /\ provider
    /\ TokenLockFree
    /\ tokenHolder' = tokenHolder \cup {t}
    /\ Goto(t, "provider")
    /\ UNCHANGED <<provider, bearer, lastBody, open, callVars, calls, history>>

(* Mutant: the token request is authorized itself. *)
InnerRequestAuthorized(t) ==
    /\ pc[t] = "provider"
    /\ TokenLockFree
    /\ lastBody' = NoBody
    /\ Goto(t, "inner")
    /\ UNCHANGED <<provider, bearer, tokenHolder, open, callVars, calls, history>>

(* The provider's own request through this transport, authorized=False: it *)
(* neither takes the token lock again nor is retried.                      *)
InnerRequest(t) ==
    /\ pc[t] = "provider"
    /\ lastBody' = NoBody
    /\ Goto(t, "inner")
    /\ UNCHANGED <<provider, bearer, tokenHolder, open, callVars, calls, history>>

InnerAnswer(t, read) ==
    /\ pc[t] = "inner"
    /\ lastBody' = IF read THEN Inner(t) ELSE lastBody
    /\ Goto(t, "provided")
    /\ UNCHANGED <<provider, bearer, tokenHolder, open, callVars, calls, history>>

(* The provider returns a token; the response of the attempt it replaces   *)
(* is closed only now, by the `finally` that `continue` runs.              *)
ProviderReturns(t, token) ==
    /\ pc[t] \in {"provider", "provided"}
    /\ bearer' = token
    /\ header' = [header EXCEPT ![t] = token]
    /\ ReleaseTokenLock(t)
    /\ open' = open \ {t}
    /\ Goto(t, "send")
    /\ UNCHANGED <<provider, lastBody, authorized, attempt, reply, outcome, calls, history>>

(* The provider returns None or a blank token, or raises. *)
ProviderFailure == {"None", "blank", "ApiException", "OtherError"}

(* Mutant: the token is not normalized. *)
FailureUnchecked(t, how) == how

FailureOutcome(t, how) ==
    IF how = "None" /\ Forced(t) THEN "ApiException"
    ELSE IF how \in {"None", "blank"} THEN "ValueError"
    ELSE how

ProviderFails(t, how) ==
    /\ pc[t] \in {"provider", "provided"}
    /\ ReleaseTokenLock(t)
    /\ End(t, FailureOutcome(t, how))
    /\ UNCHANGED <<provider, bearer, lastBody, authorized, attempt, header, reply,
                   calls, history>>
----------------------------------------------------------------------------
(* The opener and response.read() handle one attempt; the server executed  *)
(* the request or not.                                                     *)
Exchange(t, r, executed) ==
    /\ pc[t] = "send"
    /\ executed => ~Refused(r)
    /\ CodeZero(r) => executed
    /\ reply' = [reply EXCEPT ![t] = r]
    /\ open' = IF r.via = "raise" THEN open ELSE open \cup {t}
    /\ sends' = [sends EXCEPT ![t] = @ + 1]
    /\ executions' = [executions EXCEPT ![t] = @ + IF executed THEN 1 ELSE 0]
    /\ misled' = [misled EXCEPT ![t] = @ \/ (executed /\ r.says)]
    /\ succeeded' = [succeeded EXCEPT ![t] = @ \/ CodeZero(r)]
    /\ Goto(t, "handle")
    /\ UNCHANGED <<provider, bearer, tokenHolder, lastBody, authorized, attempt,
                   header, outcome, calls, solo>>

(* The answer becomes a LuminalApiException that reaches a retry decision: *)
(* not so when the opener raised, when a returned body broke off, and, on  *)
(* the HTTPError path, whenever reading the body raises, since that error  *)
(* leaves from inside the handler.                                         *)
Decided(r) ==
    /\ r.body # "data"
    /\ CASE r.via = "raise"     -> FALSE
         [] r.via = "HTTPError" -> r.read = "whole"
         [] r.via = "response"  -> r.read # "broken"

(* Mutant: server errors are retried too. *)
RetryAnyStatus(r) == r.status # 200 \/ r.body = "code 401" \/ r.says

(* _should_retry_unauthorized *)
ShouldRetry(r) == Refused(r) \/ r.says

(* Mutant: one retry too many. *)
CanRetryOnceMore(t) ==
    /\ authorized[t]
    /\ provider
    /\ attempt[t] <= RetryUnauthorized
    /\ ShouldRetry(reply[t])

(* _can_retry_unauthorized *)
CanRetry(t) ==
    /\ authorized[t]
    /\ provider
    /\ attempt[t] < RetryUnauthorized
    /\ ShouldRetry(reply[t])

(* Mutant: a body already kept is not replaced. *)
KeepFirstBody(t) ==
    lastBody' = IF reply[t].read = "whole" /\ lastBody = NoBody THEN Own(t) ELSE lastBody

(* self.last_response_body = raw_response, once all of it has been read. *)
KeepBody(t) == lastBody' = IF reply[t].read = "whole" THEN Own(t) ELSE lastBody

Answer(t) ==
    /\ pc[t] = "handle"
    /\ reply[t].body = "data"
    /\ KeepBody(t)
    /\ End(t, "ok")
    /\ UNCHANGED <<provider, bearer, tokenHolder, authorized, attempt, header,
                   reply, calls, history>>

(* An HTTPError is closed at once, a returned response after the refresh. *)
Retry(t) ==
    /\ pc[t] = "handle"
    /\ Decided(reply[t])
    /\ CanRetry(t)
    /\ KeepBody(t)
    /\ attempt' = [attempt EXCEPT ![t] = @ + 1]
    /\ open' = IF reply[t].via = "HTTPError" THEN open \ {t} ELSE open
    /\ reply' = [reply EXCEPT ![t] = NoReply]
    /\ Goto(t, "token")
    /\ UNCHANGED <<provider, bearer, tokenHolder, authorized, header, outcome,
                   calls, history>>

(* A body that breaks off in the HTTPError handler is not wrapped. *)
RaisedError(r) ==
    IF r.via = "HTTPError" /\ r.read = "broken" THEN "OtherError" ELSE "ApiException"

Fail(t) ==
    /\ pc[t] = "handle"
    /\ reply[t].body # "data"
    /\ ~(Decided(reply[t]) /\ CanRetry(t))
    /\ KeepBody(t)
    /\ End(t, RaisedError(reply[t]))
    /\ UNCHANGED <<provider, bearer, tokenHolder, authorized, attempt, header,
                   reply, calls, history>>

(* Every request has returned and the bound is reached. *)
Finished ==
    /\ calls = MaxCalls
    /\ \A t \in Thread : pc[t] = "idle"
    /\ UNCHANGED vars

(* The steps a thread takes once its request has begun. *)
Proceed(t) ==
    \/ StaticToken(t)
    \/ NoStaticToken(t)
    \/ AcquireTokenLock(t)
    \/ InnerRequest(t)
    \/ \E read \in BOOLEAN : InnerAnswer(t, read)
    \/ \E token \in Token : ProviderReturns(t, token)
    \/ \E how \in ProviderFailure : ProviderFails(t, how)
    \/ \E r \in Answers, executed \in BOOLEAN : Exchange(t, r, executed)
    \/ Answer(t)
    \/ Retry(t)
    \/ Fail(t)

Next ==
    \/ \E t \in Thread :
          \/ Reject(t)
          \/ \E auth \in BOOLEAN : Call(t, auth)
          \/ Proceed(t)
    \/ Finished

Spec == Init /\ [][Next]_vars

----------------------------------------------------------------------------
InProvider(t) == pc[t] \in {"provider", "inner", "provided"}

(* Every variable has its type. *)
TypeOK ==
    /\ provider \in BOOLEAN
    /\ bearer \in Token \cup {NoToken}
    /\ tokenHolder \in SUBSET Thread
    /\ lastBody \in {NoBody} \cup {Own(t) : t \in Thread} \cup {Inner(t) : t \in Thread}
    /\ open \in SUBSET Thread
    /\ pc \in [Thread -> {"idle", "token", "provider", "inner", "provided", "send", "handle"}]
    /\ authorized \in [Thread -> BOOLEAN]
    /\ attempt \in [Thread -> Nat]
    /\ header \in [Thread -> Token \cup {NoToken}]
    /\ reply \in [Thread -> Reply]
    /\ outcome \in [Thread -> {"none", "ok", "ApiException", "ValueError", "OtherError"}]
    /\ calls \in Nat
    /\ sends \in [Thread -> Nat]
    /\ executions \in [Thread -> Nat]
    /\ misled \in [Thread -> BOOLEAN]
    /\ succeeded \in [Thread -> BOOLEAN]
    /\ solo \in SUBSET Thread

(* _token_lock: the provider is never entered by two threads, and a thread *)
(* that waits for a business answer does not hold the lock.                *)
TokenLock ==
    /\ \A t \in Thread : t \in tokenHolder <=> InProvider(t)
    /\ \A t, u \in tokenHolder : t = u

(* retry_unauthorized bounds the attempts of one request, across both      *)
(* handlers that retry.                                                    *)
SendBudget == \A t \in Thread : sends[t] <= 1 + RetryUnauthorized

(* No response stays open: none outlives its request, and none is open     *)
(* when the next attempt is sent, on any of the paths out of the handlers. *)
ResponsesClosed == \A t \in open : pc[t] \notin {"idle", "send"}

(* A request the server executed is not sent again, whatever becomes of    *)
(* its answer, unless the answer's own text says "unauthorized": a lost,   *)
(* oversized or broken answer to a payment is never answered by a resend.  *)
AtMostOnce == \A t \in Thread : executions[t] > 1 => misled[t]

(* After a request nobody else's overlapped, last_response_body is the     *)
(* body of its own last answer, not the token endpoint's (which holds the  *)
(* access token) nor an earlier request's.                                 *)
LastBodyIsOwn ==
    \A t \in solo : outcome[t] = "ok" => lastBody = Own(t)

(* README: "Every other HTTP status, malformed envelope, non-zero business *)
(* code, or invalid JSON raises `LuminalApiException`."  An HTTPError      *)
(* whose body cannot be read raises what the read raised.                  *)
HttpStatusRaisesApiException ==
    \A t \in Thread :
        (pc[t] = "idle" /\ outcome[t] # "none" /\ reply[t].status = 503) =>
            outcome[t] = "ApiException"

(* README: "`retry_unauthorized`: retry count after unauthorized           *)
(* response".  An answer with code 0 is none, and yet it is retried when   *)
(* it cannot be decoded and its text contains "unauthorized".              *)
NoResendAfterSuccess == \A t \in Thread : pc[t] = "send" => ~succeeded[t]
============================================================================
