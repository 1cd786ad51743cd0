# A verification of the Luminal Open API Python SDK

TLA+ models of the parts of `luminal_open_api_sdk` that have state, share it between threads, retry, expire or fail half-way,
and of the conversions between its models and JSON, and between key files and keys; the TLC configurations that check them;
and proofs, checked by TLAPS, of what must hold for every number of threads, retries, entries and ticks and every width of a
number. Line numbers refer to the files under `src/luminal_open_api_sdk/`.

## 1. The system

| Component | State it keeps | Operations | Talks to |
| --- | --- | --- | --- |
| `HttpTransport` (`transport.py`) | `bearer_token`, `_bearer_token_provider`, `_token_lock`, `last_response_body`; per call: attempt, headers, response | `post`, `get`, `post_serialized` (all `_request_serialized`), `with_bearer_token` | the opener (network), the provider (a callback made under `_token_lock`) |
| `_OAuthTokenCache` (`client.py`) | `_token`, `_acquired_at_ms`, `_lock` | `__call__(force)`, `_needs_refresh` | `auth.get_token`, that is the transport it serves; the wall clock |
| `LuminalOpenApiClient` (`client.py`) | the transport, the APIs bound to it, the cache | constructor, `with_bearer_token`, `parse_webhook` | all of the above |
| `WebhookReplayGuard` (`webhooks.py`) | `_entries` (an insertion-ordered dict), `_lock` | `accept` | the monotonic clock |
| `WebhookVerifier` (`webhooks.py`) | none | `verify`, `parse` | the guard, `crypto`, `codec` |
| Endpoint APIs (`client.py`) | none | one request each; `CardsApi.issue` signs one serialization and sends another | the transport |
| Models (`models.py`) | immutable values | constructors, nine of which tell an earlier positional argument shape from the present one | |
| JSON codec (`codec.py`, `transport.py`) | none | `to_wire`, `_encode`, `decode_value`, Java `Long` in and out | |
| Keys and signatures (`crypto.py`) | none | DER and PEM readers, `sign`, `verify` | |
| Logging (`transport.py`) | none | redacted request, response and webhook lines | the logger |

How they interact. A caller's thread calls an endpoint API, the API calls the transport. Before sending an authorized request
the transport calls its provider inside `with self._token_lock`; in a client built with `app_id` and `app_secret` the
provider is the token cache, which may send a request of its own, **through the same transport**, with `authorized=False`.
After an answer that means "unauthorized" the transport calls the provider again, with `force=True`, and sends the request
again, up to `retry_unauthorized` times. One client is shared by any number of threads. What a method sends is made from its
request by `to_wire` and `_encode`; what it returns is made from the answer's data by `decode_value`, inside the transport's
`try`, so that a value that does not decode fails the call and may be retried. Webhooks arrive on the threads of the
application's server; each calls `WebhookVerifier.parse`, which verifies, decodes and only then has the guard record the
event id.

What is hard here, with the lines in `PROJECT.json` under `hazards`:

* two locks, a callback under both of them, and a re-entry into the object that holds the first (deadlock, leaks);
* a fast path that reads two attributes and a clock without the cache's lock;
* retries: how many, of what, with which token, after which of the many ways an exchange can end, with which response left
  open; and never of a payment that was executed;
* time: tokens that expire, in seconds or milliseconds, a wall clock that is set back, a monotonic clock read before a lock
  is waited for;
* a bounded memory of event ids, evicted while still needed, consumed before the event is handled;
* constructors whose meaning depends on the number and the types of the positional arguments;
* Java Longs, which a program that keeps numbers as doubles changes beyond 2^53, and Python integers, which fit no Long;
* one request serialized twice, once to be signed and once to be sent;
* epoch numbers whose unit is guessed from their size and whose seconds become a double, and unions whose options' errors are
  forgotten;
* lengths and integers of DER at 127, 128 and 255, and a signature that is equal to another modulo the modulus.

## 2. The modules

| Module | Models | Role |
| --- | --- | --- |
| `ReplayGuard` | `WebhookReplayGuard.accept`, step by step, any number of threads | component, refines `AtomicGuard` |
| `AtomicGuard` | what `accept` promises its callers: one decision for each call | abstract specification |
| `ReplayGuardProofs` | | proofs about `ReplayGuard` |
| `HttpTransport` | `_request_serialized`, `_current_bearer_token`, `_refresh_bearer_token`, the retry decisions, `_read_response`, closing; the provider is **any** callable | component |
| `HttpTransportProofs` | | proofs about `HttpTransport` |
| `OAuthTokenCache` | `_OAuthTokenCache.__call__` and `_needs_refresh`; the token endpoint answers anything | component |
| `BearerSource` | what the client promises its requests about tokens | abstract specification |
| `OAuthTokenCacheProofs` | | proofs about `OAuthTokenCache` |
| `LuminalClient` | `INSTANCE`s of `HttpTransport` and `OAuthTokenCache`, calling each other | composition, refines `BearerSource` and `HttpTransport` |
| `LuminalClientProofs` | | proofs about `LuminalClient` |
| `WebhookDelivery` | `WebhookVerifier.parse`, its checks in order, run by a server's threads on deliveries and repeats; EXTENDS `ReplayGuard`, whose steps are the guard's | composition, refines `ReplayGuard` |
| `WebhookDeliveryProofs` | | proofs about `WebhookDelivery` |
| `ArgumentShapes` | the nine constructors of `models.py` that accept the positional arguments of earlier releases | component |
| `ArgumentShapesProofs` | | proofs about `ArgumentShapes` |
| `Scalars` | Longs, integers, decimals, instants and dates, out and in (`transport.py`, `codec.py`) | operators |
| `Models` | the fields and annotations of all request and response classes of `models.py` | tables |
| `JsonCodec` | `to_wire`, `_encode` and `decode_value` of whole values | operators |
| `EndpointCalls` | every endpoint method of `client.py`, from its argument to the body and from the answer's data to its result | composition of `Models` and `JsonCodec` |
| `EndpointCallsProofs` | | proofs about `Scalars`, `JsonCodec` and `EndpointCalls` |
| `Der` | the DER readers of `crypto.py`, byte by byte, and a writer of keys | operators |
| `RsaSignatures` | `read_public_key`, `read_private_key`, `sign`, `verify` | component, uses `Der` |
| `RsaSignaturesProofs` | | proofs about `Der` and `RsaSignatures` |
| `MCReplayGuard`, `MCHttpTransport`, `MCOAuthTokenCache`, `MCLuminalClient`, `MCWebhookDelivery`, `MCEndpointCalls`, `MCRsaSignatures` | | values for TLC |

### ReplayGuard

`accept` is split where another thread can act: reading the clock (`Enter`, line 75, outside the lock), taking the lock
(`AcquireLock`), deleting the expired ids (`Purge`), finding the id (`Refuse`, `Pass`), making room (`EvictFirst`, once per
turn of the `while`) and recording (`Record`). A dict entry is the time it was recorded with and its place in the insertion
order. `log` is a history variable: the acceptances, each with the time the call read and the time it recorded. `Expired`,
`Full`, `First` and `Entry` are the four expressions a small mistake would hide in, so they are operators.

`AtomicGuard` is `accept` without the lock and the loops: a call is made (`Ask`), decides (`Refuse` or `Accept`) and returns.
Deciding forgets what was no longer fresh at the time the call was made; accepting keeps of the rest the newest, so that with
the new id they are no more than `MaxEntries`. `ReplayGuard` implements it with a refinement mapping whose decision is taken
at `Purge`, the step that fixes its outcome: from then until `Record` the abstract memory is not the dict, but what the dict
will be when the call has evicted and recorded (`Recorded`, of which `Lasting` is what the evictions will leave).

### HttpTransport

`pc[t]` is where a thread is in `_request_serialized`: `token` (about to obtain one), `provider` / `inner` / `provided`
(inside the provider: before, during and after a request of its own), `send`, `handle` (the answer is there), `idle`. What
the network can do with an attempt is the set `Reply`: raise, raise an `HTTPError`, or return; a body read whole, too long,
or broken off; every class of envelope; a text that mentions "unauthorized" or not. `Exchange` chooses one, and whether the
server executed the request. `Decided` says which of them reach a retry decision, which is subtle: an error raised while the
`except HTTPError` block reads the body leaves from inside an `except` clause, and the clauses below do not catch it. `End`
is the way out, with the `finally`. History variables: `sends`, `executions`, `misled` (an executed attempt was answered with
a text that says "unauthorized"), `succeeded`, and `solo` (the thread whose request nobody's overlaps).

### OAuthTokenCache

The unlocked reads are four steps: `Peek` (`_token`), `CheckStamp` and `ReadStamp` (`_acquired_at_ms`, which line 144 compares
with `None` and line 148 reads again) and the judgement (`ReuseUnlocked` or `GoLock`, which read the clock). The two writes
are two, `Store` and `Date`. The clock advances and is set back at any
time. `_needs_refresh` compares `remaining / ttl` with the ratio by cross-multiplication. The constants `SecondsCeiling` and
`MsPerSecond` are 10^12 and 1000 in the code.

### LuminalClient and BearerSource

`LuminalClient` adds no step of its own. A step is one of the transport's, one of the cache's, or one of both where one calls
the other: `ProviderCall`, `TokenRequest`, `TokenAnswer`, `ProviderDone`. Tokens are numbered as they are issued, so "newer"
is "greater". `BearerSource` has three variables and no lock: a request asks for any token or for a new one, and is given one
in a single step, never older than the last, and strictly newer when it asked for a new one. The refinement maps `asking` to
where a thread is, and `got` to its `Authorization` header. `HttpTransport` models the provider as any callable.
`ImplementsTransport` says that this one, which calls back into the transport that calls it, is such a callable, so that
nothing checked or proved of the transport is lost in the client.

### WebhookDelivery

A thread is at one of the `Checks` of `parse`, in the order of the code. A delivery carries the set of checks it will fail
(its `flaws`), so what RSA, JSON and the decoders compute is abstracted to whether they object. Checks that pass are skipped
in one step, since they touch nothing shared; `Reaches` names the next one that matters, a flaw or the guard. The call of
`accept` is `ReplayGuard`'s, step by step (`AskGuard`, `InGuard`). `guarded = FALSE` is `parse` without a guard, which is all
that `LuminalOpenApiClient.parse_webhook` offers. The sender may repeat any event at any moment, on the same thread or
another. Two history variables tie what `parse` returned to the guard's `log`: `place` is where in the log the acceptance is
that a thread has yet to hand over, and `handed` is, for each event, the places of those that were handed over.
`OnceUntilForgotten` is about any two of these: they are different acceptances, and by the time the later was recorded either
`ttl_seconds` had passed since the time the earlier was judged by, or `max_entries` other events had been accepted between the
two.

### ArgumentShapes

A caller writes a call, argument by argument, in any shape its class has ever had; an argument is its type, `None` included.
`Fields`, `LegacyNames` and `TotalLimitNames` are the code's tables of names (`names`, `legacy_names`, `total_limit_names`).
One operator for each class is that class's guess at the shape (`CardBinsIsOld`, `TransferStatusIsCurrent` and so on),
and the rest of the nine constructors, which is the same text nine times, is one: `Zipped`, `Values`, the four ways to raise,
in their order, and `Return`. `Means(shape)` is the properties' notion of a call that cannot mean anything else: it fits the
shape, type by type, and every other shape it fits gives each argument the same field. `OldestShapeKept` is about such calls.
`CompleteCallsKept` is about calls that give every argument of some shape, whether or not they can mean something else: it is
what decides for the classes whose oldest call also fits the beginning of a newer one (`IssueCardRequest`,
`CardLimitUpdateRequest`, `RechargeCardOperationRecordRequest`).

### Scalars, Models and JsonCodec

A value is a record whose one field names its Python type, `Str(spells, n)` being a string by what it spells (an integer,
`-0`, digits that are not ASCII, a number with one decimal, a datetime, a date, or just words). This keeps every distinction
the code makes (`isinstance`, the regular expression of a Long, `Decimal(str(value))`) without a character. The widths are
constants: `MaxLong`, `SafeBoundary`, `MillisFrom`, `Thousand` are 2^63 - 1, 2^53 - 1, 10^11 and 1000 in the code, and
`FirstInstant` and `LastInstant` the first microsecond of year 1 and the last of year 9999, counted from 1970.
`_decode_epoch_datetime` makes a double of the seconds and rounds it to microseconds (line 75); `EpochDatetime` rounds twice,
as that does: `Scale` is the power of two by which a double of the seconds is a whole number of full precision, and `Nearest`
rounds half to even. An error is a value, `Raise(class)`, passed on as an exception is. `Models` gives each class as a
function from its fields to their annotations, one table for one `@dataclass`. The code's `to_wire` and `decode_value` call
themselves; the fields of the models the endpoints take and give are scalars and lists of scalars, so each depth has an
operator of its own (`ItemToWire`, `FieldToWire`, `ToWire`; `DecodeScalar`, `DecodeItems`, `DecodeField`, `DecodeModel`,
`DecodeModels`), each the branches of the one function that values of that depth take. The single field that is a list of
models, `CardOpenStatusWebhook.list`, is a webhook's, and no endpoint's. What falls out of the translation, and is as the code
has it: `-0` and digits of other scripts are read as Longs; null is read as `False` by the methods that return a bool; the
cache takes expiry times for seconds up to 10^12 but the codec epoch numbers only up to 10^11.

### EndpointCalls

`Endpoint` is the table of what each method takes and gives. A call is `Call` (or `Follow`, with an identifier taken from the
result of the call before), then `Refuse`, or `Sign` where `issue` is given a key, `Send`, possibly `Relay`, and `Answer`. A
request has one field set, to any of the `Samples` of its annotation, since no conversion looks at two fields. `Relay` is a
program between the client and the server that keeps numbers as doubles, which is what the Long rule of the README is for.
`Answer` comes with data the server may send (`GoodData`), with data it should not (`BadData`), in the object, page or list
the method expects and outside of it. What these three constants may be is `DataAssumption`: a field is `Given` a value of the
type it is declared with, and any scalar at all where a Long is declared, since Python checks no annotation and
`_serialize_java_long` is there to refuse what is none; `Readable` is what a server written in Java may write for a field, a
Long as a number or a string, an instant in any of three units where no two can be confused, a date as a string or an array;
and `BadData` is any scalar, empty object or list of such. `Denotes(json, value)` is the properties' own notion of what a
piece of JSON says; it shares nothing with the decoders. An epoch number denotes every instant that is within half a
microsecond and the share of it by which a double may be off (`IsAbout`): a bound on what a conversion may change, not a
conversion. `refresh_token`, which is given a string, refuses a blank one (`BlankToken`). `operation_record`, which returns
the first record of a page, and `modify`, which returns nothing, are the two methods whose answers say more than they return.
The exchange itself, with its retries, is `HttpTransport`'s.

### Der and RsaSignatures

A byte has `Radix` values, those from `Half` on with the high bit set, so that short and long lengths, leading zeros and
"negative" integers occur in keys of a few bytes. The readers are the code's, in its order; what the code does in a loop over
bytes is a function on the naturals (`Number`, `Shifted`, `Items`), so that the module can be proved about. `Write` writes a
pair's public or private key in PKCS#1 or wrapped in a SubjectPublicKeyInfo or PrivateKeyInfo, whole, without its footer, or
with any one byte replaced, inserted or lost; `Read` reads it as either kind. `Sign` and `Verify` do the code's arithmetic,
and `Verify` is given every byte string of the right length. SHA-256 is a digest that tells contents apart. Of the key pairs
it is assumed that the two exponents undo each other modulo the modulus (`PairsAssumption`), which is what makes them a pair,
and that their files are short enough for a DER length to state (`FilesAssumption`). Items of the algorithm identifier behind
the NULL, and of a private key behind its private exponent, are not looked at, in the model as in the code; this is why
`KeysAreReadAsWritten` says that every byte counts only of bare public keys.

## 3. What TLC checks

| Run | Question | Bounds |
| --- | --- | --- |
| `replay_guard` | no early acceptance, no unjustified refusal, implements `AtomicGuard` | 2 threads, 3 ids, 2 entries, ttl 2, 4 ticks, 4 calls |
| `replay_guard_readme` | *violated*: "rejects a repeated `event_id` within its TTL" | same |
| `transport` | send budget, responses closed, at most one execution, last body | 2 threads, 2 requests, every reply on every attempt, 2 retries |
| `transport_error_kind` | *violated*: every other status raises `LuminalApiException` | as `transport` |
| `transport_resend` | *violated*: only unauthorized answers are retried | as `transport` |
| `token_cache` | no expired token reused, no going back to an older token | 2 threads, forced or not, 3 kinds of expiry, 5 clock values, 2 tokens |
| `client` | whole unlocked reads, new token on retry, implements `BearerSource` and `HttpTransport`, every request returns, through both locks and the nested request | 2 threads, 2 requests, 1 retry, 3 clock values, one reply for each way through the handlers |
| `webhook_delivery` | acceptances are handed over, a repeat is known, once until forgotten, implements `ReplayGuard` | 2 threads, 3 ids, 2 entries, ttl 2, 4 ticks, 4 deliveries, 4 kinds of delivery |
| `argument_shapes` | calls that can only be of the oldest shape, and complete ones of any shape, are read as written, one source for each field | every call that fits a shape, at most 3 arguments `None`, 1 keyword |
| `argument_shapes_doc` | *violated*: "either the pool-aware or legacy positional shape" | no keywords, 1 `None` |
| `endpoint_calls` | requests arrive whole and are readable, the signature covers what is sent, answers are believed as they are, to the precision of a double where an instant becomes one, good ones are read, instants keep their instant, identifiers can be sent again | all methods, every field of every class, Longs of 7 bits, doubles of 5 bits of precision, thousands of 2, 2 calls that follow one another |
| `signatures` | intact keys are read, damaged ones as no key but one they spell out, what is signed verifies, one signature for a content | bytes of 3 bits, 3 key pairs with moduli of 4 and 5 bytes, both forms, all files one byte away from a key, every signature of the right length |

Why these bounds are enough for the cases to happen. Two threads interleave at every step; a third would only wait at the
same lock, and the proofs need none. In the guard, three ids and two entries are the least with which an eviction forgets an
id that is still fresh, and four calls are the least with which that id then comes back. Two retries are the least with which
a retry follows a retry, through both handlers in either order. In the cache, a ttl of four ticks and a ratio of one half let
a token be fresh, due and expired, in either unit, and be dated before or after its own expiry. Data is small on purpose: the
code never looks at a token or an id except to compare it. Deliveries: three are the least with which a flawed one, a good
one and a repeat meet, and four those with which two other events push the first out of a guard of two entries and it comes
back. Argument lists are not bounded but by the shapes themselves and one argument too many; three `None`s
are the least with which all of the tail that `RechargeCardTransferStatusWebhook` looks at is `None`. Endpoint calls: Longs
stand at and on both sides of each boundary (the ends of the range, the safe range, the first number a double rounds), epoch
numbers at every second at which the units cannot be confused, microseconds that a double of the seconds loses (33, which is
read as 32), and instants on both sides of the first and the last. Two calls are the least with which an identifier is sent
again. Keys: the three moduli have just enough room for the padding, their high bit set (so a leading zero is written), and
too little room; wrapped keys are long enough for lengths of two bytes.

`CHECK_DEADLOCK` is left on everywhere but in `signatures`, where the use of a key is over once something was signed or
verified, or nothing was read. Elsewhere, where a bound ends a behaviour, the action `Finished` (`Done`, `Constructed`) says
that every request has returned; any other way to stop would be a deadlock of the code.

Each property is paired, in `PROJECT.json` under `mutants`, with a change to one definition that a plausible bug would make
(a lock not taken, an off-by-one, a missing `finally`, a retry of any status, a range check left out, an error lost) and that
TLC finds. The changed definitions stand in the modules, each marked "Mutant", and are used by nothing else.

### Where the code and its documents disagree

* `replay_guard_readme`. `README.md:231` promises that a repeat within the ttl is rejected. At `max_entries` the guard evicts
  the oldest id although it has not expired. `ReplayWindow` states what does hold, and is proved.
* `transport_error_kind`. `README.md:167` promises a `LuminalApiException` for every other HTTP status. When reading the body
  of an `HTTPError` fails, the caller gets the error of the read (line 427).
* `transport_resend`. An answer with code 0 whose data does not decode and whose text contains "unauthorized" is sent again
  (line 568). `AtMostOnce` states what does hold: nothing executed is sent again *unless* a text says so.
* `argument_shapes_doc`. `CreateSharedAccountRequest(bin, pool, amount)` takes the pool for the amount and the amount for the
  name (line 189). The same property fails for the other classes, as TLC finds when it is asked of one at a time: six
  pool-aware arguments of `CardBinsRequest` (line 574), and eight or more of `SharedAccountResponse` with no pool id (line
  315); of eighteen, `zip` drops the last without an error.

One thing disagrees with itself rather than with a document:
`SharedAccountTransactionIdResponse.shared_account_transaction_id` is a `str` (`models.py:371`), the request that asks for
such transactions takes it as a Long, and raises a `TypeError` when given what `increase` returned. `FollowUpsAreSent` names
it as its only exception.

## 4. Fairness

Liveness (`CallsReturn`, of `LuminalClient`) is checked under weak fairness of `Proceed(t)`, one condition for each thread: a
thread that can take its next step takes one. For the exchange with the server that is justified by `self.timeout`, which
every call of the opener is given: an exchange ends, in an answer or an error. For locks, weak fairness is enough only
because `MaxCalls` bounds the requests in the model: a waiting thread may be overtaken, but not forever. Python's
`threading.Lock` promises no more. No fairness is assumed of callers, of the clock or of the server's goodwill.

## 5. What is proved

All proofs are of the modules TLC runs, for every value of their constants.

**`ReplayGuardProofs`**, from `GuardAssumption` (ttl and capacity positive, as the constructor demands): `TypeCorrect`,
`LockExcludes`, `CapacityHolds`, `ReplayWindowHolds`, `RefusalsJustified` and a refinement, `ImplementsAtomicGuardHolds`.
`ReplayWindow` speaks of pairs of acceptances in
the log and says nothing of the dict, so it is far from inductive. The invariant, `GuardInv`, ties the two together: every
entry is an acceptance in the log, at its place, and for every acceptance one of four things holds (`Fate`): its id is still
in the dict with its stamp, or its ttl has passed, or as many other ids as the capacity were accepted since, or it was
evicted by a call that has yet to record its own id, with the others one short of the capacity. The last two need that the
entries before it in the dict's order leave first.

The refinement of `AtomicGuard` has one lemma for each step that it sees (`EnterSimulates`, `PurgeSimulates`,
`RefuseSimulates`, `RecordSimulates`) and one for those it does not (`SilentSteps`). At `Purge` the dict becomes what was
fresh, and whether the call's id is in it settles the verdict; that the mapped memory is then the newest of what was fresh
and the call's id is a matter of definitions. What has to be shown is that the rest of the call keeps that promise: an
eviction changes the dict but not `Lasting`, because the entry that leaves comes before all others and so does not count
towards anybody's place (`FirstDoesNotLast`, which needs that no two entries have the same place in the log,
`EntriesAreLogged`), and when there is room every entry lasts (`AllLast`), so that recording gives exactly what was promised.
The lock enters as `OneAccepts`: at most one call is between its decision and its record, so the promised dict is one dict.

**`HttpTransportProofs`**, from `TransportAssumption` and `AnswersAssumption`: `TypeCorrect`, `TokenLockExcludes`,
`SendBudgetHolds`, `ResponsesAreClosed`, `ExecutedAtMostOnce`, `LastBodyIsOwnHolds`. `RequestInv` relates the history to the
program counter: attempts made are `attempt` or `attempt + 1` according to where the thread is, and a request that was
executed is only ever on its way to a retry if it was misled. `SoloInv` says that a thread alone in the transport finds
`last_response_body` as it left it.

**`OAuthTokenCacheProofs`**, from `CacheAssumption`, of the cache called directly by any threads: `CacheTypes`,
`OneFetchAtATime`, `CacheHoldsNewest` and `ReusesUnexpired`. `CacheInv` adds to the types and the lock that a thread about to
write holds the newest token issued (`StoresNewest`) and that the cache holds it unless such a thread is on its way
(`HeldIsNewest`). That no expired token is reused needs no invariant but one fact of arithmetic, `FreshIsUnexpired`: if the
part of the lifetime that remains exceeds a non-negative ratio of it, then some of it remains, whichever unit the expiry was
in and wherever the clock was set.

**`LuminalClientProofs`**, from `ClientAssumption`: `ClientTypes`, `UnlockedReadsHold`, `RetriesCarryNewTokens` and two
refinements, `ImplementsBearerSourceHolds` and `ImplementsTransportHolds`. `ClientInv` says that the transport's lock keeps
everybody but one out of the cache (`OneInCache`), what that one has read and fetched (`CallInCache`), that tokens are given
in the order of issue (`InOrder`) and that a request which retries holds a token (`HoldsToken`). The argument for
`RetriesCarryNewTokens`: a forced call never reuses, so it returns a token issued during the call, later than any given
before. `ClientKeepsTransport` takes the theorems of `HttpTransportProofs`, instantiated with the client, through the second
refinement.

**`WebhookDeliveryProofs`**, from `GuardAssumption` and `DeliveryAssumption`: `ServerTypes`, `ImplementsReplayGuardHolds` (a
refinement, so that `WindowInServer` and `ServerDecidesAtomically` carry the guard's theorems over to the server),
`AcceptancesAreHandedOverHolds`, `RefusedIsKnownHolds` and `HandedOnceUntilForgotten`. The invariant `ServerInv` is a balance:
for each event, what was handed over and what is about to be add up to the acceptances in the guard's log (`Balance`), each at
a place of its own (`Places`), and a thread is past the last check exactly when it has asked the guard about its own delivery
(`AskingHolds`). It is inductive because the guard's check is the last one (`GuardIsLast`): with any check behind it, an
accepted delivery could still raise. Two handings over are then two places in the log, and `ReplayWindow` says what lies
between those.

**`EndpointCallsProofs`**, from `ScalarAssumption`, `CallsAssumption` and `DataAssumption`, that is for Longs of any width,
boundaries anywhere and any number of calls: all eight invariants of the run, and before them four theorems about the codec
alone, `LongRoundTrip`, `BodiesHoldSafeNumbers`, `EpochUnitsAgree` and `EpochsAreExact`. The proof goes the way the data goes.

* *Out.* What each type of field is written as (`ItemToWire`, `FieldToWire`), what of it is left when a program that keeps
  numbers as doubles has rewritten it (`LongArrives` to `DateArrives`: a Long is inside the safe range or a string), and that
  it then still denotes what was given and can be decoded (`FieldArrives`). `RequestArrives` puts the fields together, for
  a request with *any* set of its fields set, where the run sets one. `RequestIsRewritten` does the same for what was signed,
  through encoding, decoding and writing again, for the one class that is signed.
* *Instants.* A rounding is at most half a step off (`NearestIs`) and leaves what is whole (`NearestWhole`); the double's step
  is at most its share of the number because the scale fills it (`ScaleHas`, the least of a set that is not empty). Multiplied
  out, the two errors together are the bound of `IsAbout` (`TwoRoundings`, `EpochIsAbout`). Below half of what a double holds
  that is less than one microsecond, so whole numbers of any unit are exact there (`EpochsAreExact`: 2^52 microseconds, the
  year 2112), and whole seconds are exact everywhere (`IntegerEpoch`).
* *In.* What each scalar decoder returns, if it returns anything, is what its data denote (`IntegralBelieved` to
  `DateBelieved`), then lists, fields, models, lists of models and pages (`ListBelieved` to `PageBelieved`), for **any** JSON
  scalar, flat list and object, and not only for those of the run. In the other direction, what is `Readable` for a type is
  read, and an instant lies where it was (`LongIsRead` to `GoodPageIsRead`). Which error of several is the one that is raised
  is the least of a set of indices; no induction is needed.
* *Around.* The invariant `CallInv` says of each stage what the variables are made of: what is sent is the body of the
  argument, relayed or not, and what is signed is its signing form (`SentIsSerialized`); the argument is a request of the
  method's class whose fields hold what callers give (`ArgumentIsGiven`); a result is what its data decode to, or the error
  (`ResultIsDecoded`); a follow-up has nothing but an identifier within the range of a Long in a field declared as one
  (`FollowUpsFit`). Each property is then one of the lemmas about values, applied at one stage. TLC checked `CallInv` on the
  run's instance before it was proved. `FollowUpsAreSent` needs all of `Models`: every identifier that a response declares
  is a Long, in every response but one (`ResponsesAreTyped`), and every request that takes one declares it as a Long
  (`RequestsAreTyped`).

What `DataAssumption` excludes is no more than the code leaves open: an `int` field (paging numbers, Java ints) and a
`Decimal` without places are given numbers that a double holds, because nothing in the code protects others (section 6).

**`ArgumentShapesProofs`**, from no assumption, for calls of any length with any number of `None`s and keywords: all four
invariants, `CallsAreTyped`, `OneSourceEachAlways`, `OldestShapeKeptAlways` and `CompleteCallsKeptAlways`. The tables come
first: every shape of every class names fields of the class, none twice, and no more than there are (`ShapesOfClasses`). The
invariant, `ShapesInv`, adds to the types that a call which returned was none of those that raise and holds what reading it
gives (`Decided`); since a name occurs once in a shape, an argument is found again at its field (`ArgumentsArrive`). The rest
is one lemma for each class: a call that fits the oldest shape either trips the class's guess, or fits the present shape too,
or is too short for the two shapes to differ (`LikeOldest`); a complete one trips it (`CompleteIsOldest`).

**`RsaSignaturesProofs`**, from `DerAssumption`, `SignaturesAssumption`, `PairsAssumption` and `FilesAssumption`, for bytes
of any width and keys of any length: `SignaturesAreTyped`, `IntactKeysHold`, `SignaturesVerifyAlways`, `OneSignatureAlways`
and `KeysAreReadAsWrittenAlways`. Most of it is about `Der`: writing a number in bytes and reading it are inverse and keep
the order (`Number`, `ToBytes`); a length, an integer or an item that was written is read as it was, whatever follows it; and
in the other direction, what a reader accepts as a length, an integer or an item is, byte for byte, what would be written for
it, because the code refuses long forms and leading zeros that are not needed. From there a file is read as the key it was
written from, and a damaged public file, if it is read at all, spells the number that was read. `SignaturesInv` says of each
stage where its key, signature and verdict came from. That verification accepts one byte string only needs that it refuses
numbers that are not below the modulus, and that raising to the public exponent is one to one below it. Facts about every
length or number are proved without an induction principle, by taking the least counterexample of a set of naturals.

`KeysAreReadAsWritten` does not say that a damaged wrapped key is refused, or read as the key it was, because that is not true
of all keys. Items behind the parameters of the algorithm identifier are skipped, so the bytes of a wrapped key can be long
enough, and chosen so, that one byte more or less makes another of their parts the key. What is true, of any bytes at all, is
that the file spells out the key that is read, with nothing unread but such items.

Only model-checked: liveness (`CallsReturn`), whose fairness and `ENABLED` the provers do not reach. Every other invariant,
action property and refinement that a passing run checks is a theorem. The four
runs that find a violation have nothing to prove; what does hold in their place is proved where it is stated (section 3).

## 6. What is not modelled, and why

Logging and redaction change no state of the SDK. URL, header and path checks are one rejecting action. `PageResultEx.extra`
is handed over as it is. The cookie jar inside the default opener, redirects and TLS belong to `urllib`. A handler of the
application's that fails after `parse` has returned, and a restart of the process, which forgets the guard's memory, are
outside what the SDK promises. `enums.py` and `__init__.py` hold constants. The sandbox tests call a remote service. Reads
and writes of one attribute are atomic, as CPython makes them.

Of the codec: targets that no model has a field of (enums, floats, bools, dictionaries), the derivation of a key from a
field's name, which is one and the same in both directions for the names there are, and decimals with more than one place, or
with more than a double holds: the Long rule does not protect those, and `RequestArrivesWhole` is not asked about them.
An epoch number is modelled as it is read, through a double, so that from 2^33 seconds on (the year 2242) microseconds change;
no document promises more, and `AnswersAreBelieved` bounds by how much. Numbers of seconds too great for a double to hold one
by one lie far behind the year 9999, and are refused in the model without being rounded first.
`SignatureCoversRequest` is about bodies that no other program has rewritten. Of the keys: Base64 and the layout of the PEM
text, SHA-256 itself, and numbers of real size; whether a private key belongs to a public one is not checked by the code
either.

## 7. Plan

The modules were built in the order of section 2: the guard, the transport, the cache, the client, the webhooks, the
constructors, then the codec with the endpoints and the keys. What could follow: requests that a typed receiver
rewrites, for every class and not only the signed one; and an abstract transport, one exchange for each request, for the
endpoints to be composed with.
