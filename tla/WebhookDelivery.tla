--------------------------- MODULE WebhookDelivery ---------------------------
(***************************************************************************)
(* Webhook deliveries as a server receives them: each thread runs          *)
(* WebhookVerifier.parse (webhooks.py) on one delivery at a time, every    *)
(* check in its order, the replay guard's among them, and hands the event  *)
(* to the application when none fails.  The sender may deliver an event    *)
(* again, also while the first delivery is being parsed, and a delivery    *)
(* may be wrong in any of the ways parse looks for.  The guard is          *)
(* ReplayGuard, step by step, shared by all threads.                       *)
(***************************************************************************)
EXTENDS ReplayGuard

CONSTANT Flaws     \* the sets of flaws a delivery may have

(* Being a repeat is no flaw of the delivery's own. *)
ASSUME DeliveryAssumption ==
    \A flaws \in Flaws : flaws \subseteq STRING \ {"replay"}

VARIABLES
    guarded,      \* whether parse is given the guard; client.parse_webhook gives none
    delivery,     \* what each thread's last delivery carries: [id, flaws]
    check,        \* the check each thread is at; 0 when it is not in parse
    outcome,      \* the check that made each thread's last parse raise, or "none"
    deliveries,   \* the number of deliveries so far
    place,        \* history: the place in log of the acceptance each thread is to hand
                  \* over, 0 without one
    handed        \* history: the places of the deliveries of each event that were handed
                  \* to the application, in the order in which it got them

serverVars == <<vars, guarded, delivery, check, outcome, deliveries, place, handed>>

(* Mutant: the guard is asked before the payload is decoded. *)
ChecksGuardEarly ==
    <<"limit", "event", "event_id", "sign", "body", "size", "type", "key",
      "signature", "replay", "payload">>

(* The checks of parse, in order; each raises when it fails. *)
Checks ==
    <<"limit", "event", "event_id", "sign", "body", "size", "type", "key",
      "signature", "payload", "replay">>

Delivery == [id : EventId, flaws : Flaws]

ServerInit ==
    /\ Init
    /\ guarded \in BOOLEAN
    /\ delivery \in [Thread -> [id : EventId, flaws : {{}}]]
    /\ check = [t \in Thread |-> 0]
    /\ outcome = [t \in Thread |-> "none"]
    /\ deliveries = 0
    /\ place = [t \in Thread |-> 0]
    /\ handed = [e \in EventId |-> <<>>]

(* A delivery arrives and a thread starts to parse it. *)
Deliver(t, d) ==
    /\ check[t] = 0
    /\ deliveries < MaxCalls
    /\ deliveries' = deliveries + 1
    /\ delivery' = [delivery EXCEPT ![t] = d]
    /\ check' = [check EXCEPT ![t] = 1]
    /\ outcome' = [outcome EXCEPT ![t] = "none"]
    /\ UNCHANGED <<vars, guarded, place, handed>>

(* The checks t has left that may fail: its flaws' and the guard's. *)
Concerns(t) ==
    {k \in DOMAIN Checks :
        /\ check[t] <= k
        /\ Checks[k] \in delivery[t].flaws \cup (IF guarded THEN {"replay"} ELSE {})}

(* The guard has been asked about t's delivery. *)
Asked(t) == check[t] > 1 /\ Checks[check[t] - 1] = "replay"

(* Mutant: `not` is lost, and the events raise that the guard is new to. *)
ToldInverted(t) == verdict[t] = "refused"

(* accept() returned True. *)
Told(t) == verdict[t] = "accepted"

(* t is in parse, at a line of parse's own. *)
Parsing(t) == check[t] > 0 /\ pc[t] = "idle"

(* t runs the checks up to the kth, which is its next concern. *)
Reaches(t, k) ==
    /\ Parsing(t)
    /\ Asked(t) => Told(t)
    /\ k \in Concerns(t)
    /\ \A j \in Concerns(t) : k <= j

Leave(t, failed) ==
    /\ check' = [check EXCEPT ![t] = 0]
    /\ outcome' = [outcome EXCEPT ![t] = failed]
    /\ UNCHANGED <<vars, guarded, delivery, deliveries>>

(* A check of parse's own raises. *)
Flawed(t) ==
    /\ \E k \in DOMAIN Checks :
          Reaches(t, k) /\ Checks[k] # "replay" /\ Leave(t, Checks[k])
    /\ UNCHANGED <<place, handed>>

(* Mutant: each delivery is checked against a guard of its own. *)
AskNewGuard(t) ==
    /\ calls' = calls + 1
    /\ id' = [id EXCEPT ![t] = delivery[t].id]
    /\ now' = [now EXCEPT ![t] = clock]
    /\ verdict' = [verdict EXCEPT ![t] = "none"]
    /\ pc' = [pc EXCEPT ![t] = "wait"]
    /\ entries' = [e \in {} |-> 0]
    /\ UNCHANGED <<clock, holder, log>>

(* Mutant: the guard is asked about the event header, not the event_id. *)
AskAboutEvent(t) == Enter(t, "event")

(* replay_guard.accept(event_id) is called on the guard all threads share. *)
Ask(t) == Enter(t, delivery[t].id)

AskGuard(t) ==
    /\ \E k \in DOMAIN Checks :
          /\ Reaches(t, k)
          /\ Checks[k] = "replay"
          /\ check' = [check EXCEPT ![t] = k + 1]
    /\ Ask(t)
    /\ UNCHANGED <<guarded, delivery, outcome, deliveries, place, handed>>

(* t takes a step of accept(). *)
InGuard(t) ==
    /\ \/ AcquireLock(t)
       \/ Purge(t)
       \/ Refuse(t)
       \/ Pass(t)
       \/ EvictFirst(t)
       \/ Record(t)
    /\ place' = IF log' = log THEN place ELSE [place EXCEPT ![t] = Len(log')]
    /\ UNCHANGED <<guarded, delivery, check, outcome, deliveries, handed>>

Replayed(t) ==
    /\ Parsing(t)
    /\ Asked(t)
    /\ ~Told(t)
    /\ Leave(t, "replay")
    /\ UNCHANGED <<place, handed>>

(* parse returns the event and the application gets it. *)
HandOver(t) ==
    /\ Parsing(t)
    /\ Asked(t) => Told(t)
    /\ Concerns(t) = {}
    /\ Leave(t, "none")
    /\ handed' = [handed EXCEPT ![delivery[t].id] = Append(@, place[t])]
    /\ place' = [place EXCEPT ![t] = 0]

TimePasses ==
    /\ Tick
    /\ UNCHANGED <<guarded, delivery, check, outcome, deliveries, place, handed>>

(* Every delivery was answered and the bounds are reached. *)
Done ==
    /\ clock = MaxClock
    /\ deliveries = MaxCalls
    /\ \A t \in Thread : check[t] = 0
    /\ UNCHANGED serverVars

ServerStep(t) ==
    \/ \E d \in Delivery : Deliver(t, d)
    \/ Flawed(t)
    \/ AskGuard(t)
    \/ InGuard(t)
    \/ Replayed(t)
    \/ HandOver(t)

ServerNext == TimePasses \/ Done \/ \E t \in Thread : ServerStep(t)

ServerSpec == ServerInit /\ [][ServerNext]_serverVars

----------------------------------------------------------------------------
(* Every variable has its type. *)
ServerTypeOK ==
    /\ TypeOK
    /\ guarded \in BOOLEAN
    /\ delivery \in [Thread -> [id : EventId, flaws : Flaws \cup {{}}]]
    /\ check \in [Thread -> 0..Len(Checks) + 1]
    /\ outcome \in [Thread -> {"none"} \cup Range(Checks)]
    /\ deliveries \in Nat
    /\ place \in [Thread -> Nat]
    /\ handed \in [EventId -> Seq(Nat)]

(* The acceptances of e. *)
Accepted(e) == {i \in DOMAIN log : log[i].id = e}

(* The threads whose delivery of e was accepted and is yet to be handed over. *)
HandingOver(e) ==
    {t \in Thread : Parsing(t) /\ Asked(t) /\ verdict[t] = "accepted" /\ delivery[t].id = e}

(* What the guard records as processed has been processed: each acceptance *)
(* of accept() is followed by exactly one handing over of the event, and   *)
(* with a guard nothing else is.  A delivery that fails a later check, or  *)
(* one the guard refused and parse returned, breaks the balance, and from  *)
(* then on good deliveries of that event are lost or made twice.           *)
AcceptancesAreHandedOver ==
    guarded =>
        \A e \in EventId :
            Len(handed[e]) + Cardinality(HandingOver(e)) = Cardinality(Accepted(e))

(* parse raises "already been processed" only of an event the application  *)
(* was handed, or is being handed by another thread: the delivery that is  *)
(* turned away is never the only good one.                                 *)
RefusedIsKnown ==
    \A t \in Thread :
        outcome[t] = "replay" =>
            handed[delivery[t].id] # <<>> \/ HandingOver(delivery[t].id) # {}

(* The guard may have forgotten the acceptance of e at place i by the time *)
(* of the one at j.                                                        *)
Forgotten(e, i, j) ==
    \/ log[j].at >= log[i].stamp + TTL
    \/ Cardinality(IdsBetween(i, j) \ {e}) >= MaxEntries

(* With a guard, any two times the application is handed one event are two *)
(* acceptances, and from the time the earlier of these was judged by to    *)
(* the recording of the later lie the ttl, or as many other events as the  *)
(* guard has room for.  The handings over themselves may be closer, and in *)
(* the other order: a thread may linger between its acceptance and         *)
(* parse's return.                                                         *)
OnceUntilForgotten ==
    guarded =>
        \A e \in EventId : \A m, n \in DOMAIN handed[e] :
            LET i == handed[e][m]
                j == handed[e][n]
            IN  m # n => i # j /\ (i < j => Forgotten(e, i, j))

(* The server calls the guard as ReplayGuard supposes it is called, so all *)
(* that is shown of the guard alone holds here.                            *)
ImplementsReplayGuard == Spec
============================================================================
