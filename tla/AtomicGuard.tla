---------------------------- MODULE AtomicGuard ----------------------------
(***************************************************************************)
(* What WebhookReplayGuard.accept() promises its callers, with no lock and *)
(* no loop in sight: between being called and returning, each call decides *)
(* in a single step, by the time at which it was made and by what earlier  *)
(* decisions left in memory.                                               *)
(***************************************************************************)
EXTENDS Integers, FiniteSets, Functions

CONSTANTS
    Thread, EventId,
    TTL,          \* how long an accepted id is remembered
    MaxEntries    \* how many are

VARIABLES
    clock,     \* the time
    memory,    \* the ids accepted and not forgotten: id |-> [stamp, ord]
    accepted,  \* how many were accepted
    stage,     \* of each thread's call: "none", "asked", "decided"
    id,        \* the event id of each thread's last call
    now,       \* when it was made
    verdict    \* "none" until it is decided, then "accepted" or "refused"

vars == <<clock, memory, accepted, stage, id, now, verdict>>

Init ==
    /\ clock = 0
    /\ memory = [e \in {} |-> 0]
    /\ accepted = 0
    /\ stage = [t \in Thread |-> "none"]
    /\ id \in [Thread -> EventId]
    /\ now = [t \in Thread |-> 0]
    /\ verdict = [t \in Thread |-> "none"]

Tick ==
    /\ clock' \in Nat /\ clock' > clock
    /\ UNCHANGED <<memory, accepted, stage, id, now, verdict>>

Ask(t, e) ==
    /\ stage[t] = "none"
    /\ stage' = [stage EXCEPT ![t] = "asked"]
    /\ id' = [id EXCEPT ![t] = e]
    /\ now' = [now EXCEPT ![t] = clock]
    /\ verdict' = [verdict EXCEPT ![t] = "none"]
    /\ UNCHANGED <<clock, memory, accepted>>

(* What a call made at that time still remembers. *)
Fresh(t) == {k \in DOMAIN memory : memory[k].stamp > now[t] - TTL}

(* Of some ids in memory those that were accepted last, at most so many. *)
Newest(ids, size) ==
    {k \in ids : Cardinality({j \in ids : memory[j].ord > memory[k].ord}) < size}

Decide(t, result) ==
    /\ stage[t] = "asked"
    /\ stage' = [stage EXCEPT ![t] = "decided"]
    /\ verdict' = [verdict EXCEPT ![t] = result]
    /\ UNCHANGED <<clock, id, now>>

Refuse(t) ==
    /\ Decide(t, "refused")
    /\ id[t] \in Fresh(t)
    /\ memory' = Restrict(memory, Fresh(t))
    /\ UNCHANGED accepted

Accept(t) ==
    /\ Decide(t, "accepted")
    /\ id[t] \notin Fresh(t)
    /\ memory' = [k \in Newest(Fresh(t), MaxEntries - 1) \cup {id[t]} |->
                     IF k = id[t] THEN [stamp |-> now[t], ord |-> accepted + 1] ELSE memory[k]]
    /\ accepted' = accepted + 1

Return(t) ==
    /\ stage[t] = "decided"
    /\ stage' = [stage EXCEPT ![t] = "none"]
    /\ UNCHANGED <<clock, memory, accepted, id, now, verdict>>

Call(t) == (\E e \in EventId : Ask(t, e)) \/ Refuse(t) \/ Accept(t) \/ Return(t)

Next == Tick \/ \E t \in Thread : Call(t)

Spec == Init /\ [][Next]_vars
============================================================================
