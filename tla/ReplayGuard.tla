---------------------------- MODULE ReplayGuard ----------------------------
(***************************************************************************)
(* WebhookReplayGuard (webhooks.py): the process-local memory of the       *)
(* webhook event ids accepted lately, called by the threads of a webhook   *)
(* server.  accept() reads the monotonic clock before it takes the lock,   *)
(* so the time a call judges and records by may be stale by the time the   *)
(* call holds the lock; the steps below keep the two apart.                *)
(***************************************************************************)
EXTENDS Integers, Sequences, FiniteSets, Functions

CONSTANTS
    Thread,       \* the threads that may call accept()
    EventId,      \* the event ids they call it with (blank ids raise before any step)
    TTL,          \* ttl_seconds, in ticks of the clock
    MaxEntries,   \* max_entries
    MaxClock,     \* bound: the last tick of the clock
    MaxCalls      \* bound: the number of calls of accept()

ASSUME GuardAssumption ==
    /\ TTL \in Nat \ {0}
    /\ MaxEntries \in Nat \ {0}
    /\ MaxClock \in Nat
    /\ MaxCalls \in Nat

VARIABLES
    clock,     \* time.monotonic()
    holder,    \* the threads that hold self._lock
    entries,   \* self._entries: id |-> [stamp, ord], ord being its place in the dict's order
    pc,        \* where each thread is in accept()
    id,        \* event_id of each thread's last call
    now,       \* `now` of each thread's last call
    verdict,   \* what each thread's last call returned: "none", "accepted", "refused"
    calls,     \* the number of calls so far
    log        \* history: the acceptances, in order

vars == <<clock, holder, entries, pc, id, now, verdict, calls, log>>

Acceptance == [id : EventId, stamp : Nat, at : Nat]

Init ==
    /\ clock = 0
    /\ holder = {}
    /\ entries = [e \in {} |-> 0]
    /\ pc = [t \in Thread |-> "idle"]
    /\ id \in [Thread -> EventId]
    /\ now = [t \in Thread |-> 0]
    /\ verdict = [t \in Thread |-> "none"]
    /\ calls = 0
    /\ log = <<>>

Goto(t, step) == pc' = [pc EXCEPT ![t] = step]

Return(t, result) ==
    /\ Goto(t, "idle")
    /\ verdict' = [verdict EXCEPT ![t] = result]
    /\ holder' = holder \ {t}

(* accept(e) is called and reads the clock, outside the lock. *)
Enter(t, e) ==
    /\ pc[t] = "idle"
    /\ calls < MaxCalls
    /\ calls' = calls + 1
    /\ id' = [id EXCEPT ![t] = e]
    /\ now' = [now EXCEPT ![t] = clock]
    /\ verdict' = [verdict EXCEPT ![t] = "none"]
    /\ Goto(t, "wait")
    /\ UNCHANGED <<clock, holder, entries, log>>

(* Mutant: the lock is not taken. *)
LockIgnored == TRUE

LockFree == holder = {}

AcquireLock(t) ==
    /\ pc[t] = "wait"
    /\ LockFree
    /\ holder' = holder \cup {t}
    /\ Goto(t, "purge")
    /\ UNCHANGED <<clock, entries, id, now, verdict, calls, log>>

(* Mutant: nothing is purged. *)
NoneExpired(t) == {}

(* The keys whose timestamp is at or before the cutoff of t's call. *)
Expired(t) == {k \in DOMAIN entries : entries[k].stamp <= now[t] - TTL}

Purge(t) ==
    /\ pc[t] = "purge"
    /\ entries' = Restrict(entries, DOMAIN entries \ Expired(t))
    /\ Goto(t, "check")
    /\ UNCHANGED <<clock, holder, id, now, verdict, calls, log>>

Refuse(t) ==
    /\ pc[t] = "check"
    /\ id[t] \in DOMAIN entries
    /\ Return(t, "refused")
    /\ UNCHANGED <<clock, entries, id, now, calls, log>>

Pass(t) ==
    /\ pc[t] = "check"
    /\ id[t] \notin DOMAIN entries
    /\ Goto(t, "record")
    /\ UNCHANGED <<clock, holder, entries, id, now, verdict, calls, log>>

(* Mutant: one entry too many. *)
FullOffByOne == Cardinality(DOMAIN entries) > MaxEntries

Full == Cardinality(DOMAIN entries) >= MaxEntries

(* Mutant: popitem(), which takes the key inserted last. *)
Last(k) == \A j \in DOMAIN entries : entries[k].ord >= entries[j].ord

(* next(iter(entries)): the key that was inserted first. *)
First(k) == \A j \in DOMAIN entries : entries[k].ord <= entries[j].ord

EvictFirst(t) ==
    /\ pc[t] = "record"
    /\ Full
    /\ \E k \in DOMAIN entries :
          /\ First(k)
          /\ entries' = Restrict(entries, DOMAIN entries \ {k})
    /\ UNCHANGED <<clock, holder, pc, id, now, verdict, calls, log>>

(* Mutant: the cutoff is recorded instead of the time. *)
EntryAtCutoff(t) == [stamp |-> now[t] - TTL, ord |-> Len(log) + 1]

Entry(t) == [stamp |-> now[t], ord |-> Len(log) + 1]

Record(t) ==
    /\ pc[t] = "record"
    /\ ~Full
    /\ entries' = [k \in DOMAIN entries \cup {id[t]} |->
                      IF k = id[t] THEN Entry(t) ELSE entries[k]]
    /\ log' = Append(log, [id |-> id[t], stamp |-> now[t], at |-> clock])
    /\ Return(t, "accepted")
    /\ UNCHANGED <<clock, id, now, calls>>

Tick ==
    /\ clock < MaxClock
    /\ clock' = clock + 1
    /\ UNCHANGED <<holder, entries, pc, id, now, verdict, calls, log>>

(* Every call has returned and the bounds are reached. *)
Finished ==
    /\ clock = MaxClock
    /\ calls = MaxCalls
    /\ \A t \in Thread : pc[t] = "idle"
    /\ UNCHANGED vars

Step(t) ==
    \/ \E e \in EventId : Enter(t, e)
    \/ AcquireLock(t)
    \/ Purge(t)
    \/ Refuse(t)
    \/ Pass(t)
    \/ EvictFirst(t)
    \/ Record(t)

Next == Tick \/ Finished \/ \E t \in Thread : Step(t)

Spec == Init /\ [][Next]_vars

----------------------------------------------------------------------------
InLock(t) == pc[t] \in {"purge", "check", "record"}

(* Every variable has its type. *)
TypeOK ==
    /\ clock \in Nat
    /\ holder \in SUBSET Thread
    /\ DOMAIN entries \in SUBSET EventId
    /\ entries \in [DOMAIN entries -> [stamp : Nat, ord : Nat]]
    /\ pc \in [Thread -> {"idle", "wait", "purge", "check", "record"}]
    /\ id \in [Thread -> EventId]
    /\ now \in [Thread -> Nat]
    /\ verdict \in [Thread -> {"none", "accepted", "refused"}]
    /\ calls \in Nat
    /\ log \in Seq(Acceptance)

(* `with self._lock`: the threads inside are those that hold the lock, and *)
(* there is at most one, so that purge, check and record are one step to   *)
(* every other call.                                                       *)
MutualExclusion ==
    /\ \A t \in Thread : t \in holder <=> InLock(t)
    /\ \A t, u \in holder : t = u

(* The guard never remembers more than max_entries ids, whatever the       *)
(* callers do (the bound on its memory the constructor is given).          *)
CapacityBound ==
    /\ IsFiniteSet(DOMAIN entries)
    /\ Cardinality(DOMAIN entries) <= MaxEntries

(* The ids accepted after the ith acceptance and before the jth. *)
IdsBetween(i, j) == {log[k].id : k \in (i + 1)..(j - 1)}

(* What accept() really promises of a repeated event id: when it accepts   *)
(* an id a second time, either ttl_seconds have passed since the time the  *)
(* first call read, or at least max_entries other ids were accepted in     *)
(* between.  No interleaving of two deliveries of an event accepts both.   *)
ReplayWindow ==
    \A i, j \in DOMAIN log :
        (i < j /\ log[i].id = log[j].id) =>
            \/ log[j].at >= log[i].stamp + TTL
            \/ Cardinality(IdsBetween(i, j) \ {log[i].id}) >= MaxEntries

(* accept() refuses an id only when it accepted the same id less than      *)
(* ttl_seconds before the time the refusing call read: the check does not  *)
(* see entries this call should have purged, nor another call's.           *)
RefusedOnlyIfRecent ==
    \A t \in Thread :
        verdict[t] = "refused" =>
            \E i \in DOMAIN log :
                log[i].id = id[t] /\ log[i].stamp > now[t] - TTL

(* A call that has purged decides by what it finds: the rest of its steps  *)
(* make room for its id and record it, or do nothing.                      *)
Accepting(t) == pc[t] = "record" \/ (pc[t] = "check" /\ id[t] \notin DOMAIN entries)
Refusing(t) == pc[t] = "check" /\ id[t] \in DOMAIN entries

(* The entries that the eviction loop will leave, and the dict as it will  *)
(* be recorded.                                                            *)
Lasting ==
    {k \in DOMAIN entries :
        Cardinality({j \in DOMAIN entries : entries[j].ord > entries[k].ord}) < MaxEntries - 1}

Recorded(t) ==
    [k \in Lasting \cup {id[t]} |-> IF k = id[t] THEN Entry(t) ELSE entries[k]]

Memory ==
    IF \E t \in Thread : Accepting(t) THEN Recorded(CHOOSE t \in Thread : Accepting(t))
    ELSE entries

AcceptedCount == IF \E t \in Thread : Accepting(t) THEN Len(log) + 1 ELSE Len(log)

Stage(t) ==
    CASE pc[t] = "idle" -> "none"
      [] pc[t] \in {"wait", "purge"} -> "asked"
      [] pc[t] \in {"check", "record"} -> "decided"

Decision(t) ==
    CASE Accepting(t) -> "accepted" [] Refusing(t) -> "refused" [] OTHER -> verdict[t]

Atomic == INSTANCE AtomicGuard WITH
              memory <- Memory,
              accepted <- AcceptedCount,
              stage <- [t \in Thread |-> Stage(t)],
              verdict <- [t \in Thread |-> Decision(t)]

(* To its callers accept() is a single step, taken between the call and    *)
(* its return: no interleaving of purges, checks, evictions and records    *)
(* decides otherwise than the calls would one after another, in the order  *)
(* in which they take the lock, each by the time it read before.           *)
ImplementsAtomicGuard == Atomic!Spec

(* README: "WebhookReplayGuard rejects a repeated event_id within its TTL" *)
(* read leniently, from the time the first call read the clock to the time *)
(* the second one records.  The eviction at max_entries makes it false.    *)
RejectsRepeatsWithinTTL ==
    \A i, j \in DOMAIN log :
        (i < j /\ log[i].id = log[j].id) => log[j].at >= log[i].stamp + TTL
============================================================================
