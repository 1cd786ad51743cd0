------------------------- MODULE ReplayGuardProofs -------------------------
(***************************************************************************)
(* Proofs about ReplayGuard, for every number of threads, every set of     *)
(* event ids, every ttl_seconds and max_entries, and any length of run.    *)
(***************************************************************************)
EXTENDS ReplayGuard, FiniteSetTheorems, TLAPS

(* An entry is the trace of the acceptance its place in the order names.   *)
EntriesAreLogged ==
    \A k \in DOMAIN entries :
        /\ entries[k].ord \in DOMAIN log
        /\ log[entries[k].ord].id = k
        /\ log[entries[k].ord].stamp = entries[k].stamp

(* No time read or recorded lies ahead of the clock.                       *)
NothingFromTheFuture ==
    /\ \A t \in Thread : now[t] <= clock
    /\ \A i \in DOMAIN log : log[i].stamp <= clock

(* What the lines between the check and the record rely on.                *)
LockedViewHolds ==
    \A t \in Thread :
        /\ pc[t] = "record" => id[t] \notin DOMAIN entries
        /\ pc[t] = "check" =>
              \A k \in DOMAIN entries : entries[k].stamp > now[t] - TTL

(* The ids other than its own accepted since the ith acceptance.           *)
Since(i) == IdsBetween(i, Len(log) + 1) \ {log[i].id}

Remembered(i) == log[i].id \in DOMAIN entries /\ entries[log[i].id].ord = i

(* An acceptance evicted by a call that has yet to record its own id.      *)
BeingReplaced(i) ==
    \E t \in Thread :
        /\ pc[t] = "record"
        /\ id[t] # log[i].id
        /\ Cardinality(Since(i) \ {id[t]}) >= MaxEntries - 1

(* What has become of the ith acceptance.                                  *)
Fate(i) ==
    \/ Remembered(i)
    \/ clock >= log[i].stamp + TTL
    \/ Cardinality(Since(i)) >= MaxEntries
    \/ BeingReplaced(i)

FateKnown == \A i \in DOMAIN log : Fate(i)

----------------------------------------------------------------------------
(* Every variable keeps its type, whatever the callers do.                 *)
THEOREM TypeCorrect == Spec => []TypeOK
<1>1. Init => TypeOK
  BY GuardAssumption DEF Init, TypeOK, Acceptance
<1>2. TypeOK /\ [Next]_vars => TypeOK'
  <2> SUFFICES ASSUME TypeOK, [Next]_vars
               PROVE  TypeOK'
    OBVIOUS
  <2> USE DEF TypeOK, Goto, Return
  <2>1. CASE Tick
    BY <2>1 DEF Tick
  <2>2. CASE Finished \/ UNCHANGED vars
    BY <2>2 DEF Finished, vars
  <2>3. ASSUME NEW t \in Thread, NEW e \in EventId, Enter(t, e)
        PROVE  TypeOK'
    BY <2>3 DEF Enter
  <2>4. ASSUME NEW t \in Thread, AcquireLock(t)
        PROVE  TypeOK'
    BY <2>4 DEF AcquireLock
  <2>5. ASSUME NEW t \in Thread, Purge(t)
        PROVE  TypeOK'
    BY <2>5 DEF Purge, Restrict, Expired
  <2>6. ASSUME NEW t \in Thread, Refuse(t) \/ Pass(t)
        PROVE  TypeOK'
    BY <2>6 DEF Refuse, Pass
  <2>7. ASSUME NEW t \in Thread, EvictFirst(t)
        PROVE  TypeOK'
    BY <2>7 DEF EvictFirst, Restrict
  <2>8. ASSUME NEW t \in Thread, Record(t)
        PROVE  TypeOK'
    <3>1. [id |-> id[t], stamp |-> now[t], at |-> clock] \in Acceptance
      BY <2>8 DEF Acceptance
    <3>2. Entry(t) \in [stamp : Nat, ord : Nat]
      BY <2>8 DEF Entry
    <3>3. /\ DOMAIN entries' \in SUBSET EventId
          /\ entries' \in [DOMAIN entries' -> [stamp : Nat, ord : Nat]]
      BY <2>8, <3>2 DEF Record
    <3>4. log' \in Seq(Acceptance)
      BY <2>8, <3>1 DEF Record
    <3> QED
      BY <2>8, <3>3, <3>4 DEF Record
  <2> QED
    BY <2>1, <2>2, <2>3, <2>4, <2>5, <2>6, <2>7, <2>8 DEF Next, Step
<1> QED
  BY <1>1, <1>2, PTL DEF Spec

(* The lock makes purge, check and record one step to every other call.    *)
THEOREM LockExcludes == Spec => []MutualExclusion
<1>1. Init => MutualExclusion
  BY DEF Init, MutualExclusion, InLock
<1>2. TypeOK /\ MutualExclusion /\ [Next]_vars => MutualExclusion'
  <2> SUFFICES ASSUME TypeOK, MutualExclusion, [Next]_vars
               PROVE  MutualExclusion'
    OBVIOUS
  <2> USE DEF TypeOK, MutualExclusion, InLock, Goto, Return
  <2>1. CASE Tick
    BY <2>1 DEF Tick
  <2>2. CASE Finished \/ UNCHANGED vars
    BY <2>2 DEF Finished, vars
  <2>3. ASSUME NEW t \in Thread, NEW e \in EventId, Enter(t, e)
        PROVE  MutualExclusion'
    BY <2>3 DEF Enter
  <2>4. ASSUME NEW t \in Thread, AcquireLock(t)
        PROVE  MutualExclusion'
    BY <2>4 DEF AcquireLock, LockFree
  <2>5. ASSUME NEW t \in Thread, Purge(t) \/ Pass(t) \/ EvictFirst(t)
        PROVE  MutualExclusion'
    BY <2>5 DEF Purge, Pass, EvictFirst
  <2>6. ASSUME NEW t \in Thread, Refuse(t) \/ Record(t)
        PROVE  MutualExclusion'
    BY <2>6 DEF Refuse, Record
  <2> QED
    BY <2>1, <2>2, <2>3, <2>4, <2>5, <2>6 DEF Next, Step
<1> QED
  BY <1>1, <1>2, TypeCorrect, PTL DEF Spec

(* The guard holds at most max_entries ids: a purge and an eviction only   *)
(* shrink the dict, and an id is recorded only after the eviction loop     *)
(* found room for it.                                                      *)
THEOREM CapacityHolds == Spec => []CapacityBound
<1> USE DEF CapacityBound
<1>1. Init => CapacityBound
  BY FS_EmptySet, GuardAssumption DEF Init
<1>2. TypeOK /\ CapacityBound /\ [Next]_vars => CapacityBound'
  <2> SUFFICES ASSUME TypeOK, CapacityBound, [Next]_vars
               PROVE  CapacityBound'
    OBVIOUS
  <2>1. CASE UNCHANGED entries
    BY <2>1
  <2>2. ASSUME NEW S \in SUBSET DOMAIN entries, entries' = Restrict(entries, S)
        PROVE  CapacityBound'
    <3>1. DOMAIN entries' = S
      BY <2>2 DEF Restrict
    <3>2. IsFiniteSet(S) /\ Cardinality(S) <= Cardinality(DOMAIN entries)
      BY <2>2, FS_Subset
    <3>3. Cardinality(S) \in Nat /\ Cardinality(DOMAIN entries) \in Nat
      BY <3>2, FS_CardinalityType
    <3> QED
      BY <3>1, <3>2, <3>3, GuardAssumption
  <2>3. ASSUME NEW t \in Thread, Record(t)
        PROVE  CapacityBound'
    <3>1. DOMAIN entries' = DOMAIN entries \cup {id[t]}
      BY <2>3 DEF Record
    <3>2. /\ IsFiniteSet(DOMAIN entries')
          /\ \/ Cardinality(DOMAIN entries') = Cardinality(DOMAIN entries)
             \/ Cardinality(DOMAIN entries') = Cardinality(DOMAIN entries) + 1
      BY <3>1, FS_AddElement
    <3>3. Cardinality(DOMAIN entries) \in Nat
      BY FS_CardinalityType
    <3> QED
      BY <2>3, <3>2, <3>3, GuardAssumption DEF Record, Full
  <2>4. ASSUME NEW t \in Thread, Purge(t)
        PROVE  CapacityBound'
    BY <2>2, <2>4 DEF Purge
  <2>5. ASSUME NEW t \in Thread, EvictFirst(t)
        PROVE  CapacityBound'
    BY <2>2, <2>5 DEF EvictFirst
  <2>6. CASE Tick \/ Finished \/ UNCHANGED vars
    BY <2>1, <2>6 DEF Tick, Finished, vars
  <2>7. ASSUME NEW t \in Thread, NEW e \in EventId, Enter(t, e)
        PROVE  CapacityBound'
    BY <2>1, <2>7 DEF Enter
  <2>8. ASSUME NEW t \in Thread, AcquireLock(t) \/ Refuse(t) \/ Pass(t)
        PROVE  CapacityBound'
    BY <2>1, <2>8 DEF AcquireLock, Refuse, Pass
  <2> QED
    BY <2>3, <2>4, <2>5, <2>6, <2>7, <2>8 DEF Next, Step
<1> QED
  BY <1>1, <1>2, TypeCorrect, PTL DEF Spec

----------------------------------------------------------------------------
(* The inductive invariant behind the replay window: what is known of each *)
(* entry, of each call inside the lock, and of each past acceptance.       *)
GuardInv ==
    /\ TypeOK
    /\ MutualExclusion
    /\ CapacityBound
    /\ EntriesAreLogged
    /\ NothingFromTheFuture
    /\ LockedViewHolds
    /\ FateKnown
    /\ ReplayWindow
    /\ RefusedOnlyIfRecent

LEMMA LogTyped ==
    ASSUME TypeOK, NEW i \in DOMAIN log
    PROVE  /\ i \in Nat /\ Len(log) \in Nat /\ DOMAIN log = 1..Len(log)
           /\ log[i].id \in EventId /\ log[i].stamp \in Nat
<1>1. log \in Seq(Acceptance)
  BY DEF TypeOK
<1>2. /\ log[i] \in Acceptance
      /\ i \in Nat /\ Len(log) \in Nat /\ DOMAIN log = 1..Len(log)
  BY <1>1
<1> QED
  BY <1>2 DEF Acceptance

(* The ids between two acceptances are finitely many.                      *)
LEMMA FiniteBetween ==
    ASSUME NEW i \in Int, NEW j \in Int
    PROVE  IsFiniteSet(IdsBetween(i, j))
<1>1. IsFiniteSet((i + 1)..(j - 1))
  BY FS_Interval
<1> DEFINE idOf == [k \in (i + 1)..(j - 1) |-> log[k].id]
<1>2. idOf \in Surjection((i + 1)..(j - 1), IdsBetween(i, j))
  BY DEF IdsBetween, Surjection
<1> QED
  BY <1>1, <1>2, FS_Surjection

(* A step that leaves the dict, the log and the threads about to record    *)
(* alone preserves everything but the part it works on.                    *)
LEMMA FateKept ==
    ASSUME TypeOK, FateKnown, ReplayWindow, log' = log,
           clock' \in Nat, clock' >= clock,
           \A i \in DOMAIN log : Remembered(i) =>
              Remembered(i)' \/ clock >= log[i].stamp + TTL \/ BeingReplaced(i)',
           \A t \in Thread : pc[t] = "record" => pc'[t] = "record" /\ id'[t] = id[t]
    PROVE  FateKnown' /\ ReplayWindow'
<1>1. \A i, j : IdsBetween(i, j)' = IdsBetween(i, j)
  BY DEF IdsBetween
<1>2. \A i : Since(i)' = Since(i)
  BY <1>1 DEF Since
<1>3. ReplayWindow'
  BY <1>1 DEF ReplayWindow
<1>4. ASSUME NEW i \in DOMAIN log
      PROVE  Fate(i)'
  <2>1. Fate(i)
    BY DEF FateKnown
  <2>2. log[i].stamp \in Nat
    BY LogTyped
  <2>3. CASE Remembered(i)
    BY <2>2, <2>3, GuardAssumption DEF Fate, TypeOK
  <2>4. CASE clock >= log[i].stamp + TTL
    BY <2>2, <2>4, GuardAssumption DEF Fate, TypeOK
  <2>5. CASE Cardinality(Since(i)) >= MaxEntries
    BY <1>2, <2>5 DEF Fate
  <2>6. CASE BeingReplaced(i)
    BY <1>2, <2>6 DEF Fate, BeingReplaced
  <2> QED
    BY <2>1, <2>3, <2>4, <2>5, <2>6 DEF Fate
<1> QED
  BY <1>3, <1>4 DEF FateKnown

(* Purge removes only what has expired by the clock, however stale the     *)
(* time its call read.                                                     *)
LEMMA PurgeStep ==
    ASSUME GuardInv, NEW t \in Thread, Purge(t)
    PROVE  /\ EntriesAreLogged'
           /\ LockedViewHolds'
           /\ FateKnown'
           /\ ReplayWindow'
<1> USE DEF GuardInv
<1>1. /\ DOMAIN entries' = DOMAIN entries \ Expired(t)
      /\ \A k \in DOMAIN entries' : entries'[k] = entries[k]
      /\ log' = log /\ clock' = clock /\ id' = id /\ now' = now
      /\ pc[t] = "purge" /\ pc' = [pc EXCEPT ![t] = "check"]
  BY DEF Purge, Restrict, Goto
<1>2. EntriesAreLogged'
  BY <1>1 DEF EntriesAreLogged
<1>3. \A u \in Thread : u # t => pc[u] \notin {"check", "record"}
  BY <1>1 DEF MutualExclusion, InLock
<1>4. LockedViewHolds'
  BY <1>1, <1>3, GuardAssumption DEF LockedViewHolds, Expired, TypeOK
<1>5. \A k \in Expired(t) : k \in DOMAIN entries /\ clock >= entries[k].stamp + TTL
  BY GuardAssumption DEF Expired, NothingFromTheFuture, TypeOK
<1>6. \A i \in DOMAIN log : Remembered(i) =>
         Remembered(i)' \/ clock >= log[i].stamp + TTL \/ BeingReplaced(i)'
  BY <1>1, <1>5 DEF Remembered, EntriesAreLogged
<1> QED
  BY <1>1, <1>2, <1>4, <1>6, FateKept DEF TypeOK

(* The eviction loop removes the acceptance that every other entry and the *)
(* id being recorded follow.                                               *)
LEMMA EvictStep ==
    ASSUME GuardInv, NEW t \in Thread, EvictFirst(t)
    PROVE  /\ EntriesAreLogged'
           /\ LockedViewHolds'
           /\ FateKnown'
           /\ ReplayWindow'
<1> USE DEF GuardInv
<1>1. PICK k \in DOMAIN entries :
         First(k) /\ entries' = Restrict(entries, DOMAIN entries \ {k})
  BY DEF EvictFirst
<1>2. /\ DOMAIN entries' = DOMAIN entries \ {k}
      /\ \A j \in DOMAIN entries' : entries'[j] = entries[j]
      /\ log' = log /\ clock' = clock /\ id' = id /\ now' = now
      /\ pc[t] = "record" /\ pc' = pc
  BY <1>1 DEF EvictFirst, Restrict
<1>3. EntriesAreLogged' /\ LockedViewHolds'
  BY <1>2 DEF EntriesAreLogged, LockedViewHolds
<1>4. ASSUME NEW i \in DOMAIN log, Remembered(i), ~Remembered(i)'
      PROVE  BeingReplaced(i)'
  <2>1. k = log[i].id /\ entries[k].ord = i
    BY <1>2, <1>4 DEF Remembered
  <2>2. DOMAIN entries \ {k} \subseteq Since(i) \ {id[t]}
    <3> SUFFICES ASSUME NEW j \in DOMAIN entries, j # k
                 PROVE  j \in Since(i) \ {id[t]}
      OBVIOUS
    <3>1. /\ entries[j].ord \in DOMAIN log
          /\ log[entries[j].ord].id = j
      BY DEF EntriesAreLogged
    <3>2. entries[j].ord > i
      <4>1. entries[j].ord \in Nat /\ entries[k].ord \in Nat
        BY DEF TypeOK
      <4>2. entries[k].ord <= entries[j].ord /\ entries[j].ord # entries[k].ord
        BY <1>1, <2>1, <3>1 DEF First
      <4> QED
        BY <2>1, <4>1, <4>2
    <3>3. entries[j].ord \in (i + 1)..(Len(log) + 1 - 1)
      BY <3>1, <3>2 DEF TypeOK
    <3>4. j \in IdsBetween(i, Len(log) + 1)
      BY <3>1, <3>3 DEF IdsBetween
    <3>5. j # id[t]
      BY <1>2 DEF LockedViewHolds
    <3> QED
      BY <2>1, <3>4, <3>5 DEF Since
  <2>3. /\ IsFiniteSet(DOMAIN entries)
        /\ Cardinality(DOMAIN entries \ {k}) = Cardinality(DOMAIN entries) - 1
    BY FS_RemoveElement DEF CapacityBound
  <2>4. IsFiniteSet(Since(i) \ {id[t]})
    <3>1. IsFiniteSet(IdsBetween(i, Len(log) + 1))
      BY FiniteBetween, LogTyped
    <3>2. Since(i) \ {id[t]} \subseteq IdsBetween(i, Len(log) + 1)
      BY DEF Since
    <3> QED
      BY <3>1, <3>2, FS_Subset
  <2>5. /\ Cardinality(DOMAIN entries \ {k}) <= Cardinality(Since(i) \ {id[t]})
        /\ Cardinality(DOMAIN entries) \in Nat
        /\ Cardinality(Since(i) \ {id[t]}) \in Nat
    BY <2>2, <2>3, <2>4, FS_Subset, FS_CardinalityType
  <2>6. Cardinality(Since(i) \ {id[t]}) >= MaxEntries - 1
    BY <2>3, <2>5, GuardAssumption DEF EvictFirst, Full
  <2>7. id[t] # log[i].id
    BY <1>2, <1>4 DEF LockedViewHolds, Remembered
  <2>8. Since(i)' = Since(i)
    BY <1>2 DEF Since, IdsBetween
  <2> QED
    BY <1>2, <2>6, <2>7, <2>8 DEF BeingReplaced
<1>5. FateKnown' /\ ReplayWindow'
  BY <1>2, <1>4, FateKept DEF TypeOK
<1> QED
  BY <1>3, <1>5

(* Recording an id repeats an old acceptance only if that one had expired  *)
(* or had been pushed out, and counts as one more id for all the others.   *)
LEMMA RecordStep ==
    ASSUME GuardInv, NEW t \in Thread, Record(t), TypeOK'
    PROVE  /\ EntriesAreLogged'
           /\ NothingFromTheFuture'
           /\ LockedViewHolds'
           /\ FateKnown'
           /\ ReplayWindow'
<1> USE DEF GuardInv
<1>0. PICK n \in Nat : n = Len(log) + 1
  BY DEF TypeOK
<1>1. /\ DOMAIN entries' = DOMAIN entries \cup {id[t]}
      /\ entries'[id[t]] = [stamp |-> now[t], ord |-> n]
      /\ \A k \in DOMAIN entries : k # id[t] => entries'[k] = entries[k]
      /\ clock' = clock /\ id' = id /\ now' = now
      /\ pc[t] = "record" /\ pc' = [pc EXCEPT ![t] = "idle"]
  BY <1>0 DEF Record, Entry, Return, Goto
<1>2. /\ n \in Nat \ {0} /\ Len(log') = n /\ DOMAIN log = 1..(n - 1) /\ DOMAIN log' = 1..n
      /\ log'[n] = [id |-> id[t], stamp |-> now[t], at |-> clock]
      /\ \A i \in DOMAIN log : i < n /\ log'[i] = log[i]
  <2>1. log \in Seq(Acceptance)
    BY DEF TypeOK
  <2>2. log' = Append(log, [id |-> id[t], stamp |-> now[t], at |-> clock])
    BY DEF Record
  <2> QED
    BY <1>0, <2>1, <2>2
<1>3. id[t] \notin DOMAIN entries
  BY <1>1 DEF LockedViewHolds
<1>4. EntriesAreLogged'
  <2>1. ASSUME NEW k \in DOMAIN entries
        PROVE  /\ entries'[k].ord \in DOMAIN log'
               /\ log'[entries'[k].ord].id = k
               /\ log'[entries'[k].ord].stamp = entries'[k].stamp
    <3>1. entries'[k] = entries[k] /\ entries[k].ord \in DOMAIN log
      BY <1>1, <1>3 DEF EntriesAreLogged
    <3> QED
      BY <1>2, <3>1 DEF EntriesAreLogged
  <2> QED
    BY <1>1, <1>2, <2>1 DEF EntriesAreLogged
<1>5. NothingFromTheFuture'
  BY <1>1, <1>2 DEF NothingFromTheFuture
<1>6. \A u \in Thread : u # t => pc[u] \notin {"check", "record"}
  BY <1>1 DEF MutualExclusion, InLock
<1>7. LockedViewHolds'
  BY <1>1, <1>6 DEF LockedViewHolds, TypeOK
<1>8. \A i \in DOMAIN log : \A j \in 1..n : IdsBetween(i, j)' = IdsBetween(i, j)
  BY <1>2 DEF IdsBetween
<1>9. ASSUME NEW i \in DOMAIN log
      PROVE  /\ Since(i) \subseteq Since(i)'
             /\ id[t] # log[i].id => Since(i)' = (Since(i) \ {id[t]}) \cup {id[t]}
             /\ IsFiniteSet(Since(i)) /\ IsFiniteSet(Since(i)')
  <2>1. Since(i)' = IdsBetween(i, n + 1)' \ {log[i].id}
    BY <1>2 DEF Since
  <2>2. IdsBetween(i, n + 1)' = IdsBetween(i, n) \cup {id[t]}
    <3>1. i \in Nat /\ (i + 1)..(n + 1 - 1) = ((i + 1)..(n - 1)) \cup {n}
      BY <1>2
    <3>2. /\ \A k \in (i + 1)..(n - 1) : log'[k].id = log[k].id
          /\ log'[n].id = id[t]
      BY <1>2, <3>1
    <3> QED
      BY <3>1, <3>2 DEF IdsBetween
  <2>3. Since(i) = IdsBetween(i, n) \ {log[i].id}
    BY <1>0 DEF Since
  <2>4. IsFiniteSet(IdsBetween(i, n))
    BY <1>2, FiniteBetween
  <2>5. IsFiniteSet(IdsBetween(i, n) \cup {id[t]})
    BY <2>4, FS_AddElement
  <2>6. IsFiniteSet(Since(i)) /\ IsFiniteSet(Since(i)')
    <3>1. \A S, x : IsFiniteSet(S) => IsFiniteSet(S \ {x})
      BY FS_RemoveElement
    <3>2. IsFiniteSet(IdsBetween(i, n) \ {log[i].id})
      BY <3>1, <2>4
    <3>3. IsFiniteSet((IdsBetween(i, n) \cup {id[t]}) \ {log[i].id})
      BY <3>1, <2>5
    <3> QED
      BY <3>2, <3>3, <2>1, <2>2, <2>3
  <2> QED
    BY <2>1, <2>2, <2>3, <2>6
<1>10. ASSUME NEW i \in DOMAIN log
       PROVE  Fate(i)'
  <2>1. log[i].stamp \in Nat /\ log'[i] = log[i]
    BY <1>2, LogTyped
  <2>2. CASE Remembered(i)
    BY <1>1, <1>3, <2>1, <2>2 DEF Fate, Remembered
  <2>3. CASE clock >= log[i].stamp + TTL
    BY <1>1, <2>1, <2>3 DEF Fate
  <2>4. CASE Cardinality(Since(i)) >= MaxEntries
    <3>1. /\ Cardinality(Since(i)) <= Cardinality(Since(i)')
          /\ Cardinality(Since(i)) \in Nat /\ Cardinality(Since(i)') \in Nat
      BY <1>9, FS_Subset, FS_CardinalityType
    <3> QED
      BY <2>4, <3>1, GuardAssumption DEF Fate
  <2>5. CASE BeingReplaced(i)
    <3>1. id[t] # log[i].id /\ Cardinality(Since(i) \ {id[t]}) >= MaxEntries - 1
      BY <1>6, <2>5 DEF BeingReplaced
    <3>2. IsFiniteSet(Since(i) \ {id[t]})
      BY <1>9, FS_RemoveElement
    <3>3. /\ Cardinality(Since(i)') = Cardinality(Since(i) \ {id[t]}) + 1
          /\ Cardinality(Since(i) \ {id[t]}) \in Nat
      BY <1>9, <3>1, <3>2, FS_AddElement, FS_CardinalityType
    <3> QED
      BY <3>1, <3>3, GuardAssumption DEF Fate
  <2> QED
    BY <2>2, <2>3, <2>4, <2>5 DEF FateKnown, Fate
<1>11. Fate(n)'
  BY <1>1, <1>2 DEF Fate, Remembered
<1>12. FateKnown'
  BY <1>2, <1>10, <1>11 DEF FateKnown
<1>13. ReplayWindow'
  <2> SUFFICES ASSUME NEW i \in 1..n, NEW j \in 1..n, i < j, log'[i].id = log'[j].id
               PROVE  \/ log'[j].at >= log'[i].stamp + TTL
                      \/ Cardinality(IdsBetween(i, j)' \ {log'[i].id}) >= MaxEntries
    BY <1>2 DEF ReplayWindow
  <2>1. i \in DOMAIN log /\ log'[i] = log[i]
    BY <1>2
  <2>2. IdsBetween(i, j)' = IdsBetween(i, j)
    BY <1>8, <2>1
  <2>3. CASE j # n
    <3>1. j \in DOMAIN log /\ log'[j] = log[j]
      BY <1>2, <2>3
    <3> QED
      BY <2>1, <2>2, <3>1 DEF ReplayWindow
  <2>4. CASE j = n
    <3>1. log[i].id = id[t]
      BY <1>2, <2>1, <2>4
    <3>2. ~Remembered(i) /\ ~BeingReplaced(i)
      BY <1>3, <1>6, <3>1 DEF Remembered, BeingReplaced
    <3>3. clock >= log[i].stamp + TTL \/ Cardinality(Since(i)) >= MaxEntries
      BY <2>1, <3>2 DEF FateKnown, Fate
    <3>4. Since(i) = IdsBetween(i, j)' \ {log'[i].id}
      BY <1>0, <2>1, <2>2, <2>4 DEF Since
    <3>5. log'[j].at = clock /\ log'[i].stamp = log[i].stamp
      BY <1>2, <2>1, <2>4
    <3> QED
      BY <3>3, <3>4, <3>5
  <2> QED
    BY <2>3, <2>4
<1> QED
  BY <1>4, <1>5, <1>7, <1>12, <1>13

(* The steps that leave the dict and the log alone.                        *)
LEMMA QuietStep ==
    ASSUME GuardInv, TypeOK', entries' = entries, log' = log, clock' >= clock,
           \A t \in Thread : now'[t] = now[t] \/ now'[t] = clock,
           \A t \in Thread : pc[t] = "record" => pc'[t] = "record",
           \A t \in Thread : pc[t] \in {"check", "record"} => id'[t] = id[t],
           \A t \in Thread :
              pc'[t] \in {"check", "record"} =>
                 /\ pc[t] \in {"check", "record"}
                 /\ now'[t] = now[t]
                 /\ id'[t] = id[t]
                 /\ pc[t] = "check" /\ pc'[t] = "record" => id[t] \notin DOMAIN entries
                 /\ pc'[t] = "check" => pc[t] = "check"
    PROVE  /\ EntriesAreLogged'
           /\ NothingFromTheFuture'
           /\ LockedViewHolds'
           /\ FateKnown'
           /\ ReplayWindow'
<1> USE DEF GuardInv
<1>1. EntriesAreLogged'
  BY DEF EntriesAreLogged
<1>2. NothingFromTheFuture'
  <2>1. clock \in Nat /\ clock' \in Nat /\ \A t \in Thread : now[t] \in Nat
    BY DEF TypeOK
  <2>2. \A i \in DOMAIN log : log[i].stamp \in Nat
    BY LogTyped
  <2> QED
    BY <2>1, <2>2 DEF NothingFromTheFuture
<1>3. LockedViewHolds'
  BY DEF LockedViewHolds
<1>4. \A i \in DOMAIN log : Remembered(i) => Remembered(i)'
  BY DEF Remembered
<1>5. FateKnown' /\ ReplayWindow'
  BY <1>4, FateKept DEF TypeOK
<1> QED
  BY <1>1, <1>2, <1>3, <1>5

(* A call is refused because of an entry, and the entry is an acceptance.  *)
LEMMA RefusalStep ==
    ASSUME GuardInv, TypeOK', [Next]_vars
    PROVE  RefusedOnlyIfRecent'
<1> USE DEF GuardInv
<1>1. \A i \in DOMAIN log : i \in DOMAIN log' /\ log'[i] = log[i]
  <2>1. CASE log' = log
    BY <2>1
  <2>2. ASSUME NEW t \in Thread, Record(t)
        PROVE  \A i \in DOMAIN log : i \in DOMAIN log' /\ log'[i] = log[i]
    BY <2>2 DEF Record, TypeOK
  <2> QED
    BY <2>1, <2>2 DEF Next, Step, Tick, Finished, Enter, AcquireLock, Purge,
                      Refuse, Pass, EvictFirst, vars
<1> SUFFICES ASSUME NEW t \in Thread, verdict'[t] = "refused"
             PROVE  \E i \in DOMAIN log' : log'[i].id = id'[t] /\ log'[i].stamp > now'[t] - TTL
  BY DEF RefusedOnlyIfRecent
<1>2. CASE verdict[t] = "refused" /\ id'[t] = id[t] /\ now'[t] = now[t]
  BY <1>1, <1>2 DEF RefusedOnlyIfRecent
<1>3. CASE Refuse(t)
  <2>1. /\ pc[t] = "check" /\ id[t] \in DOMAIN entries
        /\ id' = id /\ now' = now
    BY <1>3 DEF Refuse
  <2>2. entries[id[t]].stamp > now[t] - TTL
    BY <2>1 DEF LockedViewHolds
  <2>3. /\ entries[id[t]].ord \in DOMAIN log
        /\ log[entries[id[t]].ord].id = id[t]
        /\ log[entries[id[t]].ord].stamp = entries[id[t]].stamp
    BY <2>1 DEF EntriesAreLogged
  <2> QED
    BY <1>1, <2>1, <2>2, <2>3
<1>4. \/ verdict[t] = "refused" /\ id'[t] = id[t] /\ now'[t] = now[t]
      \/ Refuse(t)
  <2>1. CASE Tick \/ Finished \/ UNCHANGED vars
    BY <2>1 DEF Tick, Finished, vars
  <2>2. ASSUME NEW u \in Thread, Step(u)
        PROVE  \/ verdict[t] = "refused" /\ id'[t] = id[t] /\ now'[t] = now[t]
               \/ Refuse(t)
    BY <2>2 DEF Step, Enter, AcquireLock, Purge, Refuse, Pass, EvictFirst, Record,
                Goto, Return, TypeOK
  <2> QED
    BY <2>1, <2>2 DEF Next
<1> QED
  BY <1>2, <1>3, <1>4

(* The invariant behind the replay window is inductive.                    *)
THEOREM GuardInvHolds == Spec => []GuardInv
<1>1. Init => GuardInv
  <2> SUFFICES ASSUME Init
               PROVE  GuardInv
    OBVIOUS
  <2>1. TypeOK
    BY GuardAssumption DEF Init, TypeOK, Acceptance
  <2>2. DOMAIN log = {} /\ DOMAIN entries = {}
    BY DEF Init
  <2>3. MutualExclusion /\ LockedViewHolds /\ RefusedOnlyIfRecent
    BY DEF Init, MutualExclusion, InLock, LockedViewHolds, RefusedOnlyIfRecent
  <2>4. CapacityBound
    BY FS_EmptySet, GuardAssumption DEF Init, CapacityBound
  <2>5. EntriesAreLogged /\ NothingFromTheFuture
    BY <2>2 DEF EntriesAreLogged, NothingFromTheFuture, Init
  <2>6. FateKnown /\ ReplayWindow
    BY <2>2 DEF FateKnown, ReplayWindow
  <2> QED
    BY <2>1, <2>3, <2>4, <2>5, <2>6 DEF GuardInv
<1>2. TypeOK' /\ MutualExclusion' /\ CapacityBound' /\ GuardInv /\ [Next]_vars => GuardInv'
  <2> SUFFICES ASSUME TypeOK', MutualExclusion', CapacityBound', GuardInv, [Next]_vars
               PROVE  GuardInv'
    OBVIOUS
  <2> DEFINE Rest == /\ EntriesAreLogged
                     /\ NothingFromTheFuture
                     /\ LockedViewHolds
                     /\ FateKnown
                     /\ ReplayWindow
  <2> USE DEF GuardInv
  <2>1. ASSUME Tick
        PROVE  Rest'
    BY <2>1, QuietStep DEF Tick, TypeOK
  <2>2. ASSUME Finished \/ UNCHANGED vars
        PROVE  Rest'
    <3>1. UNCHANGED vars
      BY <2>2 DEF Finished
    <3> QED
      BY <3>1, QuietStep, GuardAssumption DEF vars, TypeOK
  <2>3. ASSUME NEW t \in Thread, NEW e \in EventId, Enter(t, e)
        PROVE  Rest'
    BY <2>3, QuietStep DEF Enter, Goto, TypeOK
  <2>4. ASSUME NEW t \in Thread, AcquireLock(t)
        PROVE  Rest'
    BY <2>4, QuietStep DEF AcquireLock, Goto, TypeOK
  <2>5. ASSUME NEW t \in Thread, Purge(t)
        PROVE  Rest'
    BY <2>5, PurgeStep DEF Purge, NothingFromTheFuture
  <2>6. ASSUME NEW t \in Thread, Refuse(t)
        PROVE  Rest'
    BY <2>6, QuietStep DEF Refuse, Return, Goto, TypeOK
  <2>7. ASSUME NEW t \in Thread, Pass(t)
        PROVE  Rest'
    BY <2>7, QuietStep DEF Pass, Goto, TypeOK
  <2>8. ASSUME NEW t \in Thread, EvictFirst(t)
        PROVE  Rest'
    BY <2>8, EvictStep DEF EvictFirst, NothingFromTheFuture
  <2>9. ASSUME NEW t \in Thread, Record(t)
        PROVE  Rest'
    BY <2>9, RecordStep
  <2>10. Rest'
    BY <2>1, <2>2, <2>3, <2>4, <2>5, <2>6, <2>7, <2>8, <2>9 DEF Next, Step
  <2>11. RefusedOnlyIfRecent'
    BY RefusalStep
  <2> QED
    BY <2>10, <2>11
<1> QED
  BY <1>1, <1>2, TypeCorrect, LockExcludes, CapacityHolds, PTL DEF Spec

(* No repeat of an event id is accepted before its ttl has passed, unless  *)
(* max_entries other ids were accepted in between.                         *)
THEOREM ReplayWindowHolds == Spec => []ReplayWindow
  BY GuardInvHolds, PTL DEF GuardInv

(* A refused event id was accepted less than ttl_seconds before.           *)
THEOREM RefusalsJustified == Spec => []RefusedOnlyIfRecent
  BY GuardInvHolds, PTL DEF GuardInv
----------------------------------------------------------------------------
(* The refinement of AtomicGuard: a call decides when it purges; before    *)
(* and after that its steps change nothing that AtomicGuard has.           *)
(* At most one call is between its decision and its record.                *)
LEMMA OneAccepts ==
    ASSUME MutualExclusion, NEW t \in Thread, InLock(t), NEW u \in Thread, Accepting(u)
    PROVE  u = t
BY DEF MutualExclusion, InLock, Accepting

LEMMA MemoryIs ==
    ASSUME MutualExclusion, NEW t \in Thread
    PROVE  /\ Accepting(t) => Memory = Recorded(t) /\ AcceptedCount = Len(log) + 1
           /\ InLock(t) /\ ~Accepting(t) => Memory = entries /\ AcceptedCount = Len(log)
<1>1. CASE Accepting(t)
  <2>1. \A u \in Thread : Accepting(u) => u = t
    BY <1>1, OneAccepts DEF Accepting, InLock
  <2>2. (CHOOSE u \in Thread : Accepting(u)) = t
    BY <1>1, <2>1
  <2> QED
    BY <1>1, <2>2 DEF Memory, AcceptedCount
<1>2. CASE InLock(t) /\ ~Accepting(t)
  <2>1. ~\E u \in Thread : Accepting(u)
    BY <1>2, OneAccepts
  <2> QED
    BY <1>2, <2>1 DEF Memory, AcceptedCount
<1> QED
  BY <1>1, <1>2

(* The same of the next state.                                             *)
LEMMA MemoryWillBe ==
    ASSUME MutualExclusion', NEW t \in Thread
    PROVE  /\ Accepting(t)' => Memory' = Recorded(t)' /\ AcceptedCount' = Len(log)' + 1
           /\ InLock(t)' /\ ~Accepting(t)' => Memory' = entries' /\ AcceptedCount' = Len(log)'
           /\ (\A u \in Thread : ~Accepting(u)') => Memory' = entries' /\ AcceptedCount' = Len(log)'
<1>1. CASE Accepting(t)'
  <2>1. \A u \in Thread : Accepting(u)' => u = t
    BY <1>1 DEF MutualExclusion, Accepting, InLock
  <2>2. (CHOOSE u \in Thread : Accepting(u)') = t
    BY <1>1, <2>1
  <2> QED
    BY <1>1, <2>2 DEF Memory, AcceptedCount
<1>2. CASE InLock(t)' /\ ~Accepting(t)'
  <2>1. ~\E u \in Thread : Accepting(u)'
    BY <1>2 DEF MutualExclusion, InLock, Accepting
  <2> QED
    BY <1>2, <2>1 DEF Memory, AcceptedCount
<1>3. CASE \A u \in Thread : ~Accepting(u)'
  BY <1>3 DEF Memory, AcceptedCount
<1> QED
  BY <1>1, <1>2, <1>3

LEMMA LaterAreFinite ==
    ASSUME CapacityBound, NEW k
    PROVE  /\ IsFiniteSet({j \in DOMAIN entries : entries[j].ord > entries[k].ord})
           /\ Cardinality({j \in DOMAIN entries : entries[j].ord > entries[k].ord}) \in Nat
BY FS_Subset, FS_CardinalityType DEF CapacityBound

(* Where there is room for one more, every entry lasts.                    *)
LEMMA AllLast ==
    ASSUME TypeOK, CapacityBound, ~Full
    PROVE  Lasting = DOMAIN entries
<1> SUFFICES ASSUME NEW k \in DOMAIN entries
             PROVE  Cardinality({j \in DOMAIN entries : entries[j].ord > entries[k].ord}) < MaxEntries - 1
  BY DEF Lasting
<1> DEFINE later == {j \in DOMAIN entries : entries[j].ord > entries[k].ord}
<1>1. later \subseteq DOMAIN entries \ {k}
  BY DEF TypeOK
<1>2. /\ IsFiniteSet(DOMAIN entries \ {k})
      /\ Cardinality(DOMAIN entries \ {k}) = Cardinality(DOMAIN entries) - 1
  BY FS_RemoveElement DEF CapacityBound
<1>3. Cardinality(later) <= Cardinality(DOMAIN entries \ {k})
  BY <1>1, <1>2, FS_Subset
<1>4. Cardinality(DOMAIN entries) \in Nat /\ Cardinality(later) \in Nat
  BY LaterAreFinite, FS_CardinalityType DEF CapacityBound
<1> QED
  BY <1>2, <1>3, <1>4, GuardAssumption DEF Full

(* Where there is none, the first entry does not last, and all others are  *)
(* as far from the end of the order without it.                            *)
LEMMA FirstDoesNotLast ==
    ASSUME TypeOK, CapacityBound, EntriesAreLogged, Full, NEW k \in DOMAIN entries, First(k),
           entries' = Restrict(entries, DOMAIN entries \ {k})
    PROVE  Lasting' = Lasting
<1>1. /\ DOMAIN entries' = DOMAIN entries \ {k}
      /\ \A j \in DOMAIN entries' : entries'[j] = entries[j]
  BY DEF Restrict
<1>2. \A j \in DOMAIN entries : entries[j].ord \in Nat
  BY DEF TypeOK
<1>3. k \notin Lasting
  <2>1. \A j \in DOMAIN entries : j # k => entries[j].ord # entries[k].ord
    BY DEF EntriesAreLogged
  <2>2. {j \in DOMAIN entries : entries[j].ord > entries[k].ord} = DOMAIN entries \ {k}
    BY <1>2, <2>1 DEF First
  <2>3. Cardinality(DOMAIN entries \ {k}) = Cardinality(DOMAIN entries) - 1
    BY FS_RemoveElement DEF CapacityBound
  <2>4. Cardinality(DOMAIN entries) \in Nat
    BY FS_CardinalityType DEF CapacityBound
  <2>5. ~(Cardinality(DOMAIN entries \ {k}) < MaxEntries - 1)
    BY <2>3, <2>4, GuardAssumption DEF Full
  <2>6. ~(Cardinality({j \in DOMAIN entries : entries[j].ord > entries[k].ord}) < MaxEntries - 1)
    BY <2>2, <2>5
  <2> QED
    BY <2>6 DEF Lasting
<1>4. ASSUME NEW m \in DOMAIN entries, m # k
      PROVE  {j \in DOMAIN entries' : entries'[j].ord > entries'[m].ord}
             = {j \in DOMAIN entries : entries[j].ord > entries[m].ord}
  <2>1. ~(entries[k].ord > entries[m].ord)
    BY <1>2 DEF First
  <2> QED
    BY <1>1, <1>4, <2>1
<1> QED
  BY <1>1, <1>3, <1>4 DEF Lasting

(* The steps of others leave a call's stage and decision as they are.      *)
LEMMA OthersKept ==
    ASSUME NEW u \in Thread, pc'[u] = pc[u], id'[u] = id[u], verdict'[u] = verdict[u],
           pc[u] \in {"check", "record"} => DOMAIN entries' = DOMAIN entries
    PROVE  /\ Stage(u)' = Stage(u) /\ Decision(u)' = Decision(u)
           /\ Accepting(u)' <=> Accepting(u)
BY DEF Stage, Decision, Accepting, Refusing

(* A step in which no call comes to accept or ceases to, and nothing is    *)
(* recorded, keeps what the guard remembers.                               *)
LEMMA MemoryKept ==
    ASSUME MutualExclusion, MutualExclusion', entries' = entries, log' = log,
           \A u \in Thread : /\ Accepting(u)' <=> Accepting(u)
                             /\ Accepting(u) => id'[u] = id[u] /\ now'[u] = now[u]
    PROVE  Memory' = Memory /\ AcceptedCount' = AcceptedCount
<1>1. CASE \E t \in Thread : Accepting(t)
  <2>1. PICK t \in Thread : Accepting(t)
    BY <1>1
  <2>2. Memory = Recorded(t) /\ AcceptedCount = Len(log) + 1
    BY <2>1, MemoryIs
  <2>3. Memory' = Recorded(t)' /\ AcceptedCount' = Len(log)' + 1
    BY <2>1, MemoryWillBe
  <2>4. Recorded(t)' = Recorded(t)
    BY <2>1 DEF Recorded, Lasting, Entry
  <2> QED
    BY <2>2, <2>3, <2>4
<1>2. CASE ~\E t \in Thread : Accepting(t)
  BY <1>2 DEF Memory, AcceptedCount
<1> QED
  BY <1>1, <1>2

Simulates == [Atomic!Next]_Atomic!vars

LEMMA EnterSimulates ==
    ASSUME GuardInv, MutualExclusion', NEW t \in Thread, NEW e \in EventId, Enter(t, e)
    PROVE  Atomic!Ask(t, e)
<1> USE DEF GuardInv
<1>1. /\ pc[t] = "idle" /\ pc' = [pc EXCEPT ![t] = "wait"]
      /\ id' = [id EXCEPT ![t] = e] /\ now' = [now EXCEPT ![t] = clock]
      /\ verdict' = [verdict EXCEPT ![t] = "none"]
      /\ entries' = entries /\ log' = log /\ clock' = clock
  BY DEF Enter, Goto
<1>2. \A u \in Thread : u # t =>
         pc'[u] = pc[u] /\ id'[u] = id[u] /\ now'[u] = now[u] /\ verdict'[u] = verdict[u]
  BY <1>1 DEF TypeOK
<1>3. pc'[t] = "wait" /\ verdict'[t] = "none"
  BY <1>1 DEF TypeOK
<1>4. /\ ~Accepting(t) /\ ~Accepting(t)' /\ Decision(t)' = "none"
      /\ Stage(t) = "none" /\ Stage(t)' = "asked"
  BY <1>1, <1>3 DEF Accepting, Refusing, Decision, Stage
<1>5. \A u \in Thread : u # t =>
         Stage(u)' = Stage(u) /\ Decision(u)' = Decision(u) /\ (Accepting(u)' <=> Accepting(u))
  BY <1>1, <1>2, OthersKept
<1>6. Memory' = Memory /\ AcceptedCount' = AcceptedCount
  BY <1>1, <1>2, <1>4, <1>5, MemoryKept
<1>7. /\ [u \in Thread |-> Stage(u)'] = [[u \in Thread |-> Stage(u)] EXCEPT ![t] = "asked"]
      /\ [u \in Thread |-> Decision(u)'] = [[u \in Thread |-> Decision(u)] EXCEPT ![t] = "none"]
  BY <1>4, <1>5
<1> QED
  BY <1>1, <1>4, <1>6, <1>7 DEF Atomic!Ask, AcceptedCount

(* The operators that AtomicGuard takes from the library are the same ones. *)
LEMMA SameCardinality == \A S : Atomic!Cardinality(S) = Cardinality(S)
BY Zenon DEF Atomic!Cardinality, Cardinality

LEMMA SameRestrict == \A f, S : Atomic!Restrict(f, S) = Restrict(f, S)
BY DEF Atomic!Restrict, Restrict

(* The call takes the decision when it purges: what it leaves is what was  *)
(* fresh, and whether its id is among that settles the rest.               *)
LEMMA PurgeSimulates ==
    ASSUME GuardInv, MutualExclusion', NEW t \in Thread, Purge(t)
    PROVE  Atomic!Refuse(t) \/ Atomic!Accept(t)
<1> USE DEF GuardInv
<1> DEFINE fresh == {k \in DOMAIN entries : entries[k].stamp > now[t] - TTL}
<1>1. /\ pc[t] = "purge" /\ pc' = [pc EXCEPT ![t] = "check"]
      /\ UNCHANGED <<clock, id, now, verdict, log>>
  BY DEF Purge, Goto
<1>2. pc'[t] = "check" /\ \A u \in Thread : u # t => pc'[u] = pc[u] /\ pc[u] \notin {"check", "record"}
  BY <1>1 DEF TypeOK, MutualExclusion, InLock
<1>3. DOMAIN entries \ Expired(t) = fresh
  BY GuardAssumption DEF Expired, TypeOK
<1>4. /\ entries' = Restrict(entries, fresh)
      /\ DOMAIN entries' = fresh /\ \A k \in fresh : entries'[k] = entries[k]
  BY <1>3 DEF Purge, Restrict
<1>5. Memory = entries /\ AcceptedCount = Len(log)
  BY <1>1, MemoryIs DEF InLock, Accepting
<1>6. Atomic!Fresh(t) = fresh
  BY <1>5 DEF Atomic!Fresh
<1>7. \A u \in Thread : u # t => Stage(u)' = Stage(u) /\ Decision(u)' = Decision(u)
  BY <1>1, <1>2, OthersKept
<1>8. Stage(t) = "asked" /\ Stage(t)' = "decided"
  BY <1>1, <1>2 DEF Stage
<1>9. [u \in Thread |-> Stage(u)'] = [[u \in Thread |-> Stage(u)] EXCEPT ![t] = "decided"]
  BY <1>7, <1>8
<1> HIDE DEF fresh
<1>10. CASE id[t] \in fresh
  <2>1. ~Accepting(t)' /\ Refusing(t)' /\ InLock(t)'
    BY <1>1, <1>2, <1>4, <1>10 DEF Accepting, Refusing, InLock
  <2>2. Memory' = Restrict(Memory, fresh) /\ AcceptedCount' = AcceptedCount
    BY <1>1, <1>4, <1>5, <2>1, MemoryWillBe
  <2>3. Decision(t)' = "refused"
    BY <2>1 DEF Decision
  <2>4. [u \in Thread |-> Decision(u)'] = [[u \in Thread |-> Decision(u)] EXCEPT ![t] = "refused"]
    BY <1>7, <2>3
  <2> QED
    BY <1>1, <1>6, <1>8, <1>9, <1>10, <2>2, <2>4, SameRestrict DEF Atomic!Refuse, Atomic!Decide, AcceptedCount
<1>11. CASE id[t] \notin fresh
  <2>1. Accepting(t)'
    BY <1>1, <1>2, <1>4, <1>11 DEF Accepting
  <2>2. Memory' = Recorded(t)' /\ AcceptedCount' = AcceptedCount + 1
    BY <1>1, <1>5, <2>1, MemoryWillBe
  <2>3. \A k \in fresh : {j \in DOMAIN entries' : entries'[j].ord > entries'[k].ord}
                         = {j \in fresh : entries[j].ord > entries[k].ord}
    BY <1>4
  <2>4. Lasting' = Atomic!Newest(fresh, MaxEntries - 1)
    BY <1>4, <1>5, <2>3, SameCardinality DEF Lasting, Atomic!Newest
  <2>5. Lasting' \subseteq fresh
    BY <1>4 DEF Lasting
  <2>6. Entry(t)' = [stamp |-> now[t], ord |-> AcceptedCount + 1]
    BY <1>1, <1>5 DEF Entry
  <2>7. Memory' = [k \in Atomic!Newest(fresh, MaxEntries - 1) \cup {id[t]} |->
                      IF k = id[t] THEN [stamp |-> now[t], ord |-> AcceptedCount + 1] ELSE Memory[k]]
    BY <1>1, <1>4, <1>5, <2>2, <2>4, <2>5, <2>6 DEF Recorded
  <2>8. Decision(t)' = "accepted"
    <3>1. ~Refusing(t)'
      BY <2>1 DEF Accepting, Refusing
    <3> QED
      BY <2>1, <3>1 DEF Decision
  <2>9. [u \in Thread |-> Decision(u)'] = [[u \in Thread |-> Decision(u)] EXCEPT ![t] = "accepted"]
    BY <1>7, <2>8
  <2> QED
    BY <1>1, <1>6, <1>8, <1>9, <1>11, <2>2, <2>7, <2>9 DEF Atomic!Accept, Atomic!Decide, AcceptedCount
<1> QED
  BY <1>10, <1>11

(* Making room and recording bring the dict to where the decision put it.  *)
LEMMA RecordSimulates ==
    ASSUME GuardInv, MutualExclusion', NEW t \in Thread, Record(t)
    PROVE  Atomic!Return(t)
<1> USE DEF GuardInv
<1>1. /\ pc[t] = "record" /\ pc' = [pc EXCEPT ![t] = "idle"]
      /\ verdict' = [verdict EXCEPT ![t] = "accepted"]
      /\ UNCHANGED <<clock, id, now>> /\ ~Full
  BY DEF Record, Goto, Return
<1>2. /\ pc'[t] = "idle" /\ verdict'[t] = "accepted"
      /\ \A u \in Thread : u # t =>
            pc'[u] = pc[u] /\ pc[u] \notin {"check", "record"} /\ verdict'[u] = verdict[u]
  BY <1>1 DEF TypeOK, MutualExclusion, InLock
<1>3. Accepting(t) /\ \A u \in Thread : ~Accepting(u)'
  BY <1>1, <1>2 DEF Accepting
<1>4. entries' = Recorded(t)
  BY <1>1, AllLast DEF Record, Recorded
<1>5. Len(log') = Len(log) + 1
  BY DEF Record, TypeOK
<1>6. Memory = Recorded(t) /\ AcceptedCount = Len(log) + 1
  BY <1>3, MemoryIs
<1>7. Memory' = entries' /\ AcceptedCount' = Len(log)'
  BY <1>3, MemoryWillBe
<1>8. \A u \in Thread : u # t => Stage(u)' = Stage(u) /\ Decision(u)' = Decision(u)
  BY <1>1, <1>2, OthersKept
<1>9. Stage(t) = "decided" /\ Stage(t)' = "none" /\ Decision(t) = "accepted" /\ Decision(t)' = "accepted"
  BY <1>1, <1>2, <1>3 DEF Stage, Decision, Accepting, Refusing
<1>10. /\ [u \in Thread |-> Stage(u)'] = [[u \in Thread |-> Stage(u)] EXCEPT ![t] = "none"]
       /\ [u \in Thread |-> Decision(u)'] = [u \in Thread |-> Decision(u)]
  BY <1>8, <1>9
<1> QED
  BY <1>1, <1>4, <1>5, <1>6, <1>7, <1>9, <1>10 DEF Atomic!Return, AcceptedCount

LEMMA RefuseSimulates ==
    ASSUME GuardInv, MutualExclusion', NEW t \in Thread, Refuse(t)
    PROVE  Atomic!Return(t)
<1> USE DEF GuardInv
<1>1. /\ pc[t] = "check" /\ pc' = [pc EXCEPT ![t] = "idle"] /\ id[t] \in DOMAIN entries
      /\ verdict' = [verdict EXCEPT ![t] = "refused"]
      /\ UNCHANGED <<clock, entries, id, now, log>>
  BY DEF Refuse, Goto, Return
<1>2. /\ pc'[t] = "idle" /\ verdict'[t] = "refused"
      /\ \A u \in Thread : u # t => pc'[u] = pc[u] /\ verdict'[u] = verdict[u]
  BY <1>1 DEF TypeOK
<1>3. \A u \in Thread : u # t =>
         Stage(u)' = Stage(u) /\ Decision(u)' = Decision(u) /\ (Accepting(u)' <=> Accepting(u))
  BY <1>1, <1>2, OthersKept
<1>4. /\ ~Accepting(t) /\ ~Accepting(t)' /\ Stage(t) = "decided" /\ Stage(t)' = "none"
      /\ Decision(t) = "refused" /\ Decision(t)' = "refused"
  BY <1>1, <1>2 DEF Accepting, Refusing, Decision, Stage
<1>5. Memory' = Memory /\ AcceptedCount' = AcceptedCount
  BY <1>1, <1>3, <1>4, MemoryKept
<1>6. /\ [u \in Thread |-> Stage(u)'] = [[u \in Thread |-> Stage(u)] EXCEPT ![t] = "none"]
      /\ [u \in Thread |-> Decision(u)'] = [u \in Thread |-> Decision(u)]
  BY <1>3, <1>4
<1> QED
  BY <1>1, <1>4, <1>5, <1>6 DEF Atomic!Return, AcceptedCount

(* A step of the lock, the check or the loop that AtomicGuard does not see.*)
LEMMA SilentSteps ==
    ASSUME GuardInv, MutualExclusion', NEW t \in Thread, AcquireLock(t) \/ Pass(t) \/ EvictFirst(t)
    PROVE  UNCHANGED Atomic!vars
<1> USE DEF GuardInv
<1>1. UNCHANGED <<clock, id, now, verdict, log>>
  BY DEF AcquireLock, Pass, EvictFirst
<1>2. \A u \in Thread : u # t => pc'[u] = pc[u]
  BY DEF AcquireLock, Pass, EvictFirst, Goto, TypeOK
<1>3. CASE AcquireLock(t) \/ Pass(t)
  <2>1. entries' = entries
    BY <1>3 DEF AcquireLock, Pass
  <2>2. Stage(t)' = Stage(t) /\ Decision(t)' = Decision(t) /\ (Accepting(t)' <=> Accepting(t))
    <3>1. CASE AcquireLock(t)
      <4>1. pc[t] = "wait" /\ pc'[t] = "purge"
        BY <3>1 DEF AcquireLock, Goto, TypeOK
      <4> QED
        BY <1>1, <4>1 DEF Stage, Decision, Accepting, Refusing
    <3>2. CASE Pass(t)
      <4>1. pc[t] = "check" /\ pc'[t] = "record" /\ id[t] \notin DOMAIN entries
        BY <3>2 DEF Pass, Goto, TypeOK
      <4> QED
        BY <1>1, <4>1 DEF Stage, Decision, Accepting, Refusing
    <3> QED
      BY <1>3, <3>1, <3>2
  <2>3. \A u \in Thread :
           Stage(u)' = Stage(u) /\ Decision(u)' = Decision(u) /\ (Accepting(u)' <=> Accepting(u))
    BY <1>1, <1>2, <2>1, <2>2, OthersKept
  <2>4. Memory' = Memory /\ AcceptedCount' = AcceptedCount
    BY <1>1, <2>1, <2>3, MemoryKept
  <2> QED
    BY <1>1, <2>3, <2>4 DEF Atomic!vars, AcceptedCount
<1>4. CASE EvictFirst(t)
  <2>1. PICK k \in DOMAIN entries :
           First(k) /\ entries' = Restrict(entries, DOMAIN entries \ {k})
    BY <1>4 DEF EvictFirst
  <2>2. pc[t] = "record" /\ pc' = pc /\ Full
    BY <1>4 DEF EvictFirst
  <2>3. \A u \in Thread : u # t => pc[u] \notin {"check", "record"}
    BY <2>2 DEF MutualExclusion, InLock
  <2>4. Accepting(t) /\ Accepting(t)'
    BY <2>2 DEF Accepting
  <2>5. Lasting' = Lasting
    BY <2>1, <2>2, FirstDoesNotLast
  <2>6. Lasting' \subseteq DOMAIN entries' /\ \A j \in DOMAIN entries' : entries'[j] = entries[j]
    BY <2>1 DEF Lasting, Restrict
  <2>7. Recorded(t)' = Recorded(t)
    BY <1>1, <2>5, <2>6 DEF Recorded, Entry
  <2>8. Memory' = Memory /\ AcceptedCount' = AcceptedCount
    BY <1>1, <2>4, <2>7, MemoryIs, MemoryWillBe
  <2>9. \A u \in Thread : Stage(u)' = Stage(u) /\ Decision(u)' = Decision(u)
    BY <1>1, <2>2, <2>3, <2>4 DEF Stage, Decision, Accepting, Refusing
  <2> QED
    BY <1>1, <2>8, <2>9 DEF Atomic!vars, AcceptedCount
<1> QED
  BY <1>3, <1>4

(* accept() is atomic: the guard, with its lock and its loops, implements  *)
(* AtomicGuard.                                                            *)
THEOREM ImplementsAtomicGuardHolds == Spec => ImplementsAtomicGuard
<1>1. Init => Atomic!Init
  <2> SUFFICES ASSUME Init
               PROVE  Atomic!Init
    OBVIOUS
  <2>1. \A t \in Thread : pc[t] = "idle" /\ verdict[t] = "none"
    BY DEF Init
  <2>2. \A t \in Thread : ~Accepting(t) /\ Stage(t) = "none" /\ Decision(t) = "none"
    BY <2>1 DEF Accepting, Refusing, Stage, Decision
  <2>3. Memory = entries /\ AcceptedCount = 0
    BY <2>2 DEF Memory, AcceptedCount, Init
  <2> QED
    BY <2>2, <2>3 DEF Init, Atomic!Init, AcceptedCount
<1>2. GuardInv /\ MutualExclusion' /\ [Next]_vars => Simulates
  <2> SUFFICES ASSUME GuardInv, MutualExclusion', [Next]_vars
               PROVE  Simulates
    OBVIOUS
  <2>1. CASE Tick \/ Finished \/ UNCHANGED vars
    <3>1. /\ UNCHANGED <<entries, pc, id, now, verdict, log>>
          /\ clock' \in Nat /\ (clock' > clock \/ clock' = clock)
      BY <2>1 DEF Tick, Finished, vars, GuardInv, TypeOK
    <3>2. /\ Memory' = Memory /\ AcceptedCount' = AcceptedCount
          /\ \A u \in Thread : Stage(u)' = Stage(u) /\ Decision(u)' = Decision(u)
      BY <3>1 DEF Memory, AcceptedCount, Recorded, Lasting, Entry, Accepting, Refusing, Stage, Decision
    <3> QED
      BY <3>1, <3>2 DEF Simulates, Atomic!Next, Atomic!Tick, Atomic!vars, AcceptedCount
  <2>2. ASSUME NEW t \in Thread, NEW e \in EventId, Enter(t, e)
        PROVE  Simulates
    BY <2>2, EnterSimulates DEF Simulates, Atomic!Next, Atomic!Call
  <2>3. ASSUME NEW t \in Thread, Purge(t)
        PROVE  Simulates
    BY <2>3, PurgeSimulates DEF Simulates, Atomic!Next, Atomic!Call
  <2>4. ASSUME NEW t \in Thread, Refuse(t) \/ Record(t)
        PROVE  Simulates
    BY <2>4, RefuseSimulates, RecordSimulates DEF Simulates, Atomic!Next, Atomic!Call
  <2>5. ASSUME NEW t \in Thread, AcquireLock(t) \/ Pass(t) \/ EvictFirst(t)
        PROVE  Simulates
    BY <2>5, SilentSteps DEF Simulates
  <2> QED
    BY <2>1, <2>2, <2>3, <2>4, <2>5 DEF Next, Step
<1> QED
  BY <1>1, <1>2, GuardInvHolds, LockExcludes, PTL
     DEF Spec, ImplementsAtomicGuard, Atomic!Spec, Simulates
============================================================================
