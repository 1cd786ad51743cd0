----------------------- MODULE WebhookDeliveryProofs -----------------------
(***************************************************************************)
(* Proofs about WebhookDelivery, for every number of threads, every ttl,   *)
(* capacity and kind of delivery.                                          *)
(***************************************************************************)
EXTENDS WebhookDelivery, ReplayGuardProofs

(* The types of the server's own variables.                                *)
ServerTyped ==
    /\ guarded \in BOOLEAN
    /\ delivery \in [Thread -> [id : EventId, flaws : Flaws \cup {{}}]]
    /\ check \in [Thread -> 0..12]

(* And those of the two histories.                                         *)
HistoryTyped ==
    /\ place \in [Thread -> Nat]
    /\ handed \in [EventId -> Seq(Nat)]

(* A thread is in accept() only for its delivery, and once it has asked.   *)
AskingHolds ==
    \A t \in Thread :
        /\ pc[t] # "idle" => check[t] = 12
        /\ check[t] = 12 => guarded /\ id[t] = delivery[t].id
        /\ check[t] = 12 /\ pc[t] = "idle" => verdict[t] \in {"accepted", "refused"}

(* The balance of AcceptancesAreHandedOver, with what makes it countable.  *)
Balance(e) ==
    /\ IsFiniteSet(HandingOver(e))
    /\ guarded =>
          Len(handed[e]) + Cardinality(HandingOver(e)) = Cardinality(Accepted(e))

(* The deliveries of e that were handed over, and those about to be, are   *)
(* acceptances of e, no two of them the same one.                          *)
Places(e) ==
    guarded =>
        /\ \A m \in DOMAIN handed[e] : handed[e][m] \in Accepted(e)
        /\ \A m, n \in DOMAIN handed[e] : m # n => handed[e][m] # handed[e][n]
        /\ \A t \in HandingOver(e) :
              /\ place[t] \in Accepted(e)
              /\ \A m \in DOMAIN handed[e] : handed[e][m] # place[t]
        /\ \A t, u \in HandingOver(e) : t # u => place[t] # place[u]

(* A delivery that was turned away is one of an event accepted before.     *)
RefusedWasAccepted ==
    /\ outcome = [t \in Thread |-> outcome[t]]
    /\ \A t \in Thread :
          outcome[t] = "replay" => guarded /\ Accepted(delivery[t].id) # {}

ServerInv ==
    /\ ServerTyped
    /\ HistoryTyped
    /\ AskingHolds
    /\ \A e \in EventId : Balance(e) /\ Places(e)

----------------------------------------------------------------------------
(* The guard's check is the eleventh and last.                             *)
LEMMA GuardIsLast ==
    /\ DOMAIN Checks = 1..11
    /\ Checks[11] = "replay"
    /\ \A k \in 1..10 : Checks[k] # "replay"
BY DEF Checks

(* Only a thread past the last check has asked.                            *)
LEMMA TwelveIsAsked ==
    ASSUME NEW n \in 0..12
    PROVE  (n > 1 /\ Checks[n - 1] = "replay") <=> n = 12
<1>1. CASE n = 12
  BY <1>1, GuardIsLast
<1>2. CASE n \in 2..11
  <2>1. n - 1 \in 1..10
    BY <1>2
  <2>2. QED
    BY <1>2, <2>1, GuardIsLast
<1>3. CASE n \in 0..1
  BY <1>3
<1>4. QED
  BY <1>1, <1>2, <1>3

LEMMA AskedIsLast ==
    ASSUME ServerTyped, NEW t \in Thread
    PROVE  Asked(t) <=> check[t] = 12
BY TwelveIsAsked DEF Asked, ServerTyped

(* The threads about to hand e over, without the sequence of checks.       *)
LEMMA HandingOverIs ==
    ASSUME ServerTyped, NEW e
    PROVE  HandingOver(e) =
             {t \in Thread : /\ pc[t] = "idle"
                             /\ check[t] = 12
                             /\ verdict[t] = "accepted"
                             /\ delivery[t].id = e}
BY AskedIsLast DEF HandingOver, Parsing, ServerTyped

(* The same of the next state. *)
LEMMA HandingOverNext ==
    ASSUME ServerTyped', NEW e
    PROVE  HandingOver(e)' =
             {t \in Thread : /\ pc'[t] = "idle"
                             /\ check'[t] = 12
                             /\ verdict'[t] = "accepted"
                             /\ delivery'[t].id = e}
<1>1. \A t \in Thread : Asked(t)' <=> check'[t] = 12
  BY TwelveIsAsked DEF Asked, ServerTyped
<1>2. QED
  BY <1>1 DEF HandingOver, Parsing, ServerTyped

(* A thread that raises or asks at check k has not asked before.           *)
LEMMA ReachesBefore ==
    ASSUME ServerTyped, NEW t \in Thread, NEW k \in DOMAIN Checks, Reaches(t, k)
    PROVE  /\ check[t] \in 1..11
           /\ Checks[k] = "replay" => k = 11 /\ guarded
           /\ pc[t] = "idle"
<1>1. k \in 1..11 /\ check[t] <= k
  BY GuardIsLast DEF Reaches, Concerns
<1>2. check[t] \in 0..12 /\ check[t] > 0 /\ pc[t] = "idle"
  BY DEF Reaches, Parsing, ServerTyped
<1>3. Checks[k] = "replay" => k = 11
  BY <1>1, GuardIsLast
<1>4. "replay" \notin delivery[t].flaws
  BY DeliveryAssumption DEF ServerTyped
<1>5. Checks[k] = "replay" => guarded
  BY <1>1, <1>4 DEF Reaches, Concerns
<1>6. QED
  BY <1>1, <1>2, <1>3, <1>5

----------------------------------------------------------------------------
(* Nothing was handed over or accepted when the server starts.             *)
LEMMA InitServer == ServerInit => ServerInv
<1> SUFFICES ASSUME ServerInit PROVE ServerInv
  OBVIOUS
<1>1. ServerTyped
  BY DEF ServerInit, ServerTyped
<1>2. AskingHolds /\ HistoryTyped
  BY DEF ServerInit, Init, AskingHolds, HistoryTyped
<1>3. ASSUME NEW e \in EventId PROVE Balance(e) /\ Places(e)
  <2>1. HandingOver(e) = {}
    BY <1>1, HandingOverIs DEF ServerInit
  <2>2. Accepted(e) = {}
    BY DEF ServerInit, Init, Accepted
  <2>3. handed[e] = <<>> /\ Len(handed[e]) = 0
    BY DEF ServerInit
  <2>4. QED
    BY <2>1, <2>2, <2>3, FS_EmptySet DEF Balance, Places
<1>4. QED
  BY <1>1, <1>2, <1>3 DEF ServerInv

(* The balance is kept by a step after which the same threads are handing  *)
(* events over, and nothing was handed or accepted.                        *)
LEMMA BalanceKept ==
    ASSUME NEW e \in EventId, Balance(e), Places(e),
           HandingOver(e)' = HandingOver(e),
           log' = log, place' = place, handed' = handed, guarded' = guarded
    PROVE  Balance(e)' /\ Places(e)'
<1>1. Accepted(e)' = Accepted(e)
  BY DEF Accepted
<1>2. Balance(e)'
  BY <1>1 DEF Balance
<1>3. Places(e)'
  BY <1>1 DEF Places
<1> QED
  BY <1>2, <1>3

(* A thread that raises keeps everything: it was not handing anything over. *)
LEMMA RaiseKeeps ==
    ASSUME ServerInv, NEW t \in Thread, NEW failed, Leave(t, failed),
           UNCHANGED <<place, handed>>,
           pc[t] = "idle", check[t] # 12 \/ verdict[t] # "accepted"
    PROVE  ServerInv'
<1> USE DEF ServerInv
<1>1. ServerTyped'
  BY DEF Leave, ServerTyped
<1>2. AskingHolds' /\ HistoryTyped'
  BY DEF Leave, vars, AskingHolds, ServerTyped, HistoryTyped
<1>3. ASSUME NEW e \in EventId PROVE Balance(e)' /\ Places(e)'
  <2>1. HandingOver(e)' = HandingOver(e)
    BY <1>1, HandingOverIs DEF Leave, vars, ServerTyped, HandingOver, Parsing, Asked
  <2>2. QED
    BY <2>1, BalanceKept DEF Leave, vars
<1>4. QED
  BY <1>1, <1>2, <1>3

(* Recording an event makes one more acceptance and one more thread that    *)
(* is about to hand it over.                                                *)
LEMMA RecordKeeps ==
    ASSUME ServerInv, TypeOK, NEW t \in Thread, Record(t),
           place' = IF log' = log THEN place ELSE [place EXCEPT ![t] = Len(log')],
           UNCHANGED <<guarded, delivery, check, outcome, deliveries, handed>>
    PROVE  ServerInv'
<1> USE DEF ServerInv
<1>1. ServerTyped'
  BY DEF ServerTyped
<1>2. /\ pc[t] = "record"
      /\ pc' = [pc EXCEPT ![t] = "idle"]
      /\ verdict' = [verdict EXCEPT ![t] = "accepted"]
      /\ id' = id
      /\ log' = Append(log, [id |-> id[t], stamp |-> now[t], at |-> clock])
  BY DEF Record, Return, Goto
<1>3. check[t] = 12 /\ id[t] = delivery[t].id /\ guarded
  BY <1>2 DEF AskingHolds
<1>4. AskingHolds'
  BY <1>2 DEF AskingHolds, TypeOK
<1>7. Len(log') = Len(log) + 1 /\ Len(log) \in Nat
  BY <1>2 DEF TypeOK, Acceptance
<1>8. place' = [place EXCEPT ![t] = Len(log) + 1]
  BY <1>7
<1>9. HistoryTyped'
  BY <1>7, <1>8 DEF HistoryTyped
<1>5. ASSUME NEW e \in EventId PROVE Balance(e)' /\ Places(e)'
  <2>1. HandingOver(e)' =
          HandingOver(e) \cup (IF id[t] = e THEN {t} ELSE {})
    <3>1. HandingOver(e)' =
            {u \in Thread : /\ pc'[u] = "idle"
                            /\ check[u] = 12
                            /\ verdict'[u] = "accepted"
                            /\ delivery[u].id = e}
      BY <1>1, HandingOverNext
    <3>2. HandingOver(e) =
            {u \in Thread : /\ pc[u] = "idle"
                            /\ check[u] = 12
                            /\ verdict[u] = "accepted"
                            /\ delivery[u].id = e}
      BY HandingOverIs
    <3>3. QED
      BY <3>1, <3>2, <1>2, <1>3 DEF TypeOK
  <2>2. t \notin HandingOver(e)
    BY <1>2, HandingOverIs
  <2>3. Accepted(e)' =
          Accepted(e) \cup (IF id[t] = e THEN {Len(log) + 1} ELSE {})
    BY <1>2 DEF Accepted, TypeOK, Acceptance
  <2>4. Accepted(e) \subseteq 1..Len(log) /\ Len(log) \in Nat
    BY DEF Accepted, TypeOK
  <2>5. IsFiniteSet(Accepted(e))
    <3>1. IsFiniteSet(1..Len(log))
      BY <2>4, FS_Interval
    <3>2. QED
      BY <2>4, <3>1, FS_Subset
  <2>6. Len(log) + 1 \notin Accepted(e)
    BY <2>4
  <2>7. IsFiniteSet(HandingOver(e)')
    BY <2>1, FS_AddElement DEF Balance
  <2>8. ASSUME id[t] # e PROVE Balance(e)'
    BY <2>1, <2>3, <2>7, <2>8 DEF Balance
  <2>9. ASSUME id[t] = e PROVE Balance(e)'
    <3>1. Cardinality(HandingOver(e)') = Cardinality(HandingOver(e)) + 1
      BY <2>1, <2>2, <2>9, FS_AddElement DEF Balance
    <3>2. Cardinality(Accepted(e)') = Cardinality(Accepted(e)) + 1
      BY <2>3, <2>5, <2>6, <2>9, FS_AddElement
    <3>3. Len(handed[e]) \in Nat /\ Cardinality(HandingOver(e)) \in Nat
      BY FS_CardinalityType DEF Balance, HistoryTyped
    <3>4. QED
      BY <1>3, <2>7, <3>1, <3>2, <3>3 DEF Balance
  <2>10. Balance(e)'
    BY <2>8, <2>9
  <2>11. /\ place'[t] = Len(log) + 1
         /\ \A u \in HandingOver(e) : u # t /\ place'[u] = place[u]
    BY <1>8, <2>2, HandingOverIs DEF HistoryTyped
  <2>12. Places(e)'
    BY <1>3, <2>1, <2>3, <2>6, <2>11 DEF Places
  <2> QED
    BY <2>10, <2>12
<1>6. QED
  BY <1>1, <1>4, <1>5, <1>9

(* The other steps of accept() accept nothing: at most a thread is refused. *)
LEMMA InGuardKeeps ==
    ASSUME ServerInv, TypeOK, NEW t \in Thread, InGuard(t)
    PROVE  ServerInv'
<1> USE DEF ServerInv
<1>1. CASE Record(t)
  BY <1>1, RecordKeeps DEF InGuard
<1>2. CASE ~Record(t)
  <2>1. /\ pc[t] # "idle"
        /\ pc' \in [Thread -> {"idle", "wait", "purge", "check", "record"}]
        /\ \A u \in Thread \ {t} : pc'[u] = pc[u] /\ verdict'[u] = verdict[u]
        /\ pc'[t] = "idle" => verdict'[t] = "refused"
        /\ id' = id /\ log' = log
    BY <1>2 DEF InGuard, AcquireLock, Purge, Refuse, Pass,
                EvictFirst, Goto, Return, TypeOK
  <2>2. UNCHANGED <<guarded, delivery, check, handed, place>>
    BY <2>1 DEF InGuard
  <2>3. ServerTyped'
    BY <2>2 DEF ServerTyped
  <2>4. AskingHolds' /\ HistoryTyped'
    BY <2>1, <2>2 DEF AskingHolds, HistoryTyped
  <2>5. ASSUME NEW e \in EventId PROVE Balance(e)' /\ Places(e)'
    <3>1. HandingOver(e)' =
            {u \in Thread : /\ pc'[u] = "idle"
                            /\ check[u] = 12
                            /\ verdict'[u] = "accepted"
                            /\ delivery[u].id = e}
      BY <2>2, <2>3, HandingOverNext
    <3>2. HandingOver(e)' = HandingOver(e)
      BY <2>1, <3>1, HandingOverIs
    <3>3. QED
      BY <2>1, <2>2, <3>2, BalanceKept
  <2>6. QED
    BY <2>3, <2>4, <2>5
<1>3. QED
  BY <1>1, <1>2

(* Handing an event over takes one thread from those about to and adds one  *)
(* to those made.                                                           *)
LEMMA HandOverKeeps ==
    ASSUME ServerInv, NEW t \in Thread, HandOver(t)
    PROVE  ServerInv'
<1> USE DEF ServerInv
<1>1. /\ check[t] > 0 /\ pc[t] = "idle"
      /\ check' = [check EXCEPT ![t] = 0]
      /\ handed' = [handed EXCEPT ![delivery[t].id] = Append(@, place[t])]
      /\ place' = [place EXCEPT ![t] = 0]
      /\ UNCHANGED <<vars, guarded, delivery>>
  BY DEF HandOver, Leave, Parsing
<1>2. delivery[t].id \in EventId /\ check[t] \in 0..12
  BY DEF ServerTyped
<1>3. guarded => check[t] = 12 /\ verdict[t] = "accepted"
  <2>1. SUFFICES ASSUME guarded PROVE check[t] = 12
    BY AskedIsLast DEF HandOver, Told
  <2>2. ~(check[t] <= 11)
    BY <2>1, GuardIsLast DEF HandOver, Concerns
  <2>3. QED
    BY <1>2, <2>2
<1>4. ServerTyped'
  BY <1>1, <1>2 DEF ServerTyped
<1>5. AskingHolds'
  BY <1>1 DEF AskingHolds, vars, ServerTyped
<1>8. place[t] \in Nat
  BY DEF HistoryTyped
<1>9. HistoryTyped'
  BY <1>1, <1>2, <1>8 DEF HistoryTyped
<1>6. ASSUME NEW e \in EventId PROVE Balance(e)' /\ Places(e)'
  <2>1. HandingOver(e)' = HandingOver(e) \ {t}
    <3>1. HandingOver(e)' =
            {u \in Thread : /\ pc[u] = "idle"
                            /\ check'[u] = 12
                            /\ verdict[u] = "accepted"
                            /\ delivery[u].id = e}
      BY <1>1, <1>4, HandingOverNext DEF vars
    <3>2. QED
      BY <1>1, <3>1, HandingOverIs DEF ServerTyped
  <2>2. guarded => (t \in HandingOver(e) <=> delivery[t].id = e)
    BY <1>1, <1>3, HandingOverIs
  <2>3. /\ IsFiniteSet(HandingOver(e) \ {t})
        /\ Cardinality(HandingOver(e) \ {t}) =
             IF t \in HandingOver(e) THEN Cardinality(HandingOver(e)) - 1
                                     ELSE Cardinality(HandingOver(e))
    BY FS_RemoveElement DEF Balance
  <2>4. handed[e] \in Seq(Nat) /\ Len(handed[e]) \in Nat /\ Cardinality(HandingOver(e)) \in Nat
    BY FS_CardinalityType DEF Balance, HistoryTyped
  <2>5. handed'[e] = IF delivery[t].id = e THEN Append(handed[e], place[t]) ELSE handed[e]
    BY <1>1 DEF HistoryTyped
  <2>9. Len(handed'[e]) = IF delivery[t].id = e THEN Len(handed[e]) + 1 ELSE Len(handed[e])
    BY <1>8, <2>4, <2>5
  <2>6. Accepted(e)' = Accepted(e) /\ guarded' = guarded
    BY <1>1 DEF Accepted, vars
  <2>7. guarded => Len(handed'[e]) + Cardinality(HandingOver(e) \ {t}) = Cardinality(Accepted(e))
    BY <2>2, <2>3, <2>4, <2>9 DEF Balance
  <2>8. Balance(e)'
    BY <2>1, <2>3, <2>6, <2>7 DEF Balance
  <2>10. \A u \in HandingOver(e) \ {t} : place'[u] = place[u]
    BY <1>1, HandingOverIs DEF HistoryTyped
  <2>11. Places(e)'
    <3>1. CASE delivery[t].id # e
      BY <2>1, <2>5, <2>6, <2>10, <3>1 DEF Places
    <3>2. CASE delivery[t].id = e
      <4>1. /\ DOMAIN handed'[e] = DOMAIN handed[e] \cup {Len(handed[e]) + 1}
            /\ Len(handed[e]) + 1 \notin DOMAIN handed[e]
            /\ handed'[e][Len(handed[e]) + 1] = place[t]
            /\ \A m \in DOMAIN handed[e] : handed'[e][m] = handed[e][m]
        BY <1>8, <2>4, <2>5, <3>2
      <4> QED
        BY <2>1, <2>2, <2>6, <2>10, <3>2, <4>1 DEF Places
    <3> QED
      BY <3>1, <3>2
  <2> QED
    BY <2>8, <2>11
<1>7. QED
  BY <1>4, <1>5, <1>6, <1>9

(* Where a thread is among the checks, and what it carries, keep their types. *)
LEMMA ServerTypedHolds == ServerSpec => []ServerTyped
<1>1. ServerInit => ServerTyped
  BY DEF ServerInit, ServerTyped
<1>2. ServerTyped /\ [ServerNext]_serverVars => ServerTyped'
  <2> SUFFICES ASSUME ServerTyped, [ServerNext]_serverVars
               PROVE  ServerTyped'
    OBVIOUS
  <2> USE DEF ServerTyped
  <2>1. CASE TimePasses \/ Done \/ UNCHANGED serverVars
    BY <2>1 DEF TimePasses, Done, serverVars
  <2>2. ASSUME NEW t \in Thread, ServerStep(t)
        PROVE  ServerTyped'
    <3>1. CASE \E d \in Delivery : Deliver(t, d)
      BY <3>1 DEF Deliver, Delivery
    <3>2. CASE Flawed(t) \/ Replayed(t)
      BY <3>2 DEF Flawed, Replayed, Leave
    <3>3. CASE AskGuard(t)
      BY <3>3, GuardIsLast DEF AskGuard
    <3>4. CASE InGuard(t)
      BY <3>4 DEF InGuard
    <3>5. CASE HandOver(t)
      BY <3>5 DEF HandOver, Leave
    <3>6. QED
      BY <2>2, <3>1, <3>2, <3>3, <3>4, <3>5 DEF ServerStep
  <2>3. QED
    BY <2>1, <2>2 DEF ServerNext
<1>3. QED
  BY <1>1, <1>2, PTL DEF ServerSpec

(* Every behaviour of the server is, seen from the guard, one of            *)
(* ReplayGuard: parse calls accept() one call a thread at a time, on one    *)
(* guard, and touches none of its state.                                    *)
THEOREM ImplementsReplayGuardHolds == ServerSpec => ImplementsReplayGuard
<1>1. ServerInit => Init
  BY DEF ServerInit
<1>2. ServerTyped /\ [ServerNext]_serverVars => [Next]_vars
  <2> SUFFICES ASSUME ServerTyped, [ServerNext]_serverVars
               PROVE  [Next]_vars
    OBVIOUS
  <2> USE DEF vars
  <2>1. CASE TimePasses
    BY <2>1 DEF TimePasses, Next
  <2>2. CASE Done \/ UNCHANGED serverVars
    BY <2>2 DEF Done, serverVars
  <2>3. ASSUME NEW t \in Thread, ServerStep(t)
        PROVE  [Next]_vars
    <3>1. CASE \E d \in Delivery : Deliver(t, d)
      BY <3>1 DEF Deliver
    <3>2. CASE Flawed(t) \/ Replayed(t) \/ HandOver(t)
      BY <3>2 DEF Flawed, Replayed, HandOver, Leave
    <3>3. CASE AskGuard(t)
      BY <2>3, <3>3 DEF AskGuard, Ask, Next, Step, ServerTyped
    <3>4. CASE InGuard(t)
      BY <2>3, <3>4 DEF InGuard, Next, Step
    <3>5. QED
      BY <2>3, <3>1, <3>2, <3>3, <3>4 DEF ServerStep
  <2>4. QED
    BY <2>1, <2>2, <2>3 DEF ServerNext
<1>3. QED
  BY <1>1, <1>2, ServerTypedHolds, PTL DEF ServerSpec, ImplementsReplayGuard, Spec

(* So the window accept() keeps is kept for the deliveries of a server, and *)
(* its refusals are those of ids accepted before.                           *)
THEOREM WindowInServer == ServerSpec => [](TypeOK /\ ReplayWindow /\ RefusedOnlyIfRecent)
BY ImplementsReplayGuardHolds, TypeCorrect, ReplayWindowHolds, RefusalsJustified, PTL
   DEF ImplementsReplayGuard

(* And the guard that a server's threads share decides about each delivery *)
(* in one step.                                                            *)
THEOREM ServerDecidesAtomically == ServerSpec => ImplementsAtomicGuard
BY ImplementsReplayGuardHolds, ImplementsAtomicGuardHolds, PTL DEF ImplementsReplayGuard
----------------------------------------------------------------------------
(* Asking the guard changes what is asked about, and not the balance.       *)
LEMMA AskGuardKeeps ==
    ASSUME ServerInv, TypeOK, NEW t \in Thread, AskGuard(t)
    PROVE  ServerInv'
<1> USE DEF ServerInv
<1>1. PICK k \in DOMAIN Checks :
        Reaches(t, k) /\ Checks[k] = "replay" /\ check' = [check EXCEPT ![t] = k + 1]
  BY DEF AskGuard
<1>2. check[t] \in 1..11 /\ k = 11 /\ guarded /\ pc[t] = "idle"
  BY <1>1, ReachesBefore
<1>3. /\ pc' = [pc EXCEPT ![t] = "wait"]
      /\ id' = [id EXCEPT ![t] = delivery[t].id]
      /\ verdict' = [verdict EXCEPT ![t] = "none"]
      /\ check' = [check EXCEPT ![t] = 12]
      /\ log' = log
      /\ UNCHANGED <<guarded, delivery, place, handed>>
  <2>1. k + 1 = 12
    BY <1>2
  <2>2. check' = [check EXCEPT ![t] = 12]
    BY <1>1, <2>1
  <2>3. QED
    BY <2>2 DEF AskGuard, Ask, Enter, Goto
<1>4. ServerTyped'
  BY <1>3 DEF ServerTyped
<1>5. AskingHolds' /\ HistoryTyped'
  BY <1>2, <1>3 DEF AskingHolds, HistoryTyped, ServerTyped, TypeOK
<1>6. ASSUME NEW e \in EventId PROVE Balance(e)' /\ Places(e)'
  <2>1. HandingOver(e)' = HandingOver(e)
    <3>1. \A u \in Thread \ {t} :
            pc'[u] = pc[u] /\ check'[u] = check[u] /\ verdict'[u] = verdict[u]
      BY <1>3 DEF TypeOK, ServerTyped
    <3>2. check[t] # 12 /\ pc'[t] # "idle"
      BY <1>2, <1>3 DEF TypeOK
    <3>3. HandingOver(e)' =
            {u \in Thread : /\ pc'[u] = "idle"
                            /\ check'[u] = 12
                            /\ verdict'[u] = "accepted"
                            /\ delivery[u].id = e}
      BY <1>3, <1>4, HandingOverNext
    <3>4. QED
      BY <3>1, <3>2, <3>3, HandingOverIs
  <2>2. QED
    BY <1>3, <2>1, BalanceKept
<1>7. QED
  BY <1>4, <1>5, <1>6

(* A delivery that arrives finds its thread out of parse.                   *)
LEMMA DeliverKeeps ==
    ASSUME ServerInv, NEW t \in Thread, NEW d \in Delivery, Deliver(t, d)
    PROVE  ServerInv'
<1> USE DEF ServerInv
<1>1. /\ check[t] = 0
      /\ delivery' = [delivery EXCEPT ![t] = d]
      /\ check' = [check EXCEPT ![t] = 1]
      /\ UNCHANGED <<clock, holder, entries, pc, id, now, verdict, calls, log, guarded, place, handed>>
  BY DEF Deliver, vars
<1>2. ServerTyped'
  BY <1>1 DEF ServerTyped, Delivery
<1>3. AskingHolds' /\ HistoryTyped'
  BY <1>1 DEF AskingHolds, HistoryTyped, ServerTyped
<1>4. ASSUME NEW e \in EventId PROVE Balance(e)' /\ Places(e)'
  <2>1. HandingOver(e)' = HandingOver(e)
    <3>1. \A u \in Thread \ {t} : check'[u] = check[u] /\ delivery'[u] = delivery[u]
      BY <1>1 DEF ServerTyped
    <3>2. check[t] # 12 /\ check'[t] # 12
      BY <1>1 DEF ServerTyped
    <3>3. HandingOver(e)' =
            {u \in Thread : /\ pc[u] = "idle"
                            /\ check'[u] = 12
                            /\ verdict[u] = "accepted"
                            /\ delivery'[u].id = e}
      BY <1>1, <1>2, HandingOverNext
    <3>4. QED
      BY <3>1, <3>2, <3>3, HandingOverIs
  <2>2. QED
    BY <1>1, <2>1, BalanceKept
<1>5. QED
  BY <1>2, <1>3, <1>4

(* The balance holds, along every behaviour. *)
LEMMA ServerInvHolds == ServerSpec => []ServerInv
<1>1. ServerInv /\ TypeOK /\ [ServerNext]_serverVars => ServerInv'
  <2> SUFFICES ASSUME ServerInv, TypeOK, [ServerNext]_serverVars
               PROVE  ServerInv'
    OBVIOUS
  <2>1. CASE TimePasses \/ Done \/ UNCHANGED serverVars
    <3>1. /\ UNCHANGED <<pc, id, verdict, log, guarded, delivery, check, place, handed>>
      BY <2>1 DEF TimePasses, Done, serverVars, vars, Tick
    <3>2. ServerTyped' /\ HistoryTyped' /\ AskingHolds'
      BY <3>1 DEF ServerInv, ServerTyped, HistoryTyped, AskingHolds
    <3>3. ASSUME NEW e \in EventId PROVE Balance(e)' /\ Places(e)'
      <4>1. HandingOver(e)' = HandingOver(e)
        BY <3>1, <3>2, HandingOverIs, HandingOverNext DEF ServerInv
      <4>2. QED
        BY <3>1, <4>1, BalanceKept DEF ServerInv
    <3>4. QED
      BY <3>2, <3>3 DEF ServerInv
  <2>2. ASSUME NEW t \in Thread, ServerStep(t)
        PROVE  ServerInv'
    <3>1. CASE \E d \in Delivery : Deliver(t, d)
      BY <3>1, DeliverKeeps
    <3>2. CASE Flawed(t)
      <4>1. PICK k \in DOMAIN Checks : Reaches(t, k) /\ Leave(t, Checks[k])
        BY <3>2 DEF Flawed
      <4>2. check[t] # 12 /\ pc[t] = "idle"
        BY <4>1, ReachesBefore DEF ServerInv
      <4>3. QED
        BY <3>2, <4>1, <4>2, RaiseKeeps DEF Flawed
    <3>3. CASE Replayed(t)
      BY <3>3, RaiseKeeps DEF Replayed, Parsing, Told
    <3>4. CASE AskGuard(t)
      BY <3>4, AskGuardKeeps
    <3>5. CASE InGuard(t)
      BY <3>5, InGuardKeeps
    <3>6. CASE HandOver(t)
      BY <3>6, HandOverKeeps
    <3>7. QED
      BY <2>2, <3>1, <3>2, <3>3, <3>4, <3>5, <3>6 DEF ServerStep
  <2>3. QED
    BY <2>1, <2>2 DEF ServerNext
<1>2. QED
  BY <1>1, InitServer, WindowInServer, PTL DEF ServerSpec

(* Each acceptance of the guard is handed over once: none is lost between   *)
(* the guard's record and parse's return, and none is made without it.      *)
THEOREM AcceptancesAreHandedOverHolds == ServerSpec => []AcceptancesAreHandedOver
<1>1. ServerInv => AcceptancesAreHandedOver
  BY DEF ServerInv, Balance, AcceptancesAreHandedOver
<1>2. QED
  BY <1>1, ServerInvHolds, PTL

(* Whoever was turned away was turned away for an event accepted before.    *)
LEMMA RefusedWasAcceptedHolds == ServerSpec => []RefusedWasAccepted
<1>1. ServerInit => RefusedWasAccepted
  BY DEF ServerInit, RefusedWasAccepted
<1>2. /\ RefusedWasAccepted /\ ServerInv /\ TypeOK /\ RefusedOnlyIfRecent
      /\ TypeOK'
      /\ [ServerNext]_serverVars
      => RefusedWasAccepted'
  <2> SUFFICES ASSUME RefusedWasAccepted, ServerInv, TypeOK, RefusedOnlyIfRecent, TypeOK',
                      [ServerNext]_serverVars
               PROVE  RefusedWasAccepted'
    OBVIOUS
  <2>1. ASSUME NEW t \in Thread, NEW failed, Leave(t, failed), failed # "replay"
        PROVE  RefusedWasAccepted'
    BY <2>1 DEF Leave, vars, RefusedWasAccepted, Accepted, ServerInv, ServerTyped
  <2>2. CASE TimePasses \/ Done \/ UNCHANGED serverVars
    BY <2>2 DEF TimePasses, Done, serverVars, vars, Tick, RefusedWasAccepted, Accepted
  <2>3. ASSUME NEW t \in Thread, ServerStep(t)
        PROVE  RefusedWasAccepted'
    <3> USE DEF ServerInv, ServerTyped
    <3>1. CASE \E d \in Delivery : Deliver(t, d)
      BY <3>1 DEF Deliver, vars, RefusedWasAccepted, Accepted
    <3>2. CASE Flawed(t)
      BY <2>1, <3>2 DEF Flawed
    <3>3. CASE Replayed(t)
      <4>1. /\ check[t] = 12 /\ pc[t] = "idle" /\ verdict[t] # "accepted"
            /\ outcome' = [outcome EXCEPT ![t] = "replay"]
            /\ UNCHANGED <<vars, guarded, delivery>>
        BY <3>3, AskedIsLast DEF Replayed, Parsing, Told, Leave
      <4>2. guarded /\ id[t] = delivery[t].id /\ verdict[t] = "refused"
        BY <4>1 DEF AskingHolds
      <4>3. Accepted(delivery[t].id) # {}
        BY <4>2 DEF RefusedOnlyIfRecent, Accepted
      <4>4. QED
        BY <4>1, <4>2, <4>3 DEF RefusedWasAccepted, Accepted, vars
    <3>4. CASE AskGuard(t)
      BY <3>4 DEF AskGuard, Ask, Enter, RefusedWasAccepted, Accepted
    <3>5. CASE InGuard(t)
      <4>1. /\ UNCHANGED <<guarded, delivery, outcome>>
            /\ log' = log \/ log' = Append(log, [id |-> id[t], stamp |-> now[t], at |-> clock])
        BY <3>5 DEF InGuard, AcquireLock, Purge, Refuse, Pass, EvictFirst, Record
      <4>2. ASSUME NEW e PROVE Accepted(e) \subseteq Accepted(e)'
        <5>1. CASE log' = log
          BY <5>1 DEF Accepted
        <5>2. CASE log' = Append(log, [id |-> id[t], stamp |-> now[t], at |-> clock])
          <6>1. \A i \in DOMAIN log : i \in DOMAIN log' /\ log'[i] = log[i]
            BY <5>2 DEF TypeOK, Acceptance
          <6>2. QED
            BY <6>1 DEF Accepted
        <5>3. QED
          BY <4>1, <5>1, <5>2
      <4>3. QED
        BY <4>1, <4>2 DEF RefusedWasAccepted
    <3>6. CASE HandOver(t)
      BY <2>1, <3>6 DEF HandOver
    <3>7. QED
      BY <2>3, <3>1, <3>2, <3>3, <3>4, <3>5, <3>6 DEF ServerStep
  <2>4. QED
    BY <2>2, <2>3 DEF ServerNext
<1>3. QED
  BY <1>1, <1>2, ServerInvHolds, WindowInServer, PTL DEF ServerSpec
(* parse turns a delivery away as a repeat only when the application has    *)
(* the event, or another thread is about to hand it over.                   *)
THEOREM RefusedIsKnownHolds == ServerSpec => []RefusedIsKnown
<1>1. ServerInv /\ TypeOK /\ RefusedWasAccepted => RefusedIsKnown
  <2> SUFFICES ASSUME ServerInv, TypeOK, RefusedWasAccepted,
                      NEW t \in Thread, outcome[t] = "replay",
                      handed[delivery[t].id] = <<>>, HandingOver(delivery[t].id) = {}
               PROVE  FALSE
    BY DEF RefusedIsKnown
  <2> DEFINE e == delivery[t].id
  <2>1. e \in EventId /\ Len(handed[e]) = 0
    BY DEF ServerInv, ServerTyped
  <2>2. Cardinality(Accepted(e)) = 0
    <3>1. Cardinality(HandingOver(e)) = 0
      BY FS_EmptySet
    <3>2. guarded /\ Balance(e)
      BY <2>1 DEF ServerInv, RefusedWasAccepted
    <3>3. Len(handed[e]) + Cardinality(HandingOver(e)) = Cardinality(Accepted(e))
      BY <3>2 DEF Balance
    <3>4. QED
      BY <2>1, <3>1, <3>3
  <2>3. IsFiniteSet(Accepted(e))
    <3>1. Accepted(e) \subseteq 1..Len(log) /\ Len(log) \in Nat
      BY DEF Accepted, TypeOK
    <3>2. IsFiniteSet(1..Len(log))
      BY <3>1, FS_Interval
    <3>3. QED
      BY <3>1, <3>2, FS_Subset
  <2>4. Accepted(e) = {}
    BY <2>2, <2>3, FS_EmptySet
  <2>5. QED
    BY <2>4 DEF RefusedWasAccepted
<1>2. QED
  BY <1>1, ServerInvHolds, WindowInServer, RefusedWasAcceptedHolds, PTL

----------------------------------------------------------------------------
(* Every variable of the server keeps its type.                            *)
THEOREM ServerTypes == ServerSpec => []ServerTypeOK
<1> DEFINE OutcomeTyped == /\ outcome \in [Thread -> {"none"} \cup Range(Checks)]
                           /\ deliveries \in Nat
<1>1. ServerInit => OutcomeTyped
  BY DEF ServerInit
<1>2. OutcomeTyped /\ [ServerNext]_serverVars => OutcomeTyped'
  <2> SUFFICES ASSUME OutcomeTyped, [ServerNext]_serverVars
               PROVE  OutcomeTyped'
    OBVIOUS
  <2>1. CASE TimePasses \/ Done \/ UNCHANGED serverVars
    BY <2>1 DEF TimePasses, Done, serverVars
  <2>2. ASSUME NEW t \in Thread, ServerStep(t)
        PROVE  OutcomeTyped'
    <3>1. CASE \E d \in Delivery : Deliver(t, d)
      BY <3>1 DEF Deliver
    <3>2. CASE Flawed(t)
      <4>1. PICK k \in DOMAIN Checks : Leave(t, Checks[k])
        BY <3>2 DEF Flawed
      <4>2. Checks[k] \in Range(Checks)
        BY DEF Range
      <4> QED
        BY <4>1, <4>2 DEF Leave
    <3>3. CASE Replayed(t)
      <4>1. "replay" \in Range(Checks)
        BY GuardIsLast DEF Range
      <4> QED
        BY <3>3, <4>1 DEF Replayed, Leave
    <3>4. CASE AskGuard(t) \/ InGuard(t)
      BY <3>4 DEF AskGuard, InGuard
    <3>5. CASE HandOver(t)
      BY <3>5 DEF HandOver, Leave
    <3> QED
      BY <2>2, <3>1, <3>2, <3>3, <3>4, <3>5 DEF ServerStep
  <2> QED
    BY <2>1, <2>2 DEF ServerNext
<1>3. TypeOK /\ ServerInv /\ OutcomeTyped => ServerTypeOK
  <2>1. 0..Len(Checks) + 1 = 0..12
    BY DEF Checks
  <2> QED
    BY <2>1 DEF ServerInv, ServerTyped, HistoryTyped, ServerTypeOK
<1> QED
  BY <1>1, <1>2, <1>3, ServerInvHolds, WindowInServer, PTL DEF ServerSpec

(* With a guard the application is handed an event again only when the     *)
(* guard may have forgotten it: two handings over are two acceptances, and *)
(* from the time the earlier was judged by to the recording of the later   *)
(* lie the ttl or max_entries other events.                                *)
THEOREM HandedOnceUntilForgotten == ServerSpec => []OnceUntilForgotten
<1>1. ServerInv /\ ReplayWindow => OnceUntilForgotten
  <2> SUFFICES ASSUME ServerInv, ReplayWindow, guarded, NEW e \in EventId,
                      NEW m \in DOMAIN handed[e], NEW n \in DOMAIN handed[e], m # n
               PROVE  /\ handed[e][m] # handed[e][n]
                      /\ handed[e][m] < handed[e][n] => Forgotten(e, handed[e][m], handed[e][n])
    BY DEF OnceUntilForgotten
  <2>1. /\ handed[e][m] \in Accepted(e) /\ handed[e][n] \in Accepted(e)
        /\ handed[e][m] # handed[e][n]
    BY DEF ServerInv, Places
  <2> QED
    BY <2>1 DEF Accepted, ReplayWindow, Forgotten
<1> QED
  BY <1>1, ServerInvHolds, WindowInServer, PTL
============================================================================
