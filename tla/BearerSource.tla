---------------------------- MODULE BearerSource ----------------------------
(***************************************************************************)
(* What the client promises its requests about bearer tokens, with no lock *)
(* and no cache in sight: each request is given a token in one step, never *)
(* an older one than any request was given before, and, when it asks for a *)
(* new token because the one it holds was refused, a strictly newer one.   *)
(***************************************************************************)
EXTENDS Integers

CONSTANTS
    Thread   \* the threads that make requests

VARIABLES
    bearer,   \* the token given last; tokens are numbered as they are issued, 0 is none
    asking,   \* what each thread asks for: "no", "any" token, or a "new" one
    got       \* the token each thread's request holds, 0 before it has one

vars == <<bearer, asking, got>>

Init ==
    /\ bearer \in Nat
    /\ asking = [t \in Thread |-> "no"]
    /\ got = [t \in Thread |-> 0]

(* A request begins; it may do without a token. *)
Begin(t) ==
    /\ asking[t] = "no"
    /\ got' = [got EXCEPT ![t] = 0]
    /\ \E kind \in {"no", "any"} : asking' = [asking EXCEPT ![t] = kind]
    /\ UNCHANGED bearer

(* The server refused the token the request holds. *)
AskNew(t) ==
    /\ asking[t] = "no"
    /\ got[t] > 0
    /\ asking' = [asking EXCEPT ![t] = "new"]
    /\ UNCHANGED <<bearer, got>>

Give(t) ==
    /\ asking[t] # "no"
    /\ bearer' \in Nat
    /\ bearer' > 0
    /\ IF asking[t] = "new" THEN bearer' > bearer ELSE bearer' >= bearer
    /\ got' = [got EXCEPT ![t] = bearer']
    /\ asking' = [asking EXCEPT ![t] = "no"]

Deny(t) ==
    /\ asking[t] # "no"
    /\ asking' = [asking EXCEPT ![t] = "no"]
    /\ UNCHANGED <<bearer, got>>

Next == \E t \in Thread : Begin(t) \/ AskNew(t) \/ Give(t) \/ Deny(t)

Spec == Init /\ [][Next]_vars
============================================================================
