-------------------------------- MODULE Toll --------------------------------
(***************************************************************************)
(* What a paywall promises for one kind of payment reference (an on-chain  *)
(* address, a Lightning payment hash), whatever the backend and whatever   *)
(* crashes: a reference is quoted one price, money arrives for it, and it  *)
(* opens the gate once, and only when at least its price has arrived.      *)
(* A backend that does not hold requests apart keeps a weaker promise: the *)
(* gate opens Copies times at most.                                        *)
(*                                                                         *)
(* payment.PaymentVerifier (internal/payment/verifier.go) states the       *)
(* promise; serveFlat (internal/proxy/proxy.go) relies on it to forward.   *)
(***************************************************************************)
EXTENDS Naturals

CONSTANTS
    Refs,
    Copies     \* how often a reference may open the gate: once, says the code

VARIABLES
    price,     \* satoshis quoted for each reference, 0 before a quote
    received,  \* satoshis that have arrived for each reference
    served     \* times each reference opened the gate

vars == <<price, received, served>>

TypeOK ==
    /\ price \in [Refs -> Nat]
    /\ received \in [Refs -> Nat]
    /\ served \in [Refs -> 0..Copies]

Init ==
    /\ price = [r \in Refs |-> 0]
    /\ received = [r \in Refs |-> 0]
    /\ served = [r \in Refs |-> 0]

Quote(r) ==
    /\ price[r] = 0
    /\ price'[r] \in Nat \ {0}
    /\ price' = [price EXCEPT ![r] = price'[r]]
    /\ UNCHANGED <<received, served>>

Receive(r) ==
    /\ received'[r] \in Nat
    /\ received'[r] > received[r]
    /\ received' = [received EXCEPT ![r] = received'[r]]
    /\ UNCHANGED <<price, served>>

Serve(r) ==
    /\ price[r] > 0
    /\ received[r] >= price[r]
    /\ served[r] < Copies
    /\ served' = [served EXCEPT ![r] = @ + 1]
    /\ UNCHANGED <<price, received>>

Next == \E r \in Refs : Quote(r) \/ Receive(r) \/ Serve(r)

Spec == Init /\ [][Next]_vars
=============================================================================
