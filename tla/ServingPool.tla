----------------------------- MODULE ServingPool ------------------------------
(* What the health server's admission promises, without threads, timers or     *)
(* requests: a connection waits, is served or turned away, and is over; no     *)
(* more than Slots are served at a time, and none is served twice.             *)
EXTENDS Naturals, FiniteSets

CONSTANTS Conn, Slots

VARIABLES stage, accepting

pool == <<stage, accepting>>
Served == {c \in Conn : stage[c] = "served"}

Init == stage = [c \in Conn |-> "new"] /\ accepting = TRUE

Arrive(c) ==
  /\ accepting /\ stage[c] = "new"
  /\ stage' = [stage EXCEPT ![c] = "waiting"] /\ UNCHANGED accepting

Serve(c) ==
  /\ accepting /\ stage[c] = "waiting" /\ Cardinality(Served) < Slots
  /\ stage' = [stage EXCEPT ![c] = "served"] /\ UNCHANGED accepting

TurnAway(c) ==
  /\ accepting /\ stage[c] = "waiting"
  /\ stage' = [stage EXCEPT ![c] = "over"] /\ UNCHANGED accepting

Finish(c) ==
  /\ stage[c] = "served"
  /\ stage' = [stage EXCEPT ![c] = "over"] /\ UNCHANGED accepting

Stop == accepting /\ accepting' = FALSE /\ UNCHANGED stage

Next == Stop \/ \E c \in Conn : Arrive(c) \/ Serve(c) \/ TurnAway(c) \/ Finish(c)

Spec == Init /\ [][Next]_pool
=============================================================================
