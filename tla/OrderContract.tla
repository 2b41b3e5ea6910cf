---------------------------- MODULE OrderContract ----------------------------
(***************************************************************************)
(* What the order flow promises, whatever fails: the order in which a      *)
(* customer's answer, the announcement to billing, the stored order and    *)
(* the bill may happen.  It is the promise the code keeps, weaker than the *)
(* atomicity its comments claim: an announced and even an accepted order   *)
(* may still be dropped, and a dropped order may be billed.                *)
(***************************************************************************)

CONSTANT Orders

VARIABLES
  announced,   \* orders whose event has reached the billing queue
  verdict,     \* order -> what its customer was told: "none", "accepted", "failed"
  fate,        \* order -> "open", "stored" or "dropped"
  billed       \* orders billed at least once

vars == <<announced, verdict, fate, billed>>

Init ==
  /\ announced = {}
  /\ verdict = [o \in Orders |-> "none"]
  /\ fate = [o \in Orders |-> "open"]
  /\ billed = {}

\* An order is announced only while its customer still waits.
Announce(o) ==
  /\ verdict[o] = "none"
  /\ announced' = announced \cup {o}
  /\ UNCHANGED <<verdict, fate, billed>>

\* The customer hears of success only after the announcement, but before it is
\* known whether the order will be stored.
Accept(o) ==
  /\ verdict[o] = "none"
  /\ o \in announced
  /\ verdict' = [verdict EXCEPT ![o] = "accepted"]
  /\ UNCHANGED <<announced, fate, billed>>

\* A customer who hears of a failure never finds the order stored.
Fail(o) ==
  /\ verdict[o] = "none"
  /\ verdict' = [verdict EXCEPT ![o] = "failed"]
  /\ fate' \in {fate, [fate EXCEPT ![o] = "dropped"]}
  /\ UNCHANGED <<announced, billed>>

Store(o) ==
  /\ verdict[o] = "accepted"
  /\ fate[o] = "open"
  /\ fate' = [fate EXCEPT ![o] = "stored"]
  /\ UNCHANGED <<announced, verdict, billed>>

Drop(o) ==
  /\ fate[o] = "open"
  /\ fate' = [fate EXCEPT ![o] = "dropped"]
  /\ UNCHANGED <<announced, verdict, billed>>

Bill(o) ==
  /\ o \in announced
  /\ billed' = billed \cup {o}
  /\ UNCHANGED <<announced, verdict, fate>>

Next ==
  \E o \in Orders :
    \/ Announce(o) \/ Accept(o) \/ Fail(o) \/ Store(o) \/ Drop(o) \/ Bill(o)

Spec == Init /\ [][Next]_vars
=============================================================================
