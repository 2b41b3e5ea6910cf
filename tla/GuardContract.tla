---------------------------- MODULE GuardContract ----------------------------
(***************************************************************************)
(* What JwtAuthGuard promises its callers about a validate_user call: an   *)
(* outcome only after the auth service has reached the matching verdict,   *)
(* and none for a call that was cut off.  A verdict may be older than the  *)
(* outcome: the JWT may have expired meanwhile.  OrdersService and         *)
(* BillingService use the guard under this contract.                       *)
(***************************************************************************)
EXTENDS JwtGuard

VARIABLES
  vouched,   \* calls whose JWT the auth service has found valid
  denied,    \* calls the auth service has answered with an error
  severed,   \* calls whose answer can no longer arrive
  verdict    \* call -> "open", "granted", "refused" or "dead"

vars == <<expired, vouched, denied, severed, verdict>>

Init ==
  /\ GuardInit
  /\ vouched = {}
  /\ denied = {}
  /\ severed = {}
  /\ verdict = [c \in Calls |-> "open"]

Vouch(c) ==
  /\ GuardGrants(c[1])
  /\ vouched' = vouched \cup {c}
  /\ UNCHANGED <<expired, denied, severed, verdict>>

Deny(c) ==
  /\ GuardRefuses(c[1])
  /\ denied' = denied \cup {c}
  /\ UNCHANGED <<expired, vouched, severed, verdict>>

\* A fault cuts open calls off, or gives others another chance, in a retry.
Disturb ==
  /\ GuardUnanswered
  /\ severed' \in SUBSET Calls
  /\ \A c \in severed' \ severed : verdict[c] = "open"
  /\ UNCHANGED <<expired, vouched, denied, verdict>>

Grant(c) ==
  /\ verdict[c] = "open"
  /\ c \in vouched \ severed
  /\ verdict' = [verdict EXCEPT ![c] = "granted"]
  /\ UNCHANGED <<expired, vouched, denied, severed>>

Refuse(c) ==
  /\ verdict[c] = "open"
  /\ c \in denied \ severed
  /\ verdict' = [verdict EXCEPT ![c] = "refused"]
  /\ UNCHANGED <<expired, vouched, denied, severed>>

\* The process of a service ends, and its open calls with it.
Die(s) ==
  /\ May(s)
  /\ \E ended \in SUBSET {c \in Calls : c[2] = s /\ verdict[c] = "open"} :
       verdict' = [c \in Calls |-> IF c \in ended THEN "dead" ELSE verdict[c]]
  /\ UNCHANGED <<expired, vouched, denied, severed>>

Next ==
  \/ \E c \in Calls : Vouch(c) \/ Deny(c) \/ Grant(c) \/ Refuse(c)
  \/ \E s \in Services : Die(s)
  \/ Disturb
  \/ \E o \in Orders : TokenExpires(o) /\ UNCHANGED <<vouched, denied, severed, verdict>>

Spec == Init /\ [][Next]_vars
=============================================================================
