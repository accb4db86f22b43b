----------------------------- MODULE AtomicStore -----------------------------
(***************************************************************************)
(* What the session store promises: a session is replaced whole, in one    *)
(* step, and once its save has been acknowledged no loss of power brings   *)
(* an older one back.  Sessions are numbered in the order they are saved.  *)
(***************************************************************************)
EXTENDS Naturals

VARIABLES
  value,   \* the session a load returns
  durable, \* the one a load returns after power has failed
  acked    \* the last one whose save returned

vars == <<value, durable, acked>>

TypeOK == value \in Nat /\ durable \in Nat /\ acked \in Nat

Init == value = 0 /\ durable = 0 /\ acked = 0

\* A session that was not acknowledged may be skipped, never taken back.
Replace     == value' > value /\ UNCHANGED <<durable, acked>>
Persist     == durable' = value /\ UNCHANGED <<value, acked>>
Acknowledge == durable' = value /\ acked' = value /\ UNCHANGED value
PowerFails  == value' = durable /\ UNCHANGED <<durable, acked>>

Next == Replace \/ Persist \/ Acknowledge \/ PowerFails

Spec == Init /\ [][Next]_vars

\* An acknowledged session is never lost to an older one.
AcknowledgedSurvives == acked <= durable /\ acked <= value
=============================================================================
