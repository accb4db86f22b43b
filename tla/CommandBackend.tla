--------------------------- MODULE CommandBackend ---------------------------
(***************************************************************************)
(* What a command-only backend promises the bridge: each command reaches   *)
(* the gateway at most once, one answered "rejected" never takes effect,   *)
(* one answered "accepted" did, and one answered "indeterminate" leaves    *)
(* every device offline.  An unanswered command belongs to a process that  *)
(* died.  Devices are online together or offline together.                 *)
(***************************************************************************)
CONSTANT Commands

VARIABLES
  status,  \* the CommandResult of each command, "none" until it is answered
  gate,    \* what became of it at the gateway
  online   \* every device is online

vars == <<status, gate, online>>

Statuses == {"none", "accepted", "rejected", "indeterminate"}
Gates    == {"unsent", "pending", "refused", "executed"}

TypeOK == /\ status \in [Commands -> Statuses]
          /\ gate \in [Commands -> Gates]
          /\ online \in BOOLEAN

Init == /\ status = [c \in Commands |-> "none"]
        /\ gate = [c \in Commands |-> "unsent"]
        /\ online = FALSE

Unanswered(c) == status[c] = "none" /\ gate[c] = "unsent"

Accept(c) ==
  /\ Unanswered(c)
  /\ status' = [status EXCEPT ![c] = "accepted"]
  /\ gate' = [gate EXCEPT ![c] = "executed"]
  /\ online' = TRUE

Reject(c) ==
  /\ Unanswered(c)
  /\ status' = [status EXCEPT ![c] = "rejected"]
  /\ \E g \in {"unsent", "refused"} : gate' = [gate EXCEPT ![c] = g]
  /\ online' \in BOOLEAN

Doubt(c) ==
  /\ Unanswered(c)
  /\ status' = [status EXCEPT ![c] = "indeterminate"]
  /\ \E g \in {"pending", "executed"} : gate' = [gate EXCEPT ![c] = g]
  /\ online' = FALSE

\* The process died while the gateway had the command, or had executed it.
Abandon(c) ==
  /\ Unanswered(c)
  /\ \E g \in {"pending", "executed"} : gate' = [gate EXCEPT ![c] = g]
  /\ online' = FALSE /\ UNCHANGED status

\* A command whose answer was lost takes effect late, if it does at all.
TakeEffect(c) ==
  /\ gate[c] = "pending"
  /\ gate' = [gate EXCEPT ![c] = "executed"]
  /\ UNCHANGED <<status, online>>

ChangeAvailability == online' \in BOOLEAN /\ UNCHANGED <<status, gate>>

Next == \/ \E c \in Commands : \/ Accept(c) \/ Reject(c) \/ Doubt(c)
                               \/ Abandon(c) \/ TakeEffect(c)
        \/ ChangeAvailability

Spec == Init /\ [][Next]_vars

\* A command answered "rejected" has not taken effect and never will; one
\* answered "accepted" has.
Outcome == \A c \in Commands : /\ status[c] = "rejected" => gate[c] \in {"unsent", "refused"}
                               /\ status[c] = "accepted" => gate[c] = "executed"
=============================================================================
