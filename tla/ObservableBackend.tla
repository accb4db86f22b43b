------------------------- MODULE ObservableBackend --------------------------
(***************************************************************************)
(* What a backend with observable switches promises the bridge: it         *)
(* announces a set of addresses, each with a value; a command that asks an *)
(* announced address for ON or OFF while the backend is open is confirmed  *)
(* with the value it now has and a sequence number of its own, and every   *)
(* other command is rejected and changes nothing.                          *)
(***************************************************************************)
EXTENDS Naturals

CONSTANTS Addresses, Others    \* Others: desired values that are not Booleans

VARIABLES
  stage,      \* "new", "open" or "closed"
  announced,  \* the addresses in devices()
  value,      \* the observed value of each
  sequence,   \* the number of commands confirmed for each
  answer      \* the last CommandResult: its status and observation

vars == <<stage, announced, value, sequence, answer>>

Rejected       == [status |-> "rejected"]
Confirmed(v, n) == [status |-> "confirmed", value |-> v, sequence |-> n]

Init == /\ stage = "new" /\ announced = {}
        /\ value = [a \in {} |-> FALSE] /\ sequence = [a \in {} |-> 0]
        /\ answer = [status |-> "none"]

Open == /\ stage = "new" /\ stage' = "open"
        /\ announced' \in SUBSET Addresses
        /\ value' \in [announced' -> BOOLEAN]
        /\ sequence' = [a \in announced' |-> 0]
        /\ UNCHANGED answer

Answerable(a, v) == stage = "open" /\ a \in announced /\ v \in BOOLEAN

Confirm(a, v) ==
  /\ Answerable(a, v)
  /\ value' = [value EXCEPT ![a] = v]
  /\ sequence' = [sequence EXCEPT ![a] = sequence[a] + 1]
  /\ answer' = Confirmed(v, sequence[a] + 1)
  /\ UNCHANGED <<stage, announced>>

Reject(a, v) ==
  /\ ~Answerable(a, v)
  /\ answer' = Rejected
  /\ UNCHANGED <<stage, announced, value, sequence>>

Close == /\ stage \in {"open", "closed"} /\ stage' = "closed"
         /\ UNCHANGED <<announced, value, sequence, answer>>

Next == \/ Open \/ Close
        \/ \E a \in Addresses, v \in BOOLEAN \cup Others : Confirm(a, v) \/ Reject(a, v)

Spec == Init /\ [][Next]_vars
=============================================================================
