------------------------------ MODULE MCBridge ------------------------------
(***************************************************************************)
(* Instances of Bridge for TLC.                                            *)
(***************************************************************************)
EXTENDS Bridge

\* One address per device, as the Harmony G2 backend has.
OneToOne == [a \in Addresses |-> a]
CommandOnly == [a \in Addresses |-> "command_only"]
Observable  == [a \in Addresses |-> "observable"]

Off     == {"OFF"}
MaybeNo == {"OFF", NoObs}

Live(a, payload) == [topic |-> Command(a), payload |-> payload, qos |-> 1, retain |-> FALSE]
Birth  == [topic |-> StatusTopic, payload |-> "online", qos |-> 1, retain |-> FALSE]
Death  == [Birth EXCEPT !.payload = "other"]

\* A birth, a live command, and those the bridge has to ignore.
MCInputs == {Birth, Live(1, "ON"), [Live(1, "ON") EXCEPT !.retain = TRUE]}
AllInputs == MCInputs \cup {Death, [Live(1, "ON") EXCEPT !.qos = 0], Live(1, "other")}
BirthOnly == {Birth}
=============================================================================
