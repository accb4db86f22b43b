------------------------------- MODULE Bridge -------------------------------
(***************************************************************************)
(* BridgeRuntime and PahoTransport: one bridge process, its Paho network   *)
(* thread, and the MQTT broker they talk to.                               *)
(*                                                                         *)
(* The runtime thread (pc) takes events from the transport's queue one at  *)
(* a time and turns each into a series of transport calls; the network     *)
(* thread fills the queue, loses and renews the connection, and moves the  *)
(* client's unacknowledged publications to the broker, while the runtime   *)
(* thread is between any two of its calls.  The process may be killed at   *)
(* any point and started again by the service manager.                     *)
(*                                                                         *)
(* The backend is abstract here: what a command or a refresh may do to the *)
(* availability and observations it reports.                               *)
(***************************************************************************)
EXTENDS Naturals, Sequences

CONSTANTS
  NDevices,     \* devices 1..NDevices, in the order backend.devices() gives
  NAddresses,   \* writable addresses, numbered in device order
  DeviceOf,     \* the device of each address
  Mode,         \* its CapabilityMode
  Refreshable,  \* the backend is a RefreshableBackend
  InitialObs,   \* what observation() may report when the backend opens
  Inputs,       \* the messages other MQTT clients send
  MaxLosses, MaxChanges, MaxTroubles, MaxMessages, MaxRuns
                \* bounds on connection faults, availability changes a refresh
                \* finds, both together, messages delivered, processes started

Devices   == 1 .. NDevices
Addresses == 1 .. NAddresses

Availability == {"online", "offline"}
OnOff        == {"ON", "OFF"}
NoObs        == "none"

BridgeTopic     == <<"bridge", 0>>
StatusTopic     == <<"status", 0>>
Command(a)      == <<"command", a>>
Discovery(d)    == <<"discovery", d>>
DeviceAvail(d)  == <<"availability", d>>
State(a)        == <<"state", a>>
Confidence(a)   == <<"confidence", a>>
LastCommand(a)  == <<"last_command", a>>

SubscribedTopics == {StatusTopic} \cup {Command(a) : a \in Addresses}
RetainedTopics   == {BridgeTopic} \cup {DeviceAvail(d) : d \in Devices}
                      \cup {State(a) : a \in Addresses}
                      \cup {Confidence(a) : a \in Addresses}
                      \cup {LastCommand(a) : a \in Addresses}
PublishedTopics  == RetainedTopics \cup {Discovery(d) : d \in Devices}

\* A message as on_message queues it.
MessageType == [topic : SubscribedTopics, payload : OnOff \cup {"online", "other"},
                qos : {0, 1}, retain : BOOLEAN]

ASSUME BridgeAssumption ==
  /\ NDevices \in Nat \ {0} /\ NAddresses \in Nat
  /\ DeviceOf \in [Addresses -> Devices]
  /\ \A a, b \in Addresses : a < b => DeviceOf[a] <= DeviceOf[b]
  /\ Mode \in [Addresses -> {"observable", "command_only"}]
  /\ Refreshable \in BOOLEAN
  /\ Refreshable => \A a \in Addresses : Mode[a] = "command_only"
  /\ InitialObs \subseteq OnOff \cup {NoObs}
  /\ Inputs \subseteq MessageType
  /\ {MaxLosses, MaxChanges, MaxTroubles, MaxMessages, MaxRuns} \subseteq Nat

(***************************************************************************)
(* Events of the transport queue, and publications with the process that   *)
(* made them (run).  Values are sequences of words; <<>> is no value.      *)
(***************************************************************************)
Connected    == [kind |-> "connected"]
Disconnected == [kind |-> "disconnected"]
Fatal        == [kind |-> "fatal"]          \* Disconnected with a reason
Message(m)   == [kind |-> "message", message |-> m]
Events       == {Connected, Disconnected, Fatal} \cup {Message(m) : m \in MessageType}

Words  == Availability \cup OnOff \cup {"unknown", "config", "observed",
            "confirmed", "accepted", "rejected", "indeterminate"}
Values == {<<>>} \cup {<<w>> : w \in Words} \cup {<<v, w>> : v, w \in Words}

VARIABLES
  \* external: the connection, the broker, and Paho's client-side memory
  link,      \* "down", "up", or "half": broken, but the client has not noticed
  armed,     \* the broker holds a session of the bridge, hence its last will
  subs,      \* topics subscribed to in that session
  retained,  \* the broker's retained values
  outbox,    \* publications Paho holds until they are acknowledged
  sent,      \* how many of them the broker has received on this connection
  \* PahoTransport and BridgeRuntime
  loop,      \* _loop_started
  events,    \* PahoTransport._events
  pc,        \* where the runtime thread is
  todo,      \* the transport calls the current handler has still to make
  connected, \* BridgeRuntime._connected
  published, \* BridgeRuntime._published_availability
  stop,      \* the flag request_stop sets
  cause,     \* the exception that ends run() or close(), "none" if none has
  run,       \* which process this is
  \* the backend
  avail, obs, result, backendClosed,
  \* history
  losses,    \* faults of the connection so far
  changes,   \* availability changes refresh() has found
  delivered, \* live commands the broker delivered
  received,  \* messages it delivered
  executed   \* calls of set_desired

network == <<link, armed, subs, retained, outbox, sent>>
process == <<loop, events, pc, todo, connected, published, stop, cause, run>>
backend == <<avail, obs, result, backendClosed>>
history == <<losses, changes, delivered, received, executed>>
vars == <<network, process, backend, history>>

NoValue   == [value |-> <<>>, run |-> 0]
Offline   == <<"offline">>
Online    == <<"online">>
NoResult  == <<>>

-----------------------------------------------------------------------------
(***************************************************************************)
(* The calls a handler makes, as slots, in the order the code makes them.  *)
(***************************************************************************)
Slots == {<<"offline", 0>>, <<"online", 0>>}
           \cup ({"discovery", "availability", "changed"} \X Devices)
           \cup ({"state", "confidence", "last_command"} \X Addresses)
           \cup ({"subscribe"} \X (1 .. NAddresses + 1))

\* Where a slot comes in the code: phase of the handler, device, position.
Order(s) ==
  CASE s[1] = "subscribe"    -> <<1, 0, s[2]>>
    [] s[1] = "offline"      -> <<2, 0, 0>>
    [] s[1] = "discovery"    -> <<3, s[2], 0>>
    [] s[1] = "state"        -> <<4, DeviceOf[s[2]], 2 * s[2]>>
    [] s[1] = "confidence"   -> <<4, DeviceOf[s[2]], 2 * s[2] + 1>>
    [] s[1] = "availability" -> <<4, s[2], 2 * NAddresses + 2>>
    [] s[1] = "last_command" -> <<5, 0, 0>>
    [] s[1] = "changed"      -> <<6, s[2], 0>>
    [] s[1] = "online"       -> <<7, 0, 0>>

Before(s, t) ==
  LET p == Order(s)
      q == Order(t)
  IN  \/ p[1] < q[1]
      \/ p[1] = q[1] /\ p[2] < q[2]
      \/ p[1] = q[1] /\ p[2] = q[2] /\ p[3] < q[3]

IsNext(s) == \A t \in todo \ {s} : Before(s, t)

Observed(a) == Mode[a] = "observable" /\ obs[a] # NoObs

\* Every observable capability of the device has a value to publish.
Complete(d) == \A a \in Addresses :
                 DeviceOf[a] = d /\ Mode[a] = "observable" => obs[a] # NoObs

SnapshotSlots ==
  {<<"offline", 0>>, <<"online", 0>>}
    \cup ({"discovery", "availability"} \X Devices)
    \cup ({"state", "confidence"} \X {a \in Addresses : Observed(a)})

SubscribeSlots == {"subscribe"} \X (1 .. NAddresses + 1)

\* Mutant of ChangedSlots: only the device that was commanded.
ChangedSlotsOfDevice(state, forced) == {"changed"} \X forced

\* _publish_changed_availability: the devices whose state differs from the
\* last one published; a forced device is published whatever the cache says.
ChangedSlots(state, forced) ==
  {"changed"} \X {d \in Devices : published[d] # state[d] \/ d \in forced}

SlotTopic(s) ==
  CASE s[1] \in {"offline", "online"} -> BridgeTopic
    [] s[1] = "changed"   -> DeviceAvail(s[2])
    [] s[1] = "subscribe" -> IF s[2] \in Addresses THEN Command(s[2]) ELSE StatusTopic
    [] OTHER              -> s

\* Mutant of SlotValue: the availability ignores a missing observation.
SlotValueIncomplete(s) ==
  CASE s[1] = "offline"      -> Offline
    [] s[1] = "online"       -> Online
    [] s[1] = "discovery"    -> <<"config">>
    [] s[1] = "state"        -> <<obs[s[2]]>>
    [] s[1] = "confidence"   -> <<"observed">>
    [] s[1] \in {"availability", "changed"} -> <<avail[s[2]]>>
    [] s[1] = "last_command" -> result[s[2]]

SlotValue(s) ==
  CASE s[1] = "offline"      -> Offline
    [] s[1] = "online"       -> Online
    [] s[1] = "discovery"    -> <<"config">>
    [] s[1] = "state"        -> <<obs[s[2]]>>
    [] s[1] = "confidence"   -> <<"observed">>
    [] s[1] = "availability" -> IF Complete(s[2]) THEN <<avail[s[2]]>> ELSE Offline
    [] s[1] = "changed"      -> <<avail[s[2]]>>
    [] s[1] = "last_command" -> result[s[2]]

-----------------------------------------------------------------------------
Init ==
  /\ link = "down" /\ armed = FALSE /\ subs = {}
  /\ retained = [t \in RetainedTopics |-> NoValue]
  /\ outbox = <<>> /\ sent = 0
  /\ loop = FALSE /\ events = <<>> /\ pc = "start" /\ todo = {}
  /\ connected = FALSE /\ published = [d \in Devices |-> "none"]
  /\ stop = FALSE /\ cause = "none" /\ run = 1
  /\ avail = [d \in Devices |-> "online"]
  /\ obs \in [Addresses -> InitialObs]
  /\ result = [a \in Addresses |-> NoResult]
  /\ backendClosed = FALSE
  /\ losses = 0 /\ changes = 0 /\ delivered = 0 /\ received = 0 /\ executed = 0

-----------------------------------------------------------------------------
(***************************************************************************)
(* The broker and Paho's network thread (external).                        *)
(***************************************************************************)
\* Another connection fault is within the bounds.
MayFail == losses < MaxLosses /\ losses + changes < MaxTroubles

\* Mutant of Will: it is not retained.
WillNotRetained == retained[BridgeTopic]

Will == [value |-> Offline, run |-> 0]

\* A session is established: its predecessor, if the broker still holds one,
\* is taken over and its will published.  The session is clean, but Paho sends
\* again every publication that was not acknowledged.
NetworkConnects ==
  /\ loop /\ link = "down"
  /\ link' = "up" /\ armed' = TRUE /\ subs' = {} /\ sent' = 0
  /\ retained' = IF armed THEN [retained EXCEPT ![BridgeTopic] = Will] ELSE retained
  /\ events' = Append(events, Connected)
  /\ UNCHANGED <<outbox, pc, loop, todo, connected, published, stop, cause, run,
                 backend, history>>

\* The broker refuses the session: on_connect with a failure code.
NetworkRefused ==
  /\ loop /\ link = "down" /\ MayFail
  /\ losses' = losses + 1
  /\ events' = Append(events, Fatal)
  /\ UNCHANGED <<network, pc, loop, todo, connected, published, stop, cause, run,
                 backend, changes, delivered, received, executed>>

\* The connection breaks; nothing gets through any more.
NetworkBreaks ==
  /\ link = "up" /\ MayFail
  /\ losses' = losses + 1 /\ link' = "half" /\ subs' = {} /\ sent' = 0
  /\ UNCHANGED <<armed, retained, outbox, process, backend, changes, delivered,
                 received, executed>>

\* Paho notices: on_disconnect, which tells an authorization failure apart.
NetworkNotices ==
  /\ link = "half"
  /\ link' = "down"
  /\ \E e \in {Disconnected, Fatal} : events' = Append(events, e)
  /\ UNCHANGED <<armed, subs, retained, outbox, sent, pc, loop, todo, connected,
                 published, stop, cause, run, backend, history>>

BrokerPublishesWill ==
  /\ armed /\ link # "up"
  /\ armed' = FALSE
  /\ retained' = [retained EXCEPT ![BridgeTopic] = Will]
  /\ UNCHANGED <<link, subs, outbox, sent, process, backend, history>>

BrokerReceives ==
  /\ link = "up" /\ sent < Len(outbox)
  /\ sent' = sent + 1
  /\ LET p == outbox[sent + 1]
     IN  retained' = IF p.topic \in RetainedTopics
                     THEN [retained EXCEPT ![p.topic] = [value |-> p.value, run |-> p.run]]
                     ELSE retained
  /\ UNCHANGED <<link, armed, subs, outbox, process, backend, history>>

BrokerAcknowledges ==
  /\ link = "up" /\ sent > 0
  /\ outbox' = Tail(outbox) /\ sent' = sent - 1
  /\ UNCHANGED <<link, armed, subs, retained, process, backend, history>>

IsCommand(m) == m.topic # StatusTopic

BrokerDelivers ==
  /\ link = "up" /\ received < MaxMessages
  /\ received' = received + 1
  /\ \E m \in Inputs :
       /\ m.topic \in subs
       /\ events' = Append(events, Message(m))
       /\ delivered' = IF IsCommand(m) /\ ~m.retain THEN delivered + 1 ELSE delivered
  /\ UNCHANGED <<network, pc, loop, todo, connected, published, stop, cause, run,
                 backend, losses, changes, executed>>

-----------------------------------------------------------------------------
(***************************************************************************)
(* The runtime thread.                                                     *)
(***************************************************************************)
Goto(label) == pc' = label /\ todo' = {}

\* Leave the handler for close(), with the exception that run() raises.
Raise(why) == Goto("close") /\ cause' = why

\* Enter a part of the loop with the calls it has to make.
Enter(part, calls) ==
  /\ todo' = calls
  /\ pc' = IF calls # {} THEN part ELSE IF part = "handle" THEN "refresh" ELSE "head"

\* run: self._transport.connect(), which opens the connection or raises.
Connect ==
  /\ pc = "start"
  /\ \/ loop' = TRUE /\ Goto("head") /\ UNCHANGED <<cause, losses>>
     \/ MayFail /\ losses' = losses + 1 /\ Raise("startup") /\ UNCHANGED loop
  /\ UNCHANGED <<network, events, connected, published, stop, run, backend,
                 changes, delivered, received, executed>>

\* The head of the loop: while not stop_requested().
LoopHead ==
  /\ pc = "head"
  /\ IF stop THEN Goto("close") ELSE Goto("get")
  /\ UNCHANGED <<network, loop, events, connected, published, stop, cause, run,
                 backend, history>>

\* Mutant of GetStopped: next_event waits without a timeout.
GetStoppedBlocks ==
  /\ pc = "get" /\ stop /\ events # <<>>
  /\ Goto("close")
  /\ events' = Tail(events)
  /\ connected' = CASE Head(events) = Connected -> TRUE
                    [] Head(events) \in {Disconnected, Fatal} -> FALSE
                    [] OTHER -> connected
  /\ UNCHANGED <<network, loop, published, stop, cause, run, backend, history>>

\* next_event returned and the stop flag is set: only the connection state of
\* the event counts, the rest is discarded.
GetStopped ==
  /\ pc = "get" /\ stop
  /\ Goto("close")
  /\ IF events = <<>>
     THEN UNCHANGED <<events, connected>>
     ELSE /\ events' = Tail(events)
          /\ connected' = CASE Head(events) = Connected -> TRUE
                            [] Head(events) \in {Disconnected, Fatal} -> FALSE
                            [] OTHER -> connected
  /\ UNCHANGED <<network, loop, published, stop, cause, run, backend, history>>

GetNothing ==
  /\ pc = "get" /\ ~stop /\ events = <<>>
  /\ Goto("refresh")
  /\ UNCHANGED <<network, loop, events, connected, published, stop, cause, run,
                 backend, history>>

Takes(e) == /\ pc = "get" /\ ~stop /\ events # <<>> /\ Head(events) = e
            /\ events' = Tail(events)

\* Mutant of HandleConnected: a later session is not subscribed again.
HandleConnectedOnce ==
  /\ Takes(Connected)
  /\ connected' = TRUE
  /\ Enter("handle", IF published[1] = "none" THEN SubscribeSlots \cup SnapshotSlots
                                              ELSE SnapshotSlots)
  /\ UNCHANGED <<network, loop, published, stop, cause, run, backend, history>>

HandleConnected ==
  /\ Takes(Connected)
  /\ connected' = TRUE
  /\ Enter("handle", SubscribeSlots \cup SnapshotSlots)
  /\ UNCHANGED <<network, loop, published, stop, cause, run, backend, history>>

HandleDisconnected ==
  /\ Takes(Disconnected)
  /\ connected' = FALSE
  /\ Enter("handle", {})
  /\ UNCHANGED <<network, loop, published, stop, cause, run, backend, history>>

HandleFatal ==
  /\ Takes(Fatal)
  /\ connected' = FALSE
  /\ Raise("fatal")
  /\ UNCHANGED <<network, loop, published, stop, run, backend, history>>

AllDevices(state) == [d \in Devices |-> state]

\* What set_desired may answer, with the availability and the observations it
\* leaves: a simulator records what it confirms; a G2 is online for every
\* device or for none.
Outcomes(a, desired) ==
  IF Mode[a] = "observable"
  THEN {[status |-> "confirmed", avail |-> avail, obs |-> [obs EXCEPT ![a] = desired]],
        [status |-> "rejected", avail |-> avail, obs |-> obs]}
  ELSE {[status |-> o[1], avail |-> AllDevices(o[2]), obs |-> obs] :
          o \in {<<"accepted", "online">>, <<"rejected", "online">>,
                 <<"rejected", "offline">>, <<"indeterminate", "offline">>}}

\* Mutant of Executable: a retained command is executed.
ExecutableRetained(m, a) ==
  /\ m.topic = Command(a) /\ m.qos = 1
  /\ avail[DeviceOf[a]] = "online"
  /\ m.payload \in OnOff

\* The guards of _handle_message before the backend is called.
Executable(m, a) ==
  /\ m.topic = Command(a)
  /\ ~m.retain /\ m.qos = 1
  /\ avail[DeviceOf[a]] = "online"
  /\ m.payload \in OnOff

\* Mutant of Execute: the confirmed observation is not published.
ExecuteSilently(m, a) ==
  /\ \E o \in Outcomes(a, m.payload) :
       /\ avail' = o.avail /\ obs' = o.obs
       /\ result' = [result EXCEPT ![a] = <<m.payload, o.status>>]
       /\ Enter("handle",
            IF Mode[a] = "command_only"
            THEN {<<"last_command", a>>} \cup ChangedSlots(o.avail, {DeviceOf[a]}) ELSE {})
  /\ executed' = executed + 1
  /\ UNCHANGED <<backendClosed, losses, changes, delivered, received>>

Execute(m, a) ==
  /\ \E o \in Outcomes(a, m.payload) :
       /\ avail' = o.avail /\ obs' = o.obs
       /\ result' = [result EXCEPT ![a] = <<m.payload, o.status>>]
       /\ Enter("handle",
            IF Mode[a] = "command_only"
            THEN {<<"last_command", a>>} \cup ChangedSlots(o.avail, {DeviceOf[a]})
            ELSE IF o.status = "confirmed"
                 THEN {<<"state", a>>, <<"confidence", a>>} ELSE {})
  /\ executed' = executed + 1
  /\ UNCHANGED <<backendClosed, losses, changes, delivered, received>>

Ignored(m) == /\ ~ \E a \in Addresses : Executable(m, a)
              /\ m # [m EXCEPT !.topic = StatusTopic, !.payload = "online"]

HandleMessage ==
  /\ \E m \in Inputs :
       /\ Takes(Message(m))
       /\ \/ /\ connected /\ m.topic = StatusTopic /\ m.payload = "online"
             /\ Enter("handle", SnapshotSlots) /\ UNCHANGED <<backend, history>>
          \/ connected /\ \E a \in Addresses : Executable(m, a) /\ Execute(m, a)
          \/ (connected => Ignored(m)) /\ Enter("handle", {})
             /\ UNCHANGED <<backend, history>>
  /\ UNCHANGED <<network, loop, connected, published, stop, cause, run>>

\* The end of the loop body: backend.refresh() and the changes it found.
Refresh ==
  /\ pc = "refresh"
  /\ IF connected /\ Refreshable
     THEN \E state \in {avail, AllDevices("online"), AllDevices("offline")} :
            /\ changes' = IF state = avail THEN changes ELSE changes + 1
            /\ changes' <= MaxChanges /\ losses + changes' <= MaxTroubles
            /\ avail' = state
            /\ Enter("publish", ChangedSlots(state, {}))
     ELSE Enter("publish", {}) /\ UNCHANGED <<avail, changes>>
  /\ UNCHANGED <<network, loop, events, connected, published, stop, cause, run,
                 obs, result, backendClosed, losses, delivered, received, executed>>

Publication(topic, value) == [topic |-> topic, value |-> value, run |-> run]

\* One transport call of the current handler.  Without a connection Paho
\* returns an error, which _raise_for_error turns into a TransportError; the
\* publication itself stays in Paho's memory.
Subscribe(s) ==
  /\ s[1] = "subscribe"
  /\ IF link = "down"
     THEN Raise("no_connection") /\ UNCHANGED subs
     ELSE /\ Enter(pc, todo \ {s}) /\ UNCHANGED cause
          /\ subs' = IF link = "up" THEN subs \cup {SlotTopic(s)} ELSE subs
  /\ UNCHANGED <<outbox, published>>

\* Mutant of Publish: only the snapshot updates the cache.
PublishForgetsChange(s) ==
  /\ s[1] # "subscribe"
  /\ outbox' = Append(outbox, Publication(SlotTopic(s), SlotValue(s)))
  /\ IF link = "down"
     THEN Raise("no_connection") /\ UNCHANGED published
     ELSE /\ Enter(pc, todo \ {s}) /\ UNCHANGED cause
          /\ published' = IF s[1] = "availability"
                          THEN [published EXCEPT ![s[2]] = SlotValue(s)[1]]
                          ELSE published
  /\ UNCHANGED subs

Publish(s) ==
  /\ s[1] # "subscribe"
  /\ outbox' = Append(outbox, Publication(SlotTopic(s), SlotValue(s)))
  /\ IF link = "down"
     THEN Raise("no_connection") /\ UNCHANGED published
     ELSE /\ Enter(pc, todo \ {s}) /\ UNCHANGED cause
          /\ published' = IF s[1] \in {"availability", "changed"}
                          THEN [published EXCEPT ![s[2]] = SlotValue(s)[1]]
                          ELSE published
  /\ UNCHANGED subs

TransportCall ==
  /\ pc \in {"handle", "publish"}
  /\ \E s \in todo : IsNext(s) /\ (Subscribe(s) \/ Publish(s))
  /\ UNCHANGED <<link, armed, retained, sent, loop, events, connected, stop, run,
                 backend, history>>

-----------------------------------------------------------------------------
(***************************************************************************)
(* close(), reached with or without an exception, and the process's end.   *)
(***************************************************************************)
\* Mutant of Close: the last publication is not waited for.
CloseWithoutWaiting ==
  /\ pc = "close"
  /\ Goto("cleanup") /\ UNCHANGED cause
  /\ outbox' = IF connected THEN Append(outbox, Publication(BridgeTopic, Offline)) ELSE outbox
  /\ UNCHANGED <<link, armed, subs, retained, sent, loop, events, connected,
                 published, stop, run, backend, history>>

Close ==
  /\ pc = "close"
  /\ IF connected
     THEN /\ outbox' = Append(outbox, Publication(BridgeTopic, Offline))
          /\ IF link = "down" THEN Goto("cleanup") /\ cause' = "no_connection"
                              ELSE Goto("delivery") /\ UNCHANGED cause
     ELSE Goto("cleanup") /\ UNCHANGED <<outbox, cause>>
  /\ UNCHANGED <<link, armed, subs, retained, sent, loop, events, connected,
                 published, stop, run, backend, history>>

\* publish_and_wait: the publication is acknowledged, or the time is up.
AwaitDelivery ==
  /\ pc = "delivery"
  /\ Goto("cleanup")
  /\ IF outbox = <<>> THEN UNCHANGED cause ELSE cause' = "not_delivered"
  /\ UNCHANGED <<network, loop, events, connected, published, stop, run, backend,
                 history>>

CloseBackend ==
  /\ pc = "cleanup"
  /\ backendClosed' = TRUE
  /\ avail' = IF Refreshable THEN AllDevices("offline") ELSE avail
  /\ Goto("disconnect")
  /\ UNCHANGED <<network, loop, events, connected, published, stop, cause, run,
                 obs, result, history>>

\* PahoTransport.disconnect: the DISCONNECT packet follows everything Paho has
\* sent, and the broker discards the will; without a connection nothing goes.
Disconnect ==
  /\ pc = "disconnect"
  /\ link = "up" => sent = Len(outbox)
  /\ armed' = IF link = "up" THEN FALSE ELSE armed
  /\ link' = "down" /\ subs' = {} /\ outbox' = <<>> /\ sent' = 0
  /\ loop' = FALSE /\ events' = <<>>
  /\ Goto("exited")
  /\ UNCHANGED <<retained, connected, published, stop, cause, run, backend, history>>

\* SIGINT or SIGTERM: request_stop.
Signal ==
  /\ pc \notin {"exited"} /\ ~stop
  /\ stop' = TRUE
  /\ UNCHANGED <<network, loop, events, pc, todo, connected, published, cause, run,
                 backend, history>>

\* The process is killed; the service manager starts another one.
Crash ==
  /\ pc # "exited"
  /\ Goto("exited") /\ cause' = "crash"
  /\ link' = "down" /\ subs' = {} /\ outbox' = <<>> /\ sent' = 0
  /\ loop' = FALSE /\ events' = <<>>
  /\ UNCHANGED <<armed, retained, connected, published, stop, run, backend, history>>

Restart ==
  /\ pc = "exited" /\ cause # "none" /\ ~stop /\ run < MaxRuns
  /\ run' = run + 1
  /\ Goto("start") /\ cause' = "none"
  /\ connected' = FALSE /\ published' = [d \in Devices |-> "none"]
  /\ avail' = [d \in Devices |-> "online"]
  /\ obs' \in [Addresses -> InitialObs]
  /\ result' = [a \in Addresses |-> NoResult]
  /\ backendClosed' = FALSE
  /\ UNCHANGED <<network, loop, events, stop, history>>

-----------------------------------------------------------------------------
Runtime == \/ Connect \/ LoopHead \/ GetStopped \/ GetNothing \/ HandleConnected
           \/ HandleDisconnected \/ HandleFatal \/ HandleMessage \/ Refresh
           \/ TransportCall \/ Close \/ AwaitDelivery \/ CloseBackend \/ Disconnect
Network == \/ NetworkConnects \/ NetworkRefused \/ NetworkBreaks \/ NetworkNotices
           \/ BrokerPublishesWill \/ BrokerReceives \/ BrokerAcknowledges
           \/ BrokerDelivers
Environment == Signal \/ Crash \/ Restart

\* A process that has exited and is not started again.
Terminated == pc = "exited" /\ UNCHANGED vars

Next == Runtime \/ Network \/ Environment \/ Terminated

Spec == Init /\ [][Next]_vars

(***************************************************************************)
(* Fairness.  The runtime thread never blocks for good: next_event has a   *)
(* timeout of 0.2 s and publish_and_wait one of 5 s.  Paho's thread keeps  *)
(* reconnecting and notices a broken connection by its keepalive; so does  *)
(* the broker, which then publishes the will.  The service manager         *)
(* restarts a process that failed.  Nothing is assumed of signals, faults  *)
(* or the messages of other clients.                                       *)
(***************************************************************************)
Fairness ==
  /\ WF_vars(Runtime)
  /\ WF_vars(NetworkConnects) /\ WF_vars(NetworkNotices)
  /\ WF_vars(BrokerReceives) /\ WF_vars(BrokerAcknowledges)
  /\ WF_vars(BrokerPublishesWill)
  /\ WF_vars(Restart)

FairSpec == Spec /\ Fairness

-----------------------------------------------------------------------------
PublicationType == [topic : PublishedTopics, value : Values, run : Nat]

\* Type invariant.
TypeOK ==
  /\ link \in {"down", "half", "up"} /\ armed \in BOOLEAN
  /\ subs \in SUBSET SubscribedTopics
  /\ retained \in [RetainedTopics -> [value : Values, run : Nat]]
  /\ outbox \in Seq(PublicationType) /\ sent \in 0 .. Len(outbox)
  /\ loop \in BOOLEAN /\ events \in Seq(Events)
  /\ pc \in {"start", "head", "get", "handle", "refresh", "publish", "close",
             "delivery", "cleanup", "disconnect", "exited"}
  /\ todo \in SUBSET Slots
  /\ connected \in BOOLEAN
  /\ published \in [Devices -> Availability \cup {"none"}]
  /\ stop \in BOOLEAN
  /\ cause \in {"none", "startup", "fatal", "no_connection", "not_delivered", "crash"}
  /\ run \in Nat
  /\ avail \in [Devices -> Availability]
  /\ obs \in [Addresses -> OnOff \cup {NoObs}]
  /\ result \in [Addresses -> Values]
  /\ backendClosed \in BOOLEAN
  /\ losses \in Nat /\ changes \in Nat /\ delivered \in Nat
  /\ received \in Nat /\ executed \in Nat

\* The value the broker holds for a topic once it has received the outbox.
Eventual(t) ==
  LET later == {i \in 1 .. Len(outbox) : outbox[i].topic = t}
  IN  IF later = {} THEN retained[t].value
      ELSE outbox[CHOOSE i \in later : \A j \in later : j <= i].value

InLoop == pc \in {"head", "get", "handle", "refresh", "publish"}

\* _published_availability decides which availability is not worth publishing
\* again.  While the loop runs it is what the broker holds, or will hold once
\* it has what Paho is still sending, across lost connections and resends.
CacheMatchesBroker ==
  InLoop => \A d \in Devices :
    published[d] # "none" => Eventual(DeviceAvail(d)) = <<published[d]>>

\* While the broker says the bridge is online, every availability it holds for
\* a device, and every state and confidence of a device said to be online,
\* come from the process that is online, never from one before it: the order
\* of _publish_snapshot, the last will and the taking over of a session.
OnlineIsCurrent ==
  retained[BridgeTopic].value = Online =>
    LET current == retained[BridgeTopic].run IN
    /\ \A d \in Devices : retained[DeviceAvail(d)].run = current
    /\ \A a \in Addresses :
         /\ Mode[a] = "observable"
         /\ retained[DeviceAvail(DeviceOf[a])].value = Online
         => /\ retained[State(a)].run = current
            /\ retained[Confidence(a)].run = current

\* The loop is between two events, with none waiting, on a live connection it
\* knows of.
Idle == pc \in {"head", "get"} /\ events = <<>> /\ link = "up" /\ connected

\* Whenever the loop is idle and the broker has everything, the broker's
\* retained values are what the backend reports: the bridge online, and each
\* availability and last command result.
RetainedMirrorsBackend ==
  Idle /\ outbox = <<>> =>
    /\ retained[BridgeTopic].value = Online
    /\ \A d \in Devices : Complete(d) => retained[DeviceAvail(d)].value = <<avail[d]>>
    /\ \A a \in Addresses : Mode[a] = "command_only" /\ result[a] # NoResult =>
         retained[LastCommand(a)].value = result[a]

\* And so are the states of observable devices, whether an observation was there
\* from the start or a command made it; a device that lacks one is offline.
ObservationsAreMirrored ==
  Idle /\ outbox = <<>> =>
    /\ \A a \in Addresses : Observed(a) => retained[State(a)].value = <<obs[a]>>
    /\ \A d \in Devices : ~Complete(d) => retained[DeviceAvail(d)].value = Offline

\* Whenever the loop is idle the session it is connected with is subscribed to
\* every command topic and to Home Assistant's status, however many sessions
\* came and went while it was busy.
SubscribedWhenIdle == Idle => subs = SubscribedTopics

\* A process that ends without an error, and that knew it was connected when it
\* closed, leaves the bridge offline at the broker.
GracefulCloseIsOffline ==
  pc = "exited" /\ cause = "none" /\ connected => retained[BridgeTopic].value = Offline

\* No snapshot, reconnection, restart or retained message makes the backend
\* execute a command: it executes at most one for each live one delivered.
NoReplay == executed <= delivered

\* A process that ends while the broker still holds its session is reported
\* offline by its last will, or by the process that takes the session over.
WillReportsCrash ==
  (pc = "exited" /\ armed) ~> (retained[BridgeTopic].value = Offline)

\* A stop signal ends the process, whatever the connection does.
StopEnds == stop ~> (pc = "exited")

\* Once faults, messages and changes have ceased, a process that runs settles
\* with the broker holding what its backend reports.
Settles ==
  <>[](pc = "exited" \/ ( /\ retained[BridgeTopic].value = Online
                          /\ \A d \in Devices : retained[DeviceAvail(d)].value =
                               IF Complete(d) THEN <<avail[d]>> ELSE Offline
                          /\ subs = SubscribedTopics))

(***************************************************************************)
(* What the documentation says and the code does not do.                   *)
(***************************************************************************)
\* docs/home-assistant.md: on SIGINT or SIGTERM the bridge publishes retained
\* offline, closes its backend, disconnects and exits; with the session over, no
\* will is left to say so instead.
GracefulStopLeavesOffline ==
  pc = "exited" /\ cause = "none" /\ ~armed => retained[BridgeTopic].value # Online

\* docs/home-assistant.md: when the broker restarts, the bridge reconnects with
\* a clean session; losing the connection does not end it.
LostConnectionIsRetried == cause # "no_connection"
=============================================================================
