--------------------------- MODULE Bridge_proofs ----------------------------
(***************************************************************************)
(* The theorems about Bridge, for any devices, addresses and messages, any *)
(* number of faults and of processes.                                      *)
(***************************************************************************)
EXTENDS Bridge, SequenceTheorems, FiniteSetTheorems, TLAPS

(***************************************************************************)
(* The type invariant in parts, and what makes it inductive: the state of  *)
(* an address is only published once there is an observation of it.        *)
(***************************************************************************)
Flags == /\ armed \in BOOLEAN /\ loop \in BOOLEAN /\ connected \in BOOLEAN
         /\ stop \in BOOLEAN /\ backendClosed \in BOOLEAN

Counters == /\ run \in Nat /\ losses \in Nat /\ changes \in Nat
            /\ delivered \in Nat /\ received \in Nat /\ executed \in Nat

Queues == /\ outbox \in Seq(PublicationType) /\ sent \in 0 .. Len(outbox)
          /\ events \in Seq(Events)

Broker == /\ link \in {"down", "half", "up"}
          /\ subs \in SUBSET SubscribedTopics
          /\ retained \in [RetainedTopics -> [value : Values, run : Nat]]

Runtimes == /\ pc \in {"start", "head", "get", "handle", "refresh", "publish", "close",
                       "delivery", "cleanup", "disconnect", "exited"}
            /\ todo \in SUBSET Slots
            /\ published \in [Devices -> Availability \cup {"none"}]
            /\ cause \in {"none", "startup", "fatal", "no_connection", "not_delivered",
                          "crash"}

Reports == /\ avail \in [Devices -> Availability]
           /\ obs \in [Addresses -> OnOff \cup {NoObs}]
           /\ result \in [Addresses -> Values]

Seen == \A a \in Addresses : <<"state", a>> \in todo => obs[a] # NoObs

Typed == Flags /\ Counters /\ Queues /\ Broker /\ Runtimes /\ Reports /\ Seen

LEMMA TypedIsTypeOK == Typed => TypeOK
  BY DEF Typed, Flags, Counters, Queues, Broker, Runtimes, Reports, TypeOK

-----------------------------------------------------------------------------
(***************************************************************************)
(* Slots.                                                                  *)
(***************************************************************************)
PublicationSlot(s) ==
  \/ s = <<"offline", 0>> \/ s = <<"online", 0>>
  \/ \E d \in Devices : s = <<"discovery", d>> \/ s = <<"availability", d>> \/ s = <<"changed", d>>
  \/ \E a \in Addresses : s = <<"state", a>> \/ s = <<"confidence", a>> \/ s = <<"last_command", a>>

LEMMA SlotForms ==
  ASSUME NEW s \in Slots
  PROVE  IF s[1] = "subscribe" THEN s[2] \in 1 .. NAddresses + 1 ELSE PublicationSlot(s)
  BY BridgeAssumption DEF Slots, PublicationSlot

LEMMA SubscribeTyped ==
  ASSUME NEW s \in Slots, s[1] = "subscribe"
  PROVE  SlotTopic(s) \in SubscribedTopics
<1>1. s[2] \in 1 .. NAddresses + 1
  BY SlotForms
<1>2. SlotTopic(s) = IF s[2] \in Addresses THEN Command(s[2]) ELSE StatusTopic
  BY DEF SlotTopic
<1> QED
  BY <1>1, <1>2 DEF SubscribedTopics

LEMMA SlotTyped ==
  ASSUME Typed, NEW s \in todo, s[1] # "subscribe"
  PROVE  SlotTopic(s) \in PublishedTopics /\ SlotValue(s) \in Values
<1>1. PublicationSlot(s)
  BY SlotForms DEF Typed, Runtimes
<1>2. CASE s = <<"offline", 0>>
  BY <1>2 DEF SlotTopic, SlotValue, PublishedTopics, RetainedTopics, Values, Words, Offline,
     BridgeTopic, Availability
<1>3. CASE s = <<"online", 0>>
  BY <1>3 DEF SlotTopic, SlotValue, PublishedTopics, RetainedTopics, Values, Words, Online,
     BridgeTopic, Availability
<1>4. ASSUME NEW d \in Devices, s = <<"discovery", d>>
      PROVE  SlotTopic(s) \in PublishedTopics /\ SlotValue(s) \in Values
  BY <1>4 DEF SlotTopic, SlotValue, PublishedTopics, Values, Words, Discovery
<1>5. ASSUME NEW d \in Devices, s = <<"availability", d>>
      PROVE  SlotTopic(s) \in PublishedTopics /\ SlotValue(s) \in Values
  <2>1. avail[d] \in Availability
    BY DEF Typed, Reports
  <2> QED
    BY <1>5, <2>1 DEF SlotTopic, SlotValue, PublishedTopics, RetainedTopics, DeviceAvail,
       Values, Words, Offline, Availability
<1>6. ASSUME NEW d \in Devices, s = <<"changed", d>>
      PROVE  SlotTopic(s) \in PublishedTopics /\ SlotValue(s) \in Values
  <2>1. avail[d] \in Availability
    BY DEF Typed, Reports
  <2> QED
    BY <1>6, <2>1 DEF SlotTopic, SlotValue, PublishedTopics, RetainedTopics, DeviceAvail,
       Values, Words
<1>7. ASSUME NEW a \in Addresses, s = <<"state", a>>
      PROVE  SlotTopic(s) \in PublishedTopics /\ SlotValue(s) \in Values
  <2>1. obs[a] \in OnOff
    BY <1>7 DEF Typed, Reports, Seen
  <2> QED
    BY <1>7, <2>1 DEF SlotTopic, SlotValue, PublishedTopics, RetainedTopics, State, Values, Words
<1>8. ASSUME NEW a \in Addresses, s = <<"confidence", a>>
      PROVE  SlotTopic(s) \in PublishedTopics /\ SlotValue(s) \in Values
  BY <1>8 DEF SlotTopic, SlotValue, PublishedTopics, RetainedTopics, Confidence, Values, Words
<1>9. ASSUME NEW a \in Addresses, s = <<"last_command", a>>
      PROVE  SlotTopic(s) \in PublishedTopics /\ SlotValue(s) \in Values
  BY <1>9 DEF SlotTopic, SlotValue, PublishedTopics, RetainedTopics, LastCommand, Typed, Reports
<1> QED
  BY <1>1, <1>2, <1>3, <1>4, <1>5, <1>6, <1>7, <1>8, <1>9 DEF PublicationSlot

\* The availabilities that update the cache.
LEMMA AvailabilityTyped ==
  ASSUME Typed, NEW s \in todo, s[1] \in {"availability", "changed"}
  PROVE  /\ s[2] \in Devices /\ SlotTopic(s) = DeviceAvail(s[2])
         /\ SlotValue(s)[1] \in Availability /\ SlotValue(s) = <<SlotValue(s)[1]>>
<1>1. PublicationSlot(s)
  BY SlotForms DEF Typed, Runtimes
<1>2. PICK d \in Devices : s = <<"availability", d>> \/ s = <<"changed", d>>
  BY <1>1 DEF PublicationSlot
<1>3. avail[d] \in Availability
  BY DEF Typed, Reports
<1>4. CASE s = <<"availability", d>>
  BY <1>3, <1>4 DEF SlotTopic, SlotValue, DeviceAvail, Offline, Availability
<1>5. CASE s = <<"changed", d>>
  BY <1>3, <1>5 DEF SlotTopic, SlotValue, DeviceAvail
<1> QED
  BY <1>2, <1>4, <1>5

-----------------------------------------------------------------------------
(***************************************************************************)
(* The steps of the environment.                                           *)
(***************************************************************************)
LEMMA InitTyped == Init => Typed
<1> SUFFICES ASSUME Init PROVE Typed
  OBVIOUS
<1> USE DEF Init
<1>1. Flags
  BY DEF Flags
<1>2. Counters
  BY DEF Counters
<1>3. Queues
  BY DEF Queues
<1>4. Broker
  BY DEF Broker, NoValue, Values
<1>5. Runtimes
  BY DEF Runtimes
<1>6. Reports
  BY BridgeAssumption DEF Reports, Availability, NoResult, Values
<1>7. Seen
  BY DEF Seen
<1> QED
  BY <1>1, <1>2, <1>3, <1>4, <1>5, <1>6, <1>7 DEF Typed

LEMMA NetworkTyped == ASSUME Typed, Network PROVE Typed'
<1> USE DEF Typed, network, process, backend, history
<1>1. Will \in [value : Values, run : Nat] /\ BridgeTopic \in RetainedTopics
  BY DEF Will, Values, Offline, Words, Availability, RetainedTopics
<1>2. {Connected, Disconnected, Fatal} \subseteq Events
  BY DEF Events
<1>3. CASE NetworkConnects
  <2> USE <1>3 DEF NetworkConnects
  <2>1. Flags'
    BY DEF Flags
  <2>2. Counters' /\ Runtimes' /\ Reports' /\ Seen'
    BY DEF Counters, Runtimes, Reports, Seen
  <2>3. Queues'
    BY <1>2, AppendProperties, LenProperties DEF Queues
  <2>4. Broker'
    BY <1>1 DEF Broker
  <2> QED
    BY <2>1, <2>2, <2>3, <2>4
<1>4. CASE NetworkRefused
  <2> USE <1>4 DEF NetworkRefused
  <2>1. Flags' /\ Runtimes' /\ Reports' /\ Seen' /\ Broker'
    BY DEF Flags, Runtimes, Reports, Seen, Broker
  <2>2. Counters'
    BY DEF Counters
  <2>3. Queues'
    BY <1>2, AppendProperties, LenProperties DEF Queues
  <2> QED
    BY <2>1, <2>2, <2>3
<1>5. CASE NetworkBreaks
  <2> USE <1>5 DEF NetworkBreaks
  <2>1. Flags' /\ Runtimes' /\ Reports' /\ Seen' /\ Broker'
    BY DEF Flags, Runtimes, Reports, Seen, Broker
  <2>2. Counters'
    BY DEF Counters
  <2>3. Queues'
    BY LenProperties DEF Queues
  <2> QED
    BY <2>1, <2>2, <2>3
<1>6. CASE NetworkNotices
  <2> USE <1>6 DEF NetworkNotices
  <2>1. Flags' /\ Counters' /\ Runtimes' /\ Reports' /\ Seen' /\ Broker'
    BY DEF Flags, Counters, Runtimes, Reports, Seen, Broker
  <2>2. Queues'
    BY <1>2, AppendProperties, LenProperties DEF Queues
  <2> QED
    BY <2>1, <2>2
<1>7. CASE BrokerPublishesWill
  <2> USE <1>7 DEF BrokerPublishesWill
  <2>1. Flags' /\ Counters' /\ Runtimes' /\ Reports' /\ Seen' /\ Queues'
    BY DEF Flags, Counters, Runtimes, Reports, Seen, Queues
  <2>2. Broker'
    BY <1>1 DEF Broker
  <2> QED
    BY <2>1, <2>2
<1>8. CASE BrokerReceives
  <2> USE <1>8 DEF BrokerReceives
  <2>1. Flags' /\ Counters' /\ Runtimes' /\ Reports' /\ Seen'
    BY DEF Flags, Counters, Runtimes, Reports, Seen
  <2>2. Queues'
    BY LenProperties DEF Queues
  <2>3. outbox[sent + 1] \in PublicationType
    BY LenProperties, ElementOfSeq DEF Queues
  <2>4. Broker'
    BY <2>3 DEF Broker, PublicationType
  <2> QED
    BY <2>1, <2>2, <2>4
<1>9. CASE BrokerAcknowledges
  <2> USE <1>9 DEF BrokerAcknowledges
  <2>1. Flags' /\ Counters' /\ Runtimes' /\ Reports' /\ Seen' /\ Broker'
    BY DEF Flags, Counters, Runtimes, Reports, Seen, Broker
  <2>2. outbox # <<>>
    BY DEF Queues
  <2>3. Queues'
    BY <2>2, HeadTailProperties, LenProperties DEF Queues
  <2> QED
    BY <2>1, <2>3
<1>10. CASE BrokerDelivers
  <2> USE <1>10 DEF BrokerDelivers
  <2>1. Flags' /\ Runtimes' /\ Reports' /\ Seen' /\ Broker'
    BY DEF Flags, Runtimes, Reports, Seen, Broker
  <2>2. Counters'
    BY DEF Counters
  <2>3. \A m \in Inputs : Message(m) \in Events
    BY BridgeAssumption DEF Events
  <2>4. Queues'
    BY <2>3, AppendProperties, LenProperties DEF Queues
  <2> QED
    BY <2>1, <2>2, <2>4
<1> QED
  BY <1>3, <1>4, <1>5, <1>6, <1>7, <1>8, <1>9, <1>10 DEF Network

LEMMA EnvironmentTyped == ASSUME Typed, Environment PROVE Typed'
<1> USE DEF Typed, network, process, backend, history, Goto
<1>1. CASE Signal
  <2> USE <1>1 DEF Signal
  <2>1. Flags'
    BY DEF Flags
  <2> QED
    BY <2>1 DEF Counters, Queues, Broker, Runtimes, Reports, Seen
<1>2. CASE Crash
  <2> USE <1>2 DEF Crash
  <2>1. Flags'
    BY DEF Flags
  <2>2. Queues'
    BY EmptySeq DEF Queues
  <2>3. Broker' /\ Runtimes' /\ Seen'
    BY DEF Broker, Runtimes, Seen
  <2> QED
    BY <2>1, <2>2, <2>3 DEF Counters, Reports
<1>3. CASE Restart
  <2> USE <1>3 DEF Restart
  <2>1. Flags'
    BY DEF Flags
  <2>2. Counters'
    BY DEF Counters
  <2>3. Runtimes' /\ Seen' /\ Broker' /\ Queues'
    BY DEF Runtimes, Seen, Broker, Queues
  <2>4. Reports'
    BY BridgeAssumption DEF Reports, Availability, NoResult, Values
  <2> QED
    BY <2>1, <2>2, <2>3, <2>4
<1> QED
  BY <1>1, <1>2, <1>3 DEF Environment

-----------------------------------------------------------------------------
(***************************************************************************)
(* The steps of the runtime thread.                                        *)
(***************************************************************************)
LEMMA TakeTyped ==
  ASSUME Typed, events # <<>>, events' = Tail(events), UNCHANGED <<outbox, sent>>
  PROVE  Queues'
  BY HeadTailProperties DEF Typed, Queues

LEMMA SnapshotTyped ==
  ASSUME Typed
  PROVE  /\ SnapshotSlots \subseteq Slots /\ SubscribeSlots \subseteq Slots
         /\ \A a \in Addresses : <<"state", a>> \in SnapshotSlots \cup SubscribeSlots =>
              obs[a] # NoObs
<1>1. SnapshotSlots \subseteq Slots /\ SubscribeSlots \subseteq Slots
  BY DEF SnapshotSlots, SubscribeSlots, Slots
<1>2. ASSUME NEW a \in Addresses, <<"state", a>> \in SnapshotSlots \cup SubscribeSlots
      PROVE  obs[a] # NoObs
  BY <1>2 DEF SnapshotSlots, SubscribeSlots, Observed
<1> QED
  BY <1>1, <1>2

LEMMA ChangedTyped ==
  ASSUME NEW state, NEW forced
  PROVE  /\ ChangedSlots(state, forced) \subseteq Slots
         /\ \A a \in Addresses : <<"state", a>> \notin ChangedSlots(state, forced)
<1>1. ChangedSlots(state, forced) \subseteq Slots
  BY DEF ChangedSlots, Slots
<1>2. ASSUME NEW a \in Addresses
      PROVE  <<"state", a>> \notin ChangedSlots(state, forced)
  BY DEF ChangedSlots
<1> QED
  BY <1>1, <1>2

\* What a command leaves is typed; it forgets no observation.
LEMMA OutcomeTyped ==
  ASSUME Typed, NEW a \in Addresses, NEW desired \in OnOff, NEW o \in Outcomes(a, desired)
  PROVE  /\ o.avail \in [Devices -> Availability]
         /\ o.obs \in [Addresses -> OnOff \cup {NoObs}]
         /\ \A b \in Addresses : obs[b] # NoObs => o.obs[b] # NoObs
         /\ o.status = "confirmed" => o.obs[a] # NoObs
         /\ <<desired, o.status>> \in Values
         /\ Mode[a] = "observable" => o.avail = avail
         /\ Mode[a] = "command_only" => o.obs = obs
<1> USE DEF Typed, Reports, Values, Words, Availability, OnOff, NoObs, AllDevices
<1>1. CASE Mode[a] = "observable"
  <2>1. \/ o = [status |-> "confirmed", avail |-> avail, obs |-> [obs EXCEPT ![a] = desired]]
        \/ o = [status |-> "rejected", avail |-> avail, obs |-> obs]
    BY <1>1 DEF Outcomes
  <2>2. CASE o = [status |-> "confirmed", avail |-> avail, obs |-> [obs EXCEPT ![a] = desired]]
    BY <1>1, <2>2
  <2>3. CASE o = [status |-> "rejected", avail |-> avail, obs |-> obs]
    BY <1>1, <2>3
  <2> QED
    BY <2>1, <2>2, <2>3
<1>2. CASE Mode[a] # "observable"
  <2>1. PICK p \in {<<"accepted", "online">>, <<"rejected", "online">>,
                    <<"rejected", "offline">>, <<"indeterminate", "offline">>} :
          o = [status |-> p[1], avail |-> AllDevices(p[2]), obs |-> obs]
    BY <1>2 DEF Outcomes
  <2>2. p[1] \in {"accepted", "rejected", "indeterminate"} /\ p[2] \in {"online", "offline"}
    OBVIOUS
  <2> QED
    BY <1>2, <2>1, <2>2
<1> QED
  BY <1>1, <1>2

LEMMA ExecuteTyped ==
  ASSUME Typed, NEW m \in Inputs, NEW a \in Addresses, m.payload \in OnOff, Execute(m, a),
         Takes(Message(m)), UNCHANGED <<network, loop, connected, published, stop, cause, run>>
  PROVE  Typed'
<1>1. PICK o \in Outcomes(a, m.payload) :
        /\ avail' = o.avail /\ obs' = o.obs
        /\ result' = [result EXCEPT ![a] = <<m.payload, o.status>>]
        /\ Enter("handle",
             IF Mode[a] = "command_only"
             THEN {<<"last_command", a>>} \cup ChangedSlots(o.avail, {DeviceOf[a]})
             ELSE IF o.status = "confirmed"
                  THEN {<<"state", a>>, <<"confidence", a>>} ELSE {})
  BY DEF Execute
<1> USE DEF network
<1>2. Flags'
  BY DEF Typed, Flags, Execute
<1>3. Counters'
  BY DEF Typed, Counters, Execute
<1>4. Queues'
  BY TakeTyped DEF Takes
<1>5. Broker'
  BY DEF Typed, Broker
<1>6. Reports'
  <2>1. avail' \in [Devices -> Availability] /\ obs' \in [Addresses -> OnOff \cup {NoObs}]
    BY <1>1, OutcomeTyped
  <2>2. result' \in [Addresses -> Values]
    BY <1>1, OutcomeTyped DEF Typed, Reports
  <2> QED
    BY <2>1, <2>2 DEF Reports
<1>7. todo' \subseteq Slots /\ Seen'
  <2>1. CASE Mode[a] = "command_only"
    BY <1>1, <2>1, ChangedTyped DEF Enter, Slots, Seen
  <2>2. CASE Mode[a] # "command_only" /\ o.status = "confirmed"
    <3>1. obs'[a] # NoObs
      BY <1>1, <2>2, OutcomeTyped
    <3>2. todo' = {<<"state", a>>, <<"confidence", a>>}
      BY <1>1, <2>2 DEF Enter
    <3> QED
      BY <3>1, <3>2 DEF Slots, Seen
  <2>3. CASE Mode[a] # "command_only" /\ o.status # "confirmed"
    BY <1>1, <2>3 DEF Enter, Seen
  <2> QED
    BY <2>1, <2>2, <2>3
<1>8. Runtimes'
  BY <1>1, <1>7 DEF Typed, Runtimes, Enter
<1> QED
  BY <1>2, <1>3, <1>4, <1>5, <1>6, <1>7, <1>8 DEF Typed

\* A step that only enters a part of the loop, after taking an event.
LEMMA EnterTyped ==
  ASSUME Typed, Queues', NEW part \in {"handle", "publish"}, NEW calls \in SUBSET Slots,
         Enter(part, calls), connected' \in BOOLEAN,
         \A a \in Addresses : <<"state", a>> \in calls => obs[a] # NoObs,
         UNCHANGED <<network, loop, published, stop, cause, run, backend, history>>
  PROVE  Typed'
<1> USE DEF Typed, network, backend, history, Enter
<1>1. Flags' /\ Counters' /\ Broker' /\ Reports' /\ Seen'
  BY DEF Flags, Counters, Broker, Reports, Seen
<1>2. Runtimes'
  BY DEF Runtimes
<1> QED
  BY <1>1, <1>2

LEMMA HandlersTyped ==
  ASSUME Typed, HandleConnected \/ HandleDisconnected \/ HandleFatal \/ HandleMessage
  PROVE  Typed'
<1>1. CASE HandleConnected
  <2>1. Queues'
    BY <1>1, TakeTyped DEF HandleConnected, Takes, network
  <2> QED
    BY <1>1, <2>1, EnterTyped, SnapshotTyped DEF HandleConnected
<1>2. CASE HandleDisconnected
  <2>1. Queues'
    BY <1>2, TakeTyped DEF HandleDisconnected, Takes, network
  <2>2. Enter("handle", {}) /\ connected' \in BOOLEAN
    BY <1>2 DEF HandleDisconnected
  <2> QED
    BY <1>2, <2>1, <2>2, EnterTyped DEF HandleDisconnected
<1>3. CASE HandleFatal
  <2> USE <1>3 DEF HandleFatal, Raise, Goto, Typed, network, backend, history
  <2>1. Queues'
    BY TakeTyped DEF Takes
  <2>2. Flags' /\ Counters' /\ Broker' /\ Reports' /\ Seen' /\ Runtimes'
    BY DEF Flags, Counters, Broker, Reports, Seen, Runtimes
  <2> QED
    BY <2>1, <2>2
<1>4. CASE HandleMessage
  <2>1. PICK m \in Inputs :
          /\ Takes(Message(m))
          /\ \/ /\ connected /\ m.topic = StatusTopic /\ m.payload = "online"
                /\ Enter("handle", SnapshotSlots) /\ UNCHANGED <<backend, history>>
             \/ connected /\ \E a \in Addresses : Executable(m, a) /\ Execute(m, a)
             \/ (connected => Ignored(m)) /\ Enter("handle", {})
                /\ UNCHANGED <<backend, history>>
    BY <1>4 DEF HandleMessage
  <2>2. UNCHANGED <<network, loop, connected, published, stop, cause, run>>
    BY <1>4 DEF HandleMessage
  <2>3. Queues'
    BY <2>1, <2>2, TakeTyped DEF Takes, network
  <2>4. connected' \in BOOLEAN
    BY <2>2 DEF Typed, Flags
  <2>5. CASE Enter("handle", SnapshotSlots) /\ UNCHANGED <<backend, history>>
    BY <2>2, <2>3, <2>4, <2>5, EnterTyped, SnapshotTyped
  <2>6. CASE Enter("handle", {}) /\ UNCHANGED <<backend, history>>
    BY <2>2, <2>3, <2>4, <2>6, EnterTyped
  <2>7. ASSUME NEW a \in Addresses, Executable(m, a), Execute(m, a)
        PROVE  Typed'
    BY <2>1, <2>2, <2>7, ExecuteTyped DEF Executable
  <2> QED
    BY <2>1, <2>5, <2>6, <2>7
<1> QED
  BY <1>1, <1>2, <1>3, <1>4

LEMMA TransportCallTyped == ASSUME Typed, TransportCall PROVE Typed'
<1>1. PICK s \in todo : IsNext(s) /\ (Subscribe(s) \/ Publish(s))
  BY DEF TransportCall
<1> USE DEF Typed, TransportCall, backend, history
<1>2. Flags' /\ Counters' /\ Reports'
  BY DEF Flags, Counters, Reports
<1>3. /\ pc' \in {"head", "refresh", "handle", "publish", "close"} /\ todo' \subseteq todo
      /\ cause' \in {cause, "no_connection"}
  BY <1>1 DEF Subscribe, Publish, Enter, Raise, Goto
<1>4. Seen'
  BY <1>3 DEF Seen
<1>5. published' \in [Devices -> Availability \cup {"none"}]
  <2>1. CASE published' = published
    BY <2>1 DEF Runtimes
  <2>2. CASE published' # published
    <3>1. s[1] \in {"availability", "changed"} /\ published' = [published EXCEPT ![s[2]] = SlotValue(s)[1]]
      BY <1>1, <2>2 DEF Subscribe, Publish
    <3> QED
      BY <3>1, AvailabilityTyped DEF Runtimes
  <2> QED
    BY <2>1, <2>2
<1>6. Runtimes'
  BY <1>3, <1>5 DEF Runtimes
<1>7. Broker'
  <2>1. CASE Subscribe(s)
    BY <2>1, SubscribeTyped DEF Subscribe, Broker, Runtimes
  <2>2. CASE Publish(s)
    BY <2>2 DEF Publish, Broker
  <2> QED
    BY <1>1, <2>1, <2>2
<1>8. Queues'
  <2>1. CASE Subscribe(s)
    BY <2>1 DEF Subscribe, Queues
  <2>2. CASE Publish(s)
    <3>1. Publication(SlotTopic(s), SlotValue(s)) \in PublicationType
      BY <2>2, SlotTyped DEF Publish, Publication, PublicationType, Counters
    <3> QED
      BY <2>2, <3>1, AppendProperties, LenProperties DEF Publish, Queues
  <2> QED
    BY <1>1, <2>1, <2>2
<1> QED
  BY <1>2, <1>4, <1>6, <1>7, <1>8

LEMMA RuntimeTyped == ASSUME Typed, Runtime PROVE Typed'
<1> USE DEF Typed, network, backend, history, Goto
<1>1. CASE Connect
  <2> USE <1>1 DEF Connect, Raise
  <2>1. Flags'
    BY DEF Flags
  <2>2. Counters'
    BY DEF Counters
  <2> QED
    BY <2>1, <2>2 DEF Queues, Broker, Runtimes, Reports, Seen
<1>2. CASE LoopHead
  BY <1>2 DEF LoopHead, Flags, Counters, Queues, Broker, Runtimes, Reports, Seen
<1>3. CASE GetStopped
  <2> USE <1>3 DEF GetStopped
  <2>1. connected' \in BOOLEAN
    BY DEF Flags
  <2>2. Queues'
    BY TakeTyped DEF Queues
  <2> QED
    BY <2>1, <2>2 DEF Flags, Counters, Broker, Runtimes, Reports, Seen
<1>4. CASE GetNothing
  BY <1>4 DEF GetNothing, Flags, Counters, Queues, Broker, Runtimes, Reports, Seen
<1>5. CASE HandleConnected \/ HandleDisconnected \/ HandleFatal \/ HandleMessage
  BY <1>5, HandlersTyped
<1>6. CASE Refresh
  <2> USE <1>6 DEF Refresh
  <2>1. Flags'
    BY DEF Flags
  <2>2. Counters'
    BY DEF Counters
  <2>3. Queues' /\ Broker'
    BY DEF Queues, Broker
  <2>4. Reports'
    BY DEF Reports, AllDevices, Availability
  <2>5. todo' \subseteq Slots /\ \A a \in Addresses : <<"state", a>> \notin todo'
    BY ChangedTyped DEF Enter
  <2>6. Runtimes' /\ Seen'
    BY <2>5 DEF Runtimes, Seen, Enter
  <2> QED
    BY <2>1, <2>2, <2>3, <2>4, <2>6
<1>7. CASE TransportCall
  BY <1>7, TransportCallTyped
<1>8. CASE Close
  <2> USE <1>8 DEF Close
  <2>1. Publication(BridgeTopic, Offline) \in PublicationType
    BY DEF Publication, PublicationType, PublishedTopics, RetainedTopics, Values, Words,
       Availability, Offline, Counters
  <2>2. Queues'
    <3>1. CASE connected
      <4>1. outbox' = Append(outbox, Publication(BridgeTopic, Offline))
        BY <3>1
      <4> QED
        BY <2>1, <4>1, AppendProperties, LenProperties DEF Queues
    <3>2. CASE ~connected
      BY <3>2 DEF Queues
    <3> QED
      BY <3>1, <3>2
  <2> QED
    BY <2>2 DEF Flags, Counters, Broker, Runtimes, Reports, Seen
<1>9. CASE AwaitDelivery
  BY <1>9 DEF AwaitDelivery, Flags, Counters, Queues, Broker, Runtimes, Reports, Seen
<1>10. CASE CloseBackend
  <2> USE <1>10 DEF CloseBackend
  <2>1. Flags'
    BY DEF Flags
  <2>2. Reports'
    BY DEF Reports, AllDevices, Availability
  <2> QED
    BY <2>1, <2>2 DEF Counters, Queues, Broker, Runtimes, Seen
<1>11. CASE Disconnect
  <2> USE <1>11 DEF Disconnect
  <2>1. Flags'
    BY DEF Flags
  <2>2. Queues'
    BY EmptySeq DEF Queues
  <2> QED
    BY <2>1, <2>2 DEF Counters, Broker, Runtimes, Reports, Seen
<1> QED
  BY <1>1, <1>2, <1>3, <1>4, <1>5, <1>6, <1>7, <1>8, <1>9, <1>10, <1>11 DEF Runtime

LEMMA StepTyped == Typed /\ [Next]_vars => Typed'
<1>1. ASSUME Typed, UNCHANGED vars PROVE Typed'
  BY <1>1 DEF vars, network, process, backend, history, Typed, Flags, Counters, Queues,
     Broker, Runtimes, Reports, Seen
<1> QED
  BY <1>1, RuntimeTyped, NetworkTyped, EnvironmentTyped DEF Next, Terminated

\* The variables of the bridge, of Paho and of the broker keep their types.
THEOREM TypeCorrect == Spec => []TypeOK
<1>1. Spec => []Typed
  BY InitTyped, StepTyped, PTL DEF Spec
<1> QED
  BY <1>1, TypedIsTypeOK, PTL

-----------------------------------------------------------------------------
(***************************************************************************)
(* The value a broker that holds kept will hold for topic t once it has    *)
(* received all of box: the last publication for t, if there is one.  This *)
(* says what Eventual computes without choosing that last publication.     *)
(***************************************************************************)
LastFor(box, i, t) == box[i].topic = t /\ \A j \in i + 1 .. Len(box) : box[j].topic # t

Final(box, kept, t, v) ==
  \/ \E i \in 1 .. Len(box) : LastFor(box, i, t) /\ box[i].value = v
  \/ (\A i \in 1 .. Len(box) : box[i].topic # t) /\ kept[t].value = v

\* What the broker has received on this connection is what it holds, and what it
\* has received it has on this connection.
Mirror ==
  /\ link # "up" => sent = 0
  /\ \A i \in 1 .. sent :
       /\ outbox[i].topic \in RetainedTopics
       /\ \A j \in i + 1 .. sent : outbox[j].topic # outbox[i].topic
       => retained[outbox[i].topic].value = outbox[i].value

-----------------------------------------------------------------------------
LEMMA FinalIsEventual ==
  ASSUME Typed, NEW t, NEW v, Final(outbox, retained, t, v)
  PROVE  Eventual(t) = v
<1> DEFINE later == {i \in 1 .. Len(outbox) : outbox[i].topic = t}
<1>1. Len(outbox) \in Nat
  BY LenProperties DEF Typed, Queues
<1>2. CASE later = {}
  BY <1>2 DEF Eventual, Final, LastFor
<1>3. CASE later # {}
  <2>1. PICK i \in 1 .. Len(outbox) : LastFor(outbox, i, t) /\ outbox[i].value = v
    BY <1>3 DEF Final
  <2>2. i \in later /\ \A j \in later : j <= i
    BY <1>1, <2>1 DEF LastFor
  <2>3. ASSUME NEW k \in later, \A j \in later : j <= k
        PROVE  k = i
    BY <1>1, <2>2, <2>3
  <2>4. (CHOOSE k \in later : \A j \in later : j <= k) = i
    BY <2>2, <2>3
  <2> QED
    BY <1>3, <2>1, <2>4 DEF Eventual
<1> QED
  BY <1>2, <1>3

\* With nothing to send it is what the broker holds.
LEMMA FinalOfNothing ==
  ASSUME NEW kept, NEW t, NEW v, Final(<<>>, kept, t, v)
  PROVE  kept[t].value = v
  BY DEF Final

LEMMA FinalAppend ==
  ASSUME NEW box \in Seq(PublicationType), NEW p \in PublicationType, NEW kept, NEW t, NEW v
  PROVE  /\ p.topic = t /\ p.value = v => Final(Append(box, p), kept, t, v)
         /\ p.topic # t /\ Final(box, kept, t, v) => Final(Append(box, p), kept, t, v)
<1> DEFINE more == Append(box, p)
<1>1. /\ Len(box) \in Nat /\ Len(more) = Len(box) + 1 /\ more[Len(box) + 1] = p
      /\ \A i \in 1 .. Len(box) : more[i] = box[i]
  BY AppendProperties, LenProperties
<1> HIDE DEF more
<1>2. ASSUME p.topic = t, p.value = v PROVE Final(more, kept, t, v)
  BY <1>1, <1>2 DEF Final, LastFor
<1>3. ASSUME p.topic # t, Final(box, kept, t, v) PROVE Final(more, kept, t, v)
  <2>1. CASE \E i \in 1 .. Len(box) : LastFor(box, i, t) /\ box[i].value = v
    <3>1. PICK i \in 1 .. Len(box) : LastFor(box, i, t) /\ box[i].value = v
      BY <2>1
    <3>2. i \in 1 .. Len(more) /\ LastFor(more, i, t) /\ more[i].value = v
      BY <1>1, <1>3, <3>1 DEF LastFor
    <3> QED
      BY <3>2 DEF Final
  <2>2. CASE (\A i \in 1 .. Len(box) : box[i].topic # t) /\ kept[t].value = v
    BY <1>1, <1>3, <2>2 DEF Final
  <2> QED
    BY <1>3, <2>1, <2>2 DEF Final
<1> QED
  BY <1>2, <1>3 DEF more

\* The will changes nothing but the bridge's own topic.
LEMMA FinalAfterWill ==
  ASSUME Typed, retained' = [retained EXCEPT ![BridgeTopic] = Will], UNCHANGED outbox,
         NEW t \in RetainedTopics, NEW v, Final(outbox, retained, t, v),
         t # BridgeTopic \/ v = Offline
  PROVE  Final(outbox', retained', t, v)
<1>1. retained'[t].value = IF t = BridgeTopic THEN Offline ELSE retained[t].value
  BY DEF Typed, Broker, Will
<1> QED
  BY <1>1 DEF Final, LastFor

LEMMA FinalAfterReceiving ==
  ASSUME Typed, BrokerReceives, NEW t \in RetainedTopics, NEW v,
         Final(outbox, retained, t, v)
  PROVE  Final(outbox', retained', t, v)
<1>1. outbox' = outbox /\ sent + 1 \in 1 .. Len(outbox)
  BY LenProperties DEF Typed, Queues, BrokerReceives
<1>2. outbox[sent + 1].topic # t => retained'[t] = retained[t]
  BY DEF BrokerReceives, Typed, Broker
<1> QED
  BY <1>1, <1>2 DEF Final, LastFor

LEMMA FinalAfterAcknowledging ==
  ASSUME Typed, Mirror, BrokerAcknowledges, NEW t \in RetainedTopics, NEW v,
         Final(outbox, retained, t, v)
  PROVE  Final(outbox', retained', t, v)
<1>1. /\ outbox # <<>> /\ outbox' = Tail(outbox) /\ retained' = retained
      /\ sent \in 1 .. Len(outbox) /\ Len(outbox) \in Nat
  BY LenProperties DEF Typed, Queues, BrokerAcknowledges
<1>2. /\ Len(outbox') = Len(outbox) - 1
      /\ \A i \in 1 .. Len(outbox') : outbox'[i] = outbox[i + 1]
  BY <1>1, HeadTailProperties DEF Typed, Queues
<1>3. ASSUME NEW i \in 1 .. Len(outbox), LastFor(outbox, i, t), outbox[i].value = v, i > 1
      PROVE  Final(outbox', retained', t, v)
  <2>1. i - 1 \in 1 .. Len(outbox') /\ LastFor(outbox', i - 1, t) /\ outbox'[i - 1].value = v
    BY <1>1, <1>2, <1>3 DEF LastFor
  <2> QED
    BY <2>1 DEF Final
<1>4. ASSUME LastFor(outbox, 1, t), outbox[1].value = v
      PROVE  Final(outbox', retained', t, v)
  <2>1. \A i \in 1 .. Len(outbox') : outbox'[i].topic # t
    BY <1>1, <1>2, <1>4 DEF LastFor
  <2>2. retained[t].value = v
    BY <1>1, <1>4 DEF LastFor, Mirror
  <2> QED
    BY <1>1, <2>1, <2>2 DEF Final
<1>5. ASSUME \A i \in 1 .. Len(outbox) : outbox[i].topic # t, retained[t].value = v
      PROVE  Final(outbox', retained', t, v)
  BY <1>1, <1>2, <1>5 DEF Final
<1> QED
  BY <1>3, <1>4, <1>5 DEF Final

\* No step of the network loses a value that is on its way to the broker.
LEMMA NetworkDelivers ==
  ASSUME Typed, Mirror, Network, NEW t \in RetainedTopics, NEW v,
         Final(outbox, retained, t, v), t # BridgeTopic \/ v = Offline \/ link = "up"
  PROVE  Final(outbox', retained', t, v)
<1>1. CASE NetworkConnects
  BY <1>1, FinalAfterWill DEF NetworkConnects
<1>2. CASE BrokerPublishesWill
  BY <1>2, FinalAfterWill DEF BrokerPublishesWill
<1>3. CASE BrokerReceives
  BY <1>3, FinalAfterReceiving
<1>4. CASE BrokerAcknowledges
  BY <1>4, FinalAfterAcknowledging
<1>5. CASE NetworkRefused \/ NetworkBreaks \/ NetworkNotices \/ BrokerDelivers
  BY <1>5 DEF NetworkRefused, NetworkBreaks, NetworkNotices, BrokerDelivers, network
<1> QED
  BY <1>1, <1>2, <1>3, <1>4, <1>5 DEF Network

-----------------------------------------------------------------------------
LEMMA MirrorKept == Typed /\ Mirror /\ [Next]_vars => Mirror'
<1> SUFFICES ASSUME Typed, Mirror, [Next]_vars PROVE Mirror'
  OBVIOUS
<1>1. /\ Len(outbox) \in Nat /\ sent \in 0 .. Len(outbox) /\ outbox \in Seq(PublicationType)
      /\ link \in {"down", "half", "up"}
  BY LenProperties DEF Typed, Queues, Broker
<1>2. ASSUME sent' = 0 PROVE Mirror'
  BY <1>2 DEF Mirror
<1>3. CASE BrokerPublishesWill
  BY <1>1, <1>3, <1>2 DEF BrokerPublishesWill, Mirror
<1>4. CASE BrokerReceives
  <2>1. sent' = sent + 1 /\ outbox' = outbox /\ link' = "up" /\ sent + 1 \in 1 .. Len(outbox)
    BY <1>1, <1>4 DEF BrokerReceives
  <2>2. SUFFICES ASSUME NEW i \in 1 .. sent + 1, outbox[i].topic \in RetainedTopics,
                        \A j \in i + 1 .. sent + 1 : outbox[j].topic # outbox[i].topic
                 PROVE  retained'[outbox[i].topic].value = outbox[i].value
    BY <2>1 DEF Mirror
  <2>3. CASE i = sent + 1
    BY <1>4, <2>2, <2>3 DEF BrokerReceives, Typed, Broker
  <2>4. CASE i # sent + 1
    <3>1. i \in 1 .. sent /\ outbox[sent + 1].topic # outbox[i].topic
      BY <1>1, <2>2, <2>4
    <3>2. retained'[outbox[i].topic] = retained[outbox[i].topic]
      BY <1>4, <2>2, <3>1 DEF BrokerReceives, Typed, Broker
    <3> QED
      BY <1>1, <2>2, <3>1, <3>2 DEF Mirror
  <2> QED
    BY <2>3, <2>4
<1>5. CASE BrokerAcknowledges
  <2>1. /\ outbox # <<>> /\ outbox' = Tail(outbox) /\ retained' = retained
        /\ sent' = sent - 1 /\ link' = link /\ link = "up" /\ sent > 0
    BY <1>1, <1>5 DEF BrokerAcknowledges
  <2>2. \A i \in 1 .. sent - 1 : outbox'[i] = outbox[i + 1]
    BY <1>1, <2>1, HeadTailProperties
  <2>3. SUFFICES ASSUME NEW i \in 1 .. sent - 1, outbox'[i].topic \in RetainedTopics,
                        \A j \in i + 1 .. sent - 1 : outbox'[j].topic # outbox'[i].topic
                 PROVE  retained[outbox'[i].topic].value = outbox'[i].value
    BY <2>1 DEF Mirror
  <2>4. i + 1 \in 1 .. sent /\ outbox'[i] = outbox[i + 1]
    BY <1>1, <2>2
  <2>5. \A j \in i + 2 .. sent : outbox[j].topic # outbox[i + 1].topic
    <3> SUFFICES ASSUME NEW j \in i + 2 .. sent PROVE outbox[j].topic # outbox[i + 1].topic
      OBVIOUS
    <3>1. j - 1 \in i + 1 .. sent - 1 /\ outbox'[j - 1] = outbox[j]
      BY <1>1, <2>2
    <3> QED
      BY <2>3, <2>4, <3>1
  <2> QED
    BY <1>1, <2>3, <2>4, <2>5 DEF Mirror
<1>6. ASSUME NEW p \in PublicationType, outbox' = Append(outbox, p),
             UNCHANGED <<link, sent, retained>>
      PROVE  Mirror'
  <2>1. \A i \in 1 .. sent : outbox'[i] = outbox[i]
    BY <1>1, <1>6, AppendProperties
  <2> QED
    BY <1>1, <1>6, <2>1 DEF Mirror
<1>7. ASSUME UNCHANGED <<link, sent, retained, outbox>>
      PROVE  Mirror'
  BY <1>7 DEF Mirror
<1>8. CASE TransportCall
  <2>1. PICK s \in todo : Subscribe(s) \/ Publish(s)
    BY <1>8 DEF TransportCall
  <2>2. CASE Subscribe(s)
    BY <1>7, <1>8, <2>2 DEF Subscribe, TransportCall
  <2>3. CASE Publish(s)
    <3>1. Publication(SlotTopic(s), SlotValue(s)) \in PublicationType
      BY <2>3, SlotTyped DEF Publish, Publication, PublicationType, Typed, Counters
    <3> QED
      BY <1>6, <1>8, <2>3, <3>1 DEF Publish, TransportCall
  <2> QED
    BY <2>1, <2>2, <2>3
<1>9. CASE Close
  <2>1. Publication(BridgeTopic, Offline) \in PublicationType
    BY DEF Publication, PublicationType, PublishedTopics, RetainedTopics, Values, Words,
       Availability, Offline, Typed, Counters
  <2> QED
    BY <1>6, <1>7, <1>9, <2>1 DEF Close
<1>10. CASE NetworkConnects \/ NetworkBreaks \/ Disconnect \/ Crash
  BY <1>2, <1>10 DEF NetworkConnects, NetworkBreaks, Disconnect, Crash
<1>11. CASE NetworkNotices
  BY <1>11 DEF NetworkNotices, Mirror
<1>12. CASE \/ NetworkRefused \/ BrokerDelivers \/ Connect \/ LoopHead \/ GetStopped
            \/ GetNothing \/ HandleConnected \/ HandleDisconnected \/ HandleFatal
            \/ HandleMessage \/ Refresh \/ AwaitDelivery \/ CloseBackend \/ Signal
            \/ Restart \/ UNCHANGED vars
  BY <1>7, <1>12 DEF NetworkRefused, BrokerDelivers, Connect, LoopHead, GetStopped,
     GetNothing, HandleConnected, HandleDisconnected, HandleFatal, HandleMessage, Refresh,
     AwaitDelivery, CloseBackend, Signal, Restart, vars, network
<1> QED
  BY <1>3, <1>4, <1>5, <1>8, <1>9, <1>10, <1>11, <1>12 DEF Next, Runtime, Network,
     Environment, Terminated

-----------------------------------------------------------------------------
(***************************************************************************)
(* Steps of the runtime thread that touch neither Paho nor the broker.     *)
(***************************************************************************)
Local == \/ Connect \/ LoopHead \/ GetStopped \/ GetNothing \/ HandleConnected
         \/ HandleDisconnected \/ HandleFatal \/ HandleMessage \/ Refresh
         \/ AwaitDelivery \/ CloseBackend \/ Signal

LEMMA StepForms ==
  [Next]_vars => \/ Network \/ TransportCall \/ Close \/ Disconnect \/ Crash \/ Restart
                 \/ Local \/ UNCHANGED vars
  BY DEF Next, Runtime, Environment, Terminated, Local

LEMMA LocalKeeps == Local => UNCHANGED <<network, published, run>>
  BY DEF Local, Connect, LoopHead, GetStopped, GetNothing, HandleConnected,
     HandleDisconnected, HandleFatal, HandleMessage, Refresh, AwaitDelivery, CloseBackend,
     Signal

LEMMA NetworkKeeps ==
  Network => UNCHANGED <<pc, todo, connected, published, stop, cause, run, backend, executed>>
  BY DEF Network, NetworkConnects, NetworkRefused, NetworkBreaks, NetworkNotices,
     BrokerPublishesWill, BrokerReceives, BrokerAcknowledges, BrokerDelivers, process, history

LEMMA PublicationTyped ==
  ASSUME Typed, NEW s \in todo, Publish(s)
  PROVE  Publication(SlotTopic(s), SlotValue(s)) \in PublicationType
  BY SlotTyped DEF Publish, Publication, PublicationType, Typed, Counters

LEMMA PublishFinal ==
  ASSUME Typed, NEW s \in todo, Publish(s), retained' = retained, NEW t, NEW v
  PROVE  /\ SlotTopic(s) = t /\ SlotValue(s) = v => Final(outbox', retained', t, v)
         /\ SlotTopic(s) # t /\ Final(outbox, retained, t, v) => Final(outbox', retained', t, v)
<1>1. outbox \in Seq(PublicationType) /\ outbox' = Append(outbox, Publication(SlotTopic(s), SlotValue(s)))
  BY DEF Typed, Queues, Publish
<1> QED
  BY <1>1, PublicationTyped, FinalAppend DEF Publication

\* Which slots publish on a topic.
LEMMA SlotOfTopic ==
  ASSUME Typed, NEW s \in todo, s[1] # "subscribe"
  PROVE  /\ SlotTopic(s) = BridgeTopic => s = <<"offline", 0>> \/ s = <<"online", 0>>
         /\ \A d \in Devices : SlotTopic(s) = DeviceAvail(d) =>
              s = <<"availability", d>> \/ s = <<"changed", d>>
         /\ \A a \in Addresses : /\ SlotTopic(s) = State(a) => s = <<"state", a>>
                                 /\ SlotTopic(s) = LastCommand(a) => s = <<"last_command", a>>
<1>1. PublicationSlot(s)
  BY SlotForms DEF Typed, Runtimes
<1> QED
  BY <1>1 DEF PublicationSlot, SlotTopic, BridgeTopic, DeviceAvail, State, LastCommand

-----------------------------------------------------------------------------
(***************************************************************************)
(* The calls of a handler.                                                 *)
(***************************************************************************)
\* Only a handler and the publication of changes have calls to make; a snapshot
\* that starts by saying offline ends by saying online.
Quiet == /\ pc \notin {"handle", "publish"} => todo = {}
         /\ pc \in {"handle", "publish"} => connected
         /\ <<"offline", 0>> \in todo => <<"online", 0>> \in todo

LEMMA OnlineIsLast ==
  ASSUME <<"online", 0>> \in todo, IsNext(<<"online", 0>>), Typed
  PROVE  todo = {<<"online", 0>>}
<1> SUFFICES ASSUME NEW t \in todo, t # <<"online", 0>> PROVE FALSE
  OBVIOUS
<1>1. Order(<<"online", 0>>) = <<7, 0, 0>>
  BY DEF Order
<1>2. IF t[1] = "subscribe" THEN TRUE ELSE PublicationSlot(t)
  BY SlotForms DEF Typed, Runtimes
<1>3. Order(t)[1] \in 1 .. 6
  BY <1>2 DEF Order, PublicationSlot
<1> QED
  BY <1>1, <1>3 DEF IsNext, Before

LEMMA ChangedSlotsKind ==
  ASSUME NEW state, NEW forced
  PROVE  \A s \in ChangedSlots(state, forced) : \E d \in Devices : s = <<"changed", d>>
  BY DEF ChangedSlots

LEMMA QuietKept == Typed /\ Quiet /\ [Next]_vars => Quiet'
<1> SUFFICES ASSUME Typed, Quiet, [Next]_vars PROVE Quiet'
  OBVIOUS
<1>1. ASSUME todo' = {}, pc' \notin {"handle", "publish"} PROVE Quiet'
  BY <1>1 DEF Quiet
<1>2. ASSUME NEW part \in {"handle", "publish"}, NEW calls, Enter(part, calls),
             calls # {} => connected', <<"offline", 0>> \in calls => <<"online", 0>> \in calls
      PROVE  Quiet'
  BY <1>2 DEF Enter, Quiet
<1>3. CASE Network \/ UNCHANGED vars
  BY <1>3, NetworkKeeps DEF Quiet, vars, process
<1>4. CASE TransportCall
  <2>1. PICK s \in todo : IsNext(s) /\ (Subscribe(s) \/ Publish(s))
    BY <1>4 DEF TransportCall
  <2>2. pc \in {"handle", "publish"} /\ connected' = connected /\ connected
    BY <1>4 DEF TransportCall, Quiet
  <2>3. CASE Enter(pc, todo \ {s})
    <3>1. <<"offline", 0>> \in todo \ {s} => <<"online", 0>> \in todo \ {s}
      BY <2>1, OnlineIsLast DEF Quiet
    <3> QED
      BY <1>2, <2>2, <2>3, <3>1
  <2>4. CASE Raise("no_connection")
    BY <1>1, <2>4 DEF Raise, Goto
  <2> QED
    BY <2>1, <2>3, <2>4 DEF Subscribe, Publish
<1>5. CASE HandleConnected
  <2>1. connected' = TRUE /\ Enter("handle", SubscribeSlots \cup SnapshotSlots)
    BY <1>5 DEF HandleConnected
  <2>2. <<"online", 0>> \in SubscribeSlots \cup SnapshotSlots
    BY DEF SnapshotSlots
  <2> QED
    BY <1>2, <2>1, <2>2
<1>6. CASE HandleDisconnected
  BY <1>2, <1>6 DEF HandleDisconnected
<1>7. CASE HandleMessage
  <2>1. connected' = connected
    BY <1>7 DEF HandleMessage
  <2>2. <<"online", 0>> \in SnapshotSlots
    BY DEF SnapshotSlots
  <2>3. ASSUME NEW m \in Inputs, NEW a \in Addresses, Execute(m, a), connected
        PROVE  Quiet'
    <3>1. PICK calls : Enter("handle", calls) /\ <<"offline", 0>> \notin calls
      <4> DEFINE calls(o) ==
            IF Mode[a] = "command_only"
            THEN {<<"last_command", a>>} \cup ChangedSlots(o.avail, {DeviceOf[a]})
            ELSE IF o.status = "confirmed"
                 THEN {<<"state", a>>, <<"confidence", a>>} ELSE {}
      <4>1. PICK o \in Outcomes(a, m.payload) : Enter("handle", calls(o))
        BY <2>3 DEF Execute
      <4>2. <<"offline", 0>> \notin calls(o)
        BY ChangedSlotsKind
      <4> QED
        BY <4>1, <4>2
    <3> QED
      BY <1>2, <2>1, <2>3, <3>1
  <2> QED
    BY <1>2, <1>7, <2>1, <2>2, <2>3 DEF HandleMessage
<1>8. CASE Refresh
  <2>1. PICK calls : /\ Enter("publish", calls) /\ (calls # {} => connected)
                     /\ <<"offline", 0>> \notin calls
    <3>1. CASE connected /\ Refreshable
      BY <1>8, <3>1, ChangedSlotsKind DEF Refresh
    <3>2. CASE ~(connected /\ Refreshable)
      BY <1>8, <3>2 DEF Refresh
    <3> QED
      BY <3>1, <3>2
  <2>2. connected' = connected
    BY <1>8 DEF Refresh
  <2> QED
    BY <1>2, <2>1, <2>2
<1>9. CASE Signal
  BY <1>9 DEF Signal, Quiet
<1>10. CASE \/ Connect \/ LoopHead \/ GetStopped \/ GetNothing \/ HandleFatal \/ AwaitDelivery
            \/ CloseBackend \/ Close \/ Disconnect \/ Crash \/ Restart
  BY <1>1, <1>10 DEF Connect, LoopHead, GetStopped, GetNothing, HandleFatal, AwaitDelivery,
     CloseBackend, Close, Disconnect, Crash, Restart, Raise, Goto
<1> QED
  BY <1>3, <1>4, <1>5, <1>6, <1>7, <1>8, <1>9, <1>10, StepForms DEF Local

-----------------------------------------------------------------------------
(***************************************************************************)
(* CacheMatchesBroker.                                                     *)
(***************************************************************************)
Started == InLoop \/ pc = "start"

Cached == Started => \A d \in Devices :
  published[d] # "none" => Final(outbox, retained, DeviceAvail(d), <<published[d]>>)

LEMMA CachedKept == Typed /\ Mirror /\ Cached /\ [Next]_vars => Cached'
<1> SUFFICES ASSUME Typed, Mirror, Cached, [Next]_vars, Started', NEW d \in Devices,
                    published'[d] # "none"
             PROVE  Final(outbox', retained', DeviceAvail(d), <<published'[d]>>)
  BY DEF Cached
<1> DEFINE Holds(x) == Final(outbox, retained, DeviceAvail(d), <<x>>)
<1>1. DeviceAvail(d) \in RetainedTopics /\ DeviceAvail(d) # BridgeTopic
  BY DEF RetainedTopics, DeviceAvail, BridgeTopic
<1>2. CASE Network
  <2>1. published' = published /\ Started
    BY <1>2, NetworkKeeps DEF Started, InLoop
  <2> QED
    BY <1>1, <1>2, <2>1, NetworkDelivers DEF Cached
<1>3. CASE TransportCall
  <2>1. PICK s \in todo : Subscribe(s) \/ Publish(s)
    BY <1>3 DEF TransportCall
  <2>2. Started /\ retained' = retained
    BY <1>3 DEF TransportCall, Started, InLoop
  <2>3. CASE Subscribe(s)
    BY <1>3, <2>2, <2>3 DEF Subscribe, Cached
  <2>4. CASE Publish(s)
    <3>1. link # "down"
      BY <2>4 DEF Publish, Raise, Goto, Started, InLoop
    <3>2. published' = IF s[1] \in {"availability", "changed"}
                       THEN [published EXCEPT ![s[2]] = SlotValue(s)[1]] ELSE published
      BY <2>4, <3>1 DEF Publish
    <3>3. s[1] # "subscribe"
      BY <2>4 DEF Publish
    <3>4. CASE SlotTopic(s) = DeviceAvail(d)
      <4>1. s = <<"availability", d>> \/ s = <<"changed", d>>
        BY <3>3, <3>4, SlotOfTopic
      <4>2. s[1] \in {"availability", "changed"} /\ s[2] = d
        BY <4>1
      <4>3. SlotValue(s) = <<published'[d]>>
        BY <3>2, <4>2, AvailabilityTyped DEF Typed, Runtimes
      <4> QED
        BY <2>2, <2>4, <3>4, <4>3, PublishFinal
    <3>5. CASE SlotTopic(s) # DeviceAvail(d)
      <4>1. published'[d] = published[d]
        BY <3>2, <3>5, AvailabilityTyped DEF Typed, Runtimes
      <4> QED
        BY <2>2, <2>4, <3>5, <4>1, PublishFinal DEF Cached
    <3> QED
      BY <3>4, <3>5
  <2> QED
    BY <2>1, <2>3, <2>4
<1>4. CASE Restart
  BY <1>4 DEF Restart
<1>5. CASE Close \/ Disconnect \/ Crash
  BY <1>5 DEF Close, Disconnect, Crash, Goto, Started, InLoop
<1>6. CASE Local
  <2>1. Started
    BY <1>6 DEF Local, Connect, LoopHead, GetStopped, GetNothing, HandleConnected,
       HandleDisconnected, HandleFatal, HandleMessage, Refresh, AwaitDelivery, CloseBackend,
       Signal, Takes, Goto, Started, InLoop
  <2> QED
    BY <1>6, <2>1, LocalKeeps DEF Cached, network
<1>7. CASE UNCHANGED vars
  BY <1>7 DEF vars, network, process, Cached, Started, InLoop
<1> QED
  BY <1>2, <1>3, <1>4, <1>5, <1>6, <1>7, StepForms

-----------------------------------------------------------------------------
(***************************************************************************)
(* What the steps of the loop do to the backend's reports and to the calls *)
(* still to be made.                                                       *)
(***************************************************************************)
\* After backend.refresh().
Refreshed == /\ Refreshable /\ todo = {} /\ todo' = ChangedSlots(avail', {})
             /\ UNCHANGED <<obs, result>>

\* After a command on address a with outcome o.
Executed(a, desired, o) ==
  /\ todo = {}
  /\ avail' = o.avail /\ obs' = o.obs
  /\ result' = [result EXCEPT ![a] = <<desired, o.status>>]
  /\ todo' = IF Mode[a] = "command_only"
             THEN {<<"last_command", a>>} \cup ChangedSlots(o.avail, {DeviceOf[a]})
             ELSE IF o.status = "confirmed"
                  THEN {<<"state", a>>, <<"confidence", a>>} ELSE {}

LEMMA LoopForms ==
  ASSUME Quiet, Local, ~HandleConnected, InLoop'
  PROVE  \/ UNCHANGED <<avail, obs, result>> /\ (todo' = todo \/ todo = {})
            /\ (todo' = todo \/ todo' = SnapshotSlots)
         \/ Refreshed
         \/ \E a \in Addresses, desired \in OnOff : \E o \in Outcomes(a, desired) :
              Executed(a, desired, o)
<1> USE DEF Quiet, Enter, Goto, backend
<1>1. CASE Refresh
  <2>1. CASE connected /\ Refreshable
    BY <1>1, <2>1 DEF Refresh, Refreshed
  <2>2. CASE ~(connected /\ Refreshable)
    BY <1>1, <2>2 DEF Refresh
  <2> QED
    BY <2>1, <2>2
<1>2. CASE HandleMessage
  <2>1. todo = {}
    BY <1>2 DEF HandleMessage, Takes
  <2>2. ASSUME NEW m \in Inputs, NEW a \in Addresses, Executable(m, a), Execute(m, a)
        PROVE  \E o \in Outcomes(a, m.payload) : Executed(a, m.payload, o)
    BY <2>1, <2>2 DEF Execute, Executed
  <2>3. ASSUME NEW m \in Inputs, NEW a \in Addresses, Executable(m, a)
        PROVE  m.payload \in OnOff
    BY <2>3 DEF Executable
  <2> QED
    BY <1>2, <2>1, <2>2, <2>3 DEF HandleMessage
<1>3. CASE HandleDisconnected
  BY <1>3 DEF HandleDisconnected, Takes
<1>4. CASE Connect \/ LoopHead \/ GetNothing
  <2>1. todo = {} /\ UNCHANGED backend
    BY <1>4 DEF Connect, LoopHead, GetNothing
  <2>2. todo' = {}
    BY <1>4 DEF Connect, LoopHead, GetNothing, Raise
  <2> QED
    BY <2>1, <2>2
<1>5. CASE Signal
  BY <1>5 DEF Signal
<1>6. CASE GetStopped \/ HandleFatal \/ AwaitDelivery \/ CloseBackend
  BY <1>6 DEF GetStopped, HandleFatal, AwaitDelivery, CloseBackend, Raise, InLoop
<1> QED
  BY <1>1, <1>2, <1>3, <1>4, <1>5, <1>6 DEF Local

\* A call made while the loop goes on.
LEMMA CallForms ==
  ASSUME TransportCall, InLoop'
  PROVE  /\ UNCHANGED <<retained, avail, obs, result, link, events>>
         /\ link # "down" /\ InLoop
         /\ \E s \in todo : /\ IsNext(s) /\ todo' = todo \ {s}
                            /\ Subscribe(s) \/ Publish(s)
<1>1. PICK s \in todo : IsNext(s) /\ (Subscribe(s) \/ Publish(s))
  BY DEF TransportCall
<1>2. link # "down" /\ todo' = todo \ {s}
  BY <1>1 DEF Subscribe, Publish, Raise, Goto, Enter, InLoop
<1> QED
  BY <1>1, <1>2 DEF TransportCall, backend, InLoop

-----------------------------------------------------------------------------
(***************************************************************************)
(* Sessions the runtime thread has heard of.                               *)
(***************************************************************************)
Unconnected == pc \in {"start", "exited"} => link = "down" /\ ~loop

Pending == \E i \in 1 .. Len(events) : events[i] = Connected

\* The session that is up is one whose Connected event the loop has handled.
Session == link = "up" /\ InLoop /\ ~Pending

LEMMA UnconnectedKept == Typed /\ Unconnected /\ [Next]_vars => Unconnected'
<1> SUFFICES ASSUME Typed, Unconnected, [Next]_vars, pc' \in {"start", "exited"}
             PROVE  link' = "down" /\ ~loop'
  BY DEF Unconnected
<1>1. CASE Network
  BY <1>1 DEF Unconnected, Network, NetworkConnects, NetworkRefused, NetworkBreaks,
     NetworkNotices, BrokerPublishesWill, BrokerReceives, BrokerAcknowledges, BrokerDelivers,
     process, network
<1>2. CASE TransportCall
  BY <1>2 DEF TransportCall, Subscribe, Publish, Raise, Enter, Goto
<1>3. CASE Disconnect \/ Crash
  BY <1>3 DEF Disconnect, Crash
<1>4. CASE Restart \/ Signal
  BY <1>4 DEF Restart, Signal, Unconnected, network
<1>5. CASE UNCHANGED vars
  BY <1>5 DEF vars, network, process, Unconnected
<1>6. CASE Close \/ (Local /\ ~Signal)
  BY <1>6 DEF Close, Local, Connect, LoopHead, GetStopped, GetNothing, HandleConnected,
     HandleDisconnected, HandleFatal, HandleMessage, Refresh, AwaitDelivery, CloseBackend,
     Goto, Raise, Enter, Execute
<1> QED
  BY <1>1, <1>2, <1>3, <1>4, <1>5, <1>6, StepForms DEF Local

LEMMA PendingAppended ==
  ASSUME Typed, NEW e \in Events, events' = Append(events, e)
  PROVE  (Pending \/ e = Connected) => Pending'
<1>1. /\ Len(events) \in Nat /\ Len(events') = Len(events) + 1
      /\ events'[Len(events) + 1] = e /\ \A i \in 1 .. Len(events) : events'[i] = events[i]
  BY AppendProperties, LenProperties DEF Typed, Queues
<1> QED
  BY <1>1 DEF Pending

LEMMA PendingTaken ==
  ASSUME Typed, NEW e, Takes(e), e # Connected, Pending
  PROVE  Pending'
<1>1. PICK i \in 1 .. Len(events) : events[i] = Connected
  BY DEF Pending
<1>2. /\ events # <<>> /\ events' = Tail(events) /\ events[1] = e /\ Len(events) \in Nat
      /\ Len(events') = Len(events) - 1
      /\ \A j \in 1 .. Len(events') : events'[j] = events[j + 1]
  BY HeadTailProperties, LenProperties DEF Typed, Queues, Takes
<1>3. i - 1 \in 1 .. Len(events') /\ events'[i - 1] = Connected
  BY <1>1, <1>2
<1> QED
  BY <1>3 DEF Pending

LEMMA SessionForms ==
  ASSUME Typed, Unconnected, [Next]_vars, Session'
  PROVE  HandleConnected \/ Session
<1> USE DEF Session
<1>1. CASE Network
  <2>1. InLoop
    BY <1>1, NetworkKeeps DEF InLoop
  <2>2. CASE NetworkConnects
    BY <2>2, PendingAppended DEF NetworkConnects, Events
  <2>3. CASE BrokerDelivers
    <3>1. \A m \in Inputs : Message(m) \in Events
      BY BridgeAssumption DEF Events
    <3> QED
      BY <2>1, <2>3, <3>1, PendingAppended DEF BrokerDelivers, network
  <2>4. CASE NetworkRefused \/ NetworkNotices \/ NetworkBreaks
    <3>1. {Fatal, Disconnected} \subseteq Events
      BY DEF Events
    <3> QED
      BY <2>4, <3>1, <2>1, PendingAppended DEF NetworkRefused, NetworkNotices, NetworkBreaks,
         network
  <2>5. CASE BrokerPublishesWill \/ BrokerReceives \/ BrokerAcknowledges
    BY <2>1, <2>5 DEF BrokerPublishesWill, BrokerReceives, BrokerAcknowledges, process, Pending
  <2> QED
    BY <1>1, <2>2, <2>3, <2>4, <2>5 DEF Network
<1>2. CASE TransportCall
  BY <1>2, CallForms DEF Pending
<1>3. CASE Close \/ Disconnect \/ Crash \/ Restart
  BY <1>3 DEF Close, Disconnect, Crash, Restart, Goto, InLoop
<1>4. CASE Local /\ ~HandleConnected
  <2>1. link' = link
    BY <1>4, LocalKeeps DEF network
  <2>2. CASE HandleDisconnected
    BY <2>1, <2>2, PendingTaken DEF HandleDisconnected, Takes, InLoop, Connected, Disconnected
  <2>3. CASE HandleMessage
    <3>1. PICK m \in Inputs : Takes(Message(m))
      BY <2>3 DEF HandleMessage
    <3>2. Message(m) # Connected
      BY DEF Message, Connected
    <3> QED
      BY <2>1, <3>1, <3>2, PendingTaken DEF Takes, InLoop
  <2>4. CASE Connect
    BY <2>1, <2>4 DEF Connect, Unconnected
  <2>5. CASE LoopHead \/ GetNothing \/ Refresh \/ Signal
    BY <2>1, <2>5 DEF LoopHead, GetNothing, Refresh, Signal, Pending, InLoop
  <2>6. CASE GetStopped \/ HandleFatal \/ AwaitDelivery \/ CloseBackend
    BY <2>6 DEF GetStopped, HandleFatal, AwaitDelivery, CloseBackend, Raise, Goto, InLoop
  <2> QED
    BY <1>4, <2>2, <2>3, <2>4, <2>5, <2>6 DEF Local
<1>5. CASE UNCHANGED vars
  BY <1>5 DEF vars, network, process, InLoop, Pending
<1> QED
  BY <1>1, <1>2, <1>3, <1>4, <1>5, StepForms

-----------------------------------------------------------------------------
(***************************************************************************)
(* SubscribedWhenIdle.                                                     *)
(***************************************************************************)
Subscribed == Session => \A t \in SubscribedTopics :
  t \in subs \/ \E s \in todo : s[1] = "subscribe" /\ SlotTopic(s) = t

LEMMA SubscribedKept == Typed /\ Unconnected /\ Quiet /\ Subscribed /\ [Next]_vars => Subscribed'
<1> SUFFICES ASSUME Typed, Unconnected, Quiet, Subscribed, [Next]_vars, Session',
                    NEW t \in SubscribedTopics
             PROVE  t \in subs' \/ \E s \in todo' : s[1] = "subscribe" /\ SlotTopic(s) = t
  BY DEF Subscribed, SlotTopic
<1>1. CASE HandleConnected
  <2>1. SubscribeSlots \subseteq todo'
    BY <1>1 DEF HandleConnected, Enter
  <2>2. PICK i \in 1 .. NAddresses + 1 :
          t = IF i \in Addresses THEN Command(i) ELSE StatusTopic
    <3>1. CASE t = StatusTopic
      <4>1. NAddresses + 1 \in 1 .. NAddresses + 1 /\ NAddresses + 1 \notin Addresses
        BY BridgeAssumption DEF Addresses
      <4> QED
        BY <3>1, <4>1
    <3>2. ASSUME NEW a \in Addresses, t = Command(a)
          PROVE  a \in 1 .. NAddresses + 1
      BY BridgeAssumption DEF Addresses
    <3> QED
      BY <3>1, <3>2 DEF SubscribedTopics
  <2>3. <<"subscribe", i>> \in SubscribeSlots /\ SlotTopic(<<"subscribe", i>>) = t
    BY <2>2 DEF SubscribeSlots, SlotTopic
  <2> QED
    BY <2>1, <2>3
<1>2. ASSUME Session PROVE t \in subs \/ \E s \in todo : s[1] = "subscribe" /\ SlotTopic(s) = t
  BY <1>2 DEF Subscribed
<1>3. CASE Session /\ Network
  <2>1. todo' = todo
    BY <1>3, NetworkKeeps
  <2>2. subs' = subs
    BY <1>3 DEF Session, Network, NetworkConnects, NetworkRefused, NetworkBreaks,
       NetworkNotices, BrokerPublishesWill, BrokerReceives, BrokerAcknowledges, BrokerDelivers,
       network
  <2> QED
    BY <1>2, <1>3, <2>1, <2>2
<1>4. CASE Session /\ TransportCall
  <2>1. PICK s \in todo : todo' = todo \ {s} /\ (Subscribe(s) \/ Publish(s))
    BY <1>4, CallForms DEF Session
  <2>2. CASE Subscribe(s)
    <3>1. subs' = subs \cup {SlotTopic(s)}
      BY <1>4, <2>2 DEF Subscribe, Session
    <3> QED
      BY <1>2, <1>4, <2>1, <3>1
  <2>3. CASE Publish(s)
    BY <1>2, <1>4, <2>1, <2>3 DEF Publish
  <2> QED
    BY <2>1, <2>2, <2>3
<1>5. CASE Session /\ Local /\ ~HandleConnected
  <2>1. subs' = subs
    BY <1>5, LocalKeeps DEF network
  <2>2. todo' = todo \/ todo = {}
    BY <1>5, LoopForms DEF Session, Refreshed, Executed
  <2> QED
    BY <1>2, <1>5, <2>1, <2>2
<1>6. CASE Session /\ UNCHANGED vars
  BY <1>2, <1>6 DEF vars, network, process
<1>7. CASE Close \/ Disconnect \/ Crash \/ Restart
  BY <1>7 DEF Close, Disconnect, Crash, Restart, Goto, InLoop, Session
<1> QED
  BY <1>1, <1>3, <1>4, <1>5, <1>6, <1>7, SessionForms, StepForms

-----------------------------------------------------------------------------
(***************************************************************************)
(* What the broker is told: the value is on its way to it, or a call that  *)
(* publishes it is still to be made.                                       *)
(***************************************************************************)
Awaited(t) == \E s \in todo : s[1] # "subscribe" /\ SlotTopic(s) = t

CommandOnly == \A a \in Addresses : Mode[a] = "command_only"
Observing   == \A a \in Addresses : Mode[a] = "observable"

LEMMA CallOwes ==
  ASSUME Typed, TransportCall, InLoop', NEW t, NEW v,
         \A s \in todo : s[1] # "subscribe" /\ SlotTopic(s) = t => SlotValue(s) = v,
         Awaited(t) \/ Final(outbox, retained, t, v)
  PROVE  Awaited(t)' \/ Final(outbox', retained', t, v)
<1>1. PICK s \in todo : todo' = todo \ {s} /\ (Subscribe(s) \/ Publish(s))
  BY CallForms
<1>2. retained' = retained
  BY CallForms
<1>3. CASE Subscribe(s)
  <2>1. outbox' = outbox
    BY <1>3 DEF Subscribe
  <2>2. Awaited(t) => Awaited(t)'
    BY <1>1, <1>3 DEF Awaited, Subscribe, SlotTopic
  <2> QED
    BY <1>2, <2>1, <2>2
<1>4. CASE Publish(s)
  <2>1. CASE SlotTopic(s) = t
    BY <1>2, <1>4, <2>1, PublishFinal DEF Publish
  <2>2. CASE SlotTopic(s) # t
    <3>1. Awaited(t) => Awaited(t)'
      BY <1>1, <2>2 DEF Awaited, SlotTopic
    <3> QED
      BY <1>2, <1>4, <2>2, <3>1, PublishFinal
  <2> QED
    BY <2>1, <2>2
<1> QED
  BY <1>1, <1>3, <1>4

\* Steps at which only what is still to be said may change.
LEMMA LocalFinal ==
  ASSUME Local, NEW t, NEW v, Final(outbox, retained, t, v)
  PROVE  Final(outbox', retained', t, v)
  BY LocalKeeps DEF network

LEMMA AwaitedByChange ==
  ASSUME NEW state, NEW forced, NEW d \in Devices, ChangedSlots(state, forced) \subseteq todo',
         published[d] # state[d] \/ d \in forced
  PROVE  Awaited(DeviceAvail(d))'
<1>1. <<"changed", d>> \in todo'
  BY DEF ChangedSlots
<1> QED
  BY <1>1 DEF Awaited, SlotTopic, DeviceAvail

LEMMA AwaitedBySnapshot ==
  ASSUME SnapshotSlots \subseteq todo'
  PROVE  /\ \A d \in Devices : Awaited(DeviceAvail(d))'
         /\ \A a \in Addresses : Observed(a) => Awaited(State(a))'
<1>1. ASSUME NEW d \in Devices PROVE Awaited(DeviceAvail(d))'
  <2>1. <<"availability", d>> \in todo'
    BY DEF SnapshotSlots
  <2> QED
    BY <2>1 DEF Awaited, SlotTopic, DeviceAvail
<1>2. ASSUME NEW a \in Addresses, Observed(a) PROVE Awaited(State(a))'
  <2>1. <<"state", a>> \in todo'
    BY <1>2 DEF SnapshotSlots
  <2> QED
    BY <2>1 DEF Awaited, SlotTopic, State
<1> QED
  BY <1>1, <1>2

LEMMA ConnectedSnapshot ==
  ASSUME HandleConnected
  PROVE  SnapshotSlots \subseteq todo' /\ UNCHANGED backend
  BY DEF HandleConnected, Enter

LEMMA SessionNetwork ==
  ASSUME Typed, Mirror, Network, Session, NEW t \in RetainedTopics, NEW v
  PROVE  /\ Final(outbox, retained, t, v) => Final(outbox', retained', t, v)
         /\ Awaited(t) => Awaited(t)'
<1>1. Final(outbox, retained, t, v) => Final(outbox', retained', t, v)
  BY NetworkDelivers DEF Session
<1>2. Awaited(t) => Awaited(t)'
  BY NetworkKeeps DEF Awaited, SlotTopic
<1> QED
  BY <1>1, <1>2

LEMMA NoSessionAfter ==
  ASSUME Close \/ Disconnect \/ Crash \/ Restart
  PROVE  ~Session'
  BY DEF Close, Disconnect, Crash, Restart, Goto, InLoop, Session

-----------------------------------------------------------------------------
\* The bridge itself: a session the loop has heard of is told it is online.
ToldOnline == Session => <<"online", 0>> \in todo \/ Final(outbox, retained, BridgeTopic, Online)

LEMMA ToldOnlineKept ==
  Typed /\ Mirror /\ Unconnected /\ Quiet /\ ToldOnline /\ [Next]_vars => ToldOnline'
<1> SUFFICES ASSUME Typed, Mirror, Unconnected, Quiet, ToldOnline, [Next]_vars, Session'
             PROVE  <<"online", 0>> \in todo' \/ Final(outbox', retained', BridgeTopic, Online)
  BY DEF ToldOnline, Online, BridgeTopic
<1>1. <<"online", 0>> \in SnapshotSlots
  BY DEF SnapshotSlots
<1>2. CASE HandleConnected
  BY <1>1, <1>2, ConnectedSnapshot
<1>3. CASE Session /\ Network
  <2>1. BridgeTopic \in RetainedTopics
    BY DEF RetainedTopics
  <2> QED
    BY <1>3, <2>1, SessionNetwork, NetworkKeeps DEF ToldOnline
<1>4. CASE Session /\ TransportCall
  <2>1. PICK s \in todo : /\ IsNext(s) /\ todo' = todo \ {s} /\ retained' = retained
                          /\ Subscribe(s) \/ Publish(s)
    BY <1>4, CallForms DEF Session
  <2>2. CASE Subscribe(s)
    BY <1>4, <2>1, <2>2 DEF Subscribe, ToldOnline
  <2>3. CASE Publish(s) /\ SlotTopic(s) # BridgeTopic
    <3>1. s # <<"online", 0>>
      BY <2>3 DEF SlotTopic
    <3> QED
      BY <1>4, <2>1, <2>3, <3>1, PublishFinal DEF ToldOnline
  <2>4. CASE Publish(s) /\ s = <<"online", 0>>
    <3>1. SlotTopic(s) = BridgeTopic /\ SlotValue(s) = Online
      BY <2>4 DEF SlotTopic, SlotValue
    <3> QED
      BY <2>1, <2>4, <3>1, PublishFinal
  <2>5. CASE Publish(s) /\ s = <<"offline", 0>>
    BY <2>1, <2>5 DEF Quiet
  <2> QED
    BY <2>1, <2>2, <2>3, <2>4, <2>5, SlotOfTopic DEF Publish
<1>5. CASE Session /\ Local /\ ~HandleConnected
  <2>1. todo' = todo \/ (todo = {} /\ ToldOnline)
    BY <1>5, LoopForms DEF Session, Refreshed, Executed
  <2> QED
    BY <1>5, <2>1, LocalFinal DEF ToldOnline
<1>6. CASE Session /\ UNCHANGED vars
  BY <1>6 DEF vars, network, process, ToldOnline
<1> QED
  BY <1>2, <1>3, <1>4, <1>5, <1>6, NoSessionAfter, SessionForms, StepForms

\* The availability of devices that accept commands only.
ToldAvail == Session /\ CommandOnly => \A d \in Devices :
  Awaited(DeviceAvail(d)) \/ Final(outbox, retained, DeviceAvail(d), <<avail[d]>>)

LEMMA ToldAvailKept ==
  /\ Typed /\ Mirror /\ Unconnected /\ Quiet /\ Cached /\ ToldAvail /\ [Next]_vars
  => ToldAvail'
<1> SUFFICES ASSUME Typed, Mirror, Unconnected, Quiet, Cached, ToldAvail, [Next]_vars,
                    Session', CommandOnly, NEW d \in Devices
             PROVE  Awaited(DeviceAvail(d))' \/ Final(outbox', retained', DeviceAvail(d), <<avail'[d]>>)
  BY DEF ToldAvail, CommandOnly, DeviceAvail
<1>1. DeviceAvail(d) \in RetainedTopics
  BY DEF RetainedTopics
<1>2. CASE HandleConnected
  BY <1>2, ConnectedSnapshot, AwaitedBySnapshot
<1>3. CASE Session /\ Network
  <2>1. avail' = avail
    BY <1>3, NetworkKeeps DEF backend
  <2> QED
    BY <1>1, <1>3, <2>1, SessionNetwork DEF ToldAvail
<1>4. CASE Session /\ TransportCall
  <2>1. avail' = avail /\ InLoop'
    BY <1>4, CallForms DEF Session
  <2>2. Complete(d)
    BY DEF Complete, CommandOnly
  <2>3. \A s \in todo : s[1] # "subscribe" /\ SlotTopic(s) = DeviceAvail(d) =>
          SlotValue(s) = <<avail[d]>>
    <3> SUFFICES ASSUME NEW s \in todo, s[1] # "subscribe", SlotTopic(s) = DeviceAvail(d)
                 PROVE  SlotValue(s) = <<avail[d]>>
      OBVIOUS
    <3>1. s = <<"availability", d>> \/ s = <<"changed", d>>
      BY SlotOfTopic
    <3> QED
      BY <2>2, <3>1 DEF SlotValue
  <2> QED
    BY <1>4, <2>1, <2>3, CallOwes DEF ToldAvail
<1>5. CASE Session /\ Local /\ ~HandleConnected
  <2>1. ASSUME UNCHANGED avail, todo' = todo PROVE Awaited(DeviceAvail(d)) => Awaited(DeviceAvail(d))'
    BY <2>1 DEF Awaited, SlotTopic
  <2>2. todo = {} => ~Awaited(DeviceAvail(d))
    BY DEF Awaited
  <2>3. ASSUME NEW forced, ChangedSlots(avail', forced) \subseteq todo'
        PROVE  Awaited(DeviceAvail(d))' \/ Final(outbox', retained', DeviceAvail(d), <<avail'[d]>>)
    <3>1. CASE published[d] # avail'[d]
      BY <2>3, <3>1, AwaitedByChange
    <3>2. CASE published[d] = avail'[d]
      <4>1. avail' \in [Devices -> Availability]
        BY StepTyped DEF Typed, Reports
      <4>2. published[d] # "none"
        BY <3>2, <4>1 DEF Availability
      <4> QED
        BY <1>5, <3>2, <4>2, LocalFinal DEF Cached, Session, Started
    <3> QED
      BY <3>1, <3>2
  <2>4. CASE UNCHANGED <<avail, obs, result>> /\ (todo' = todo \/ todo = {})
    BY <1>5, <2>1, <2>2, <2>4, LocalFinal DEF ToldAvail
  <2>5. CASE Refreshed
    BY <2>3, <2>5 DEF Refreshed
  <2>6. ASSUME NEW a \in Addresses, NEW desired \in OnOff, NEW o \in Outcomes(a, desired),
               Executed(a, desired, o)
        PROVE  Awaited(DeviceAvail(d))' \/ Final(outbox', retained', DeviceAvail(d), <<avail'[d]>>)
    <3>1. ChangedSlots(avail', {DeviceOf[a]}) \subseteq todo'
      BY <2>6 DEF Executed, CommandOnly
    <3> QED
      BY <2>3, <3>1
  <2> QED
    BY <1>5, <2>4, <2>5, <2>6, LoopForms DEF Session
<1>6. CASE Session /\ UNCHANGED vars
  BY <1>6 DEF vars, network, process, backend, ToldAvail, Awaited, SlotTopic
<1> QED
  BY <1>2, <1>3, <1>4, <1>5, <1>6, NoSessionAfter, SessionForms, StepForms

\* The observations.
ToldState == Session => \A a \in Addresses :
  Observed(a) => Awaited(State(a)) \/ Final(outbox, retained, State(a), <<obs[a]>>)

LEMMA OutcomeForms ==
  ASSUME NEW a \in Addresses, NEW desired \in OnOff, NEW o \in Outcomes(a, desired)
  PROVE  \/ o.obs = obs
         \/ /\ Mode[a] = "observable" /\ o.status = "confirmed"
            /\ o.obs = [obs EXCEPT ![a] = desired]
  BY DEF Outcomes

LEMMA ToldStateKept ==
  Typed /\ Mirror /\ Unconnected /\ Quiet /\ ToldState /\ [Next]_vars => ToldState'
<1> SUFFICES ASSUME Typed, Mirror, Unconnected, Quiet, ToldState, [Next]_vars, Session',
                    NEW a \in Addresses, Observed(a)'
             PROVE  Awaited(State(a))' \/ Final(outbox', retained', State(a), <<obs'[a]>>)
  BY DEF ToldState, State, Observed
<1>1. State(a) \in RetainedTopics
  BY DEF RetainedTopics
<1>2. CASE HandleConnected
  <2>1. Observed(a)
    BY <1>2, ConnectedSnapshot DEF Observed, backend
  <2> QED
    BY <1>2, <2>1, ConnectedSnapshot, AwaitedBySnapshot
<1>3. CASE Session /\ Network
  <2>1. obs' = obs /\ Observed(a)
    BY <1>3, NetworkKeeps DEF backend, Observed
  <2> QED
    BY <1>1, <1>3, <2>1, SessionNetwork DEF ToldState
<1>4. CASE Session /\ TransportCall
  <2>1. obs' = obs /\ Observed(a) /\ InLoop'
    BY <1>4, CallForms DEF Session, Observed
  <2>2. \A s \in todo : s[1] # "subscribe" /\ SlotTopic(s) = State(a) => SlotValue(s) = <<obs[a]>>
    BY SlotOfTopic DEF SlotValue
  <2> QED
    BY <1>4, <2>1, <2>2, CallOwes DEF ToldState
<1>5. CASE Session /\ Local /\ ~HandleConnected
  <2>1. ASSUME todo' = todo PROVE Awaited(State(a)) => Awaited(State(a))'
    BY <2>1 DEF Awaited, SlotTopic
  <2>2. todo = {} => ~Awaited(State(a))
    BY DEF Awaited
  <2>3. ASSUME obs'[a] = obs[a], todo' = todo \/ todo = {}
        PROVE  Awaited(State(a))' \/ Final(outbox', retained', State(a), <<obs'[a]>>)
    <3>1. Observed(a)
      BY <2>3 DEF Observed
    <3> QED
      BY <1>5, <2>1, <2>2, <2>3, <3>1, LocalFinal DEF ToldState
  <2>4. ASSUME NEW b \in Addresses, NEW desired \in OnOff, NEW o \in Outcomes(b, desired),
               Executed(b, desired, o)
        PROVE  Awaited(State(a))' \/ Final(outbox', retained', State(a), <<obs'[a]>>)
    <3>1. CASE obs'[a] = obs[a]
      BY <2>3, <2>4, <3>1 DEF Executed
    <3>2. CASE obs'[a] # obs[a]
      <4>1. /\ Mode[b] = "observable" /\ o.status = "confirmed"
            /\ obs' = [obs EXCEPT ![b] = desired]
        BY <2>4, <3>2, OutcomeForms DEF Executed
      <4>2. a = b
        BY <3>2, <4>1 DEF Typed, Reports
      <4>3. <<"state", a>> \in todo'
        BY <2>4, <4>1, <4>2 DEF Executed
      <4> QED
        BY <4>3 DEF Awaited, SlotTopic, State
    <3> QED
      BY <3>1, <3>2
  <2> QED
    BY <1>5, <2>3, <2>4, LoopForms DEF Session, Refreshed
<1>6. CASE Session /\ UNCHANGED vars
  BY <1>6 DEF vars, network, process, backend, ToldState, Awaited, SlotTopic, Observed
<1> QED
  BY <1>2, <1>3, <1>4, <1>5, <1>6, NoSessionAfter, SessionForms, StepForms

\* With observable devices only, no availability is published but by a snapshot,
\* and a device that lacks an observation is told to be offline.
NoChanges == Observing => \A d \in Devices : NAddresses > 0 => <<"changed", d>> \notin todo

ToldIncomplete == Session /\ Observing => \A d \in Devices : ~Complete(d) =>
  Awaited(DeviceAvail(d)) \/ Final(outbox, retained, DeviceAvail(d), Offline)

LEMMA NoChangesKept == Typed /\ Quiet /\ NoChanges /\ [Next]_vars => NoChanges'
<1> SUFFICES ASSUME Typed, Quiet, NoChanges, [Next]_vars, Observing, NAddresses > 0,
                    NEW d \in Devices
             PROVE  <<"changed", d>> \notin todo'
  BY DEF NoChanges, Observing
<1>1. <<"changed", d>> \notin todo
  BY DEF NoChanges
<1>2. <<"changed", d>> \notin SubscribeSlots \cup SnapshotSlots
  BY DEF SubscribeSlots, SnapshotSlots
<1>3. CASE Network \/ UNCHANGED vars
  BY <1>1, <1>3, NetworkKeeps DEF vars, process
<1>4. CASE TransportCall
  <2>1. todo' \subseteq todo
    BY <1>4 DEF TransportCall, Subscribe, Publish, Raise, Enter, Goto
  <2> QED
    BY <1>1, <2>1
<1>5. CASE Close \/ Disconnect \/ Crash \/ Restart
  BY <1>5 DEF Close, Disconnect, Crash, Restart, Goto
<1>6. CASE HandleConnected
  BY <1>2, <1>6 DEF HandleConnected, Enter
<1>7. CASE Local /\ InLoop' /\ ~HandleConnected
  <2>1. ~Refreshable /\ \A a \in Addresses : Mode[a] # "command_only"
    <3>1. 1 \in Addresses
      BY BridgeAssumption DEF Addresses
    <3> QED
      BY <3>1, BridgeAssumption DEF Observing
  <2>2. CASE todo' = todo \/ todo' = SnapshotSlots
    BY <1>1, <1>2, <2>2
  <2>3. ASSUME NEW a \in Addresses, NEW desired \in OnOff, NEW o \in Outcomes(a, desired),
               Executed(a, desired, o)
        PROVE  <<"changed", d>> \notin todo'
    BY <2>1, <2>3 DEF Executed
  <2> QED
    BY <1>7, <2>1, <2>2, <2>3, LoopForms DEF Refreshed
<1>8. CASE Local /\ ~InLoop' /\ ~HandleConnected
  BY <1>1, <1>8 DEF Local, Connect, LoopHead, GetStopped, GetNothing, HandleDisconnected,
     HandleFatal, HandleMessage, Refresh, AwaitDelivery, CloseBackend, Signal, Raise, Goto,
     Execute, Enter, InLoop
<1> QED
  BY <1>3, <1>4, <1>5, <1>6, <1>7, <1>8, StepForms

LEMMA ToldIncompleteKept ==
  /\ Typed /\ Mirror /\ Unconnected /\ Quiet /\ NoChanges /\ ToldIncomplete /\ [Next]_vars
  => ToldIncomplete'
<1> SUFFICES ASSUME Typed, Mirror, Unconnected, Quiet, NoChanges, ToldIncomplete, [Next]_vars,
                    Session', Observing, NEW d \in Devices, ~Complete(d)'
             PROVE  Awaited(DeviceAvail(d))' \/ Final(outbox', retained', DeviceAvail(d), Offline)
  BY DEF ToldIncomplete, Observing, DeviceAvail, Offline
<1>1. DeviceAvail(d) \in RetainedTopics
  BY DEF RetainedTopics
<1>2. CASE HandleConnected
  BY <1>2, ConnectedSnapshot, AwaitedBySnapshot
<1>3. CASE Session /\ Network
  <2>1. ~Complete(d)
    BY <1>3, NetworkKeeps DEF backend, Complete
  <2> QED
    BY <1>1, <1>3, <2>1, SessionNetwork DEF ToldIncomplete
<1>4. CASE Session /\ TransportCall
  <2>1. ~Complete(d) /\ InLoop'
    BY <1>4, CallForms DEF Session, Complete
  <2>2. <<"changed", d>> \notin todo
    <3>1. NAddresses > 0
      BY <2>1, BridgeAssumption DEF Complete, Addresses
    <3> QED
      BY <3>1 DEF NoChanges
  <2>3. \A s \in todo : s[1] # "subscribe" /\ SlotTopic(s) = DeviceAvail(d) =>
          SlotValue(s) = Offline
    BY <2>1, <2>2, SlotOfTopic DEF SlotValue
  <2> QED
    BY <1>4, <2>1, <2>3, CallOwes DEF ToldIncomplete
<1>5. CASE Session /\ Local /\ ~HandleConnected
  <2>1. ~Complete(d) /\ (todo' = todo \/ todo = {})
    <3>1. CASE UNCHANGED obs /\ (todo' = todo \/ todo = {})
      BY <3>1 DEF Complete
    <3>2. ASSUME NEW a \in Addresses, NEW desired \in OnOff, NEW o \in Outcomes(a, desired),
                 Executed(a, desired, o)
          PROVE  ~Complete(d) /\ todo = {}
      <4>1. PICK b \in Addresses : DeviceOf[b] = d /\ Mode[b] = "observable" /\ o.obs[b] = NoObs
        BY <3>2 DEF Executed, Complete
      <4>2. obs[b] = NoObs
        BY <3>2, <4>1, OutcomeTyped
      <4> QED
        BY <3>2, <4>1, <4>2 DEF Executed, Complete
    <3> QED
      BY <1>5, <3>1, <3>2, LoopForms DEF Session, Refreshed
  <2>2. todo' = todo => (Awaited(DeviceAvail(d)) => Awaited(DeviceAvail(d))')
    BY DEF Awaited, SlotTopic
  <2>3. todo = {} => ~Awaited(DeviceAvail(d))
    BY DEF Awaited
  <2> QED
    BY <1>5, <2>1, <2>2, <2>3, LocalFinal DEF ToldIncomplete
<1>6. CASE Session /\ UNCHANGED vars
  BY <1>6 DEF vars, network, process, backend, ToldIncomplete, Awaited, SlotTopic, Complete
<1> QED
  BY <1>2, <1>3, <1>4, <1>5, <1>6, NoSessionAfter, SessionForms, StepForms

\* The last result of an address, once there is one.
ToldResult == Started => \A a \in Addresses :
  Mode[a] = "command_only" /\ result[a] # NoResult =>
    Awaited(LastCommand(a)) \/ Final(outbox, retained, LastCommand(a), result[a])

LEMMA ToldResultKept == Typed /\ Mirror /\ Quiet /\ ToldResult /\ [Next]_vars => ToldResult'
<1> SUFFICES ASSUME Typed, Mirror, Quiet, ToldResult, [Next]_vars, Started',
                    NEW a \in Addresses, Mode[a] = "command_only", result'[a] # NoResult
             PROVE  Awaited(LastCommand(a))' \/ Final(outbox', retained', LastCommand(a), result'[a])
  BY DEF ToldResult, LastCommand, NoResult
<1>1. LastCommand(a) \in RetainedTopics /\ LastCommand(a) # BridgeTopic
  BY DEF RetainedTopics, LastCommand, BridgeTopic
<1>2. todo' = todo => (Awaited(LastCommand(a)) => Awaited(LastCommand(a))')
  BY DEF Awaited, SlotTopic
<1>3. todo = {} => ~Awaited(LastCommand(a))
  BY DEF Awaited
<1>4. CASE Network
  <2>1. result' = result /\ todo' = todo /\ Started
    BY <1>4, NetworkKeeps DEF backend, Started, InLoop
  <2> QED
    BY <1>1, <1>2, <1>4, <2>1, NetworkDelivers DEF ToldResult
<1>5. CASE TransportCall
  <2>1. InLoop'
    BY <1>5 DEF TransportCall, Subscribe, Publish, Raise, Enter, Goto, Started, InLoop
  <2>2. result' = result /\ Started
    BY <1>5, <2>1, CallForms DEF Started
  <2>3. \A s \in todo : s[1] # "subscribe" /\ SlotTopic(s) = LastCommand(a) =>
          SlotValue(s) = result[a]
    BY SlotOfTopic DEF SlotValue
  <2> QED
    BY <1>5, <2>1, <2>2, <2>3, CallOwes DEF ToldResult
<1>6. CASE Restart
  BY <1>6 DEF Restart
<1>7. CASE Close \/ Disconnect \/ Crash
  BY <1>7 DEF Close, Disconnect, Crash, Goto, Started, InLoop
<1>8. CASE HandleConnected
  <2>1. todo = {} /\ result' = result /\ Started
    BY <1>8 DEF HandleConnected, Takes, Quiet, backend, Started, InLoop
  <2>2. Local
    BY <1>8 DEF Local
  <2> QED
    BY <1>3, <2>1, <2>2, LocalFinal DEF ToldResult
<1>9. CASE Signal
  <2>1. todo' = todo /\ result' = result /\ Started
    BY <1>9 DEF Signal, backend, Started, InLoop
  <2>2. Local
    BY <1>9 DEF Local
  <2> QED
    BY <1>2, <2>1, <2>2, LocalFinal DEF ToldResult
<1>10. CASE Local /\ ~HandleConnected /\ ~Signal
  <2>1. InLoop' /\ Started
    BY <1>10 DEF Local, Connect, LoopHead, GetStopped, GetNothing, HandleDisconnected,
       HandleFatal, HandleMessage, Refresh, AwaitDelivery, CloseBackend, Takes, Raise, Goto,
       Enter, Execute, Started, InLoop
  <2>2. CASE result'[a] = result[a] /\ (todo' = todo \/ todo = {})
    BY <1>2, <1>3, <1>10, <2>1, <2>2, LocalFinal DEF ToldResult
  <2>3. ASSUME NEW b \in Addresses, NEW desired \in OnOff, NEW o \in Outcomes(b, desired),
               Executed(b, desired, o), result'[a] # result[a]
        PROVE  Awaited(LastCommand(a))'
    <3>1. a = b
      BY <2>3 DEF Executed, Typed, Reports
    <3>2. <<"last_command", a>> \in todo'
      BY <2>3, <3>1 DEF Executed
    <3> QED
      BY <3>2 DEF Awaited, SlotTopic, LastCommand
  <2> QED
    BY <1>10, <2>1, <2>2, <2>3, LoopForms DEF Refreshed, Executed
<1>11. CASE UNCHANGED vars
  BY <1>11 DEF vars, network, process, backend, ToldResult, Awaited, SlotTopic, Started, InLoop
<1> QED
  BY <1>4, <1>5, <1>6, <1>7, <1>8, <1>9, <1>10, <1>11, StepForms

-----------------------------------------------------------------------------
(***************************************************************************)
(* GracefulCloseIsOffline.                                                 *)
(***************************************************************************)
Leaving ==
  /\ pc = "delivery" => Final(outbox, retained, BridgeTopic, Offline)
  /\ pc \in {"cleanup", "disconnect", "exited"} /\ cause = "none" /\ connected =>
       outbox = <<>> /\ retained[BridgeTopic].value = Offline

LEMMA LeavingKept == Typed /\ Mirror /\ Leaving /\ [Next]_vars => Leaving'
<1> SUFFICES ASSUME Typed, Mirror, Leaving, [Next]_vars PROVE Leaving'
  OBVIOUS
<1>1. BridgeTopic \in RetainedTopics
  BY DEF RetainedTopics
<1>2. CASE Network
  <2>1. UNCHANGED <<pc, cause, connected>>
    BY <1>2, NetworkKeeps
  <2>2. pc' = "delivery" => Final(outbox', retained', BridgeTopic, Offline)
    BY <1>1, <1>2, <2>1, NetworkDelivers DEF Leaving
  <2>3. ASSUME outbox = <<>>, retained[BridgeTopic].value = Offline
        PROVE  outbox' = <<>> /\ retained'[BridgeTopic].value = Offline
    <3>1. CASE NetworkConnects \/ BrokerPublishesWill
      BY <1>1, <2>3, <3>1 DEF NetworkConnects, BrokerPublishesWill, Will, Typed, Broker
    <3>2. CASE BrokerReceives \/ BrokerAcknowledges
      <4>1. Len(outbox) = 0
        BY <2>3
      <4> QED
        BY <3>2, <4>1 DEF BrokerReceives, BrokerAcknowledges, Typed, Queues
    <3>3. CASE NetworkRefused \/ NetworkBreaks \/ NetworkNotices \/ BrokerDelivers
      BY <2>3, <3>3 DEF NetworkRefused, NetworkBreaks, NetworkNotices, BrokerDelivers, network
    <3> QED
      BY <1>2, <3>1, <3>2, <3>3 DEF Network
  <2> QED
    BY <2>1, <2>2, <2>3 DEF Leaving, Offline, BridgeTopic
<1>3. CASE Close
  <2>1. connected' = connected /\ pc' \in {"delivery", "cleanup"} /\ retained' = retained
    BY <1>3 DEF Close, Goto
  <2>2. ASSUME pc' = "delivery" PROVE Final(outbox', retained', BridgeTopic, Offline)
    <3>1. outbox' = Append(outbox, Publication(BridgeTopic, Offline))
      BY <1>3, <2>2 DEF Close, Goto
    <3>2. Publication(BridgeTopic, Offline) \in PublicationType
      BY DEF Publication, PublicationType, PublishedTopics, RetainedTopics, Values, Words,
         Availability, Offline, Typed, Counters
    <3> QED
      BY <3>1, <3>2, FinalAppend DEF Publication, Typed, Queues
  <2>3. pc' = "cleanup" /\ connected => cause' # "none"
    BY <1>3 DEF Close, Goto
  <2> QED
    BY <2>1, <2>2, <2>3 DEF Leaving, Offline, BridgeTopic
<1>4. CASE AwaitDelivery
  <2>1. pc' = "cleanup" /\ outbox' = outbox /\ retained' = retained
    BY <1>4 DEF AwaitDelivery, Goto, network
  <2>2. cause' = "none" => outbox = <<>>
    BY <1>4 DEF AwaitDelivery
  <2>3. Final(outbox, retained, BridgeTopic, Offline)
    BY <1>4 DEF AwaitDelivery, Leaving
  <2> QED
    BY <2>1, <2>2, <2>3, FinalOfNothing DEF Leaving, Offline, BridgeTopic
<1>5. CASE Disconnect \/ CloseBackend \/ Signal \/ UNCHANGED vars
  <2>1. CASE Disconnect
    BY <2>1 DEF Disconnect, Goto, Leaving, Offline, BridgeTopic
  <2>2. CASE CloseBackend
    BY <2>2 DEF CloseBackend, network, Goto, Leaving, Offline, BridgeTopic
  <2>3. CASE Signal \/ UNCHANGED vars
    BY <2>3 DEF Signal, vars, network, process, Leaving, Offline, BridgeTopic
  <2> QED
    BY <1>5, <2>1, <2>2, <2>3
<1>6. CASE TransportCall \/ Crash \/ Restart \/ (Local /\ ~AwaitDelivery /\ ~CloseBackend /\ ~Signal)
  <2>1. pc' \notin {"delivery", "cleanup", "disconnect", "exited"} \/ cause' = "crash"
    BY <1>6 DEF TransportCall, Subscribe, Publish, Crash, Restart, Local, Connect, LoopHead,
       GetStopped, GetNothing, HandleConnected, HandleDisconnected, HandleFatal, HandleMessage,
       Refresh, Raise, Goto, Enter, Execute
  <2>2. pc' # "delivery"
    BY <1>6, <2>1 DEF Crash, Goto, TransportCall, Subscribe, Publish, Restart, Local, Connect,
       LoopHead, GetStopped, GetNothing, HandleConnected, HandleDisconnected, HandleFatal,
       HandleMessage, Refresh, Raise, Enter, Execute
  <2> QED
    BY <2>1, <2>2 DEF Leaving
<1> QED
  BY <1>2, <1>3, <1>4, <1>5, <1>6, StepForms DEF Local

-----------------------------------------------------------------------------
(***************************************************************************)
(* The invariant of the specification, and the theorems.                   *)
(***************************************************************************)
IInv == /\ Typed /\ Mirror /\ Unconnected /\ Quiet /\ Cached /\ Subscribed
        /\ ToldOnline /\ ToldAvail /\ ToldState /\ NoChanges /\ ToldIncomplete /\ ToldResult
        /\ Leaving

LEMMA InitInvariant == Init => IInv
<1> SUFFICES ASSUME Init PROVE IInv
  OBVIOUS
<1>1. Typed
  BY InitTyped
<1>2. Mirror /\ Unconnected /\ Quiet /\ NoChanges /\ Leaving
  BY DEF Init, Mirror, Unconnected, Quiet, NoChanges, Leaving
<1>3. ~Session /\ Cached /\ ToldResult
  BY DEF Init, Session, InLoop, Cached, ToldResult
<1> QED
  BY <1>1, <1>2, <1>3 DEF IInv, Subscribed, ToldOnline, ToldAvail, ToldState, ToldIncomplete

LEMMA Inductive == IInv /\ [Next]_vars => IInv'
<1> SUFFICES ASSUME IInv, [Next]_vars PROVE IInv'
  OBVIOUS
<1>1. Typed' /\ Mirror' /\ Unconnected' /\ Quiet' /\ Cached' /\ Subscribed'
  BY StepTyped, MirrorKept, UnconnectedKept, QuietKept, CachedKept, SubscribedKept DEF IInv
<1>2. ToldOnline' /\ ToldAvail' /\ ToldState' /\ NoChanges' /\ ToldIncomplete' /\ ToldResult'
  BY ToldOnlineKept, ToldAvailKept, ToldStateKept, NoChangesKept, ToldIncompleteKept,
     ToldResultKept DEF IInv
<1>3. Leaving'
  BY LeavingKept DEF IInv
<1> QED
  BY <1>1, <1>2, <1>3 DEF IInv

LEMMA Invariant == Spec => []IInv
  BY InitInvariant, Inductive, PTL DEF Spec

\* _published_availability is what the broker holds, or is about to: an
\* availability that _publish_changed_availability leaves out needs no publication.
THEOREM CacheIsRight == Spec => []CacheMatchesBroker
<1>1. IInv => CacheMatchesBroker
  BY FinalIsEventual DEF IInv, Cached, CacheMatchesBroker, Started
<1> QED
  BY <1>1, Invariant, PTL

\* However many sessions came and went while the loop was busy, once it is idle the
\* one that is up has every subscription of _handle_connected.
THEOREM SessionIsSubscribed == Spec => []SubscribedWhenIdle
<1>1. ASSUME IInv, Idle PROVE subs = SubscribedTopics
  <2>1. Session /\ todo = {}
    BY <1>1 DEF Idle, Session, InLoop, Pending, IInv, Quiet
  <2> QED
    BY <1>1, <2>1 DEF IInv, Subscribed, Typed, Broker
<1>2. IInv => SubscribedWhenIdle
  BY <1>1 DEF SubscribedWhenIdle
<1> QED
  BY <1>2, Invariant, PTL

\* A process that ends without an error leaves the bridge offline at the broker if
\* it knew it was connected (BridgeRuntime.close and publish_and_wait).
THEOREM GracefulClose == Spec => []GracefulCloseIsOffline
<1>1. IInv => GracefulCloseIsOffline
  BY DEF IInv, Leaving, GracefulCloseIsOffline
<1> QED
  BY <1>1, Invariant, PTL

\* With devices that accept commands only, as those of the Harmony G2, an idle loop
\* whose publications have arrived leaves the broker with what the backend reports.
THEOREM BrokerMirrorsBackend ==
  ASSUME CommandOnly
  PROVE  Spec => []RetainedMirrorsBackend
<1>1. ASSUME IInv, Idle, outbox = <<>>
      PROVE  /\ retained[BridgeTopic].value = Online
             /\ \A d \in Devices : retained[DeviceAvail(d)].value = <<avail[d]>>
             /\ \A a \in Addresses : Mode[a] = "command_only" /\ result[a] # NoResult =>
                  retained[LastCommand(a)].value = result[a]
  <2>1. Session /\ Started /\ todo = {} /\ \A t : ~Awaited(t)
    BY <1>1 DEF Idle, Session, Started, InLoop, Pending, IInv, Quiet, Awaited
  <2>2. Final(outbox, retained, BridgeTopic, Online)
    BY <1>1, <2>1 DEF IInv, ToldOnline
  <2>3. \A d \in Devices : Final(outbox, retained, DeviceAvail(d), <<avail[d]>>)
    BY <1>1, <2>1 DEF IInv, ToldAvail
  <2>4. \A a \in Addresses : Mode[a] = "command_only" /\ result[a] # NoResult =>
          Final(outbox, retained, LastCommand(a), result[a])
    BY <1>1, <2>1 DEF IInv, ToldResult
  <2> QED
    BY <1>1, <2>2, <2>3, <2>4, FinalOfNothing
<1>2. IInv => RetainedMirrorsBackend
  BY <1>1 DEF RetainedMirrorsBackend
<1> QED
  BY <1>2, Invariant, PTL

\* With observable devices only, as those of the simulator, it leaves the broker
\* with every observation, and every device that lacks one offline.
THEOREM BrokerMirrorsObservations ==
  ASSUME Observing
  PROVE  Spec => []ObservationsAreMirrored
<1>1. ASSUME IInv, Idle, outbox = <<>>
      PROVE  /\ \A a \in Addresses : Observed(a) => retained[State(a)].value = <<obs[a]>>
             /\ \A d \in Devices : ~Complete(d) => retained[DeviceAvail(d)].value = Offline
  <2>1. Session /\ todo = {} /\ \A t : ~Awaited(t)
    BY <1>1 DEF Idle, Session, InLoop, Pending, IInv, Quiet, Awaited
  <2>2. \A a \in Addresses : Observed(a) => Final(outbox, retained, State(a), <<obs[a]>>)
    BY <1>1, <2>1 DEF IInv, ToldState
  <2>3. \A d \in Devices : ~Complete(d) => Final(outbox, retained, DeviceAvail(d), Offline)
    BY <1>1, <2>1 DEF IInv, ToldIncomplete
  <2> QED
    BY <1>1, <2>2, <2>3, FinalOfNothing
<1>2. IInv => ObservationsAreMirrored
  BY <1>1 DEF ObservationsAreMirrored
<1> QED
  BY <1>2, Invariant, PTL

-----------------------------------------------------------------------------
(***************************************************************************)
(* NoReplay.  The commands that were delivered and not yet executed include*)
(* the live ones that wait in the queue.                                   *)
(***************************************************************************)
Live(e) == \E m \in MessageType : e = Message(m) /\ IsCommand(m) /\ ~m.retain

Waiting == {i \in 1 .. Len(events) : Live(events[i])}

Accounted == executed + Cardinality(Waiting) <= delivered

LEMMA WaitingFinite == ASSUME Typed PROVE IsFiniteSet(Waiting) /\ Cardinality(Waiting) \in Nat
<1>1. IsFiniteSet(1 .. Len(events))
  BY FS_Interval, LenProperties DEF Typed, Queues
<1> QED
  BY <1>1, FS_Subset, FS_CardinalityType DEF Waiting

LEMMA WaitingAppended ==
  ASSUME Typed, NEW e \in Events, events' = Append(events, e)
  PROVE  /\ Cardinality(Waiting') <= Cardinality(Waiting) + 1
         /\ ~Live(e) => Waiting' = Waiting
<1>1. /\ Len(events) \in Nat /\ Len(events') = Len(events) + 1
      /\ events'[Len(events) + 1] = e /\ \A i \in 1 .. Len(events) : events'[i] = events[i]
  BY AppendProperties, LenProperties DEF Typed, Queues
<1>2. Waiting' = IF Live(e) THEN Waiting \cup {Len(events) + 1} ELSE Waiting
  BY <1>1 DEF Waiting
<1>3. Cardinality(Waiting \cup {Len(events) + 1}) <= Cardinality(Waiting) + 1
  <2>1. Cardinality(Waiting \cup {Len(events) + 1}) =
          IF Len(events) + 1 \in Waiting THEN Cardinality(Waiting) ELSE Cardinality(Waiting) + 1
    BY WaitingFinite, FS_AddElement
  <2> QED
    BY <2>1, WaitingFinite
<1> QED
  BY <1>2, <1>3, WaitingFinite

LEMMA WaitingTaken ==
  ASSUME Typed, events # <<>>, events' = Tail(events)
  PROVE  /\ Cardinality(Waiting') \in Nat
         /\ Cardinality(Waiting') <= Cardinality(Waiting)
         /\ Live(Head(events)) => Cardinality(Waiting') + 1 <= Cardinality(Waiting)
<1>1. /\ Len(events) \in Nat /\ Len(events') = Len(events) - 1 /\ Head(events) = events[1]
      /\ \A i \in 1 .. Len(events') : events'[i] = events[i + 1]
      /\ Len(events) > 0
  BY HeadTailProperties, LenProperties, EmptySeq DEF Typed, Queues
<1> DEFINE rest == Waiting \ {1}
           f == [i \in rest |-> i - 1]
<1>2. f \in Surjection(rest, Waiting')
  <2>1. \A i \in rest : i - 1 \in Waiting'
    BY <1>1 DEF Waiting
  <2>2. \A j \in Waiting' : j + 1 \in rest /\ (j + 1) - 1 = j
    BY <1>1 DEF Waiting
  <2> QED
    BY <2>1, <2>2 DEF Surjection
<1>3. /\ IsFiniteSet(rest) /\ Cardinality(rest) \in Nat
      /\ Cardinality(rest) = IF 1 \in Waiting THEN Cardinality(Waiting) - 1 ELSE Cardinality(Waiting)
  BY WaitingFinite, FS_RemoveElement, FS_CardinalityType
<1>4. Live(Head(events)) => 1 \in Waiting
  BY <1>1 DEF Waiting
<1>5. Cardinality(Waiting') \in Nat /\ Cardinality(Waiting') <= Cardinality(rest)
  BY <1>2, <1>3, FS_Surjection, FS_CardinalityType
<1> QED
  BY <1>3, <1>4, <1>5, WaitingFinite

LEMMA AccountedKept == Typed /\ Accounted /\ [Next]_vars => Accounted'
<1> SUFFICES ASSUME Typed, Accounted, [Next]_vars PROVE Accounted'
  OBVIOUS
<1>1. executed \in Nat /\ delivered \in Nat /\ Cardinality(Waiting) \in Nat
  BY WaitingFinite DEF Typed, Counters
<1>2. Cardinality(Waiting') \in Nat
  <2>1. Len(events') \in Nat
    BY StepTyped, LenProperties DEF Typed, Queues
  <2>2. IsFiniteSet(1 .. Len(events'))
    BY <2>1, FS_Interval
  <2> QED
    BY <2>2, FS_Subset, FS_CardinalityType DEF Waiting
<1>3. ASSUME UNCHANGED <<events, executed, delivered>> PROVE Accounted'
  BY <1>3 DEF Accounted, Waiting
<1>4. ASSUME events' = <<>>, UNCHANGED <<executed, delivered>> PROVE Accounted'
  <2>1. Waiting' = {}
    BY <1>4 DEF Waiting
  <2> QED
    BY <1>1, <1>4, <2>1, FS_EmptySet DEF Accounted
<1>5. ASSUME events # <<>>, events' = Tail(events), UNCHANGED <<executed, delivered>>
      PROVE  Accounted'
  BY <1>1, <1>5, WaitingTaken DEF Accounted
<1>6. ASSUME NEW e \in {Connected, Disconnected, Fatal}, events' = Append(events, e),
             UNCHANGED <<executed, delivered>>
      PROVE  Accounted'
  <2>1. e \in Events /\ ~Live(e)
    BY DEF Events, Live, Message, Connected, Disconnected, Fatal
  <2> QED
    BY <1>6, <2>1, WaitingAppended DEF Accounted
<1>7. CASE BrokerDelivers
  <2>1. PICK m \in Inputs :
          /\ events' = Append(events, Message(m))
          /\ delivered' = IF IsCommand(m) /\ ~m.retain THEN delivered + 1 ELSE delivered
    BY <1>7 DEF BrokerDelivers
  <2>2. executed' = executed
    BY <1>7 DEF BrokerDelivers
  <2>3. Message(m) \in Events
    BY BridgeAssumption DEF Events
  <2>4. CASE IsCommand(m) /\ ~m.retain
    BY <1>1, <1>2, <2>1, <2>2, <2>3, <2>4, WaitingAppended DEF Accounted
  <2>5. CASE ~(IsCommand(m) /\ ~m.retain)
    <3>1. \A n : Message(m) = Message(n) => m = n
      BY DEF Message
    <3>2. ~Live(Message(m))
      BY <2>5, <3>1 DEF Live
    <3> QED
      BY <2>1, <2>2, <2>3, <2>5, <3>2, WaitingAppended DEF Accounted
  <2> QED
    BY <2>4, <2>5
<1>8. CASE HandleMessage
  <2>1. PICK m \in Inputs :
          /\ Takes(Message(m))
          /\ \/ UNCHANGED <<backend, history>>
             \/ \E a \in Addresses : Executable(m, a) /\ Execute(m, a)
    BY <1>8 DEF HandleMessage
  <2>2. CASE UNCHANGED <<backend, history>>
    BY <1>5, <2>1, <2>2 DEF Takes, history
  <2>3. ASSUME NEW a \in Addresses, Executable(m, a), Execute(m, a) PROVE Accounted'
    <3>1. Live(Head(events)) /\ events # <<>> /\ events' = Tail(events)
      BY <2>1, <2>3, BridgeAssumption DEF Executable, Takes, Live, IsCommand, Command, StatusTopic
    <3>2. executed' = executed + 1 /\ delivered' = delivered
      BY <2>3 DEF Execute
    <3> QED
      BY <1>1, <1>2, <3>1, <3>2, WaitingTaken DEF Accounted
  <2> QED
    BY <2>1, <2>2, <2>3
<1>9. CASE GetStopped
  BY <1>3, <1>5, <1>9 DEF GetStopped, history
<1>10. CASE HandleConnected \/ HandleDisconnected \/ HandleFatal
  BY <1>5, <1>10 DEF HandleConnected, HandleDisconnected, HandleFatal, Takes, history
<1>11. CASE NetworkConnects
  BY <1>6, <1>11 DEF NetworkConnects, history
<1>12. CASE NetworkRefused
  BY <1>6, <1>12 DEF NetworkRefused
<1>13. CASE NetworkNotices
  BY <1>6, <1>13 DEF NetworkNotices, history
<1>14. CASE Disconnect \/ Crash
  BY <1>4, <1>14 DEF Disconnect, Crash, history
<1>15. CASE \/ NetworkBreaks \/ BrokerPublishesWill \/ BrokerReceives \/ BrokerAcknowledges
            \/ Connect \/ LoopHead \/ GetNothing \/ Refresh \/ TransportCall \/ Close
            \/ AwaitDelivery \/ CloseBackend \/ Signal \/ Restart \/ UNCHANGED vars
  BY <1>3, <1>15 DEF NetworkBreaks, BrokerPublishesWill, BrokerReceives, BrokerAcknowledges,
     Connect, LoopHead, GetNothing, Refresh, TransportCall, Close, AwaitDelivery, CloseBackend,
     Signal, Restart, vars, process, history
<1> QED
  BY <1>7, <1>8, <1>9, <1>10, <1>11, <1>12, <1>13, <1>14, <1>15 DEF Next, Runtime, Network,
     Environment, Terminated

\* The backend executes at most one command for each live one that was delivered:
\* no snapshot, retained message, reconnection or restart makes it execute another
\* (_handle_message).
THEOREM NothingIsReplayed == Spec => []NoReplay
<1>1. Init => Typed /\ Accounted
  <2>1. Init => Cardinality(Waiting) = 0
    <3>1. Init => Waiting = {}
      BY DEF Init, Waiting
    <3> QED
      BY <3>1, FS_EmptySet
  <2> QED
    BY <2>1, InitTyped DEF Init, Accounted
<1>2. (Typed /\ Accounted) /\ [Next]_vars => (Typed /\ Accounted)'
  BY StepTyped, AccountedKept
<1>3. Typed /\ Accounted => NoReplay
  BY WaitingFinite DEF Typed, Counters, Accounted, NoReplay
<1> QED
  BY <1>1, <1>2, <1>3, PTL DEF Spec

-----------------------------------------------------------------------------
(***************************************************************************)
(* What Foreground takes for granted of run() and close().                 *)
(***************************************************************************)
\* run() goes on to close() only once the stop flag is set or with an exception; the
\* backend is closed at the end, and closed whenever the process ends by itself,
\* and so is the network thread.
EndsInOrder ==
  /\ pc \in {"close", "delivery", "cleanup", "disconnect"} => stop \/ cause # "none"
  /\ backendClosed => pc \in {"disconnect", "exited"}
  /\ pc = "exited" => \/ cause = "crash"
                      \/ backendClosed /\ ~loop /\ (stop \/ cause # "none")

Ending ==
  /\ pc \in {"close", "delivery", "cleanup", "disconnect"} => stop \/ cause # "none"
  /\ backendClosed => pc \in {"disconnect", "exited"}
  /\ pc = "disconnect" => backendClosed
  /\ pc = "exited" => cause = "crash" \/ (backendClosed /\ (stop \/ cause # "none"))

LEMMA EndingKept == Typed /\ Ending /\ [Next]_vars => Ending'
<1> SUFFICES ASSUME Typed, Ending, [Next]_vars PROVE Ending'
  OBVIOUS
<1> USE DEF Ending
<1>1. CASE Network
  BY <1>1, NetworkKeeps DEF backend
<1>2. CASE TransportCall
  <2>1. /\ pc \in {"handle", "publish"} /\ UNCHANGED <<stop, backendClosed>>
        /\ \/ \E s \in todo : Enter(pc, todo \ {s})
           \/ Raise("no_connection")
    BY <1>2 DEF TransportCall, Subscribe, Publish, backend
  <2>2. pc' \in {"handle", "publish", "refresh", "head"} \/ (pc' = "close" /\ cause' # "none")
    BY <2>1 DEF Enter, Raise, Goto
  <2> QED
    BY <2>1, <2>2
<1>3. CASE Close
  BY <1>3 DEF Close, Goto, backend
<1>4. CASE Disconnect \/ Crash
  BY <1>4 DEF Disconnect, Crash, Goto, backend
<1>5. CASE Restart
  BY <1>5 DEF Restart, Goto
<1>6. CASE AwaitDelivery \/ CloseBackend \/ Signal
  BY <1>6 DEF AwaitDelivery, CloseBackend, Signal, Goto, backend
<1>7. CASE Connect \/ LoopHead \/ GetStopped \/ GetNothing \/ HandleFatal
  <2>1. /\ pc \in {"start", "head", "get"} /\ UNCHANGED <<stop, backendClosed>>
        /\ \/ pc' \in {"head", "get", "refresh"}
           \/ pc' = "close" /\ (stop \/ cause' # "none")
    BY <1>7 DEF Connect, LoopHead, GetStopped, GetNothing, HandleFatal, Takes, Goto, Raise,
       backend
  <2> QED
    BY <2>1
<1>8. CASE HandleConnected \/ HandleDisconnected \/ HandleMessage \/ Refresh
  <2>1. /\ pc \in {"get", "refresh"} /\ UNCHANGED <<stop, cause, backendClosed>>
        /\ \E part \in {"handle", "publish"}, calls \in SUBSET Slots : Enter(part, calls)
    <3>1. CASE HandleConnected \/ HandleDisconnected
      BY <3>1, SnapshotTyped DEF HandleConnected, HandleDisconnected, Takes, backend
    <3>2. CASE Refresh
      BY <3>2, ChangedTyped DEF Refresh
    <3>3. CASE HandleMessage
      <4>1. pc = "get" /\ UNCHANGED <<stop, cause, backendClosed>>
        BY <3>3 DEF HandleMessage, Takes, Execute, backend
      <4>2. PICK m \in Inputs :
              \/ Enter("handle", SnapshotSlots) \/ Enter("handle", {})
              \/ \E a \in Addresses : Execute(m, a)
        BY <3>3 DEF HandleMessage
      <4>3. ASSUME NEW a \in Addresses, Execute(m, a)
            PROVE  \E calls \in SUBSET Slots : Enter("handle", calls)
        <5>1. PICK o \in Outcomes(a, m.payload) :
                Enter("handle",
                  IF Mode[a] = "command_only"
                  THEN {<<"last_command", a>>} \cup ChangedSlots(o.avail, {DeviceOf[a]})
                  ELSE IF o.status = "confirmed"
                       THEN {<<"state", a>>, <<"confidence", a>>} ELSE {})
          BY <4>3 DEF Execute
        <5>2. {<<"last_command", a>>, <<"state", a>>, <<"confidence", a>>} \subseteq Slots
          BY DEF Slots
        <5> QED
          BY <5>1, <5>2, ChangedTyped
      <4> QED
        BY <4>1, <4>2, <4>3, SnapshotTyped
    <3> QED
      BY <1>8, <3>1, <3>2, <3>3
  <2>2. pc' \in {"handle", "publish", "refresh", "head"}
    BY <2>1 DEF Enter
  <2> QED
    BY <2>1, <2>2
<1>9. CASE UNCHANGED vars
  BY <1>9 DEF vars, process, backend
<1> QED
  BY <1>1, <1>2, <1>3, <1>4, <1>5, <1>6, <1>7, <1>8, <1>9, StepForms DEF Local

\* run() returns only when it has been told to stop, or raises; close() has then closed
\* the backend and the transport, whatever was under way, and no command is executed
\* after that (BridgeRuntime.run, close).
THEOREM RunEndsInOrder == Spec => []EndsInOrder
<1>1. Init => Ending
  BY DEF Init, Ending
<1>2. Spec => []Ending
  <2>1. IInv => Typed
    BY DEF IInv
  <2> QED
    BY <1>1, <2>1, EndingKept, Invariant, PTL DEF Spec
<1>3. IInv /\ Ending => EndsInOrder
  BY DEF IInv, Unconnected, Ending, EndsInOrder
<1> QED
  BY <1>2, <1>3, Invariant, PTL
=============================================================================
