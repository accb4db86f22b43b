------------------------ MODULE BridgeCurrent_proofs ------------------------
(***************************************************************************)
(* OnlineIsCurrent, for any number of processes and sessions, and devices  *)
(* that either all accept commands only or are all observable.             *)
(*                                                                         *)
(* A publication may depend on others: the bridge is only online once each *)
(* of its devices has an availability, and a device once it has its states *)
(* and confidences.  Whatever a publication depends on is before it in     *)
(* what Paho sends, or has already reached the broker from this process.   *)
(***************************************************************************)
EXTENDS Bridge_proofs

Uniform == CommandOnly \/ Observing

ObservedAddresses(d) == {a \in Addresses : DeviceOf[a] = d /\ Mode[a] = "observable"}

ObservedTopics(d) == {State(a) : a \in ObservedAddresses(d)}
                       \cup {Confidence(a) : a \in ObservedAddresses(d)}

DeviceTopics == RetainedTopics \ {BridgeTopic}

\* The topics that a publication of this value on this topic depends on.
Needs(topic, value) ==
  IF value # Online THEN {}
  ELSE IF topic = BridgeTopic THEN {DeviceAvail(d) : d \in Devices}
  ELSE UNION {ObservedTopics(d) : d \in {e \in Devices : topic = DeviceAvail(e)}}

\* The topic has a value of this process among the first n publications of Paho.
Announced(t, n) == retained[t].run = run \/ \E j \in 1 .. n : outbox[j].topic = t

-----------------------------------------------------------------------------
(***************************************************************************)
(* The inductive invariant.                                                *)
(***************************************************************************)
\* The runs that made the publications and the retained values.
Runs == /\ \A i \in 1 .. Len(outbox) : outbox[i].run = run
        /\ \A t \in RetainedTopics : retained[t].run <= run
        /\ \A i \in 1 .. sent : outbox[i].topic \in DeviceTopics =>
             retained[outbox[i].topic].run = run
        /\ pc \in {"start", "exited"} => outbox = <<>>

Ordered == \A i \in 1 .. Len(outbox) :
  \A t \in Needs(outbox[i].topic, outbox[i].value) : Announced(t, i - 1)

\* A call still to be made comes after those it depends on.
Queued == \A s \in todo : s[1] # "subscribe" =>
  \A t \in Needs(SlotTopic(s), SlotValue(s)) :
    \/ \E r \in todo : r[1] # "subscribe" /\ SlotTopic(r) = t /\ Before(r, s)
    \/ Announced(t, Len(outbox))

\* A device that this process has announced as online has its observations.
Supported == \A d \in Devices :
  retained[DeviceAvail(d)].run = run /\ retained[DeviceAvail(d)].value = Online =>
    \A t \in ObservedTopics(d) : retained[t].run = run

\* The broker believes that a process before this one is online.
Stale == retained[BridgeTopic].value = Online /\ retained[BridgeTopic].run # run

\* Then this process has told it nothing, and will first say that it is offline.
Untold == Stale => /\ sent = 0
                   /\ outbox # <<>> => outbox[1].topic = BridgeTopic /\ outbox[1].value = Offline

Announcing == /\ pc = "start" => ~connected
              /\ Stale /\ outbox = <<>> /\ connected /\ InLoop =>
                   pc = "handle" /\ <<"offline", 0>> \in todo

Current == Runs /\ Ordered /\ Queued /\ Supported /\ Untold /\ Announcing /\ OnlineIsCurrent

-----------------------------------------------------------------------------
LEMMA NeedsTyped ==
  ASSUME NEW topic, NEW value
  PROVE  Needs(topic, value) \subseteq DeviceTopics
  BY DEF Needs, DeviceTopics, RetainedTopics, ObservedTopics, ObservedAddresses, DeviceAvail,
     State, Confidence, BridgeTopic

\* Where each call comes.
LEMMA OrderOf ==
  /\ \A i : Order(<<"subscribe", i>>) = <<1, 0, i>>
  /\ Order(<<"offline", 0>>) = <<2, 0, 0>> /\ Order(<<"online", 0>>) = <<7, 0, 0>>
  /\ \A d \in Devices : /\ Order(<<"discovery", d>>) = <<3, d, 0>>
                        /\ Order(<<"availability", d>>) = <<4, d, 2 * NAddresses + 2>>
                        /\ Order(<<"changed", d>>) = <<6, d, 0>>
  /\ \A a \in Addresses : /\ Order(<<"state", a>>) = <<4, DeviceOf[a], 2 * a>>
                          /\ Order(<<"confidence", a>>) = <<4, DeviceOf[a], 2 * a + 1>>
                          /\ Order(<<"last_command", a>>) = <<5, 0, 0>>
<1>1. \A i : Order(<<"subscribe", i>>) = <<1, 0, i>>
  BY DEF Order
<1>2. Order(<<"offline", 0>>) = <<2, 0, 0>> /\ Order(<<"online", 0>>) = <<7, 0, 0>>
  BY DEF Order
<1>3. ASSUME NEW d PROVE Order(<<"discovery", d>>) = <<3, d, 0>>
  BY DEF Order
<1>4. ASSUME NEW d PROVE Order(<<"availability", d>>) = <<4, d, 2 * NAddresses + 2>>
  BY DEF Order
<1>5. ASSUME NEW d PROVE Order(<<"changed", d>>) = <<6, d, 0>>
  BY DEF Order
<1>6. ASSUME NEW a PROVE Order(<<"state", a>>) = <<4, DeviceOf[a], 2 * a>>
  BY DEF Order
<1>7. ASSUME NEW a PROVE Order(<<"confidence", a>>) = <<4, DeviceOf[a], 2 * a + 1>>
  BY DEF Order
<1>8. ASSUME NEW a PROVE Order(<<"last_command", a>>) = <<5, 0, 0>>
  BY DEF Order
<1> QED
  BY <1>1, <1>2, <1>3, <1>4, <1>5, <1>6, <1>7, <1>8

LEMMA OrderTyped ==
  ASSUME NEW s \in Slots
  PROVE  Order(s)[1] \in Int /\ Order(s)[2] \in Int /\ Order(s)[3] \in Int
<1>1. IF s[1] = "subscribe" THEN s[2] \in 1 .. NAddresses + 1 ELSE PublicationSlot(s)
  BY SlotForms
<1>2. \A a \in Addresses : DeviceOf[a] \in Int /\ 2 * a \in Int /\ 2 * a + 1 \in Int
  BY BridgeAssumption DEF Addresses, Devices
<1>3. Devices \subseteq Int /\ 2 * NAddresses + 2 \in Int
  BY BridgeAssumption DEF Devices
<1>4. CASE s[1] = "subscribe"
  BY <1>1, <1>4 DEF Order
<1>5. CASE s = <<"offline", 0>> \/ s = <<"online", 0>>
  BY <1>5, OrderOf
<1>6. ASSUME NEW d \in Devices,
             s = <<"discovery", d>> \/ s = <<"availability", d>> \/ s = <<"changed", d>>
      PROVE  Order(s)[1] \in Int /\ Order(s)[2] \in Int /\ Order(s)[3] \in Int
  <2>1. Order(s) \in {<<3, d, 0>>, <<4, d, 2 * NAddresses + 2>>, <<6, d, 0>>}
    BY <1>6, OrderOf
  <2> QED
    BY <1>3, <2>1
<1>7. ASSUME NEW a \in Addresses,
             s = <<"state", a>> \/ s = <<"confidence", a>> \/ s = <<"last_command", a>>
      PROVE  Order(s)[1] \in Int /\ Order(s)[2] \in Int /\ Order(s)[3] \in Int
  <2>1. Order(s) \in {<<4, DeviceOf[a], 2 * a>>, <<4, DeviceOf[a], 2 * a + 1>>, <<5, 0, 0>>}
    BY <1>7, OrderOf
  <2> QED
    BY <1>2, <2>1
<1> QED
  BY <1>1, <1>4, <1>5, <1>6, <1>7 DEF PublicationSlot

\* The call that is made next is before no other.
LEMMA NextIsFirst ==
  ASSUME Typed, NEW s \in todo, IsNext(s), NEW r \in todo, Before(r, s)
  PROVE  FALSE
<1>1. s \in Slots /\ r \in Slots
  BY DEF Typed, Runtimes
<1>2. CASE r = s
  BY <1>1, <1>2, OrderTyped DEF Before
<1>3. CASE r # s
  <2>1. Before(s, r)
    BY <1>3 DEF IsNext
  <2> QED
    BY <1>1, <2>1, OrderTyped DEF Before
<1> QED
  BY <1>2, <1>3

LEMMA OfflineIsFirst ==
  ASSUME Typed, <<"offline", 0>> \in todo, NEW s \in todo, s[1] # "subscribe", IsNext(s)
  PROVE  s = <<"offline", 0>>
<1> SUFFICES ASSUME s # <<"offline", 0>> PROVE FALSE
  OBVIOUS
<1>1. Order(<<"offline", 0>>) = <<2, 0, 0>>
  BY DEF Order
<1>2. PublicationSlot(s)
  BY SlotForms DEF Typed, Runtimes
<1>3. Order(s)[1] \in 3 .. 7
  BY <1>2 DEF Order, PublicationSlot
<1>4. Before(<<"offline", 0>>, s)
  BY <1>1, <1>3 DEF Before
<1> QED
  BY <1>4, NextIsFirst

\* Nothing is ever unsaid: what was announced stays announced.
LEMMA AnnouncedAppend ==
  ASSUME Typed, NEW p \in PublicationType, outbox' = Append(outbox, p),
         UNCHANGED <<retained, run>>, NEW t, NEW n \in 0 .. Len(outbox), Announced(t, n)
  PROVE  Announced(t, n)'
<1>1. \A i \in 1 .. Len(outbox) : outbox'[i] = outbox[i]
  BY AppendProperties DEF Typed, Queues
<1>2. Len(outbox) \in Nat
  BY LenProperties DEF Typed, Queues
<1> QED
  BY <1>1, <1>2 DEF Announced

\* What the depended-on call published is announced once it is made.
LEMMA AnnouncedNow ==
  ASSUME Typed, NEW p \in PublicationType, outbox' = Append(outbox, p),
         NEW n, n = Len(outbox')
  PROVE  Announced(p.topic, n)'
<1>1. outbox'[Len(outbox) + 1] = p /\ n = Len(outbox) + 1 /\ Len(outbox) \in Nat
  BY AppendProperties, LenProperties DEF Typed, Queues
<1>2. n \in 1 .. n /\ outbox'[n].topic = p.topic
  BY <1>1
<1> QED
  BY <1>2 DEF Announced

LEMMA AnnouncedKept ==
  ASSUME Typed, UNCHANGED <<outbox, run>>, NEW t, NEW n, Announced(t, n),
         retained'[t].run \in {retained[t].run, run}
  PROVE  Announced(t, n)'
  BY DEF Announced

-----------------------------------------------------------------------------
(***************************************************************************)
(* What the steps do to Paho's memory and to the broker.                   *)
(***************************************************************************)
\* The broker's values of the devices only ever become this process's own.
LEMMA NetworkForms ==
  ASSUME Typed, Runs, Network
  PROVE  /\ run' = run
         /\ \A t \in DeviceTopics : retained'[t] = retained[t] \/ retained'[t].run = run
         /\ outbox' = outbox \/ BrokerAcknowledges
<1>1. run' = run
  BY NetworkKeeps
<1>2. outbox' = outbox \/ BrokerAcknowledges
  BY DEF Network, NetworkConnects, NetworkRefused, NetworkBreaks, NetworkNotices,
     BrokerPublishesWill, BrokerReceives, BrokerDelivers, network
<1>3. CASE NetworkConnects \/ BrokerPublishesWill
  <2>1. \A t \in DeviceTopics : retained'[t] = retained[t]
    BY <1>3 DEF NetworkConnects, BrokerPublishesWill, DeviceTopics, Typed, Broker
  <2> QED
    BY <1>1, <1>2, <2>1
<1>4. CASE BrokerReceives
  <2>1. sent + 1 \in 1 .. Len(outbox)
    BY <1>4, LenProperties DEF BrokerReceives, Typed, Queues
  <2>2. outbox[sent + 1].run = run
    BY <2>1 DEF Runs
  <2>3. \A t \in DeviceTopics : retained'[t] = retained[t] \/ retained'[t].run = run
    BY <1>4, <2>2 DEF BrokerReceives, DeviceTopics, Typed, Broker
  <2> QED
    BY <1>1, <1>2, <2>3
<1>5. CASE NetworkRefused \/ NetworkBreaks \/ NetworkNotices \/ BrokerAcknowledges \/ BrokerDelivers
  <2>1. retained' = retained
    BY <1>5 DEF NetworkRefused, NetworkBreaks, NetworkNotices, BrokerAcknowledges,
       BrokerDelivers, network
  <2> QED
    BY <1>1, <1>2, <2>1
<1> QED
  BY <1>3, <1>4, <1>5 DEF Network

\* What an acknowledgement takes out of Paho's memory has reached the broker.
LEMMA AcknowledgedForms ==
  ASSUME Typed, Runs, BrokerAcknowledges
  PROVE  /\ UNCHANGED <<retained, run>> /\ sent' = sent - 1 /\ sent > 0 /\ sent \in Nat
         /\ Len(outbox) \in Nat /\ Len(outbox') = Len(outbox) - 1 /\ sent <= Len(outbox)
         /\ \A i \in 1 .. Len(outbox) - 1 : outbox'[i] = outbox[i + 1]
         /\ \A t \in DeviceTopics : \A n \in 1 .. Len(outbox) :
              Announced(t, n) => Announced(t, n - 1)'
<1>1. /\ UNCHANGED <<retained, run>> /\ sent' = sent - 1 /\ sent > 0 /\ outbox' = Tail(outbox)
      /\ sent \in 0 .. Len(outbox) /\ outbox \in Seq(PublicationType) /\ Len(outbox) \in Nat
  BY LenProperties DEF BrokerAcknowledges, Typed, Queues, process
<1>2. outbox # <<>>
  BY <1>1
<1>3. Len(outbox') = Len(outbox) - 1 /\ \A i \in 1 .. Len(outbox) - 1 : outbox'[i] = outbox[i + 1]
  BY <1>1, <1>2, HeadTailProperties
<1>4. ASSUME NEW t \in DeviceTopics, NEW n \in 1 .. Len(outbox), Announced(t, n)
      PROVE  Announced(t, n - 1)'
  <2>1. CASE retained[t].run = run
    BY <1>1, <2>1 DEF Announced
  <2>2. ASSUME NEW j \in 1 .. n, outbox[j].topic = t, j > 1
        PROVE  Announced(t, n - 1)'
    <3>1. j - 1 \in 1 .. n - 1 /\ outbox'[j - 1].topic = t
      BY <1>1, <1>3, <2>2
    <3> QED
      BY <3>1 DEF Announced
  <2>3. ASSUME outbox[1].topic = t
        PROVE  Announced(t, n - 1)'
    <3>1. retained[t].run = run
      BY <1>1, <2>3 DEF Runs
    <3> QED
      BY <2>1, <3>1
  <2> QED
    BY <1>4, <2>1, <2>2, <2>3 DEF Announced
<1> QED
  BY <1>1, <1>3, <1>4

\* A call or the end of the process adds at most one publication, of its own.
Adds(p) == /\ p \in PublicationType /\ p.run = run
           /\ outbox' = Append(outbox, p)

LEMMA AddsForms ==
  ASSUME Typed, NEW p, Adds(p)
  PROVE  /\ Len(outbox) \in Nat /\ Len(outbox') = Len(outbox) + 1
         /\ outbox'[Len(outbox) + 1] = p
         /\ \A i \in 1 .. Len(outbox) : outbox'[i] = outbox[i]
  BY AppendProperties, LenProperties DEF Typed, Queues, Adds

LEMMA ClosePublishes ==
  ASSUME Typed, Close
  PROVE  \/ outbox' = outbox
         \/ \E p : Adds(p) /\ p.topic = BridgeTopic /\ p.value = Offline
<1>1. Publication(BridgeTopic, Offline) \in PublicationType
  BY DEF Publication, PublicationType, PublishedTopics, RetainedTopics, Values, Words,
     Availability, Offline, Typed, Counters
<1> QED
  BY <1>1 DEF Close, Adds, Publication

LEMMA CallPublishes ==
  ASSUME Typed, TransportCall
  PROVE  /\ UNCHANGED <<retained, sent, run, backend, connected>>
         /\ pc \in {"handle", "publish"}
         /\ \E s \in todo :
              /\ IsNext(s)
              /\ \/ todo' = todo \ {s} /\ Enter(pc, todo')
                 \/ todo' = {} /\ pc' = "close"
              /\ \/ s[1] = "subscribe" /\ outbox' = outbox
                 \/ /\ s[1] # "subscribe"
                    /\ \E p : Adds(p) /\ p.topic = SlotTopic(s) /\ p.value = SlotValue(s)
<1>1. PICK s \in todo : IsNext(s) /\ (Subscribe(s) \/ Publish(s))
  BY DEF TransportCall
<1>2. \/ todo' = todo \ {s} /\ Enter(pc, todo')
      \/ todo' = {} /\ pc' = "close"
  BY <1>1 DEF Subscribe, Publish, Raise, Goto, Enter
<1>3. CASE Subscribe(s)
  BY <1>1, <1>2, <1>3 DEF Subscribe, TransportCall
<1>4. CASE Publish(s)
  <2>1. Adds(Publication(SlotTopic(s), SlotValue(s)))
    BY <1>4, PublicationTyped DEF Publish, Adds, Publication
  <2> QED
    BY <1>1, <1>2, <1>4, <2>1 DEF Publish, TransportCall, Publication
<1> QED
  BY <1>1, <1>3, <1>4

LEMMA EndForms ==
  ASSUME Disconnect \/ Crash
  PROVE  /\ UNCHANGED <<retained, run, connected>> /\ outbox' = <<>> /\ sent' = 0
         /\ todo' = {} /\ pc' = "exited"
  BY DEF Disconnect, Crash, Goto

\* The steps of the runtime thread that neither start nor end a process.
LEMMA LocalEnds == Local => (pc' \in {"start", "exited"} => Signal)
  BY DEF Local, Connect, LoopHead, GetStopped, GetNothing, HandleConnected,
     HandleDisconnected, HandleFatal, HandleMessage, Refresh, AwaitDelivery, CloseBackend,
     Goto, Raise, Enter, Execute

-----------------------------------------------------------------------------
(***************************************************************************)
(* Each part of the invariant is kept.                                     *)
(***************************************************************************)
LEMMA RunsKept == Typed /\ Runs /\ [Next]_vars => Runs'
<1> SUFFICES ASSUME Typed, Runs, [Next]_vars PROVE Runs'
  OBVIOUS
<1>1. /\ Len(outbox) \in Nat /\ sent \in 0 .. Len(outbox) /\ run \in Nat
      /\ BridgeTopic \in RetainedTopics /\ DeviceTopics \subseteq RetainedTopics
      /\ \A t \in RetainedTopics : retained[t].run \in Nat
  BY LenProperties DEF Typed, Queues, Counters, Broker, RetainedTopics, DeviceTopics
<1>2. ASSUME UNCHANGED <<retained, outbox, run>>, sent' \in {0, sent},
             pc' \in {"start", "exited"} => pc \in {"start", "exited"}
      PROVE  Runs'
  BY <1>1, <1>2 DEF Runs
<1>3. ASSUME NEW p, Adds(p), UNCHANGED <<retained, run, sent>>, pc' \notin {"start", "exited"}
      PROVE  Runs'
  <2>1. /\ Len(outbox') = Len(outbox) + 1 /\ outbox'[Len(outbox) + 1].run = run
        /\ \A i \in 1 .. Len(outbox) : outbox'[i] = outbox[i]
    BY <1>3, AddsForms DEF Adds
  <2> QED
    BY <1>1, <1>3, <2>1 DEF Runs
<1>4. CASE NetworkConnects \/ BrokerPublishesWill
  <2>1. /\ \A t \in DeviceTopics : retained'[t] = retained[t]
        /\ retained'[BridgeTopic] = retained[BridgeTopic] \/ retained'[BridgeTopic].run = 0
    BY <1>4 DEF NetworkConnects, BrokerPublishesWill, DeviceTopics, Typed, Broker, Will
  <2>2. outbox' = outbox /\ sent' \in {0, sent} /\ pc' = pc /\ run' = run
    BY <1>4 DEF NetworkConnects, BrokerPublishesWill, process
  <2> QED
    BY <1>1, <2>1, <2>2 DEF Runs, DeviceTopics
<1>5. CASE BrokerReceives
  <2>1. sent + 1 \in 1 .. Len(outbox) /\ sent' = sent + 1 /\ outbox' = outbox /\ pc' = pc /\ run' = run
    BY <1>1, <1>5 DEF BrokerReceives, process
  <2>2. outbox[sent + 1].run = run
    BY <2>1 DEF Runs
  <2>3. \A t \in RetainedTopics :
          retained'[t].run = IF outbox[sent + 1].topic = t THEN run ELSE retained[t].run
    BY <1>5, <2>2 DEF BrokerReceives, Typed, Broker
  <2> QED
    BY <1>1, <2>1, <2>2, <2>3 DEF Runs
<1>6. CASE BrokerAcknowledges
  <2>1. pc' = pc
    BY <1>6 DEF BrokerAcknowledges, process
  <2>2. /\ UNCHANGED <<retained, run>> /\ sent' = sent - 1 /\ sent > 0
        /\ Len(outbox') = Len(outbox) - 1
        /\ \A i \in 1 .. Len(outbox) - 1 : outbox'[i] = outbox[i + 1]
    BY <1>6, AcknowledgedForms
  <2>3. \A i \in 1 .. Len(outbox') : i + 1 \in 1 .. Len(outbox) /\ outbox'[i] = outbox[i + 1]
    BY <1>1, <2>2
  <2>4. \A i \in 1 .. sent' : i + 1 \in 1 .. sent /\ outbox'[i] = outbox[i + 1]
    BY <1>1, <2>2
  <2>5. pc \notin {"start", "exited"}
    <3>1. outbox # <<>>
      BY <1>1, <2>2
    <3> QED
      BY <3>1 DEF Runs
  <2> QED
    BY <2>1, <2>2, <2>3, <2>4, <2>5 DEF Runs
<1>7. CASE NetworkRefused \/ NetworkBreaks \/ NetworkNotices \/ BrokerDelivers
  BY <1>2, <1>7 DEF NetworkRefused, NetworkBreaks, NetworkNotices, BrokerDelivers, network, process
<1>8. CASE TransportCall
  <2>1. pc' \notin {"start", "exited"}
    BY <1>8, CallPublishes DEF Enter
  <2> QED
    BY <1>2, <1>3, <1>8, <2>1, CallPublishes
<1>9. CASE Close
  <2>1. pc' \notin {"start", "exited"} /\ UNCHANGED <<retained, run, sent>>
    BY <1>9 DEF Close, Goto
  <2> QED
    BY <1>2, <1>3, <1>9, <2>1, ClosePublishes
<1>10. CASE Disconnect \/ Crash
  BY <1>1, <1>10, EndForms DEF Runs
<1>11. CASE Restart
  <2>1. pc = "exited" /\ run' = run + 1 /\ UNCHANGED <<retained, outbox, sent>>
    BY <1>11 DEF Restart, network
  <2>2. outbox = <<>> /\ sent = 0
    BY <1>1, <2>1 DEF Runs
  <2> QED
    BY <1>1, <2>1, <2>2 DEF Runs
<1>12. CASE Local
  <2>1. UNCHANGED <<retained, outbox, run, sent>>
    BY <1>12, LocalKeeps DEF network
  <2>2. pc' \in {"start", "exited"} => pc' = pc
    BY <1>12, LocalEnds DEF Signal
  <2> QED
    BY <1>2, <2>1, <2>2
<1>13. CASE UNCHANGED vars
  BY <1>2, <1>13 DEF vars, network, process
<1> QED
  BY <1>4, <1>5, <1>6, <1>7, <1>8, <1>9, <1>10, <1>11, <1>12, <1>13, StepForms DEF Network

LEMMA OrderedKept == Typed /\ Runs /\ Ordered /\ Queued /\ [Next]_vars => Ordered'
<1> SUFFICES ASSUME Typed, Runs, Ordered, Queued, [Next]_vars PROVE Ordered'
  OBVIOUS
<1>1. Len(outbox) \in Nat
  BY LenProperties DEF Typed, Queues
<1>2. ASSUME UNCHANGED <<outbox, run>>,
             \A t \in DeviceTopics : retained'[t] = retained[t] \/ retained'[t].run = run
      PROVE  Ordered'
  BY <1>2, NeedsTyped DEF Ordered, Announced
<1>3. ASSUME NEW p, Adds(p), UNCHANGED <<retained, run>>,
             \A t \in Needs(p.topic, p.value) : Announced(t, Len(outbox))
      PROVE  Ordered'
  <2>1. /\ Len(outbox') = Len(outbox) + 1 /\ outbox'[Len(outbox) + 1] = p
        /\ \A i \in 1 .. Len(outbox) : outbox'[i] = outbox[i]
    BY <1>3, AddsForms
  <2>2. \A t : \A n \in 0 .. Len(outbox) : Announced(t, n) => Announced(t, n)'
    BY <1>3, AnnouncedAppend DEF Adds
  <2>3. SUFFICES ASSUME NEW i \in 1 .. Len(outbox) + 1,
                        NEW t \in Needs(outbox'[i].topic, outbox'[i].value)
                 PROVE  Announced(t, i - 1)'
    BY <2>1 DEF Ordered, Needs
  <2>4. CASE i = Len(outbox) + 1
    BY <1>1, <1>3, <2>1, <2>2, <2>3, <2>4
  <2>5. CASE i # Len(outbox) + 1
    <3>1. i \in 1 .. Len(outbox) /\ i - 1 \in 0 .. Len(outbox) /\ outbox'[i] = outbox[i]
      BY <1>1, <2>1, <2>5
    <3> QED
      BY <2>2, <2>3, <3>1 DEF Ordered
  <2> QED
    BY <2>4, <2>5
<1>4. CASE Network /\ ~BrokerAcknowledges
  BY <1>2, <1>4, NetworkForms
<1>5. CASE BrokerAcknowledges
  <2>1. SUFFICES ASSUME NEW i \in 1 .. Len(outbox) - 1,
                        NEW t \in Needs(outbox[i + 1].topic, outbox[i + 1].value)
                 PROVE  Announced(t, i - 1)'
    BY <1>5, AcknowledgedForms DEF Ordered, Needs
  <2>2. i + 1 \in 1 .. Len(outbox) /\ i \in 1 .. Len(outbox) /\ (i + 1) - 1 = i
    BY <1>1
  <2>3. Announced(t, i) /\ t \in DeviceTopics
    BY <2>1, <2>2, NeedsTyped DEF Ordered
  <2> QED
    BY <1>5, <2>2, <2>3, AcknowledgedForms
<1>6. CASE TransportCall
  <2>1. PICK s \in todo :
          /\ IsNext(s)
          /\ \/ s[1] = "subscribe" /\ outbox' = outbox
             \/ /\ s[1] # "subscribe"
                /\ \E p : Adds(p) /\ p.topic = SlotTopic(s) /\ p.value = SlotValue(s)
    BY <1>6, CallPublishes
  <2>2. UNCHANGED <<retained, run>>
    BY <1>6, CallPublishes
  <2>3. CASE outbox' = outbox
    BY <1>2, <2>2, <2>3
  <2>4. ASSUME NEW p, Adds(p), p.topic = SlotTopic(s), p.value = SlotValue(s), s[1] # "subscribe"
        PROVE  Ordered'
    <3>1. \A t \in Needs(p.topic, p.value) : Announced(t, Len(outbox))
      BY <2>1, <2>4, NextIsFirst DEF Queued
    <3> QED
      BY <1>3, <2>2, <2>4, <3>1
  <2> QED
    BY <2>1, <2>3, <2>4
<1>7. CASE Close
  <2>1. UNCHANGED <<retained, run>>
    BY <1>7 DEF Close
  <2>2. \A t : Needs(t, Offline) = {}
    BY DEF Needs, Offline, Online
  <2> QED
    BY <1>2, <1>3, <1>7, <2>1, <2>2, ClosePublishes
<1>8. CASE Disconnect \/ Crash
  BY <1>8, EndForms DEF Ordered
<1>9. CASE Restart
  <2>1. outbox' = <<>>
    BY <1>9 DEF Restart, network, Runs
  <2> QED
    BY <2>1 DEF Ordered
<1>10. CASE Local \/ UNCHANGED vars
  BY <1>2, <1>10, LocalKeeps DEF vars, network, process
<1> QED
  BY <1>4, <1>5, <1>6, <1>7, <1>8, <1>9, <1>10, StepForms DEF Network

LEMMA SupportedKept == Typed /\ Runs /\ Ordered /\ Supported /\ [Next]_vars => Supported'
<1> SUFFICES ASSUME Typed, Runs, Ordered, Supported, [Next]_vars, NEW d \in Devices,
                    retained'[DeviceAvail(d)].run = run', retained'[DeviceAvail(d)].value = Online,
                    NEW t \in ObservedTopics(d)
             PROVE  retained'[t].run = run'
  BY DEF Supported, DeviceAvail, ObservedTopics, ObservedAddresses, State, Confidence, Online
<1>1. /\ Len(outbox) \in Nat /\ sent \in 0 .. Len(outbox) /\ run \in Nat
      /\ \A u \in RetainedTopics : retained[u].run \in Nat /\ retained[u].run <= run
  BY LenProperties DEF Typed, Queues, Counters, Broker, Runs
<1>2. DeviceAvail(d) \in DeviceTopics /\ t \in DeviceTopics
  BY DEF DeviceTopics, RetainedTopics, ObservedTopics, ObservedAddresses, DeviceAvail,
     State, Confidence, BridgeTopic
<1>3. ASSUME run' = run, retained'[DeviceAvail(d)] = retained[DeviceAvail(d)],
             retained'[t] = retained[t] \/ retained'[t].run = run
      PROVE  retained'[t].run = run'
  BY <1>3 DEF Supported
<1>4. CASE BrokerReceives
  <2> DEFINE p == outbox[sent + 1]
  <2>1. sent + 1 \in 1 .. Len(outbox) /\ run' = run
    BY <1>1, <1>4 DEF BrokerReceives, process
  <2>2. CASE p.topic = DeviceAvail(d)
    <3>1. retained'[DeviceAvail(d)].value = p.value
      BY <1>2, <1>4, <2>2 DEF BrokerReceives, DeviceTopics, Typed, Broker
    <3>2. t \in Needs(p.topic, p.value)
      BY <1>2, <2>2, <3>1 DEF Needs, DeviceTopics
    <3>3. Announced(t, sent)
      BY <1>1, <2>1, <3>2 DEF Ordered
    <3>4. retained[t].run = run
      BY <1>2, <3>3 DEF Announced, Runs
    <3> QED
      BY <1>2, <1>4, <2>1, <3>4, NetworkForms DEF Network
  <2>3. CASE p.topic # DeviceAvail(d)
    <3>1. retained'[DeviceAvail(d)] = retained[DeviceAvail(d)]
      BY <1>2, <1>4, <2>3 DEF BrokerReceives, DeviceTopics, Typed, Broker
    <3> QED
      BY <1>2, <1>3, <1>4, <2>1, <3>1, NetworkForms DEF Network
  <2> QED
    BY <2>2, <2>3
<1>5. CASE NetworkConnects \/ BrokerPublishesWill
  BY <1>2, <1>3, <1>5 DEF NetworkConnects, BrokerPublishesWill, DeviceTopics, Typed, Broker, process
<1>6. CASE NetworkRefused \/ NetworkBreaks \/ NetworkNotices \/ BrokerAcknowledges \/ BrokerDelivers
  BY <1>3, <1>6 DEF NetworkRefused, NetworkBreaks, NetworkNotices, BrokerAcknowledges,
     BrokerDelivers, network, process
<1>7. CASE TransportCall \/ Close \/ Disconnect \/ Crash
  BY <1>3, <1>7, CallPublishes, EndForms DEF Close
<1>8. CASE Restart
  <2>1. run' = run + 1 /\ retained' = retained
    BY <1>8 DEF Restart, network
  <2> QED
    BY <1>1, <1>2, <2>1 DEF DeviceTopics
<1>9. CASE Local \/ UNCHANGED vars
  BY <1>3, <1>9, LocalKeeps DEF vars, network, process
<1> QED
  BY <1>4, <1>5, <1>6, <1>7, <1>8, <1>9, StepForms DEF Network

\* The broker hears from this process that it is offline before anything else.
LEMMA UntoldKept ==
  Typed /\ Runs /\ Quiet /\ Untold /\ Announcing /\ [Next]_vars => Untold'
<1> SUFFICES ASSUME Typed, Runs, Quiet, Untold, Announcing, [Next]_vars, Stale'
             PROVE  /\ sent' = 0
                    /\ outbox' # <<>> => outbox'[1].topic = BridgeTopic /\ outbox'[1].value = Offline
  BY DEF Untold, BridgeTopic, Offline
<1>1. /\ Len(outbox) \in Nat /\ sent \in 0 .. Len(outbox) /\ run \in Nat
      /\ BridgeTopic \in RetainedTopics
  BY LenProperties DEF Typed, Queues, Counters, RetainedTopics
<1>2. ASSUME UNCHANGED <<retained, outbox, run>>, sent' \in {0, sent}
      PROVE  /\ sent' = 0
             /\ outbox' # <<>> => outbox'[1].topic = BridgeTopic /\ outbox'[1].value = Offline
  BY <1>2 DEF Untold, Stale
<1>3. ASSUME NEW p, Adds(p), UNCHANGED <<retained, run, sent>>,
             outbox = <<>> => p.topic = BridgeTopic /\ p.value = Offline
      PROVE  /\ sent' = 0
             /\ outbox' # <<>> => outbox'[1].topic = BridgeTopic /\ outbox'[1].value = Offline
  <2>1. sent' = 0 /\ (outbox # <<>> => outbox[1].topic = BridgeTopic /\ outbox[1].value = Offline)
    BY <1>3 DEF Untold, Stale
  <2>2. outbox'[Len(outbox) + 1] = p /\ \A i \in 1 .. Len(outbox) : outbox'[i] = outbox[i]
    BY <1>3, AddsForms
  <2>3. CASE outbox = <<>>
    BY <1>3, <2>1, <2>2, <2>3
  <2>4. CASE outbox # <<>>
    <3>1. 1 \in 1 .. Len(outbox)
      BY <1>1, <2>4, EmptySeq DEF Typed, Queues
    <3> QED
      BY <2>1, <2>2, <2>4, <3>1
  <2> QED
    BY <2>3, <2>4
<1>4. CASE NetworkConnects \/ BrokerPublishesWill
  <2>1. retained'[BridgeTopic] = Will \/ retained' = retained
    BY <1>1, <1>4 DEF NetworkConnects, BrokerPublishesWill, Typed, Broker
  <2>2. Will.value # Online
    BY DEF Will, Online, Offline
  <2> QED
    BY <1>2, <1>4, <2>1, <2>2 DEF NetworkConnects, BrokerPublishesWill, process, Stale
<1>5. CASE BrokerReceives
  <2> DEFINE p == outbox[sent + 1]
  <2>1. sent + 1 \in 1 .. Len(outbox) /\ run' = run
    BY <1>1, <1>5 DEF BrokerReceives, process
  <2>2. p.run = run
    BY <2>1 DEF Runs
  <2>3. p.topic # BridgeTopic
    BY <1>1, <1>5, <2>1, <2>2 DEF BrokerReceives, Typed, Broker, Stale
  <2>4. retained'[BridgeTopic] = retained[BridgeTopic]
    BY <1>1, <1>5, <2>3 DEF BrokerReceives, Typed, Broker
  <2>5. sent = 0 /\ outbox[1].topic = BridgeTopic
    BY <1>1, <2>1, <2>4 DEF Untold, Stale
  <2> QED
    BY <2>3, <2>5
<1>6. CASE BrokerAcknowledges
  BY <1>6, AcknowledgedForms DEF Untold, Stale
<1>7. CASE NetworkRefused \/ NetworkBreaks \/ NetworkNotices \/ BrokerDelivers
  BY <1>2, <1>7 DEF NetworkRefused, NetworkBreaks, NetworkNotices, BrokerDelivers, network, process
<1>8. CASE TransportCall
  <2>1. PICK s \in todo :
          /\ IsNext(s)
          /\ \/ s[1] = "subscribe" /\ outbox' = outbox
             \/ /\ s[1] # "subscribe"
                /\ \E p : Adds(p) /\ p.topic = SlotTopic(s) /\ p.value = SlotValue(s)
    BY <1>8, CallPublishes
  <2>2. UNCHANGED <<retained, run, sent>> /\ pc \in {"handle", "publish"}
    BY <1>8, CallPublishes
  <2>3. CASE outbox' = outbox
    BY <1>2, <2>2, <2>3
  <2>4. ASSUME NEW p, Adds(p), p.topic = SlotTopic(s), p.value = SlotValue(s), s[1] # "subscribe",
               outbox = <<>>
        PROVE  p.topic = BridgeTopic /\ p.value = Offline
    <3>1. <<"offline", 0>> \in todo
      BY <2>2, <2>4 DEF Announcing, Stale, Quiet, InLoop
    <3>2. s = <<"offline", 0>>
      BY <2>1, <2>4, <3>1, OfflineIsFirst
    <3> QED
      BY <2>4, <3>2 DEF SlotTopic, SlotValue
  <2> QED
    BY <1>3, <2>1, <2>2, <2>3, <2>4
<1>9. CASE Close
  <2>1. UNCHANGED <<retained, run, sent>>
    BY <1>9 DEF Close
  <2> QED
    BY <1>2, <1>3, <1>9, <2>1, ClosePublishes
<1>10. CASE Disconnect \/ Crash
  BY <1>10, EndForms
<1>11. CASE Restart
  BY <1>1, <1>11 DEF Restart, network, Runs
<1>12. CASE Local \/ UNCHANGED vars
  BY <1>2, <1>12, LocalKeeps DEF vars, network, process
<1> QED
  BY <1>4, <1>5, <1>6, <1>7, <1>8, <1>9, <1>10, <1>11, <1>12, StepForms DEF Network

\* A loop that knows of a session has it in its hands to say so first.
LEMMA AnnouncingKept ==
  Typed /\ Runs /\ Quiet /\ Untold /\ Announcing /\ [Next]_vars => Announcing'
<1> SUFFICES ASSUME Typed, Runs, Quiet, Untold, Announcing, [Next]_vars PROVE Announcing'
  OBVIOUS
<1>1. BridgeTopic \in RetainedTopics
  BY DEF RetainedTopics
<1>2. ASSUME Stale' => Stale /\ outbox' = outbox, UNCHANGED <<pc, todo, connected>>
      PROVE  Announcing'
  BY <1>2 DEF Announcing, InLoop
<1>3. ASSUME pc' # "start", pc' \notin {"head", "get", "handle", "refresh", "publish"}
      PROVE  Announcing'
  BY <1>3 DEF Announcing, InLoop
<1>4. ASSUME connected' = FALSE PROVE Announcing'
  BY <1>4 DEF Announcing
<1>5. ASSUME UNCHANGED <<retained, outbox, run, connected>>, pc # "handle", pc' # "start",
             InLoop \/ pc = "start"
      PROVE  Announcing'
  BY <1>5 DEF Announcing, Stale
<1>6. CASE NetworkConnects \/ BrokerPublishesWill
  <2>1. retained'[BridgeTopic] = Will \/ retained' = retained
    BY <1>1, <1>6 DEF NetworkConnects, BrokerPublishesWill, Typed, Broker
  <2>2. Will.value # Online
    BY DEF Will, Online, Offline
  <2>3. UNCHANGED <<outbox, run, pc, todo, connected>>
    BY <1>6 DEF NetworkConnects, BrokerPublishesWill, process
  <2> QED
    BY <1>2, <2>1, <2>2, <2>3 DEF Stale
<1>7. CASE BrokerReceives
  <2>1. sent' # 0
    BY <1>7, LenProperties DEF BrokerReceives, Typed, Queues
  <2>2. ~Stale'
    BY <2>1, UntoldKept DEF Untold
  <2> QED
    BY <1>2, <1>7, <2>2, NetworkKeeps DEF Network
<1>8. CASE BrokerAcknowledges
  <2>1. ~Stale'
    BY <1>8, AcknowledgedForms DEF Untold, Stale
  <2> QED
    BY <1>2, <1>8, <2>1, NetworkKeeps DEF Network
<1>9. CASE NetworkRefused \/ NetworkBreaks \/ NetworkNotices \/ BrokerDelivers
  BY <1>2, <1>9, NetworkKeeps DEF NetworkRefused, NetworkBreaks, NetworkNotices, BrokerDelivers,
     network, Network, Stale
<1>10. CASE TransportCall
  <2>1. PICK s \in todo :
          /\ \/ todo' = todo \ {s} /\ Enter(pc, todo')
             \/ todo' = {} /\ pc' = "close"
          /\ \/ s[1] = "subscribe" /\ outbox' = outbox
             \/ \E p : Adds(p)
    BY <1>10, CallPublishes
  <2>2. UNCHANGED <<retained, run, connected>> /\ pc \in {"handle", "publish"}
    BY <1>10, CallPublishes
  <2>3. pc' # "start"
    BY <2>1, <2>2 DEF Enter
  <2>4. CASE pc' = "close"
    BY <1>3, <2>4
  <2>5. ASSUME NEW p, Adds(p) PROVE Announcing'
    <3>1. outbox' # <<>>
      <4>1. Len(outbox') = Len(outbox) + 1 /\ Len(outbox) \in Nat
        BY <2>5, AddsForms
      <4> QED
        BY <4>1
    <3> QED
      BY <2>3, <3>1 DEF Announcing
  <2>6. CASE s[1] = "subscribe" /\ outbox' = outbox /\ todo' = todo \ {s} /\ Enter(pc, todo')
    <3>1. SUFFICES ASSUME Stale', outbox' = <<>>, connected', InLoop'
                   PROVE  pc' = "handle" /\ <<"offline", 0>> \in todo'
      BY <2>3 DEF Announcing
    <3>2. pc = "handle" /\ <<"offline", 0>> \in todo
      BY <2>2, <2>6, <3>1 DEF Announcing, Stale, InLoop
    <3>3. <<"offline", 0>> \in todo'
      BY <2>6, <3>2
    <3> QED
      BY <2>6, <3>2, <3>3 DEF Enter
  <2> QED
    BY <2>1, <2>4, <2>5, <2>6
<1>11. CASE Close
  BY <1>3, <1>11 DEF Close, Goto
<1>12. CASE Disconnect \/ Crash
  BY <1>3, <1>12, EndForms
<1>13. CASE Restart \/ HandleDisconnected \/ HandleFatal
  BY <1>4, <1>13 DEF Restart, HandleDisconnected, HandleFatal
<1>14. CASE HandleConnected
  <2>1. <<"offline", 0>> \in SubscribeSlots \cup SnapshotSlots
    BY DEF SnapshotSlots
  <2>2. pc' = "handle" /\ <<"offline", 0>> \in todo'
    BY <1>14, <2>1 DEF HandleConnected, Enter
  <2> QED
    BY <2>2 DEF Announcing
<1>15. CASE LoopHead \/ GetNothing \/ HandleMessage \/ Refresh
  <2>1. UNCHANGED <<retained, outbox, run>>
    BY <1>15, LocalKeeps DEF Local, network
  <2>2. pc \in {"head", "get", "refresh"} /\ connected' = connected /\ pc' # "start"
    BY <1>15 DEF LoopHead, GetNothing, HandleMessage, Refresh, Takes, Goto, Enter, Execute
  <2> QED
    BY <1>5, <2>1, <2>2 DEF InLoop
<1>16. CASE Connect
  <2>1. pc = "start" /\ connected' = connected /\ pc' # "start"
    BY <1>16 DEF Connect, Goto, Raise
  <2> QED
    BY <1>4, <2>1 DEF Announcing, Typed, Flags
<1>17. CASE GetStopped \/ AwaitDelivery \/ CloseBackend
  BY <1>3, <1>17 DEF GetStopped, AwaitDelivery, CloseBackend, Goto
<1>18. CASE Signal \/ UNCHANGED vars
  BY <1>2, <1>18 DEF Signal, vars, network, process, Stale
<1> QED
  BY <1>6, <1>7, <1>8, <1>9, <1>10, <1>11, <1>12, <1>13, <1>14, <1>15, <1>16, <1>17, <1>18,
     StepForms DEF Network, Local

\* Once the broker believes that this process is online it is right to.
LEMMA OnlineKept ==
  Typed /\ Runs /\ Ordered /\ Supported /\ Supported' /\ Untold /\ OnlineIsCurrent /\ [Next]_vars
  => OnlineIsCurrent'
<1> SUFFICES ASSUME Typed, Runs, Ordered, Supported', Untold, OnlineIsCurrent, [Next]_vars
             PROVE  OnlineIsCurrent'
  OBVIOUS
<1>1. /\ sent \in 0 .. Len(outbox) /\ Len(outbox) \in Nat /\ BridgeTopic \in RetainedTopics
      /\ \A d \in Devices : DeviceAvail(d) \in DeviceTopics
  BY LenProperties DEF Typed, Queues, RetainedTopics, DeviceTopics, DeviceAvail, BridgeTopic
<1>2. ASSUME retained' = retained PROVE OnlineIsCurrent'
  BY <1>2 DEF OnlineIsCurrent
<1>3. CASE NetworkConnects \/ BrokerPublishesWill
  <2>1. retained'[BridgeTopic] = Will \/ retained' = retained
    BY <1>1, <1>3 DEF NetworkConnects, BrokerPublishesWill, Typed, Broker
  <2>2. Will.value # Online
    BY DEF Will, Online, Offline
  <2> QED
    BY <1>2, <2>1, <2>2 DEF OnlineIsCurrent
<1>4. CASE BrokerReceives
  <2> DEFINE p == outbox[sent + 1]
  <2>1. sent + 1 \in 1 .. Len(outbox) /\ run' = run
    BY <1>1, <1>4 DEF BrokerReceives, process
  <2>2. p.run = run
    BY <2>1 DEF Runs
  <2>3. SUFFICES ASSUME retained'[BridgeTopic].value = Online
                 PROVE  /\ retained'[BridgeTopic].run = run
                        /\ \A d \in Devices : retained'[DeviceAvail(d)].run = run
    <3>1. \A a \in Addresses : Mode[a] = "observable" =>
            DeviceOf[a] \in Devices /\ {State(a), Confidence(a)} \subseteq ObservedTopics(DeviceOf[a])
      BY BridgeAssumption DEF ObservedTopics, ObservedAddresses
    <3>2. ASSUME \A d \in Devices : retained'[DeviceAvail(d)].run = run,
                 NEW a \in Addresses, Mode[a] = "observable",
                 retained'[DeviceAvail(DeviceOf[a])].value = Online
          PROVE  retained'[State(a)].run = run /\ retained'[Confidence(a)].run = run
      <4>1. \A t \in ObservedTopics(DeviceOf[a]) : retained'[t].run = run
        BY <2>1, <3>1, <3>2 DEF Supported
      <4> QED
        BY <3>1, <3>2, <4>1
    <3> QED
      BY <2>1, <2>3, <3>2 DEF OnlineIsCurrent
  <2>4. CASE p.topic = BridgeTopic
    <3>1. retained'[BridgeTopic].value = p.value /\ retained'[BridgeTopic].run = run
      BY <1>1, <1>4, <2>2, <2>4 DEF BrokerReceives, Typed, Broker
    <3>2. \A d \in Devices : Announced(DeviceAvail(d), sent)
      <4>1. \A d \in Devices : DeviceAvail(d) \in Needs(p.topic, p.value)
        BY <2>3, <2>4, <3>1 DEF Needs
      <4> QED
        BY <1>1, <2>1, <4>1 DEF Ordered
    <3>3. \A d \in Devices : retained[DeviceAvail(d)].run = run
      BY <1>1, <3>2 DEF Announced, Runs
    <3> QED
      BY <1>1, <1>4, <3>1, <3>3, NetworkForms DEF Network
  <2>5. CASE p.topic # BridgeTopic
    <3>1. retained'[BridgeTopic] = retained[BridgeTopic]
      BY <1>1, <1>4, <2>5 DEF BrokerReceives, Typed, Broker
    <3>2. retained[BridgeTopic].run = run
      <4>1. ASSUME Stale PROVE FALSE
        BY <1>1, <2>1, <2>5, <4>1 DEF Untold
      <4> QED
        BY <2>3, <3>1, <4>1 DEF Stale
    <3>3. \A d \in Devices : retained[DeviceAvail(d)].run = run
      BY <2>3, <3>1, <3>2 DEF OnlineIsCurrent
    <3> QED
      BY <1>1, <1>4, <3>1, <3>2, <3>3, NetworkForms DEF Network
  <2> QED
    BY <2>4, <2>5
<1>5. CASE NetworkRefused \/ NetworkBreaks \/ NetworkNotices \/ BrokerAcknowledges \/ BrokerDelivers
  BY <1>2, <1>5 DEF NetworkRefused, NetworkBreaks, NetworkNotices, BrokerAcknowledges,
     BrokerDelivers, network
<1>6. CASE TransportCall \/ Close \/ Disconnect \/ Crash \/ Restart
  BY <1>2, <1>6, CallPublishes, EndForms DEF Close, Restart, network
<1>7. CASE Local \/ UNCHANGED vars
  BY <1>2, <1>7, LocalKeeps DEF vars, network
<1> QED
  BY <1>3, <1>4, <1>5, <1>6, <1>7, StepForms DEF Network
-----------------------------------------------------------------------------
(***************************************************************************)
(* The calls still to be made come in the order their topics depend on.    *)
(***************************************************************************)
LEMMA NoNeeds ==
  ASSUME NEW topic, NEW value,
         topic # BridgeTopic, \A d \in Devices : topic # DeviceAvail(d)
  PROVE  Needs(topic, value) = {}
  BY DEF Needs

LEMMA CommandNeeds ==
  ASSUME CommandOnly, NEW topic, NEW value, topic # BridgeTopic
  PROVE  Needs(topic, value) = {}
<1>1. \A d : ObservedAddresses(d) = {}
  BY DEF ObservedAddresses, CommandOnly
<1>2. \A d : ObservedTopics(d) = {}
  BY <1>1 DEF ObservedTopics
<1> QED
  BY <1>2 DEF Needs

LEMMA AvailabilityNeeds ==
  ASSUME NEW d \in Devices, NEW value, NEW t \in Needs(DeviceAvail(d), value)
  PROVE  value = Online /\ \E a \in ObservedAddresses(d) : t = State(a) \/ t = Confidence(a)
<1>1. DeviceAvail(d) # BridgeTopic /\ \A e \in Devices : DeviceAvail(d) = DeviceAvail(e) => d = e
  BY DEF DeviceAvail, BridgeTopic
<1>2. value = Online /\ t \in ObservedTopics(d)
  BY <1>1 DEF Needs
<1> QED
  BY <1>2 DEF ObservedTopics

\* What a publication of a snapshot depends on comes earlier in it.
LEMMA SnapshotOrder ==
  ASSUME NEW s \in SnapshotSlots, NEW t \in Needs(SlotTopic(s), SlotValue(s))
  PROVE  \E r \in SnapshotSlots : r[1] # "subscribe" /\ SlotTopic(r) = t /\ Before(r, s)
<1>1. \/ s = <<"offline", 0>> \/ s = <<"online", 0>>
      \/ \E d \in Devices : s = <<"discovery", d>> \/ s = <<"availability", d>>
      \/ \E a \in Addresses : s = <<"state", a>> \/ s = <<"confidence", a>>
  BY DEF SnapshotSlots
<1>2. CASE s = <<"offline", 0>>
  <2>1. SlotValue(s) # Online
    BY <1>2 DEF SlotValue, Offline, Online
  <2>2. Needs(SlotTopic(s), SlotValue(s)) = {}
    BY <2>1 DEF Needs
  <2> QED
    BY <2>2
<1>3. CASE s = <<"online", 0>>
  <2>1. SlotTopic(s) = BridgeTopic
    BY <1>3 DEF SlotTopic
  <2>2. PICK d \in Devices : t = DeviceAvail(d)
    BY <2>1 DEF Needs
  <2> DEFINE r == <<"availability", d>>
  <2>3. r \in SnapshotSlots
    BY DEF SnapshotSlots
  <2>4. Order(r)[1] = 4 /\ Order(s)[1] = 7
    <3>1. Order(r) = <<4, d, 2 * NAddresses + 2>> /\ Order(s) = <<7, 0, 0>>
      BY <1>3, OrderOf
    <3> QED
      BY <3>1
  <2>5. r[1] # "subscribe" /\ SlotTopic(r) = t
    BY <2>2 DEF SlotTopic, DeviceAvail
  <2> QED
    BY <2>3, <2>4, <2>5 DEF Before
<1>4. ASSUME NEW d \in Devices, s = <<"discovery", d>> PROVE FALSE
  <2>1. SlotValue(s) # Online
    BY <1>4 DEF SlotValue, Online
  <2>2. Needs(SlotTopic(s), SlotValue(s)) = {}
    BY <2>1 DEF Needs
  <2> QED
    BY <2>2
<1>5. ASSUME NEW a \in Addresses, s = <<"state", a>> \/ s = <<"confidence", a>> PROVE FALSE
  <2>1. SlotTopic(s) # BridgeTopic /\ \A d \in Devices : SlotTopic(s) # DeviceAvail(d)
    BY <1>5 DEF SlotTopic, BridgeTopic, DeviceAvail
  <2> QED
    BY <2>1, NoNeeds
<1>6. ASSUME NEW d \in Devices, s = <<"availability", d>>
      PROVE  \E r \in SnapshotSlots : r[1] # "subscribe" /\ SlotTopic(r) = t /\ Before(r, s)
  <2>1. SlotTopic(s) = DeviceAvail(d)
    BY <1>6 DEF SlotTopic, DeviceAvail
  <2>2. SlotValue(s) = Online
    BY <2>1, AvailabilityNeeds
  <2>3. PICK a \in ObservedAddresses(d) : t = State(a) \/ t = Confidence(a)
    BY <2>1, AvailabilityNeeds
  <2>4. Complete(d)
    BY <1>6, <2>2 DEF SlotValue, Offline, Online
  <2>5. a \in Addresses /\ DeviceOf[a] = d /\ Observed(a)
    BY <2>3, <2>4 DEF ObservedAddresses, Complete, Observed
  <2>6. a \in Int /\ a <= NAddresses /\ NAddresses \in Int
    BY <2>5, BridgeAssumption DEF Addresses
  <2>7. Order(s) = <<4, d, 2 * NAddresses + 2>>
    BY <1>6, OrderOf
  <2>8. CASE t = State(a)
    <3>1. Order(<<"state", a>>) = <<4, d, 2 * a>>
      BY <2>5, OrderOf
    <3>2. <<"state", a>> \in SnapshotSlots /\ SlotTopic(<<"state", a>>) = t
      BY <2>5, <2>8 DEF SnapshotSlots, SlotTopic, State
    <3>3. Before(<<"state", a>>, s)
      BY <2>6, <2>7, <3>1 DEF Before
    <3> QED
      BY <3>2, <3>3
  <2>9. CASE t = Confidence(a)
    <3>1. Order(<<"confidence", a>>) = <<4, d, 2 * a + 1>>
      BY <2>5, OrderOf
    <3>2. <<"confidence", a>> \in SnapshotSlots /\ SlotTopic(<<"confidence", a>>) = t
      BY <2>5, <2>9 DEF SnapshotSlots, SlotTopic, Confidence
    <3>3. Before(<<"confidence", a>>, s)
      BY <2>6, <2>7, <3>1 DEF Before
    <3> QED
      BY <3>2, <3>3
  <2> QED
    BY <2>3, <2>8, <2>9
<1> QED
  BY <1>1, <1>2, <1>3, <1>4, <1>5, <1>6

\* The calls of a refresh or a command depend on nothing.
LEMMA ChangesNeedNothing ==
  ASSUME Typed, Uniform, Refreshed \/ \E a \in Addresses, desired \in OnOff :
                                  \E o \in Outcomes(a, desired) : Executed(a, desired, o),
         NEW s \in todo', NEW value
  PROVE  Needs(SlotTopic(s), value) = {}
<1>1. CASE Refreshed
  <2>1. CommandOnly
    BY <1>1, BridgeAssumption DEF Refreshed, CommandOnly
  <2>2. \E d \in Devices : s = <<"changed", d>>
    BY <1>1, ChangedSlotsKind DEF Refreshed
  <2>3. SlotTopic(s) # BridgeTopic
    BY <2>2 DEF SlotTopic, DeviceAvail, BridgeTopic
  <2> QED
    BY <2>1, <2>3, CommandNeeds
<1>2. ASSUME NEW a \in Addresses, NEW desired, NEW o, Executed(a, desired, o)
      PROVE  Needs(SlotTopic(s), value) = {}
  <2>1. CASE Mode[a] = "command_only"
    <3>1. CommandOnly
      BY <2>1 DEF Uniform, Observing
    <3>2. s = <<"last_command", a>> \/ \E d \in Devices : s = <<"changed", d>>
      BY <1>2, <2>1, ChangedSlotsKind DEF Executed
    <3>3. SlotTopic(s) # BridgeTopic
      BY <3>2 DEF SlotTopic, DeviceAvail, BridgeTopic
    <3> QED
      BY <3>1, <3>3, CommandNeeds
  <2>2. CASE Mode[a] # "command_only"
    <3>1. s = <<"state", a>> \/ s = <<"confidence", a>>
      BY <1>2, <2>2 DEF Executed
    <3>2. SlotTopic(s) # BridgeTopic /\ \A d \in Devices : SlotTopic(s) # DeviceAvail(d)
      BY <3>1 DEF SlotTopic, BridgeTopic, DeviceAvail
    <3> QED
      BY <3>2, NoNeeds
  <2> QED
    BY <2>1, <2>2
<1> QED
  BY <1>1, <1>2

\* What was announced by the end of Paho's memory stays so.
LEMMA NetworkAnnounced ==
  ASSUME Typed, Runs, Network, NEW t \in DeviceTopics, Announced(t, Len(outbox))
  PROVE  Announced(t, Len(outbox))'
<1>1. /\ run' = run /\ (retained'[t] = retained[t] \/ retained'[t].run = run)
      /\ outbox' = outbox \/ BrokerAcknowledges
  BY NetworkForms
<1>2. CASE outbox' = outbox
  BY <1>1, <1>2 DEF Announced
<1>3. CASE BrokerAcknowledges
  <2>1. PICK n \in Nat : n = Len(outbox)
    BY <1>3, AcknowledgedForms
  <2>2. n \in 1 .. Len(outbox) /\ Len(outbox') = n - 1 /\ UNCHANGED <<retained, run>>
    BY <1>3, <2>1, AcknowledgedForms
  <2>3. Announced(t, n - 1)'
    BY <1>3, <2>1, <2>2, AcknowledgedForms
  <2> QED
    BY <2>2, <2>3 DEF Announced
<1> QED
  BY <1>1, <1>2, <1>3

LEMMA AddedAnnounced ==
  ASSUME Typed, NEW p, Adds(p), UNCHANGED <<retained, run>>
  PROVE  /\ Announced(p.topic, Len(outbox))'
         /\ \A t : Announced(t, Len(outbox)) => Announced(t, Len(outbox))'
<1>1. /\ Len(outbox) \in Nat /\ Len(outbox') = Len(outbox) + 1
      /\ outbox'[Len(outbox) + 1] = p
      /\ \A i \in 1 .. Len(outbox) : outbox'[i] = outbox[i]
  BY AddsForms
<1>2. Announced(p.topic, Len(outbox))'
  <2>1. Len(outbox) + 1 \in 1 .. Len(outbox') /\ outbox'[Len(outbox) + 1].topic = p.topic
    BY <1>1
  <2> QED
    BY <2>1 DEF Announced
<1>3. ASSUME NEW t, Announced(t, Len(outbox)) PROVE Announced(t, Len(outbox))'
  <2>1. 1 .. Len(outbox) \subseteq 1 .. Len(outbox')
    BY <1>1
  <2> QED
    BY <1>1, <1>3, <2>1 DEF Announced
<1> QED
  BY <1>2, <1>3

LEMMA QueuedKept ==
  Uniform /\ Typed /\ Quiet /\ Quiet' /\ Runs /\ Queued /\ [Next]_vars => Queued'
<1> SUFFICES ASSUME Uniform, Typed, Quiet, Quiet', Runs, Queued, [Next]_vars
             PROVE  Queued'
  OBVIOUS
<1>1. SUFFICES ASSUME NEW s \in todo', s[1] # "subscribe",
                      NEW t \in Needs(SlotTopic(s), SlotValue(s)')
               PROVE  \/ \E r \in todo' : r[1] # "subscribe" /\ SlotTopic(r) = t /\ Before(r, s)
                      \/ Announced(t, Len(outbox))'
  BY DEF Queued, Needs, SlotTopic, Before, Order
<1>2. t \in DeviceTopics
  BY NeedsTyped
<1>3. ASSUME UNCHANGED backend PROVE SlotValue(s)' = SlotValue(s)
  BY <1>3 DEF backend, SlotValue, Complete
<1>4. ASSUME UNCHANGED <<todo, backend>>,
             Announced(t, Len(outbox)) => Announced(t, Len(outbox))'
      PROVE  \/ \E r \in todo' : r[1] # "subscribe" /\ SlotTopic(r) = t /\ Before(r, s)
             \/ Announced(t, Len(outbox))'
  <2>1. s \in todo /\ t \in Needs(SlotTopic(s), SlotValue(s))
    BY <1>1, <1>3, <1>4
  <2> QED
    BY <1>1, <1>4, <2>1 DEF Queued
<1>5. UNCHANGED <<retained, outbox, run>>
      => (Announced(t, Len(outbox)) => Announced(t, Len(outbox))')
  BY DEF Announced
<1>6. CASE Network
  <2>1. UNCHANGED <<todo, backend>>
    BY <1>6, NetworkKeeps DEF backend
  <2> QED
    BY <1>2, <1>4, <1>6, <2>1, NetworkAnnounced
<1>7. CASE TransportCall
  <2>1. PICK q \in todo :
          /\ todo' = todo \ {q} \/ todo' = {}
          /\ \/ q[1] = "subscribe" /\ outbox' = outbox
             \/ /\ q[1] # "subscribe"
                /\ \E p : Adds(p) /\ p.topic = SlotTopic(q) /\ p.value = SlotValue(q)
    BY <1>7, CallPublishes
  <2>2. UNCHANGED <<retained, run, backend>>
    BY <1>7, CallPublishes
  <2>3. todo' = todo \ {q}
    BY <1>1, <2>1
  <2>4. \/ \E r \in todo : r[1] # "subscribe" /\ SlotTopic(r) = t /\ Before(r, s)
        \/ Announced(t, Len(outbox))
    <3>1. s \in todo /\ t \in Needs(SlotTopic(s), SlotValue(s))
      BY <1>1, <1>3, <2>2, <2>3
    <3> QED
      BY <1>1, <3>1 DEF Queued
  <2>5. Announced(t, Len(outbox)) => Announced(t, Len(outbox))'
    BY <1>5, <2>1, <2>2, AddedAnnounced
  <2>6. ASSUME NEW r \in todo, r[1] # "subscribe", SlotTopic(r) = t, Before(r, s)
        PROVE  r \in todo' \/ Announced(t, Len(outbox))'
    BY <2>1, <2>2, <2>3, <2>6, AddedAnnounced
  <2> QED
    BY <2>4, <2>5, <2>6
<1>8. CASE Close \/ Disconnect \/ Crash \/ Restart
  BY <1>1, <1>8 DEF Close, Disconnect, Crash, Restart, Goto
<1>9. CASE Local
  <2>1. InLoop'
    BY <1>1 DEF Quiet, InLoop
  <2>2. UNCHANGED <<retained, outbox, run>>
    BY <1>9, LocalKeeps DEF network
  <2>3. CASE HandleConnected
    <3>1. todo' = SubscribeSlots \cup SnapshotSlots /\ UNCHANGED backend
      BY <2>3 DEF HandleConnected, Enter
    <3>2. s \in SnapshotSlots
      BY <1>1, <3>1 DEF SubscribeSlots
    <3>3. t \in Needs(SlotTopic(s), SlotValue(s))
      BY <1>1, <1>3, <3>1
    <3> QED
      BY <3>1, <3>2, <3>3, SnapshotOrder
  <2>4. CASE ~HandleConnected
    <3>1. CASE UNCHANGED <<avail, obs, result>> /\ todo' = todo
      <4>1. SlotValue(s)' = SlotValue(s)
        BY <3>1 DEF SlotValue, Complete
      <4>2. s \in todo /\ t \in Needs(SlotTopic(s), SlotValue(s))
        BY <1>1, <3>1, <4>1
      <4> QED
        BY <1>1, <1>5, <2>2, <3>1, <4>2 DEF Queued
    <3>2. CASE UNCHANGED <<avail, obs, result>> /\ todo' = SnapshotSlots
      <4>1. SlotValue(s)' = SlotValue(s)
        BY <3>2 DEF SlotValue, Complete
      <4>2. s \in SnapshotSlots /\ t \in Needs(SlotTopic(s), SlotValue(s))
        BY <1>1, <3>2, <4>1
      <4> QED
        BY <3>2, <4>2, SnapshotOrder
    <3>3. CASE Refreshed \/ \E a \in Addresses, desired \in OnOff :
                              \E o \in Outcomes(a, desired) : Executed(a, desired, o)
      <4>1. \A v : Needs(SlotTopic(s), v) = {}
        BY <1>1, <3>3, ChangesNeedNothing
      <4> QED
        BY <1>1, <4>1
    <3> QED
      BY <1>9, <2>1, <2>4, <3>1, <3>2, <3>3, LoopForms
  <2> QED
    BY <2>3, <2>4
<1>10. CASE UNCHANGED vars
  BY <1>4, <1>5, <1>10 DEF vars, network, process
<1> QED
  BY <1>6, <1>7, <1>8, <1>9, <1>10, StepForms

-----------------------------------------------------------------------------
LEMMA InitCurrent == Init => Current
<1> SUFFICES ASSUME Init PROVE Current
  OBVIOUS
<1>1. /\ BridgeTopic \in RetainedTopics
      /\ \A d \in Devices : DeviceAvail(d) \in RetainedTopics
  BY DEF RetainedTopics
<1>2. /\ outbox = <<>> /\ Len(outbox) = 0 /\ sent = 0 /\ todo = {} /\ ~connected /\ run = 1
      /\ retained = [t \in RetainedTopics |-> [value |-> <<>>, run |-> 0]]
  BY DEF Init, NoValue
<1>3. Online # <<>>
  BY DEF Online
<1>4. retained[BridgeTopic].value # Online
  BY <1>1, <1>2, <1>3
<1>5. Runs
  BY <1>2 DEF Runs
<1>6. Ordered /\ Queued
  BY <1>2 DEF Ordered, Queued
<1>7. Supported
  BY <1>1, <1>2 DEF Supported
<1>8. Untold /\ Announcing /\ OnlineIsCurrent
  BY <1>2, <1>4 DEF Untold, Announcing, Stale, OnlineIsCurrent
<1> QED
  BY <1>5, <1>6, <1>7, <1>8 DEF Current

LEMMA CurrentKept ==
  ASSUME Uniform
  PROVE  (IInv /\ Current) /\ [Next]_vars => (IInv /\ Current)'
<1> SUFFICES ASSUME IInv, Current, [Next]_vars PROVE IInv' /\ Current'
  OBVIOUS
<1>1. IInv'
  BY Inductive
<1>2. Typed /\ Quiet /\ Quiet'
  BY <1>1 DEF IInv
<1>3. Runs' /\ Ordered' /\ Supported' /\ Untold' /\ Announcing'
  BY <1>2, RunsKept, OrderedKept, SupportedKept, UntoldKept, AnnouncingKept DEF Current
<1>4. Queued'
  BY <1>2, QueuedKept DEF Current
<1>5. OnlineIsCurrent'
  BY <1>2, <1>3, OnlineKept DEF Current
<1> QED
  BY <1>1, <1>3, <1>4, <1>5 DEF Current

\* While the broker says that the bridge is online, the availability of every
\* device, and the states and confidences of those online, come from the process
\* that is online, across restarts, wills, sessions taken over and resends
\* (_publish_snapshot, will_set), when the devices are all command-only, as those
\* of a G2 are, or all observable, as those of the simulator are.
THEOREM OnlineMeansCurrent == ASSUME Uniform PROVE Spec => []OnlineIsCurrent
<1>1. Init => IInv /\ Current
  BY InitInvariant, InitCurrent
<1>2. (IInv /\ Current) /\ [Next]_vars => (IInv /\ Current)'
  BY CurrentKept
<1>3. IInv /\ Current => OnlineIsCurrent
  BY DEF Current
<1> QED
  BY <1>1, <1>2, <1>3, PTL DEF Spec
=============================================================================
