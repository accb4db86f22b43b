----------------------------- MODULE Simulator ------------------------------
(***************************************************************************)
(* SimulatorBackend, from the configuration file and the packaged profiles *)
(* it is built from to the commands it is given: load_config, load_        *)
(* credentials, _build_runtime and the constructors of the backend and of  *)
(* BridgeRuntime, then set_desired through a command topic or directly.    *)
(*                                                                         *)
(* Of the runtime there is only what stands between a topic and the        *)
(* backend; Bridge has the rest of it.                                     *)
(***************************************************************************)
EXTENDS Settings, Profiles

CONSTANTS
  Documents,   \* TOML documents that may be the configuration
  Packages,    \* sequences of JSON documents that may be the packaged profiles
  Credentials, \* what the two credential files may hold
  Received,    \* topics a message may come on
  Commanded,   \* addresses a caller of the backend may name
  Others,      \* desired values that are not Booleans
  MaxSequence  \* bound on the commands confirmed for an address

ASSUME SimulatorAssumption ==
  /\ Received \subseteq Topics /\ Commanded \subseteq Addresses
  /\ Others \cap BOOLEAN = {} /\ MaxSequence \in Nat

\* A value holds what its type says: an array is a sequence, a Boolean one of the two,
\* the text of a topic a sequence of segments; and so do the profiles.
ASSUME DocumentsAssumption ==
  \A d \in Documents, p \in Packages : ValidConfig(d, KnownProfiles(p)) =>
    LET items == DeviceTables(d.value["backend"]) IN
    /\ \A k \in RuntimeKeys \ {"client_id"} : LayoutOf(d)[k] \in Topics
    /\ items \in Seq({items[i] : i \in DOMAIN items})
    /\ \A i \in DOMAIN items : "initial_on" \in DOMAIN items[i].value =>
         LET v == items[i].value["initial_on"] IN v.type = "boolean" => v.value \in BOOLEAN

ASSUME PackagesAssumption ==
  \A p \in Packages :
    /\ p \in Seq({p[i] : i \in DOMAIN p})
    /\ \A i \in DOMAIN p : \A j \in DOMAIN p[i].endpoints :
         \A c \in {p[i].endpoints[j].capabilities[k] :
                      k \in DOMAIN p[i].endpoints[j].capabilities} : c.writable \in BOOLEAN

VARIABLES
  document, package, files,  \* the inputs
  pc,            \* the step of _build_runtime, "running", "refused" or "closed"
  reason,        \* what refused them, "none" otherwise
  devices,       \* _devices: [id, endpoints, capabilities]
  writable,      \* _capabilities: of each address, whether it is writable
  observations,  \* _observations: the value of each address that has one
  sequences,     \* _sequences
  closed,        \* _closed
  answer,        \* the last CommandResult
  source         \* history: the topic and address of the last command that came on one

inputs  == <<document, package, files>>
backend == <<devices, writable, observations, sequences, closed>>
vars == <<inputs, pc, reason, backend, answer, source>>

Nothing == [a \in {} |-> 0]
NoSource == [topic |-> <<>>, address |-> NoAddress]

Layout == LayoutOf(document)
Configured == DevicesOf(document)

Init ==
  /\ document \in Documents /\ package \in Packages /\ files \in Credentials
  /\ pc = "load" /\ reason = "none"
  /\ devices = <<>> /\ writable = Nothing /\ observations = Nothing /\ sequences = Nothing
  /\ closed = FALSE /\ answer = [status |-> "none"] /\ source = NoSource

-----------------------------------------------------------------------------
Refuse(why) == pc' = "refused" /\ reason' = why

LoadConfig ==
  /\ pc = "load"
  /\ IF PackageLoads(package) /\ ValidConfig(document, KnownProfiles(package))
     THEN pc' = "credentials" /\ UNCHANGED reason
     ELSE Refuse("configuration")
  /\ UNCHANGED <<inputs, backend, answer, source>>

\* load_credentials reads both files, if they are configured.
LoadCredentials ==
  /\ pc = "credentials"
  /\ IF HasCredentials(document) => \A k \in CredentialKeys : ReadableCredential(files[k])
     THEN pc' = "backend" /\ UNCHANGED reason
     ELSE Refuse("credentials")
  /\ UNCHANGED <<inputs, backend, answer, source>>

DocumentOf(s) == LET i == CHOOSE i \in DOMAIN package :
                            /\ package[i].profile_id = s.profile_id
                            /\ \A j \in 1 .. i - 1 : package[j].profile_id # s.profile_id
                 IN  package[i]

Profile(s) == ProfileOf(DocumentOf(s))

\* Device: the endpoints of its profile, keys of a dictionary and so distinct, have to
\* be sorted.
Sorted(order) == \A i, j \in DOMAIN order : i < j => order[i] <= order[j]

\* The address of every such capability of every endpoint.
AddressesOf(s, capabilities) ==
  UNION {{[device |-> s.device_id, endpoint |-> n, capability |-> c.capability] :
            c \in Profile(s).endpoints[n] \cap capabilities} :
           n \in DOMAIN Profile(s).endpoints}

Every        == [capability : CapabilityIds, writable : BOOLEAN]
OnOff        == {c \in Every : c.capability = "on_off"}
Controllable == {c \in OnOff : c.writable}

RuntimeDevice(s) ==
  [id |-> s.device_id, endpoints |-> DOMAIN Profile(s).endpoints,
   capabilities |-> AddressesOf(s, Controllable)]

SettingOf(a) == CHOOSE s \in {Configured[i] : i \in DOMAIN Configured} : s.device_id = a.device

All(capabilities) == UNION {AddressesOf(Configured[i], capabilities) : i \in DOMAIN Configured}

IsWritable(a) == \E c \in Profile(SettingOf(a)).endpoints[a.endpoint] :
                   c.capability = a.capability /\ c.writable

\* SimulatorBackend.__init__.  A Harmony G2 configuration goes on in G2Backend.
OpenBackend ==
  /\ pc = "backend" /\ BackendType(document) = "simulator"
  /\ IF \A i \in DOMAIN Configured :
          /\ Configured[i].profile_id \in KnownProfiles(package)
          /\ Sorted(Profile(Configured[i]).order)
     THEN /\ pc' = "runtime" /\ UNCHANGED reason
          /\ devices' = [i \in DOMAIN Configured |-> RuntimeDevice(Configured[i])]
          /\ writable' = [a \in All(Every) |-> IsWritable(a)]
          /\ observations' = [a \in All(OnOff) |-> SettingOf(a).initial_on]
          /\ sequences' = [a \in All(OnOff) |-> 0]
     ELSE Refuse("backend") /\ UNCHANGED <<devices, writable, observations, sequences>>
  /\ UNCHANGED <<inputs, closed, answer, source>>

Announced == UNION {devices[i].capabilities : i \in DOMAIN devices}

\* The topics of an observable bridge.
Generated == Names({devices[i].id : i \in DOMAIN devices}, Announced,
                   {"command", "state", "confidence"})

EveryName == Generated \cup ({"last-command"} \X Announced)

\* _validate_status_topic
StatusTopicConflicts ==
  \E name \in Generated : Layout.home_assistant_status_topic = TopicOf(Layout, name)

\* BridgeRuntime.__init__; if it raises, _build_runtime closes the backend.
CreateRuntime ==
  /\ pc = "runtime"
  /\ IF StatusTopicConflicts THEN Refuse("status_topic") /\ closed' = TRUE
                             ELSE pc' = "running" /\ UNCHANGED <<reason, closed>>
  /\ UNCHANGED <<inputs, devices, writable, observations, sequences, answer, source>>

-----------------------------------------------------------------------------
\* Mutant of Accepts: the announcement is not checked, every switch is writable.
AcceptsReadOnly(a, desired) ==
  /\ ~closed /\ \E i \in DOMAIN devices : devices[i].id = a.device
  /\ a \in DOMAIN writable /\ a.capability = "on_off" /\ desired \in BOOLEAN

\* Mutant of Accepts: the desired value is not checked.
AcceptsAnyValue(a, desired) ==
  /\ ~closed
  /\ \E i \in DOMAIN devices : devices[i].id = a.device /\ a.endpoint \in devices[i].endpoints
  /\ a \in DOMAIN writable /\ writable[a]
  /\ a.capability = "on_off"

\* The guards of set_desired.
Accepts(a, desired) ==
  /\ ~closed
  /\ \E i \in DOMAIN devices : devices[i].id = a.device /\ a.endpoint \in devices[i].endpoints
  /\ a \in DOMAIN writable /\ writable[a]
  /\ a.capability = "on_off"
  /\ desired \in BOOLEAN

SetDesired(a, desired) ==
  /\ IF Accepts(a, desired)
     THEN /\ sequences[a] < MaxSequence
          /\ sequences' = [sequences EXCEPT ![a] = sequences[a] + 1]
          /\ observations' = [observations EXCEPT ![a] = desired]
          /\ answer' = [status |-> "confirmed", value |-> desired,
                        sequence |-> sequences[a] + 1]
     ELSE answer' = [status |-> "rejected"] /\ UNCHANGED <<sequences, observations>>
  /\ UNCHANGED <<inputs, pc, reason, devices, writable, closed>>

\* A message that carries ON or OFF: it goes to the backend if it names one of the
\* _writable_addresses.
Receive ==
  /\ pc = "running"
  /\ \E t \in Received, desired \in BOOLEAN :
       LET a == ParseCommandTopic(Layout, t) IN
       /\ t # Layout.home_assistant_status_topic
       /\ a \in Announced
       /\ SetDesired(a, desired)
       /\ source' = [topic |-> t, address |-> a]

\* Any other caller of the Backend protocol.
Call ==
  /\ pc \in {"running", "closed"}
  /\ \E a \in Commanded, desired \in BOOLEAN \cup Others : SetDesired(a, desired)
  /\ UNCHANGED source

Close ==
  /\ pc = "running" /\ pc' = "closed" /\ closed' = TRUE
  /\ UNCHANGED <<inputs, reason, devices, writable, observations, sequences, answer, source>>

Build == LoadConfig \/ LoadCredentials \/ OpenBackend \/ CreateRuntime

Next == Build \/ Receive \/ Call \/ Close

Spec == Init /\ [][Next]_vars

-----------------------------------------------------------------------------
\* Type invariant.
TypeOK ==
  /\ document \in Documents /\ package \in Packages /\ files \in Credentials
  /\ pc \in {"load", "credentials", "backend", "runtime", "running", "refused", "closed"}
  /\ reason \in {"none", "configuration", "credentials", "backend", "status_topic"}
  /\ \A i \in DOMAIN devices : devices[i].id \in DeviceIds
  /\ DOMAIN writable \subseteq Addresses
  /\ observations \in [DOMAIN sequences -> BOOLEAN]
  /\ sequences \in [DOMAIN observations -> 0 .. MaxSequence]
  /\ closed \in BOOLEAN

\* A configuration that loads makes a backend: what config.py and the loader have
\* accepted is refused later only for a profile whose endpoints are not in order.
LoadedOpens ==
  reason = "backend" => \E i \in DOMAIN package : ~Sorted(ProfileOf(package[i]).order)

\* The topics of a running bridge are pairwise distinct, and the status topic is
\* none of them, whatever prefixes and spellings were configured: Bridge takes its
\* topics to be distinct names.  They are distinct from the topics of the last
\* commands too, which a bridge with command-only devices publishes instead of states.
TopicsAreDistinct ==
  pc = "running" =>
    /\ \A i, j \in DOMAIN devices : i # j => devices[i].id # devices[j].id
    /\ \A m, n \in EveryName : m # n => TopicOf(Layout, m) # TopicOf(Layout, n)
    /\ \A n \in Generated : TopicOf(Layout, n) # Layout.home_assistant_status_topic

\* A message reaches the backend only on the topic the bridge has subscribed to for
\* its address; no other spelling of the topic is taken for it.
ExactTopics ==
  source # NoSource => /\ source.address \in Announced
                       /\ source.topic = TopicOf(Layout, <<"command", source.address>>)

\* What the document of a device says of its capabilities, and whether they are writable.
Documented(s) ==
  LET endpoints == DocumentOf(s).endpoints IN
  UNION {{<<[device |-> s.device_id, endpoint |-> endpoints[j].key.number, capability |-> c.id],
            c.writable>> :
             c \in {endpoints[j].capabilities[k] : k \in DOMAIN endpoints[j].capabilities}} :
           j \in DOMAIN endpoints}

\* A backend has exactly what the documents of its devices list: no endpoint and no
\* capability that was loaded is replaced by another of the same number or name, and
\* none is writable that its document says is not.
BuiltAsDocumented ==
  devices # <<>> =>
    {<<a, writable[a]>> : a \in DOMAIN writable} =
      UNION {Documented(Configured[i]) : i \in DOMAIN Configured}

\* The simulator keeps the promise of an observable backend.
Observable == INSTANCE ObservableBackend WITH
  stage <- IF devices = <<>> THEN "new" ELSE IF closed THEN "closed" ELSE "open",
  announced <- Announced,
  value <- [a \in Announced |-> observations[a]],
  sequence <- [a \in Announced |-> sequences[a]],
  answer <- answer

Implements == Observable!Spec
=============================================================================
