-------------------------- MODULE Simulator_proofs --------------------------
(***************************************************************************)
(* The theorems about Simulator: for any configuration files, any packaged *)
(* profiles, any layout of the topics and any messages on them.            *)
(***************************************************************************)
EXTENDS Simulator, WellFoundedInduction, FiniteSetTheorems, SequenceTheorems, TLAPS

(***************************************************************************)
(* What load_config and the loader have accepted.                          *)
(***************************************************************************)
Given == document \in Documents /\ package \in Packages /\ files \in Credentials

Accepted == PackageLoads(package) /\ ValidConfig(document, KnownProfiles(package))

Simulated == Given /\ Accepted /\ BackendType(document) = "simulator"

-----------------------------------------------------------------------------
\* A set of numbers has a least one: the first of the profiles with an identifier.
LEMMA LeastNumber ==
  ASSUME NEW T \in SUBSET Nat, T # {}
  PROVE  \E x \in T : \A y \in T : x <= y
<1> DEFINE I == {1 .. x : x \in T}
<1>1. I \subseteq FiniteSubsetsOf(Nat) /\ I # {}
  <2>1. ASSUME NEW x \in T PROVE 1 .. x \in FiniteSubsetsOf(Nat)
    <3>1. IsFiniteSet(1 .. x)
      BY FS_Interval
    <3>2. 1 .. x \in SUBSET Nat
      OBVIOUS
    <3> QED
      BY <3>1, <3>2 DEF FiniteSubsetsOf
  <2> QED
    BY <2>1
<1>2. PICK m \in I : \A y \in I : ~(<<y, m>> \in StrictSubsetOrdering(Nat))
  <2> HIDE DEF I
  <2> QED
    BY <1>1, FS_StrictSubsetOrderingWellFounded, WFMin
<1>3. PICK x \in T : m = 1 .. x
  OBVIOUS
<1>4. ASSUME NEW y \in T, y < x PROVE FALSE
  <2>1. x \in 1 .. x /\ x \notin 1 .. y
    BY <1>4
  <2>2. (1 .. y) \subseteq (1 .. x) /\ (1 .. y) # (1 .. x)
    BY <1>4, <2>1
  <2>3. 1 .. y \in SUBSET Nat /\ m \in SUBSET Nat
    BY <1>3
  <2>4. <<1 .. y, m>> \in StrictSubsetOrdering(Nat)
    BY <1>3, <2>2, <2>3 DEF StrictSubsetOrdering
  <2> QED
    BY <1>2, <2>4
<1> QED
  BY <1>4

\* The parts of a layout are topics without wildcards.
LEMMA LayoutIsTyped ==
  ASSUME Given, Accepted
  PROVE  /\ Layout.topic_prefix \in Topics /\ Layout.discovery_prefix \in Topics
         /\ Layout.home_assistant_status_topic \in Topics
         /\ \A i \in DOMAIN Layout.topic_prefix : Layout.topic_prefix[i] \notin Wild
<1> DEFINE keys == RuntimeKeys \ {"client_id"}
<1>1. keys = {"topic_prefix", "discovery_prefix", "home_assistant_status_topic"}
  BY DEF RuntimeKeys
<1>2. \A k \in keys : Layout[k] \in Topics
  BY DocumentsAssumption DEF Given, Accepted, Layout
<1>3. /\ Layout = [k \in keys |-> document.value["runtime"].value[k].value]
      /\ \A k \in keys : TopicName(document.value["runtime"].value[k])
  BY DEF Layout, LayoutOf, Accepted, ValidConfig, ValidRuntime
<1>4. \A i \in DOMAIN Layout["topic_prefix"] : Layout["topic_prefix"][i] \notin Wild
  BY <1>1, <1>3 DEF TopicName
<1> QED
  BY <1>1, <1>2, <1>4

\* The devices of a simulator's configuration.
LEMMA ConfiguredIsTyped ==
  ASSUME Simulated
  PROVE  /\ DOMAIN Configured # {} /\ DOMAIN Configured \subseteq Nat
         /\ \A i \in DOMAIN Configured :
              /\ Configured[i].device_id \in DeviceIds
              /\ Configured[i].profile_id \in KnownProfiles(package)
              /\ Configured[i].initial_on \in BOOLEAN
         /\ \A i, j \in DOMAIN Configured :
              i # j => Configured[i].device_id # Configured[j].device_id
<1> DEFINE backendTable == document.value["backend"]
           items == DeviceTables(backendTable)
           known == KnownProfiles(package)
<1>1. ValidConfig(document, known) /\ document \in Documents /\ package \in Packages
  BY DEF Simulated, Given, Accepted
<1>2. ValidSimulator(backendTable, known)
  BY <1>1 DEF Simulated, ValidConfig, ValidBackend, BackendType
<1>3. ValidDevices(backendTable, SimulatorDevice, Synthetic, known)
  BY <1>2 DEF ValidSimulator
<1>4. /\ items \in Seq({items[i] : i \in DOMAIN items})
      /\ \A i \in DOMAIN items : "initial_on" \in DOMAIN items[i].value =>
           LET v == items[i].value["initial_on"] IN v.type = "boolean" => v.value \in BOOLEAN
  BY <1>1, DocumentsAssumption
<1>5. Configured = [i \in DOMAIN items |-> DeviceSettings(items[i].value)]
  BY DEF Configured, DevicesOf
<1>6. items # <<>> /\ DistinctDevices(items)
  BY <1>3 DEF ValidDevices
<1>7. ASSUME NEW i \in DOMAIN items
      PROVE  /\ SimulatorDevice \subseteq DOMAIN items[i].value
             /\ ParseDeviceId(items[i].value["device_id"].value) \in Synthetic
             /\ items[i].value["profile_id"].value \in known
             /\ items[i].value["initial_on"].type = "boolean"
  <2>1. /\ ClosedTable(items[i], SimulatorDevice, SimulatorDevice)
        /\ ValidDeviceId(items[i].value["device_id"], Synthetic)
        /\ ValidNames(items[i].value, known)
    BY <1>3, <1>7 DEF ValidDevices
  <2>2. items[i].value["initial_on"].type = "boolean"
    BY <1>2, <1>7 DEF ValidSimulator
  <2> QED
    BY <2>1, <2>2 DEF ClosedTable, ValidDeviceId, ValidNames
<1> HIDE DEF items, known
<1>8. DOMAIN Configured = DOMAIN items /\ DOMAIN items # {} /\ DOMAIN items \subseteq Nat
  <2>1. DOMAIN items = 1 .. Len(items) /\ Len(items) \in Nat
    BY <1>4, LenProperties
  <2>2. Len(items) # 0
    BY <1>4, <1>6, EmptySeq
  <2> QED
    BY <1>5, <2>1, <2>2
<1>9. ASSUME NEW i \in DOMAIN Configured
      PROVE  /\ Configured[i].device_id = ParseDeviceId(items[i].value["device_id"].value)
             /\ Configured[i].profile_id = items[i].value["profile_id"].value
             /\ Configured[i].initial_on \in BOOLEAN
  BY <1>4, <1>5, <1>7, <1>8 DEF DeviceSettings, SimulatorDevice
<1>10. ASSUME NEW i \in DOMAIN Configured
       PROVE  /\ Configured[i].device_id \in DeviceIds
              /\ Configured[i].profile_id \in known
              /\ Configured[i].initial_on \in BOOLEAN
  BY <1>7, <1>8, <1>9, SettingsAssumption
<1>11. \A i, j \in DOMAIN Configured :
         i # j => Configured[i].device_id # Configured[j].device_id
  BY <1>6, <1>8, <1>9 DEF DistinctDevices
<1> QED
  BY <1>8, <1>10, <1>11 DEF known

-----------------------------------------------------------------------------
(***************************************************************************)
(* Profiles and the addresses they give a device.                          *)
(***************************************************************************)
\* A profile that loads has endpoints with capabilities of the runtime.
LEMMA ProfileIsTyped ==
  ASSUME Given, NEW i \in DOMAIN package, Loads(package[i])
  PROVE  LET endpoints == ProfileOf(package[i]).endpoints IN
         /\ DOMAIN endpoints \subseteq EndpointIds
         /\ \A n \in DOMAIN endpoints : endpoints[n] \subseteq Every
<1> DEFINE doc == package[i]
           At(n) == CHOOSE j \in DOMAIN doc.endpoints : doc.endpoints[j].key.number = n
           Of(n) == {Capability(doc.endpoints[At(n)].capabilities[k]) :
                       k \in DOMAIN doc.endpoints[At(n)].capabilities}
<1>1. SatisfiesSchema(doc)
  BY DEF Loads
<1>2. \A j \in DOMAIN doc.endpoints :
        /\ doc.endpoints[j].key.number \in EndpointIds
        /\ \A k \in DOMAIN doc.endpoints[j].capabilities :
             doc.endpoints[j].capabilities[k].id \in CapabilityIds
  BY <1>1 DEF SatisfiesSchema, EndpointKey
<1>3. \A j \in DOMAIN doc.endpoints : \A k \in DOMAIN doc.endpoints[j].capabilities :
        doc.endpoints[j].capabilities[k].writable \in BOOLEAN
  BY PackagesAssumption DEF Given
<1>4. ProfileOf(doc).endpoints = [n \in Numbers(doc.endpoints) |-> Of(n)]
  BY DEF ProfileOf
<1> HIDE DEF doc
<1>5. \A n \in Numbers(doc.endpoints) :
        \E j \in DOMAIN doc.endpoints : doc.endpoints[j].key.number = n
  BY DEF Numbers
<1>6. ASSUME NEW n \in Numbers(doc.endpoints)
      PROVE  n \in EndpointIds /\ Of(n) \subseteq Every
  <2>1. At(n) \in DOMAIN doc.endpoints /\ doc.endpoints[At(n)].key.number = n
    BY <1>5
  <2> HIDE DEF At
  <2> QED
    BY <1>2, <1>3, <2>1 DEF Capability, Every
<1> HIDE DEF Of
<1> QED
  BY <1>4, <1>6 DEF doc

\* The profile of a setting is one of those that have been loaded.
LEMMA ProfileIsLoaded ==
  ASSUME Given, PackageLoads(package), NEW s, s.profile_id \in KnownProfiles(package)
  PROVE  \E i \in DOMAIN package : /\ Loads(package[i]) /\ DocumentOf(s) = package[i]
                                  /\ Profile(s) = ProfileOf(package[i])
<1> DEFINE T == {i \in DOMAIN package : package[i].profile_id = s.profile_id}
           First(i) == /\ package[i].profile_id = s.profile_id
                       /\ \A j \in 1 .. i - 1 : package[j].profile_id # s.profile_id
<1>1. package \in Seq({package[i] : i \in DOMAIN package})
  BY PackagesAssumption DEF Given
<1>2. DOMAIN package = 1 .. Len(package) /\ Len(package) \in Nat
  BY <1>1, LenProperties
<1>3. T \in SUBSET Nat /\ T # {}
  BY <1>2 DEF KnownProfiles
<1>4. PICK x \in T : \A y \in T : x <= y
  <2> HIDE DEF T
  <2> QED
    BY <1>3, LeastNumber
<1>5. First(x)
  <2>1. \A j \in 1 .. x - 1 : j \in DOMAIN package /\ ~(x <= j)
    BY <1>2
  <2> QED
    BY <1>4, <2>1
<1>6. (CHOOSE i \in DOMAIN package : First(i)) \in DOMAIN package
  <2> HIDE DEF First
  <2>1. \E i \in DOMAIN package : First(i)
    BY <1>5
  <2> QED
    BY <2>1
<1>7. DocumentOf(s) = package[CHOOSE i \in DOMAIN package : First(i)]
  BY DEF DocumentOf
<1> HIDE DEF First
<1> QED
  BY <1>6, <1>7 DEF PackageLoads, Profile

\* An address of a device is a capability of an endpoint of its profile.
LEMMA AddressOf ==
  ASSUME NEW s, NEW C, NEW a
  PROVE  a \in AddressesOf(s, C) <=>
           \E n \in DOMAIN Profile(s).endpoints : \E c \in Profile(s).endpoints[n] \cap C :
             a = [device |-> s.device_id, endpoint |-> n, capability |-> c.capability]
  BY DEF AddressesOf

\* A configured setting, as one that the bridge has.
Setting(s) == \E i \in DOMAIN Configured : s = Configured[i]

LEMMA SettingIsTyped ==
  ASSUME Simulated, NEW s, Setting(s)
  PROVE  /\ s.device_id \in DeviceIds /\ s.initial_on \in BOOLEAN
         /\ DOMAIN Profile(s).endpoints \subseteq EndpointIds
         /\ \A n \in DOMAIN Profile(s).endpoints : Profile(s).endpoints[n] \subseteq Every
<1>1. /\ s.device_id \in DeviceIds /\ s.initial_on \in BOOLEAN
      /\ s.profile_id \in KnownProfiles(package)
  BY ConfiguredIsTyped DEF Setting
<1>2. PICK i \in DOMAIN package : Loads(package[i]) /\ Profile(s) = ProfileOf(package[i])
  BY <1>1, ProfileIsLoaded DEF Simulated, Accepted
<1> QED
  BY <1>1, <1>2, ProfileIsTyped DEF Simulated

LEMMA AllOf ==
  ASSUME NEW C, NEW a
  PROVE  a \in All(C) <=> \E i \in DOMAIN Configured : a \in AddressesOf(Configured[i], C)
  BY DEF All

\* Of all addresses: their devices are configured, and found again by SettingOf.
LEMMA AddressesAreTyped ==
  ASSUME Simulated, NEW a \in All(Every)
  PROVE  /\ a \in Addresses
         /\ Setting(SettingOf(a)) /\ SettingOf(a).device_id = a.device
         /\ a.endpoint \in DOMAIN Profile(SettingOf(a)).endpoints
         /\ a \in AddressesOf(SettingOf(a), Every)
<1>1. PICK i \in DOMAIN Configured : a \in AddressesOf(Configured[i], Every)
  BY AllOf
<1> DEFINE s == Configured[i]
<1>2. PICK n \in DOMAIN Profile(s).endpoints : \E c \in Profile(s).endpoints[n] \cap Every :
        a = [device |-> s.device_id, endpoint |-> n, capability |-> c.capability]
  BY <1>1, AddressOf
<1>3. PICK c \in Profile(s).endpoints[n] \cap Every :
        a = [device |-> s.device_id, endpoint |-> n, capability |-> c.capability]
  BY <1>2
<1>4. a.device = s.device_id /\ a.endpoint = n /\ Setting(s)
  BY <1>3 DEF Setting
<1>5. SettingOf(a) = s
  <2> DEFINE Candidates == {Configured[j] : j \in DOMAIN Configured}
  <2>1. s \in Candidates /\ s.device_id = a.device
    BY <1>4
  <2>2. \A t \in Candidates : t.device_id = a.device => t = s
    BY <1>4, ConfiguredIsTyped
  <2>3. SettingOf(a) = CHOOSE t \in Candidates : t.device_id = a.device
    BY DEF SettingOf
  <2> HIDE DEF Candidates, s
  <2> QED
    BY <2>1, <2>2, <2>3
<1>6. s.device_id \in DeviceIds /\ n \in EndpointIds /\ c.capability \in CapabilityIds
  BY <1>3, <1>4, SettingIsTyped DEF Every
<1>7. a \in Addresses
  BY <1>3, <1>6 DEF Addresses
<1> QED
  BY <1>1, <1>4, <1>5, <1>7

LEMMA CapabilitiesGrow ==
  ASSUME NEW C, NEW D, C \subseteq D
  PROVE  All(C) \subseteq All(D)
<1>1. \A i \in DOMAIN Configured : AddressesOf(Configured[i], C) \subseteq AddressesOf(Configured[i], D)
  BY AddressOf
<1> QED
  BY <1>1, AllOf

LEMMA Kinds == Controllable \subseteq OnOff /\ OnOff \subseteq Every
  BY DEF Controllable, OnOff

\* The addresses that can be controlled are those of writable switches.
LEMMA ControllableIsWritable ==
  ASSUME Simulated, NEW a
  PROVE  a \in All(Controllable) <=>
           a \in All(Every) /\ IsWritable(a) /\ a.capability = "on_off"
<1>1. ASSUME a \in All(Controllable)
      PROVE  a \in All(Every) /\ IsWritable(a) /\ a.capability = "on_off"
  <2>1. a \in All(Every)
    BY <1>1, CapabilitiesGrow, Kinds
  <2>2. PICK i \in DOMAIN Configured : a \in AddressesOf(Configured[i], Controllable)
    BY <1>1, AllOf
  <2> DEFINE s == Configured[i]
  <2>3. PICK n \in DOMAIN Profile(s).endpoints :
          \E c \in Profile(s).endpoints[n] \cap Controllable :
            a = [device |-> s.device_id, endpoint |-> n, capability |-> c.capability]
    BY <2>2, AddressOf
  <2>4. PICK c \in Profile(s).endpoints[n] \cap Controllable :
          a = [device |-> s.device_id, endpoint |-> n, capability |-> c.capability]
    BY <2>3
  <2>5. c.writable /\ c.capability = "on_off"
    BY <2>4 DEF Controllable, OnOff
  <2>6. SettingOf(a) = s
    <3>1. PICK j \in DOMAIN Configured : SettingOf(a) = Configured[j]
      BY <2>1, AddressesAreTyped DEF Setting
    <3>2. Configured[j].device_id = Configured[i].device_id
      BY <2>1, <2>4, <3>1, AddressesAreTyped
    <3> QED
      BY <3>1, <3>2, ConfiguredIsTyped
  <2> HIDE DEF s
  <2>7. IsWritable(a)
    BY <2>4, <2>5, <2>6 DEF IsWritable
  <2> QED
    BY <2>1, <2>4, <2>5, <2>7
<1>2. ASSUME a \in All(Every), IsWritable(a), a.capability = "on_off"
      PROVE  a \in All(Controllable)
  <2> DEFINE s == SettingOf(a)
  <2>1. Setting(s) /\ s.device_id = a.device /\ a.endpoint \in DOMAIN Profile(s).endpoints
    BY <1>2, AddressesAreTyped
  <2>2. PICK c \in Profile(s).endpoints[a.endpoint] : c.capability = a.capability /\ c.writable
    BY <1>2 DEF IsWritable
  <2> HIDE DEF s
  <2>3. c \in Controllable
    BY <1>2, <2>1, <2>2, SettingIsTyped DEF Controllable, OnOff
  <2>4. a \in Addresses
    BY <1>2, AddressesAreTyped
  <2>5. a = [device |-> s.device_id, endpoint |-> a.endpoint, capability |-> c.capability]
    BY <2>1, <2>2, <2>4 DEF Addresses
  <2>6. a \in AddressesOf(s, Controllable)
    BY <2>1, <2>2, <2>3, <2>5, AddressOf
  <2> QED
    BY <2>1, <2>6, AllOf DEF Setting
<1> QED
  BY <1>1, <1>2

-----------------------------------------------------------------------------
(***************************************************************************)
(* Nothing of a document is lost on the way to the backend.                *)
(***************************************************************************)
\* Each endpoint of a document that loads is one of its profile, with its capabilities.
LEMMA EndpointsAreKept ==
  ASSUME NEW doc, Loads(doc)
  PROVE  LET endpoints == ProfileOf(doc).endpoints IN
         /\ DOMAIN endpoints = Numbers(doc.endpoints)
         /\ \A j \in DOMAIN doc.endpoints :
              endpoints[doc.endpoints[j].key.number] =
                {Capability(doc.endpoints[j].capabilities[k]) :
                   k \in DOMAIN doc.endpoints[j].capabilities}
<1> DEFINE number(j) == doc.endpoints[j].key.number
           At(n) == CHOOSE j \in DOMAIN doc.endpoints : number(j) = n
           Of(j) == {Capability(doc.endpoints[j].capabilities[k]) :
                       k \in DOMAIN doc.endpoints[j].capabilities}
<1>1. ProfileOf(doc).endpoints = [n \in Numbers(doc.endpoints) |-> Of(At(n))]
  BY DEF ProfileOf
<1>2. \A i, j \in DOMAIN doc.endpoints : i # j => number(i) # number(j)
  BY DEF Loads, Distinct
<1>3. ASSUME NEW j \in DOMAIN doc.endpoints
      PROVE  number(j) \in Numbers(doc.endpoints) /\ At(number(j)) = j
  <2>1. At(number(j)) \in DOMAIN doc.endpoints /\ number(At(number(j))) = number(j)
    OBVIOUS
  <2> HIDE DEF At
  <2> QED
    BY <1>2, <2>1 DEF Numbers
<1> HIDE DEF At, Of
<1>4. ASSUME NEW j \in DOMAIN doc.endpoints
      PROVE  ProfileOf(doc).endpoints[number(j)] = Of(j)
  BY <1>1, <1>3
<1> QED
  BY <1>1, <1>4 DEF Of

\* The address of a capability in the document of a setting.
Listed(s, j, k) ==
  [device |-> s.device_id, endpoint |-> DocumentOf(s).endpoints[j].key.number,
   capability |-> DocumentOf(s).endpoints[j].capabilities[k].id]

LEMMA DocumentLoads ==
  ASSUME Simulated, NEW s, Setting(s)
  PROVE  \E i \in DOMAIN package : /\ Loads(package[i]) /\ DocumentOf(s) = package[i]
                                  /\ Profile(s) = ProfileOf(package[i])
<1>1. s.profile_id \in KnownProfiles(package)
  BY ConfiguredIsTyped DEF Setting
<1> QED
  BY <1>1, ProfileIsLoaded DEF Simulated, Accepted

LEMMA AddressIsListed ==
  ASSUME Simulated, NEW s, Setting(s), NEW a \in AddressesOf(s, Every)
  PROVE  \E j \in DOMAIN DocumentOf(s).endpoints :
           \E k \in DOMAIN DocumentOf(s).endpoints[j].capabilities : a = Listed(s, j, k)
<1> DEFINE endpoints == DocumentOf(s).endpoints
<1>1. Loads(DocumentOf(s)) /\ Profile(s) = ProfileOf(DocumentOf(s))
  BY DocumentLoads
<1>2. PICK n \in DOMAIN Profile(s).endpoints : \E c \in Profile(s).endpoints[n] \cap Every :
        a = [device |-> s.device_id, endpoint |-> n, capability |-> c.capability]
  BY AddressOf
<1>3. PICK c \in Profile(s).endpoints[n] :
        a = [device |-> s.device_id, endpoint |-> n, capability |-> c.capability]
  BY <1>2
<1>4. PICK j \in DOMAIN endpoints : endpoints[j].key.number = n
  BY <1>1, EndpointsAreKept DEF Numbers
<1>5. Profile(s).endpoints[n] =
        {Capability(endpoints[j].capabilities[k]) : k \in DOMAIN endpoints[j].capabilities}
  BY <1>1, <1>4, EndpointsAreKept
<1>6. PICK k \in DOMAIN endpoints[j].capabilities : c = Capability(endpoints[j].capabilities[k])
  BY <1>3, <1>5
<1> QED
  BY <1>3, <1>4, <1>6 DEF Listed, Capability

\* A capability that is listed is an address, and writable as it says.
LEMMA ListedIsAddress ==
  ASSUME Simulated, NEW s, Setting(s), NEW j \in DOMAIN DocumentOf(s).endpoints,
         NEW k \in DOMAIN DocumentOf(s).endpoints[j].capabilities
  PROVE  /\ Listed(s, j, k) \in All(Every)
         /\ IsWritable(Listed(s, j, k)) = DocumentOf(s).endpoints[j].capabilities[k].writable
<1> DEFINE doc == DocumentOf(s)
           capabilities == doc.endpoints[j].capabilities
           n == doc.endpoints[j].key.number
           a == Listed(s, j, k)
<1>1. /\ Loads(doc) /\ Profile(s) = ProfileOf(doc)
      /\ \A m \in DOMAIN capabilities : capabilities[m].writable \in BOOLEAN
  <2>1. PICK i \in DOMAIN package : /\ Loads(package[i]) /\ doc = package[i]
                                    /\ Profile(s) = ProfileOf(package[i])
    BY DocumentLoads
  <2>2. \A m \in DOMAIN package[i].endpoints[j].capabilities :
          package[i].endpoints[j].capabilities[m].writable \in BOOLEAN
    BY <2>1, PackagesAssumption DEF Simulated, Given
  <2> QED
    BY <2>1, <2>2
<1>2. UniqueIds(capabilities)
  BY <1>1 DEF Loads, SatisfiesSchema
<1>3. /\ n \in DOMAIN Profile(s).endpoints
      /\ Profile(s).endpoints[n] = {Capability(capabilities[m]) : m \in DOMAIN capabilities}
  BY <1>1, EndpointsAreKept DEF Numbers
<1>4. Profile(s).endpoints[n] \subseteq Every
  BY <1>3, SettingIsTyped
<1>5. a = [device |-> s.device_id, endpoint |-> n, capability |-> capabilities[k].id]
  BY DEF Listed
<1> HIDE DEF capabilities, n, a, doc
<1>6. a \in AddressesOf(s, Every)
  <2>1. Capability(capabilities[k]) \in Profile(s).endpoints[n] \cap Every
    BY <1>3, <1>4 DEF capabilities, doc
  <2>2. Capability(capabilities[k]).capability = capabilities[k].id
    BY DEF Capability
  <2> QED
    BY <1>3, <1>5, <2>1, <2>2, AddressOf
<1>7. a \in All(Every)
  BY <1>6, AllOf DEF Setting
<1>8. SettingOf(a) = s
  <2>1. Setting(SettingOf(a)) /\ SettingOf(a).device_id = a.device
    BY <1>7, AddressesAreTyped
  <2>2. a.device = s.device_id
    BY <1>5
  <2> QED
    BY <2>1, <2>2, ConfiguredIsTyped DEF Setting
<1>9. a.endpoint = n /\ a.capability = capabilities[k].id
  BY <1>5
<1>10. IsWritable(a) <=> \E m \in DOMAIN capabilities :
                           capabilities[m].id = capabilities[k].id /\ capabilities[m].writable
  <2>1. IsWritable(a) <=> \E c \in Profile(s).endpoints[n] :
                            c.capability = capabilities[k].id /\ c.writable
    BY <1>8, <1>9 DEF IsWritable
  <2>2. IsWritable(a) <=> \E m \in DOMAIN capabilities :
                            /\ Capability(capabilities[m]).capability = capabilities[k].id
                            /\ Capability(capabilities[m]).writable
    BY <1>3, <2>1
  <2>3. \A m \in DOMAIN capabilities :
          /\ Capability(capabilities[m]).capability = capabilities[m].id
          /\ Capability(capabilities[m]).writable = capabilities[m].writable
    BY DEF Capability
  <2> QED
    BY <2>2, <2>3
<1>11. IsWritable(a) <=> capabilities[k].writable
  BY <1>2, <1>10 DEF UniqueIds, capabilities, doc
<1>12. IsWritable(a) \in BOOLEAN /\ capabilities[k].writable \in BOOLEAN
  BY <1>1 DEF IsWritable, capabilities, doc
<1> QED
  BY <1>7, <1>11, <1>12 DEF a, capabilities, doc

(***************************************************************************)
(* What OpenBackend makes of the configuration.                            *)
(***************************************************************************)
Built == /\ Simulated
         /\ devices = [i \in DOMAIN Configured |-> RuntimeDevice(Configured[i])]
         /\ writable = [a \in All(Every) |-> IsWritable(a)]
         /\ observations \in [All(OnOff) -> BOOLEAN]
         /\ sequences \in [All(OnOff) -> 0 .. MaxSequence]

LEMMA AnnouncedIsAll ==
  ASSUME NEW d, d = [i \in DOMAIN Configured |-> RuntimeDevice(Configured[i])]
  PROVE  UNION {d[i].capabilities : i \in DOMAIN d} = All(Controllable)
<1>1. \A i \in DOMAIN Configured :
        d[i].capabilities = AddressesOf(Configured[i], Controllable)
  BY DEF RuntimeDevice
<1> QED
  BY <1>1 DEF All

LEMMA AnnouncedIsTyped ==
  ASSUME Built
  PROVE  Announced \subseteq Addresses /\ Announced \subseteq All(OnOff)
<1>1. Announced \subseteq All(OnOff) /\ All(OnOff) \subseteq All(Every)
  BY AnnouncedIsAll, CapabilitiesGrow, Kinds DEF Built, Announced
<1> QED
  BY <1>1, AddressesAreTyped DEF Built

LEMMA DevicesAreTyped ==
  ASSUME Built
  PROVE  /\ devices # <<>>
         /\ \A i \in DOMAIN devices : devices[i].id \in DeviceIds
         /\ \A i, j \in DOMAIN devices : i # j => devices[i].id # devices[j].id
<1>1. /\ DOMAIN devices = DOMAIN Configured
      /\ \A i \in DOMAIN devices : devices[i].id = Configured[i].device_id
  BY DEF Built, RuntimeDevice
<1>2. DOMAIN <<>> = {}
  OBVIOUS
<1> QED
  BY <1>1, <1>2, ConfiguredIsTyped DEF Built

\* set_desired accepts exactly the commands the backend has announced.
LEMMA AcceptsAnnounced ==
  ASSUME Built, NEW a, NEW desired
  PROVE  Accepts(a, desired) <=> ~closed /\ a \in Announced /\ desired \in BOOLEAN
<1>1. a \in Announced <=> a \in All(Every) /\ IsWritable(a) /\ a.capability = "on_off"
  BY AnnouncedIsAll, ControllableIsWritable DEF Built, Announced
<1>2. a \in DOMAIN writable /\ writable[a] <=> a \in All(Every) /\ IsWritable(a)
  BY DEF Built
<1>3. a \in All(Every) =>
        \E i \in DOMAIN devices : devices[i].id = a.device /\ a.endpoint \in devices[i].endpoints
  <2> SUFFICES ASSUME a \in All(Every)
               PROVE  \E i \in DOMAIN devices : /\ devices[i].id = a.device
                                                /\ a.endpoint \in devices[i].endpoints
    OBVIOUS
  <2>1. PICK i \in DOMAIN Configured : SettingOf(a) = Configured[i]
    BY AddressesAreTyped DEF Setting, Built
  <2>2. /\ Configured[i].device_id = a.device
        /\ a.endpoint \in DOMAIN Profile(Configured[i]).endpoints
    BY <2>1, AddressesAreTyped DEF Built
  <2> QED
    BY <2>2 DEF Built, RuntimeDevice
<1> QED
  BY <1>1, <1>2, <1>3 DEF Accepts

-----------------------------------------------------------------------------
(***************************************************************************)
(* Topics, whatever the prefixes are.                                      *)
(***************************************************************************)
Kind == {"command", "state", "confidence", "last-command"}

\* What follows a prefix in a topic is found after it.
LEMMA AfterPrefix ==
  ASSUME NEW p \in Topics, NEW t \in Topics
  PROVE  /\ p \o t \in Topics /\ Len(p \o t) = Len(p) + Len(t)
         /\ \A i \in 1 .. Len(t) : (p \o t)[Len(p) + i] = t[i]
         /\ Len(p) \in Nat /\ \A i \in 1 .. Len(p) : (p \o t)[i] = p[i]
<1>1. Len(p) \in Nat /\ Len(t) \in Nat
  BY LenProperties DEF Topics
<1>2. /\ p \o t \in Seq(Segments) /\ Len(p \o t) = Len(p) + Len(t)
      /\ \A i \in 1 .. Len(p) + Len(t) :
           (p \o t)[i] = IF i <= Len(p) THEN p[i] ELSE t[i - Len(p)]
  BY ConcatProperties DEF Topics
<1>3. ASSUME NEW i \in 1 .. Len(t) PROVE (p \o t)[Len(p) + i] = t[i]
  <2>1. /\ Len(p) + i \in 1 .. Len(p) + Len(t)
        /\ ~(Len(p) + i <= Len(p)) /\ (Len(p) + i) - Len(p) = i
    BY <1>1
  <2> QED
    BY <1>2, <2>1
<1>4. ASSUME NEW i \in 1 .. Len(p) PROVE (p \o t)[i] = p[i]
  <2>1. i \in 1 .. Len(p) + Len(t) /\ i <= Len(p)
    BY <1>1
  <2> QED
    BY <1>2, <2>1
<1> QED
  BY <1>1, <1>2, <1>3, <1>4 DEF Topics

\* The segments that a topic is made of.
LEMMA SegmentsOf ==
  ASSUME NEW d \in DeviceIds, NEW n \in EndpointIds
  PROVE  /\ \A w \in Words : Word(w) \in Segments
         /\ Text(d) \in Segments /\ DiscoveryNode(d) \in Segments /\ Number(n) \in Segments
  BY DEF Segments, Word, Text, DeviceText, DiscoveryNode, Number, EndpointText, DeviceForms,
     EndpointForms, EndpointIds

LEMMA BridgeTopic ==
  ASSUME Layout.topic_prefix \in Topics
  PROVE  LET t == TopicOf(Layout, <<"bridge">>)
             k == Len(Layout.topic_prefix)
         IN  /\ t \in Topics /\ Len(t) = k + 2 /\ k \in Nat
             /\ t[k + 1] = Word("bridge") /\ t[k + 2] = Word("availability")
<1> DEFINE suffix == <<Word("bridge"), Word("availability")>>
<1>1. Word("bridge") \in Segments /\ Word("availability") \in Segments
  BY TopicsAssumption DEF Segments, Word
<1>2. suffix \in Topics /\ Len(suffix) = 2
  BY <1>1 DEF Topics
<1>3. TopicOf(Layout, <<"bridge">>) = Layout.topic_prefix \o suffix
  BY DEF TopicOf, BridgeAvailability
<1>4. suffix[1] = Word("bridge") /\ suffix[2] = Word("availability")
  OBVIOUS
<1> DEFINE p == Layout.topic_prefix
<1> HIDE DEF suffix, p
<1>5. p \in Topics
  BY DEF p
<1>6. /\ p \o suffix \in Topics /\ Len(p \o suffix) = Len(p) + Len(suffix)
      /\ \A i \in 1 .. Len(suffix) : (p \o suffix)[Len(p) + i] = suffix[i]
      /\ Len(p) \in Nat /\ \A i \in 1 .. Len(p) : (p \o suffix)[i] = p[i]
  BY <1>2, <1>5, AfterPrefix
<1>7. 1 \in 1 .. 2 /\ 2 \in 1 .. 2
  OBVIOUS
<1>8. /\ (p \o suffix)[Len(p) + 1] = suffix[1]
      /\ (p \o suffix)[Len(p) + 2] = suffix[2]
  BY <1>2, <1>6, <1>7
<1> QED
  BY <1>2, <1>3, <1>4, <1>6, <1>8 DEF p

LEMMA AvailabilityTopic ==
  ASSUME Layout.topic_prefix \in Topics, NEW d \in DeviceIds
  PROVE  LET t == TopicOf(Layout, <<"availability", d>>)
             k == Len(Layout.topic_prefix)
         IN  /\ t \in Topics /\ Len(t) = k + 2 /\ k \in Nat
             /\ t[k + 1] = Text(d) /\ t[k + 2] = Word("availability")
<1> DEFINE suffix == <<Text(d), Word("availability")>>
<1>1. Text(d) \in Segments /\ Word("availability") \in Segments
  BY TopicsAssumption DEF Segments, Word, Text, DeviceText, DeviceForms
<1>2. suffix \in Topics /\ Len(suffix) = 2
  BY <1>1 DEF Topics
<1>3. TopicOf(Layout, <<"availability", d>>) = Layout.topic_prefix \o suffix
  BY DEF TopicOf, DeviceAvailability
<1>4. suffix[1] = Text(d) /\ suffix[2] = Word("availability")
  OBVIOUS
<1> DEFINE p == Layout.topic_prefix
<1> HIDE DEF suffix, p
<1>5. p \in Topics
  BY DEF p
<1>6. /\ p \o suffix \in Topics /\ Len(p \o suffix) = Len(p) + Len(suffix)
      /\ \A i \in 1 .. Len(suffix) : (p \o suffix)[Len(p) + i] = suffix[i]
      /\ Len(p) \in Nat /\ \A i \in 1 .. Len(p) : (p \o suffix)[i] = p[i]
  BY <1>2, <1>5, AfterPrefix
<1>7. 1 \in 1 .. 2 /\ 2 \in 1 .. 2
  OBVIOUS
<1>8. /\ (p \o suffix)[Len(p) + 1] = suffix[1]
      /\ (p \o suffix)[Len(p) + 2] = suffix[2]
  BY <1>2, <1>6, <1>7
<1> QED
  BY <1>2, <1>3, <1>4, <1>6, <1>8 DEF p

LEMMA DiscoveryTopic ==
  ASSUME Layout.discovery_prefix \in Topics, NEW d \in DeviceIds
  PROVE  LET t == TopicOf(Layout, <<"discovery", d>>)
             k == Len(Layout.discovery_prefix)
         IN  /\ t \in Topics /\ Len(t) = k + 3 /\ k \in Nat
             /\ t[k + 2] = DiscoveryNode(d) /\ t[k + 3] = Word("config")
<1> DEFINE suffix == <<Word("device"), DiscoveryNode(d), Word("config")>>
<1>1. Word("device") \in Segments /\ DiscoveryNode(d) \in Segments /\ Word("config") \in Segments
  BY TopicsAssumption DEF Segments, Word, DiscoveryNode
<1>2. suffix \in Topics /\ Len(suffix) = 3
  BY <1>1 DEF Topics
<1>3. TopicOf(Layout, <<"discovery", d>>) = Layout.discovery_prefix \o suffix
  BY DEF TopicOf, Discovery
<1>4. suffix[2] = DiscoveryNode(d) /\ suffix[3] = Word("config")
  OBVIOUS
<1> DEFINE p == Layout.discovery_prefix
<1> HIDE DEF suffix, p
<1>5. p \in Topics
  BY DEF p
<1>6. /\ p \o suffix \in Topics /\ Len(p \o suffix) = Len(p) + Len(suffix)
      /\ \A i \in 1 .. Len(suffix) : (p \o suffix)[Len(p) + i] = suffix[i]
      /\ Len(p) \in Nat /\ \A i \in 1 .. Len(p) : (p \o suffix)[i] = p[i]
  BY <1>2, <1>5, AfterPrefix
<1>7. 1 \in 1 .. 3 /\ 2 \in 1 .. 3 /\ 3 \in 1 .. 3
  OBVIOUS
<1>8. /\ (p \o suffix)[Len(p) + 1] = suffix[1]
      /\ (p \o suffix)[Len(p) + 2] = suffix[2]
      /\ (p \o suffix)[Len(p) + 3] = suffix[3]
  BY <1>2, <1>6, <1>7
<1> QED
  BY <1>2, <1>3, <1>4, <1>6, <1>8 DEF p

LEMMA CapabilityTopics ==
  ASSUME Layout.topic_prefix \in Topics, NEW a \in Addresses, NEW kind \in Kind
  PROVE  LET t == TopicOf(Layout, <<kind, a>>)
             k == Len(Layout.topic_prefix)
         IN  /\ t \in Topics /\ Len(t) = k + 4 /\ k \in Nat
             /\ t[k + 1] = Text(a.device) /\ t[k + 2] = Number(a.endpoint)
             /\ t[k + 3] = Word(a.capability) /\ t[k + 4] = Word(kind)
             /\ \A i \in 1 .. k : t[i] = Layout.topic_prefix[i]
<1> DEFINE suffix == <<Text(a.device), Number(a.endpoint), Word(a.capability), Word(kind)>>
<1>1. /\ Text(a.device) \in Segments /\ Number(a.endpoint) \in Segments
      /\ Word(a.capability) \in Segments /\ Word(kind) \in Segments
  <2>1. /\ a.device \in DeviceIds /\ a.endpoint \in EndpointIds
        /\ a.capability \in Words /\ kind \in Words
    BY TopicsAssumption DEF Addresses, Kind
  <2> QED
    BY <2>1, SegmentsOf
<1>2. suffix \in Topics /\ Len(suffix) = 4
  BY <1>1 DEF Topics
<1>3. TopicOf(Layout, <<kind, a>>) = Layout.topic_prefix \o suffix
  BY DEF TopicOf, CapabilityTopic, Kind
<1>4. /\ suffix[1] = Text(a.device) /\ suffix[2] = Number(a.endpoint)
      /\ suffix[3] = Word(a.capability) /\ suffix[4] = Word(kind)
  OBVIOUS
<1> DEFINE p == Layout.topic_prefix
<1> HIDE DEF suffix, p
<1>5. p \in Topics
  BY DEF p
<1>6. /\ p \o suffix \in Topics /\ Len(p \o suffix) = Len(p) + Len(suffix)
      /\ \A i \in 1 .. Len(suffix) : (p \o suffix)[Len(p) + i] = suffix[i]
      /\ Len(p) \in Nat /\ \A i \in 1 .. Len(p) : (p \o suffix)[i] = p[i]
  BY <1>2, <1>5, AfterPrefix
<1>7. 1 \in 1 .. 4 /\ 2 \in 1 .. 4 /\ 3 \in 1 .. 4 /\ 4 \in 1 .. 4
  OBVIOUS
<1>8. /\ (p \o suffix)[Len(p) + 1] = suffix[1]
      /\ (p \o suffix)[Len(p) + 2] = suffix[2]
      /\ (p \o suffix)[Len(p) + 3] = suffix[3]
      /\ (p \o suffix)[Len(p) + 4] = suffix[4]
  BY <1>2, <1>6, <1>7
<1> QED
  BY <1>2, <1>3, <1>4, <1>6, <1>8 DEF p

\* A topic tells what it is for by its length and its last segment.
Shape(x, t) ==
  LET k == Len(Layout.topic_prefix)
      n == Len(t)
  IN  \/ x = <<"bridge">> /\ n = k + 2 /\ t[n] = Word("availability") /\ t[k + 1] = Word("bridge")
      \/ \E d \in DeviceIds :
           x = <<"availability", d>> /\ n = k + 2 /\ t[n] = Word("availability") /\ t[k + 1] = Text(d)
      \/ \E d \in DeviceIds :
           x = <<"discovery", d>> /\ t[n] = Word("config") /\ t[n - 1] = DiscoveryNode(d)
      \/ \E kind \in Kind, a \in Addresses :
           /\ x = <<kind, a>> /\ n = k + 4 /\ t[n] = Word(kind) /\ t[k + 1] = Text(a.device)
           /\ t[k + 2] = Number(a.endpoint) /\ t[k + 3] = Word(a.capability)

LEMMA ShapeOfTopic ==
  ASSUME Layout.topic_prefix \in Topics, Layout.discovery_prefix \in Topics,
         NEW ids \in SUBSET DeviceIds, NEW addresses \in SUBSET Addresses,
         NEW x \in Names(ids, addresses, Kind)
  PROVE  Shape(x, TopicOf(Layout, x))
<1>1. \/ x = <<"bridge">>
      \/ \E d \in DeviceIds : x = <<"availability", d>>
      \/ \E d \in DeviceIds : x = <<"discovery", d>>
      \/ \E kind \in Kind, a \in Addresses : x = <<kind, a>>
  BY DEF Names
<1>2. CASE x = <<"bridge">>
  BY <1>2, BridgeTopic DEF Shape
<1>3. ASSUME NEW d \in DeviceIds, x = <<"availability", d>>
      PROVE  Shape(x, TopicOf(Layout, x))
  BY <1>3, AvailabilityTopic DEF Shape
<1>4. ASSUME NEW d \in DeviceIds, x = <<"discovery", d>>
      PROVE  Shape(x, TopicOf(Layout, x))
  <2> DEFINE t == TopicOf(Layout, x)
             q == Len(Layout.discovery_prefix)
  <2>1. Len(t) = q + 3 /\ q \in Nat /\ t[q + 2] = DiscoveryNode(d) /\ t[q + 3] = Word("config")
    BY <1>4, DiscoveryTopic
  <2> HIDE DEF t, q
  <2>2. Len(t) - 1 = q + 2
    BY <2>1
  <2>3. t[Len(t)] = Word("config") /\ t[Len(t) - 1] = DiscoveryNode(d)
    BY <2>1, <2>2
  <2> QED
    BY <1>4, <2>3 DEF Shape, t
<1>5. ASSUME NEW kind \in Kind, NEW a \in Addresses, x = <<kind, a>>
      PROVE  Shape(x, TopicOf(Layout, x))
  BY <1>5, CapabilityTopics DEF Shape
<1> QED
  BY <1>1, <1>2, <1>3, <1>4, <1>5

\* And of which device or address it is.
LEMMA DistinctShapes ==
  ASSUME NEW x, NEW y, NEW t, Shape(x, t), Shape(y, t), Len(Layout.topic_prefix) \in Nat
  PROVE  x = y
<1>1. ASSUME NEW d, NEW e PROVE /\ Word("bridge") # Text(d)
                                /\ Text(d) = Text(e) => d = e
                                /\ DiscoveryNode(d) = DiscoveryNode(e) => d = e
                                /\ Number(d) = Number(e) => d = e
                                /\ Word(d) = Word(e) => d = e
  BY DEF Word, Text, DeviceText, DiscoveryNode, Number, EndpointText
<1>2. ASSUME NEW a \in Addresses, NEW b \in Addresses, a.device = b.device,
             a.endpoint = b.endpoint, a.capability = b.capability
      PROVE  a = b
  BY <1>2 DEF Addresses
<1>3. ASSUME NEW kind \in Kind
      PROVE  Word(kind) # Word("availability") /\ Word(kind) # Word("config")
  BY <1>1 DEF Kind
<1>4. Word("availability") # Word("config")
  BY <1>1
<1> DEFINE k == Len(Layout.topic_prefix)
           n == Len(t)
           Bridge(z) == z = <<"bridge">> /\ n = k + 2 /\ t[n] = Word("availability")
                          /\ t[k + 1] = Word("bridge")
           Device(z) == \E d \in DeviceIds :
             z = <<"availability", d>> /\ n = k + 2 /\ t[n] = Word("availability") /\ t[k + 1] = Text(d)
           Found(z) == \E d \in DeviceIds :
             z = <<"discovery", d>> /\ t[n] = Word("config") /\ t[n - 1] = DiscoveryNode(d)
           OfAddress(z) == \E kind \in Kind, a \in Addresses :
             /\ z = <<kind, a>> /\ n = k + 4 /\ t[n] = Word(kind) /\ t[k + 1] = Text(a.device)
             /\ t[k + 2] = Number(a.endpoint) /\ t[k + 3] = Word(a.capability)
<1>5. \A z \in {x, y} : Bridge(z) \/ Device(z) \/ Found(z) \/ OfAddress(z)
  BY DEF Shape
<1>6. \A z \in {x, y} : /\ Bridge(z) => n = k + 2 /\ t[n] = Word("availability") /\ t[k + 1] = Word("bridge")
                        /\ Device(z) => /\ n = k + 2 /\ t[n] = Word("availability")
                                        /\ t[k + 1] # Word("bridge")
                        /\ Found(z) => t[n] = Word("config")
                        /\ OfAddress(z) => /\ n = k + 4 /\ t[n] # Word("availability")
                                           /\ t[n] # Word("config")
  BY <1>1, <1>3
<1>7. Bridge(x) /\ Bridge(y) => x = y
  OBVIOUS
<1>8. Device(x) /\ Device(y) => x = y
  BY <1>1
<1>9. Found(x) /\ Found(y) => x = y
  BY <1>1
<1>10. OfAddress(x) /\ OfAddress(y) => x = y
  <2> SUFFICES ASSUME NEW g \in Kind, NEW a \in Addresses, NEW h \in Kind, NEW b \in Addresses,
                      x = <<g, a>>, y = <<h, b>>, Word(g) = Word(h),
                      Text(a.device) = Text(b.device), Number(a.endpoint) = Number(b.endpoint),
                      Word(a.capability) = Word(b.capability)
               PROVE  x = y
    OBVIOUS
  <2>1. g = h /\ a.device = b.device /\ a.endpoint = b.endpoint /\ a.capability = b.capability
    BY <1>1
  <2> QED
    BY <1>2, <2>1
<1> HIDE DEF Bridge, Device, Found, OfAddress
<1> QED
  BY <1>4, <1>5, <1>6, <1>7, <1>8, <1>9, <1>10

LEMMA DistinctNames ==
  ASSUME Layout.topic_prefix \in Topics, Layout.discovery_prefix \in Topics,
         NEW ids \in SUBSET DeviceIds, NEW addresses \in SUBSET Addresses,
         NEW m \in Names(ids, addresses, Kind), NEW n \in Names(ids, addresses, Kind), m # n
  PROVE  TopicOf(Layout, m) # TopicOf(Layout, n)
<1>1. Len(Layout.topic_prefix) \in Nat
  BY LenProperties DEF Topics
<1> QED
  BY <1>1, ShapeOfTopic, DistinctShapes

(***************************************************************************)
(* Commands: parse_command_topic takes the topic of an address for that    *)
(* address, and no other topic for it.                                     *)
(***************************************************************************)
LEMMA NoAddressIsNone == NoAddress \notin Addresses
  BY DEF NoAddress, Addresses, EndpointIds

\* A device's or an endpoint's text in the spelling the bridge uses.
LEMMA CanonicalTexts ==
  ASSUME NEW d \in Segments, NEW n \in Segments, IsDeviceText(d), ShortDecimal(n),
         IsEndpointText(n), Canonical(d, n)
  PROVE  d = Text(ParseDeviceId(d)) /\ n = Number(n[2])
<1>1. d \in {"device"} \X DeviceIds \X DeviceForms
  BY DEF Segments, IsDeviceText
<1>2. d = <<d[1], d[2], d[3]>> /\ d[1] = "device" /\ d[3] = "canonical"
  BY <1>1 DEF Canonical
<1>3. n \in {"endpoint"} \X Nat \X EndpointForms
  BY DEF Segments, IsEndpointText
<1>4. n = <<n[1], n[2], n[3]>> /\ n[1] = "endpoint" /\ n[3] = "decimal"
  BY <1>3 DEF Canonical
<1> QED
  BY <1>2, <1>4 DEF Text, DeviceText, ParseDeviceId, Number, EndpointText

LEMMA ParsedTopic ==
  ASSUME Layout.topic_prefix \in Topics, NEW t \in Topics,
         ParseCommandTopic(Layout, t) \in Addresses
  PROVE  t = TopicOf(Layout, <<"command", ParseCommandTopic(Layout, t)>>)
<1> DEFINE p == Layout.topic_prefix
           k == Len(p)
           a == ParseCommandTopic(Layout, t)
           u == TopicOf(Layout, <<"command", a>>)
<1>1. /\ StartsWith(t, p) /\ Len(t) = k + 4
      /\ t[k + 3] = Word("on_off") /\ t[k + 4] = Word("command")
      /\ IsDeviceText(t[k + 1]) /\ ShortDecimal(t[k + 2]) /\ IsEndpointText(t[k + 2])
      /\ Canonical(t[k + 1], t[k + 2])
      /\ a = [device |-> ParseDeviceId(t[k + 1]), endpoint |-> t[k + 2][2],
              capability |-> "on_off"]
  BY NoAddressIsNone DEF ParseCommandTopic
<1>2. /\ u \in Topics /\ Len(u) = k + 4 /\ k \in Nat
      /\ u[k + 1] = Text(a.device) /\ u[k + 2] = Number(a.endpoint)
      /\ u[k + 3] = Word(a.capability) /\ u[k + 4] = Word("command")
      /\ \A i \in 1 .. k : u[i] = p[i]
  <2>1. "command" \in Kind
    BY DEF Kind
  <2> QED
    BY <2>1, CapabilityTopics
<1> HIDE DEF u, a, k
<1>3. t[k + 1] \in Segments /\ t[k + 2] \in Segments
  <2>1. k + 1 \in 1 .. Len(t) /\ k + 2 \in 1 .. Len(t)
    BY <1>1, <1>2
  <2> QED
    BY <2>1, ElementOfSeq DEF Topics
<1>4. /\ t[k + 1] = Text(a.device) /\ t[k + 2] = Number(a.endpoint)
      /\ a.capability = "on_off"
  BY <1>1, <1>3, CanonicalTexts
<1>5. \A i \in 1 .. k : t[i] = p[i]
  <2>1. \A i \in 1 .. k : t[i] \in Segments
    BY <1>1, <1>2, ElementOfSeq DEF Topics
  <2>2. \A i \in 1 .. k : SubSeq(t, 1, k)[i] = t[i]
    <3>1. \A i \in 1 .. k - 1 + 1 : SubSeq(t, 1, k)[i] = t[1 + i - 1]
      BY <1>2, <2>1, SubSeqProperties
    <3> QED
      BY <1>2, <3>1
  <2> QED
    BY <1>1, <2>2 DEF StartsWith, k
<1>6. ASSUME NEW i \in 1 .. Len(t) PROVE t[i] = u[i]
  <2>1. i \in 1 .. k \/ i = k + 1 \/ i = k + 2 \/ i = k + 3 \/ i = k + 4
    BY <1>1, <1>2
  <2> QED
    BY <1>1, <1>2, <1>4, <1>5, <2>1
<1>7. t = u
  BY <1>1, <1>2, <1>6, SeqEqual DEF Topics
<1> QED
  BY <1>7 DEF u, a

LEMMA TopicIsParsed ==
  ASSUME Given, Accepted, NEW a \in Addresses, a.capability = "on_off"
  PROVE  /\ TopicOf(Layout, <<"command", a>>) \in Topics
         /\ ParseCommandTopic(Layout, TopicOf(Layout, <<"command", a>>)) = a
<1> DEFINE p == Layout.topic_prefix
           k == Len(p)
           t == TopicOf(Layout, <<"command", a>>)
<1>1. /\ t \in Topics /\ Len(t) = k + 4 /\ k \in Nat
      /\ t[k + 1] = Text(a.device) /\ t[k + 2] = Number(a.endpoint)
      /\ t[k + 3] = Word("on_off") /\ t[k + 4] = Word("command")
      /\ \A i \in 1 .. k : t[i] = p[i]
  <2>1. "command" \in Kind
    BY DEF Kind
  <2> QED
    BY <2>1, CapabilityTopics, LayoutIsTyped
<1>2. p \in Topics /\ \A i \in DOMAIN p : p[i] \notin Wild
  BY LayoutIsTyped
<1> HIDE DEF t, p, k
<1>3. DOMAIN p = 1 .. k /\ DOMAIN t = 1 .. k + 4
  BY <1>1, <1>2, LenProperties DEF Topics, k
<1>4. StartsWith(t, p)
  <2>1. \A i \in 1 .. k : t[i] \in Segments
    BY <1>1, ElementOfSeq DEF Topics
  <2>2. /\ SubSeq(t, 1, k) \in Seq(Segments)
        /\ Len(SubSeq(t, 1, k)) = IF 1 <= k THEN k - 1 + 1 ELSE 0
        /\ \A i \in 1 .. k - 1 + 1 : SubSeq(t, 1, k)[i] = t[1 + i - 1]
    BY <1>1, <2>1, SubSeqProperties
  <2>3. Len(SubSeq(t, 1, k)) = k /\ \A i \in 1 .. k : SubSeq(t, 1, k)[i] = p[i]
    BY <1>1, <2>2
  <2>4. SubSeq(t, 1, k) = p
    BY <1>2, <2>2, <2>3, SeqEqual DEF Topics, k
  <2> QED
    BY <1>1, <2>4 DEF StartsWith, k
<1>5. a.device \in DeviceIds /\ a.endpoint \in EndpointIds
  BY DEF Addresses
<1>6. /\ Text(a.device) \notin Wild /\ Number(a.endpoint) \notin Wild
      /\ Word("on_off") \notin Wild /\ Word("command") \notin Wild
  BY DEF Wild, Word, Text, DeviceText, Number, EndpointText
<1>7. \A i \in DOMAIN t : t[i] \notin Wild
  <2> SUFFICES ASSUME NEW i \in 1 .. k + 4 PROVE t[i] \notin Wild
    BY <1>3
  <2>1. i \in 1 .. k \/ i = k + 1 \/ i = k + 2 \/ i = k + 3 \/ i = k + 4
    BY <1>1
  <2> QED
    BY <1>1, <1>2, <1>3, <1>6, <2>1
<1>8. /\ IsDeviceText(Text(a.device)) /\ ShortDecimal(Number(a.endpoint))
      /\ IsEndpointText(Number(a.endpoint))
      /\ Canonical(Text(a.device), Number(a.endpoint))
      /\ ParseDeviceId(Text(a.device)) = a.device /\ Number(a.endpoint)[2] = a.endpoint
  BY <1>5 DEF IsDeviceText, ShortDecimal, IsEndpointText, Canonical, ParseDeviceId, Text,
     DeviceText, Number, EndpointText, EndpointIds
<1>9. ParseCommandTopic(Layout, t) =
        [device |-> a.device, endpoint |-> a.endpoint, capability |-> "on_off"]
  BY <1>1, <1>4, <1>7, <1>8 DEF ParseCommandTopic, p, k
<1>10. a = [device |-> a.device, endpoint |-> a.endpoint, capability |-> "on_off"]
  BY DEF Addresses
<1> QED
  BY <1>1, <1>9, <1>10 DEF t

-----------------------------------------------------------------------------
(***************************************************************************)
(* The inductive invariant.                                                *)
(***************************************************************************)
\* A bridge that has started can be commanded on the topic of every address it has
\* announced: that topic is not the status topic, and is read as that address.
Reachable ==
  pc = "running" => \A a \in Announced :
    LET t == TopicOf(Layout, <<"command", a>>) IN
    /\ t # Layout.home_assistant_status_topic
    /\ ParseCommandTopic(Layout, t) = a

Opened == pc \in {"runtime", "running", "closed"} \/ reason = "status_topic"

\* How far the bridge has been built.
Progress ==
  /\ Given
  /\ pc \in {"load", "credentials", "backend", "runtime", "running", "refused", "closed"}
  /\ reason \in {"none", "configuration", "credentials", "backend", "status_topic"}
  /\ pc = "refused" <=> reason # "none"
  /\ pc # "load" /\ reason # "configuration" => Accepted
  /\ closed \in BOOLEAN /\ (closed <=> pc = "closed" \/ reason = "status_topic")
  /\ pc \notin {"running", "closed"} => source = NoSource
  /\ pc = "running" => ~StatusTopicConflicts

Contents ==
  IF Opened THEN Built
            ELSE devices = <<>> /\ writable = Nothing /\ observations = Nothing
                   /\ sequences = Nothing

IInv == Progress /\ Contents /\ LoadedOpens /\ ExactTopics

LEMMA TypesFollow == IInv => TypeOK
<1> SUFFICES ASSUME IInv PROVE TypeOK
  OBVIOUS
<1>1. /\ \A i \in DOMAIN devices : devices[i].id \in DeviceIds
      /\ DOMAIN writable \subseteq Addresses
      /\ observations \in [DOMAIN sequences -> BOOLEAN]
      /\ sequences \in [DOMAIN observations -> 0 .. MaxSequence]
  <2>1. CASE Opened
    <3>1. Built
      BY <2>1 DEF IInv, Contents
    <3>2. DOMAIN writable \subseteq Addresses
      BY <3>1, AddressesAreTyped DEF Built
    <3>3. /\ observations \in [DOMAIN sequences -> BOOLEAN]
          /\ sequences \in [DOMAIN observations -> 0 .. MaxSequence]
      BY <3>1 DEF Built
    <3> QED
      BY <3>1, <3>2, <3>3, DevicesAreTyped
  <2>2. CASE ~Opened
    BY <2>2 DEF IInv, Contents, Nothing
  <2> QED
    BY <2>1, <2>2
<1> QED
  BY <1>1 DEF IInv, Progress, Given, TypeOK

LEMMA TopicsFollow == IInv => TopicsAreDistinct
<1> SUFFICES ASSUME IInv, pc = "running"
             PROVE  /\ \A i, j \in DOMAIN devices : i # j => devices[i].id # devices[j].id
                    /\ \A m, n \in EveryName : m # n => TopicOf(Layout, m) # TopicOf(Layout, n)
                    /\ \A n \in Generated :
                         TopicOf(Layout, n) # Layout.home_assistant_status_topic
  BY DEF TopicsAreDistinct
<1>1. Built /\ Given /\ Accepted /\ ~StatusTopicConflicts
  BY DEF IInv, Contents, Opened, Progress, Built, Simulated
<1>2. /\ \A i \in DOMAIN devices : devices[i].id \in DeviceIds
      /\ \A i, j \in DOMAIN devices : i # j => devices[i].id # devices[j].id
      /\ Announced \subseteq Addresses
  BY <1>1, DevicesAreTyped, AnnouncedIsTyped
<1>3. EveryName = Names({devices[i].id : i \in DOMAIN devices}, Announced, Kind)
  BY DEF EveryName, Generated, Names, Kind
<1>4. \A m, n \in EveryName : m # n => TopicOf(Layout, m) # TopicOf(Layout, n)
  <2> DEFINE ids == {devices[i].id : i \in DOMAIN devices}
  <2>1. ids \in SUBSET DeviceIds /\ Announced \in SUBSET Addresses
    BY <1>2
  <2>2. Layout.topic_prefix \in Topics /\ Layout.discovery_prefix \in Topics
    BY <1>1, LayoutIsTyped
  <2> HIDE DEF ids
  <2>3. \A m, n \in Names(ids, Announced, Kind) : m # n => TopicOf(Layout, m) # TopicOf(Layout, n)
    BY <2>1, <2>2, DistinctNames
  <2> QED
    BY <1>3, <2>3 DEF ids
<1>5. \A n \in Generated : TopicOf(Layout, n) # Layout.home_assistant_status_topic
  BY <1>1 DEF StatusTopicConflicts
<1> QED
  BY <1>2, <1>4, <1>5

LEMMA DocumentedFollows == IInv => BuiltAsDocumented
<1> SUFFICES ASSUME IInv, devices # <<>>
             PROVE  {<<a, writable[a]>> : a \in DOMAIN writable} =
                      UNION {Documented(Configured[i]) : i \in DOMAIN Configured}
  BY DEF BuiltAsDocumented
<1>1. Built /\ Simulated
  BY DEF IInv, Contents, Built
<1>2. writable = [a \in All(Every) |-> IsWritable(a)]
  BY <1>1 DEF Built
<1>3. \A s, x : x \in Documented(s) <=>
        \E j \in DOMAIN DocumentOf(s).endpoints :
          \E k \in DOMAIN DocumentOf(s).endpoints[j].capabilities :
            x = <<Listed(s, j, k), DocumentOf(s).endpoints[j].capabilities[k].writable>>
  BY DEF Documented, Listed
<1>4. ASSUME NEW a \in All(Every)
      PROVE  \E i \in DOMAIN Configured : <<a, IsWritable(a)>> \in Documented(Configured[i])
  <2>1. PICK i \in DOMAIN Configured : a \in AddressesOf(Configured[i], Every)
    BY AllOf
  <2> DEFINE s == Configured[i]
  <2>2. Setting(s)
    BY DEF Setting
  <2> HIDE DEF s
  <2>3. PICK j \in DOMAIN DocumentOf(s).endpoints :
          \E k \in DOMAIN DocumentOf(s).endpoints[j].capabilities : a = Listed(s, j, k)
    BY <1>1, <2>1, <2>2, AddressIsListed DEF s
  <2>4. PICK k \in DOMAIN DocumentOf(s).endpoints[j].capabilities : a = Listed(s, j, k)
    BY <2>3
  <2>5. IsWritable(a) = DocumentOf(s).endpoints[j].capabilities[k].writable
    BY <1>1, <2>2, <2>4, ListedIsAddress
  <2>6. <<a, IsWritable(a)>> \in Documented(s)
    BY <1>3, <2>4, <2>5
  <2> QED
    BY <2>6 DEF s
<1>5. ASSUME NEW i \in DOMAIN Configured, NEW x \in Documented(Configured[i])
      PROVE  \E a \in All(Every) : x = <<a, IsWritable(a)>>
  <2> DEFINE s == Configured[i]
  <2>1. Setting(s)
    BY DEF Setting
  <2>2. PICK j \in DOMAIN DocumentOf(s).endpoints :
          \E k \in DOMAIN DocumentOf(s).endpoints[j].capabilities :
            x = <<Listed(s, j, k), DocumentOf(s).endpoints[j].capabilities[k].writable>>
    BY <1>3
  <2> HIDE DEF s
  <2>3. PICK k \in DOMAIN DocumentOf(s).endpoints[j].capabilities :
          x = <<Listed(s, j, k), DocumentOf(s).endpoints[j].capabilities[k].writable>>
    BY <2>2
  <2> QED
    BY <1>1, <2>1, <2>3, ListedIsAddress
<1> QED
  BY <1>2, <1>4, <1>5

LEMMA ReachableFollows == IInv => Reachable
<1> SUFFICES ASSUME IInv, pc = "running", NEW a \in Announced
             PROVE  LET t == TopicOf(Layout, <<"command", a>>) IN
                    /\ t # Layout.home_assistant_status_topic
                    /\ ParseCommandTopic(Layout, t) = a
  BY DEF Reachable
<1>1. Built /\ Given /\ Accepted /\ TopicsAreDistinct
  BY TopicsFollow DEF IInv, Contents, Opened, Progress, Built, Simulated
<1>2. a \in Addresses /\ a.capability = "on_off"
  BY <1>1, AnnouncedIsTyped, AnnouncedIsAll, ControllableIsWritable DEF Built, Announced
<1>3. <<"command", a>> \in Generated
  BY DEF Generated, Names
<1> QED
  BY <1>1, <1>2, <1>3, TopicIsParsed DEF TopicsAreDistinct

-----------------------------------------------------------------------------
(***************************************************************************)
(* The initial states and the steps.                                       *)
(***************************************************************************)
LEMMA Initial == Init => IInv
  BY DEF Init, IInv, Progress, Given, Contents, Opened, LoadedOpens, ExactTopics

\* What is read from the inputs stays as it is.
LEMMA InputsStay ==
  ASSUME UNCHANGED inputs
  PROVE  /\ Given' = Given /\ Accepted' = Accepted /\ Simulated' = Simulated
         /\ Layout' = Layout /\ Configured' = Configured
         /\ All(Every)' = All(Every) /\ All(OnOff)' = All(OnOff)
         /\ All(Controllable)' = All(Controllable)
         /\ \A a : IsWritable(a)' = IsWritable(a)
         /\ \A s : RuntimeDevice(s)' = RuntimeDevice(s)
<1>1. document' = document /\ package' = package /\ files' = files
  BY DEF inputs
<1>2. Given' = Given /\ Accepted' = Accepted /\ Simulated' = Simulated
  BY <1>1 DEF Given, Accepted, Simulated
<1>3. Layout' = Layout /\ Configured' = Configured
  BY <1>1 DEF Layout, Configured
<1>4. \A s : Profile(s)' = Profile(s)
  BY <1>1 DEF Profile, DocumentOf
<1>5. \A s, C : AddressesOf(s, C)' = AddressesOf(s, C)
  BY <1>4 DEF AddressesOf
<1>6. \A C : All(C)' = All(C)
  BY <1>3, <1>5 DEF All
<1>7. \A a : SettingOf(a)' = SettingOf(a)
  BY <1>3 DEF SettingOf
<1>8. \A a : IsWritable(a)' = IsWritable(a)
  BY <1>4, <1>7 DEF IsWritable
<1>9. \A s : RuntimeDevice(s)' = RuntimeDevice(s)
  BY <1>4, <1>5 DEF RuntimeDevice
<1> QED
  BY <1>2, <1>3, <1>6, <1>8, <1>9

\* A step that leaves the inputs and the backend alone, but for its being closed.
LEMMA BuiltStays ==
  ASSUME Built, UNCHANGED <<inputs, devices, writable>>,
         observations' \in [All(OnOff) -> BOOLEAN],
         sequences' \in [All(OnOff) -> 0 .. MaxSequence]
  PROVE  Built' /\ Announced' = Announced
<1>1. /\ Simulated' = Simulated /\ Configured' = Configured
      /\ All(Every)' = All(Every) /\ All(OnOff)' = All(OnOff)
      /\ \A a : IsWritable(a)' = IsWritable(a)
      /\ \A s : RuntimeDevice(s)' = RuntimeDevice(s)
  BY InputsStay DEF inputs
<1>2. Announced' = Announced
  BY DEF Announced
<1> QED
  BY <1>1, <1>2 DEF Built

LEMMA LoadConfigKeeps ==
  ASSUME IInv, LoadConfig
  PROVE  IInv'
<1>1. /\ ~Opened /\ ~Opened' /\ UNCHANGED <<inputs, backend, answer, source>>
      /\ \/ pc' = "credentials" /\ UNCHANGED reason /\ Accepted
         \/ pc' = "refused" /\ reason' = "configuration"
  BY DEF IInv, Progress, LoadConfig, Opened, Accepted, Refuse
<1>2. Given' /\ Accepted' = Accepted
  BY <1>1, InputsStay DEF IInv, Progress
<1>3. Progress'
  BY <1>1, <1>2 DEF IInv, Progress, LoadConfig, backend
<1>4. Contents'
  BY <1>1 DEF IInv, Contents, backend, Nothing
<1>5. LoadedOpens' /\ ExactTopics'
  BY <1>1 DEF IInv, LoadedOpens, ExactTopics, Progress, LoadConfig
<1> QED
  BY <1>3, <1>4, <1>5 DEF IInv

LEMMA LoadCredentialsKeeps ==
  ASSUME IInv, LoadCredentials
  PROVE  IInv'
<1>1. /\ ~Opened /\ ~Opened' /\ UNCHANGED <<inputs, backend, answer, source>>
      /\ \/ pc' = "backend" /\ UNCHANGED reason
         \/ pc' = "refused" /\ reason' = "credentials"
  BY DEF IInv, Progress, LoadCredentials, Opened, Refuse
<1>2. Given' /\ Accepted' = Accepted
  BY <1>1, InputsStay DEF IInv, Progress
<1>3. Progress'
  BY <1>1, <1>2 DEF IInv, Progress, LoadCredentials, backend
<1>4. Contents'
  BY <1>1 DEF IInv, Contents, backend, Nothing
<1>5. LoadedOpens' /\ ExactTopics'
  BY <1>1 DEF IInv, LoadedOpens, ExactTopics, Progress, LoadCredentials
<1> QED
  BY <1>3, <1>4, <1>5 DEF IInv

\* The constructor of the backend gives every switch the configured value.
LEMMA OpenBackendBuilds ==
  ASSUME IInv, OpenBackend, pc' = "runtime"
  PROVE  /\ Built' /\ UNCHANGED <<inputs, closed, reason, answer, source>>
         /\ Announced' \subseteq Addresses /\ devices' # <<>>
         /\ \A a \in Announced' : observations'[a] \in BOOLEAN /\ sequences'[a] = 0
<1>1. Simulated
  BY DEF IInv, Progress, OpenBackend, Simulated
<1>2. /\ devices' = [i \in DOMAIN Configured |-> RuntimeDevice(Configured[i])]
      /\ writable' = [a \in All(Every) |-> IsWritable(a)]
      /\ observations' = [a \in All(OnOff) |-> SettingOf(a).initial_on]
      /\ sequences' = [a \in All(OnOff) |-> 0]
      /\ UNCHANGED <<inputs, closed, reason, answer, source>>
  BY DEF OpenBackend, Refuse
<1>3. \A a \in All(OnOff) : SettingOf(a).initial_on \in BOOLEAN
  <2> SUFFICES ASSUME NEW a \in All(OnOff) PROVE SettingOf(a).initial_on \in BOOLEAN
    OBVIOUS
  <2>1. Setting(SettingOf(a))
    BY <1>1, AddressesAreTyped, CapabilitiesGrow, Kinds
  <2> QED
    BY <1>1, <2>1, SettingIsTyped
<1>4. /\ Simulated' = Simulated /\ Configured' = Configured
      /\ All(Every)' = All(Every) /\ All(OnOff)' = All(OnOff)
      /\ \A a : IsWritable(a)' = IsWritable(a)
      /\ \A s : RuntimeDevice(s)' = RuntimeDevice(s)
  BY <1>2, InputsStay
<1>5. Built'
  BY <1>1, <1>2, <1>3, <1>4, SimulatorAssumption DEF Built
<1>6. Announced' = All(Controllable)
  BY <1>2, AnnouncedIsAll DEF Announced
<1>7. Announced' \subseteq All(OnOff) /\ Announced' \subseteq All(Every)
  BY <1>6, CapabilitiesGrow, Kinds
<1>8. Announced' \subseteq Addresses
  BY <1>1, <1>7, AddressesAreTyped
<1>9. devices' # <<>>
  <2>1. DOMAIN devices' # {} /\ DOMAIN <<>> = {}
    BY <1>1, <1>2, ConfiguredIsTyped
  <2> QED
    BY <2>1
<1>10. \A a \in Announced' : observations'[a] \in BOOLEAN /\ sequences'[a] = 0
  BY <1>2, <1>3, <1>7
<1> QED
  BY <1>2, <1>5, <1>8, <1>9, <1>10

LEMMA OpenBackendKeeps ==
  ASSUME IInv, OpenBackend
  PROVE  IInv'
<1>1. ~Opened /\ Simulated /\ pc = "backend" /\ reason = "none"
  BY DEF IInv, Progress, OpenBackend, Opened, Simulated
<1>2. CASE pc' = "runtime"
  <2>1. Built' /\ UNCHANGED <<inputs, closed, reason, answer, source>>
    BY <1>2, OpenBackendBuilds
  <2>2. Given' /\ Accepted'
    BY <2>1 DEF Built, Simulated
  <2>3. Progress' /\ Contents'
    BY <1>1, <1>2, <2>1, <2>2 DEF IInv, Progress, Contents, Opened
  <2> QED
    BY <1>1, <1>2, <2>1, <2>3 DEF IInv, LoadedOpens, ExactTopics, Progress
<1>3. CASE pc' # "runtime"
  <2>1. /\ pc' = "refused" /\ reason' = "backend"
        /\ UNCHANGED <<inputs, devices, writable, observations, sequences, closed, answer, source>>
    BY <1>3 DEF OpenBackend, Refuse
  <2>2. PICK i \in DOMAIN Configured : ~( /\ Configured[i].profile_id \in KnownProfiles(package)
                                          /\ Sorted(Profile(Configured[i]).order))
    BY <1>3 DEF OpenBackend
  <2>3. /\ Configured[i].profile_id \in KnownProfiles(package)
        /\ ~Sorted(Profile(Configured[i]).order)
    BY <1>1, <2>2, ConfiguredIsTyped
  <2>4. PICK j \in DOMAIN package : Profile(Configured[i]) = ProfileOf(package[j])
    BY <1>1, <2>3, ProfileIsLoaded DEF Simulated, Accepted
  <2>5. LoadedOpens'
    BY <2>1, <2>3, <2>4 DEF LoadedOpens, inputs
  <2>6. Given' /\ Accepted'
    BY <1>1, <2>1, InputsStay DEF Simulated
  <2>7. Progress'
    BY <1>1, <2>1, <2>6 DEF IInv, Progress
  <2>8. Contents'
    BY <1>1, <2>1 DEF IInv, Contents, Opened, Nothing
  <2>9. ExactTopics'
    BY <1>1, <2>1 DEF IInv, Progress, ExactTopics
  <2> QED
    BY <2>5, <2>7, <2>8, <2>9 DEF IInv
<1> QED
  BY <1>2, <1>3

LEMMA CreateRuntimeKeeps ==
  ASSUME IInv, CreateRuntime
  PROVE  IInv'
<1>1. /\ Built /\ pc = "runtime" /\ reason = "none" /\ ~closed /\ source = NoSource
      /\ UNCHANGED <<inputs, devices, writable, observations, sequences, answer, source>>
  BY DEF IInv, Progress, Contents, Opened, CreateRuntime
<1>2. \/ pc' = "refused" /\ reason' = "status_topic" /\ closed' = TRUE
      \/ pc' = "running" /\ UNCHANGED <<reason, closed>> /\ ~StatusTopicConflicts
  BY DEF CreateRuntime, Refuse
<1>3. Built' /\ Announced' = Announced
  BY <1>1, BuiltStays DEF Built
<1>4. ~StatusTopicConflicts => ~StatusTopicConflicts'
  <2>1. Layout' = Layout /\ Generated' = Generated
    BY <1>1, <1>3, InputsStay DEF Generated
  <2> QED
    BY <2>1 DEF StatusTopicConflicts
<1>5. Given' /\ Accepted'
  BY <1>3 DEF Built, Simulated
<1>6. Progress'
  <2>1. CASE pc' = "refused" /\ reason' = "status_topic" /\ closed' = TRUE
    BY <1>1, <1>5, <2>1 DEF Progress
  <2>2. CASE pc' = "running" /\ UNCHANGED <<reason, closed>> /\ ~StatusTopicConflicts
    BY <1>1, <1>4, <1>5, <2>2 DEF IInv, Progress
  <2> QED
    BY <1>2, <2>1, <2>2
<1>7. Contents'
  BY <1>2, <1>3 DEF Contents, Opened
<1>8. LoadedOpens' /\ ExactTopics'
  BY <1>1, <1>2 DEF LoadedOpens, ExactTopics
<1> QED
  BY <1>6, <1>7, <1>8 DEF IInv

\* A command changes the value and the sequence number of an announced address, or
\* nothing.
LEMMA SetDesiredKeeps ==
  ASSUME IInv, pc \in {"running", "closed"}, NEW a, NEW desired, SetDesired(a, desired)
  PROVE  /\ Built' /\ Announced' = Announced
         /\ UNCHANGED <<inputs, pc, reason, devices, writable, closed>>
<1>1. Built /\ UNCHANGED <<inputs, pc, reason, devices, writable, closed>>
  BY DEF IInv, Contents, Opened, SetDesired
<1>2. CASE Accepts(a, desired)
  <2>1. a \in All(OnOff) /\ desired \in BOOLEAN
    BY <1>1, <1>2, AcceptsAnnounced, AnnouncedIsTyped
  <2>2. /\ sequences[a] < MaxSequence
        /\ sequences' = [sequences EXCEPT ![a] = sequences[a] + 1]
        /\ observations' = [observations EXCEPT ![a] = desired]
    BY <1>2 DEF SetDesired
  <2>3. /\ observations' \in [All(OnOff) -> BOOLEAN]
        /\ sequences' \in [All(OnOff) -> 0 .. MaxSequence]
    BY <1>1, <2>1, <2>2, SimulatorAssumption DEF Built
  <2> QED
    BY <1>1, <2>3, BuiltStays
<1>3. CASE ~Accepts(a, desired)
  <2>1. UNCHANGED <<observations, sequences>>
    BY <1>3 DEF SetDesired
  <2> QED
    BY <1>1, <2>1, BuiltStays DEF Built
<1> QED
  BY <1>2, <1>3

\* After a step on a backend that is open or has been closed.
LEMMA OpenedKeeps ==
  ASSUME IInv, pc \in {"running", "closed"}, Built', Announced' = Announced,
         UNCHANGED <<inputs, reason, devices>>,
         \/ UNCHANGED <<pc, closed>>
         \/ pc = "running" /\ pc' = "closed" /\ closed' = TRUE,
         \/ UNCHANGED source
         \/ /\ source'.address \in Announced
            /\ source'.topic = TopicOf(Layout, <<"command", source'.address>>)
  PROVE  IInv'
<1>1. Layout' = Layout /\ package' = package
  BY InputsStay DEF inputs
<1>2. Given' /\ Accepted'
  BY DEF Built, Simulated
<1>3. ~StatusTopicConflicts => ~StatusTopicConflicts'
  <2>1. Generated' = Generated
    BY DEF Generated
  <2> QED
    BY <1>1, <2>1 DEF StatusTopicConflicts
<1>4. Progress'
  <2>1. CASE UNCHANGED <<pc, closed>>
    BY <1>2, <1>3, <2>1 DEF IInv, Progress
  <2>2. CASE pc = "running" /\ pc' = "closed" /\ closed' = TRUE
    BY <1>2, <2>2 DEF IInv, Progress
  <2> QED
    BY <2>1, <2>2
<1>5. Contents'
  BY DEF Contents, Opened
<1>6. LoadedOpens'
  BY <1>1 DEF IInv, LoadedOpens
<1>7. ExactTopics'
  BY <1>1 DEF IInv, ExactTopics
<1> QED
  BY <1>4, <1>5, <1>6, <1>7 DEF IInv

LEMMA ReceiveKeeps ==
  ASSUME IInv, Receive
  PROVE  IInv'
<1>1. PICK t \in Received, desired \in BOOLEAN :
        LET a == ParseCommandTopic(Layout, t) IN
        a \in Announced /\ SetDesired(a, desired) /\ source' = [topic |-> t, address |-> a]
  BY DEF Receive
<1> DEFINE a == ParseCommandTopic(Layout, t)
<1>2. pc = "running" /\ Built /\ Given /\ Accepted
  BY DEF Receive, IInv, Progress, Contents, Opened, Built, Simulated
<1>3. t = TopicOf(Layout, <<"command", a>>)
  <2>1. a \in Addresses /\ t \in Topics /\ Layout.topic_prefix \in Topics
    BY <1>1, <1>2, AnnouncedIsTyped, LayoutIsTyped, SimulatorAssumption
  <2> QED
    BY <2>1, ParsedTopic
<1> HIDE DEF a
<1>4. /\ Built' /\ Announced' = Announced
      /\ UNCHANGED <<inputs, pc, reason, devices, writable, closed>>
  BY <1>1, <1>2, SetDesiredKeeps DEF a
<1>5. source'.address \in Announced /\ source'.topic = TopicOf(Layout, <<"command", source'.address>>)
  BY <1>1, <1>3 DEF a
<1> QED
  BY <1>2, <1>4, <1>5, OpenedKeeps

LEMMA CallKeeps ==
  ASSUME IInv, Call
  PROVE  IInv'
<1>1. PICK a \in Commanded, desired \in BOOLEAN \cup Others : SetDesired(a, desired)
  BY DEF Call
<1>2. /\ Built' /\ Announced' = Announced
      /\ UNCHANGED <<inputs, pc, reason, devices, writable, closed>>
  BY <1>1, SetDesiredKeeps DEF Call
<1> QED
  BY <1>2, OpenedKeeps DEF Call

LEMMA CloseKeeps ==
  ASSUME IInv, Close
  PROVE  IInv'
<1>1. Built /\ UNCHANGED <<inputs, devices, writable, observations, sequences>>
  BY DEF IInv, Contents, Opened, Close
<1>2. Built' /\ Announced' = Announced
  BY <1>1, BuiltStays DEF Built
<1> QED
  BY <1>1, <1>2, OpenedKeeps DEF Close

LEMMA StutterKeeps ==
  ASSUME IInv, UNCHANGED vars
  PROVE  IInv'
<1>1. UNCHANGED <<inputs, pc, reason, devices, writable, observations, sequences, closed, source>>
  BY DEF vars, backend
<1>2. /\ Layout' = Layout /\ package' = package /\ Given' = Given /\ Accepted' = Accepted
      /\ Generated' = Generated /\ Announced' = Announced /\ Opened' = Opened
  BY <1>1, InputsStay DEF inputs, Generated, Announced, Opened
<1>3. ~StatusTopicConflicts => ~StatusTopicConflicts'
  BY <1>2 DEF StatusTopicConflicts
<1>4. Progress'
  BY <1>1, <1>2, <1>3 DEF IInv, Progress
<1>5. Contents'
  <2>1. Built => Built'
    BY <1>1, BuiltStays DEF Built
  <2> QED
    BY <1>1, <1>2, <2>1 DEF IInv, Contents, Nothing
<1>6. LoadedOpens' /\ ExactTopics'
  BY <1>1, <1>2 DEF IInv, LoadedOpens, ExactTopics
<1> QED
  BY <1>4, <1>5, <1>6 DEF IInv

LEMMA Inductive == IInv /\ [Next]_vars => IInv'
<1> SUFFICES ASSUME IInv, [Next]_vars PROVE IInv'
  OBVIOUS
<1>1. CASE Build
  BY <1>1, LoadConfigKeeps, LoadCredentialsKeeps, OpenBackendKeeps, CreateRuntimeKeeps DEF Build
<1>2. CASE Receive
  BY <1>2, ReceiveKeeps
<1>3. CASE Call
  BY <1>3, CallKeeps
<1>4. CASE Close
  BY <1>4, CloseKeeps
<1>5. CASE UNCHANGED vars
  BY <1>5, StutterKeeps
<1> QED
  BY <1>1, <1>2, <1>3, <1>4, <1>5 DEF Next

LEMMA Invariant == Spec => []IInv
  BY Initial, Inductive, PTL DEF Spec

-----------------------------------------------------------------------------
(***************************************************************************)
(* The theorems.                                                           *)
(***************************************************************************)
\* Every variable keeps its type, and every number of confirmed commands its bound.
THEOREM TypeCorrect == Spec => []TypeOK
  BY Invariant, TypesFollow, PTL

\* What config.py and the profile loader accept makes a backend (SimulatorBackend.
\* __init__), unless the endpoints of a packaged profile are not in order.
THEOREM LoadedMakesBackend == Spec => []LoadedOpens
<1>1. IInv => LoadedOpens
  BY DEF IInv
<1> QED
  BY <1>1, Invariant, PTL

\* The topics of a running bridge are pairwise distinct, for any prefixes, devices
\* and addresses (TopicLayout, _validate_status_topic).
THEOREM DistinctTopics == Spec => []TopicsAreDistinct
  BY Invariant, TopicsFollow, PTL

\* A simulator has the capabilities its packaged documents list, each as writable as it
\* is there (load_profile_data, SimulatorBackend.__init__): endpoints keyed twice, or
\* capabilities named twice, are refused and not merged.
THEOREM NothingIsDropped == Spec => []BuiltAsDocumented
  BY Invariant, DocumentedFollows, PTL

\* The backend is only given commands that came on the topic of their address, in
\* the spelling the bridge has subscribed to (parse_command_topic).
THEOREM CommandsComeExactly == Spec => []ExactTopics
<1>1. IInv => ExactTopics
  BY DEF IInv
<1> QED
  BY <1>1, Invariant, PTL

\* And conversely the topic of every announced address is read as that address and
\* never taken for Home Assistant's status (parse_command_topic).
THEOREM EveryAddressIsReachable == Spec => []Reachable
  BY Invariant, ReachableFollows, PTL

-----------------------------------------------------------------------------
(***************************************************************************)
(* The simulator implements ObservableBackend, step by step.               *)
(***************************************************************************)
LEMMA AbstractInitial == Init => Observable!Init
<1> SUFFICES ASSUME Init PROVE Observable!Init
  OBVIOUS
<1>1. devices = <<>> /\ Announced = {}
  BY DEF Init, Announced
<1> QED
  BY <1>1 DEF Init, Observable!Init

\* A command while the backend is open, or after it has been closed.
LEMMA CommandIsAnswered ==
  ASSUME IInv, pc \in {"running", "closed"}, NEW a \in Addresses,
         NEW desired \in BOOLEAN \cup Others, SetDesired(a, desired)
  PROVE  Observable!Confirm(a, desired) \/ Observable!Reject(a, desired)
<1>1. Built /\ closed \in BOOLEAN /\ devices # <<>>
  BY DevicesAreTyped DEF IInv, Contents, Opened, Progress
<1>2. Accepts(a, desired) <=> Observable!Answerable(a, desired)
  BY <1>1, AcceptsAnnounced DEF Observable!Answerable
<1>3. /\ Announced' = Announced /\ UNCHANGED <<devices, closed>>
  BY SetDesiredKeeps
<1>4. CASE Accepts(a, desired)
  <2>1. /\ sequences' = [sequences EXCEPT ![a] = sequences[a] + 1]
        /\ observations' = [observations EXCEPT ![a] = desired]
        /\ answer' = [status |-> "confirmed", value |-> desired, sequence |-> sequences[a] + 1]
    BY <1>4 DEF SetDesired
  <2>2. a \in Announced /\ Announced \subseteq All(OnOff)
    BY <1>1, <1>4, AcceptsAnnounced, AnnouncedIsTyped
  <2>3. /\ [x \in Announced |-> observations'[x]] =
             [[x \in Announced |-> observations[x]] EXCEPT ![a] = desired]
        /\ [x \in Announced |-> sequences'[x]] =
             [[x \in Announced |-> sequences[x]] EXCEPT ![a] = sequences[a] + 1]
    BY <1>1, <2>1, <2>2 DEF Built
  <2>4. [x \in Announced |-> sequences[x]][a] = sequences[a]
    BY <2>2
  <2>5. Observable!Confirm(a, desired)
    BY <1>2, <1>3, <1>4, <2>1, <2>3, <2>4 DEF Observable!Confirm, Observable!Confirmed
  <2> QED
    BY <2>5
<1>5. CASE ~Accepts(a, desired)
  <2>1. answer' = [status |-> "rejected"] /\ UNCHANGED <<sequences, observations>>
    BY <1>5 DEF SetDesired
  <2>2. Observable!Reject(a, desired)
    BY <1>2, <1>3, <1>5, <2>1 DEF Observable!Reject, Observable!Rejected
  <2> QED
    BY <2>2
<1> QED
  BY <1>4, <1>5

LEMMA AbstractStep == IInv /\ [Next]_vars => [Observable!Next]_(Observable!vars)
<1> SUFFICES ASSUME IInv, [Next]_vars PROVE [Observable!Next]_(Observable!vars)
  OBVIOUS
<1>1. CASE LoadConfig \/ LoadCredentials \/ UNCHANGED vars
  <2>1. UNCHANGED <<devices, observations, sequences, closed, answer>>
    BY <1>1 DEF LoadConfig, LoadCredentials, vars, backend
  <2> QED
    BY <2>1 DEF Observable!vars, Announced
<1>2. CASE OpenBackend
  <2>1. ~Opened /\ devices = <<>> /\ ~closed /\ closed \in BOOLEAN
    BY <1>2 DEF IInv, Progress, Contents, OpenBackend, Opened
  <2>2. CASE pc' = "runtime"
    <3>1. /\ Announced' \subseteq Addresses /\ devices' # <<>> /\ UNCHANGED <<closed, answer>>
          /\ \A a \in Announced' : observations'[a] \in BOOLEAN /\ sequences'[a] = 0
      BY <1>2, <2>2, OpenBackendBuilds
    <3>2. Observable!Open
      BY <2>1, <3>1 DEF Observable!Open
    <3> QED
      BY <3>2 DEF Observable!Next
  <2>3. CASE pc' # "runtime"
    <3>1. UNCHANGED <<devices, observations, sequences, closed, answer>>
      BY <1>2, <2>3 DEF OpenBackend
    <3> QED
      BY <3>1 DEF Observable!vars, Announced
  <2> QED
    BY <2>2, <2>3
<1>3. CASE CreateRuntime \/ Close
  <2>1. /\ UNCHANGED <<devices, observations, sequences, answer>>
        /\ closed' = TRUE \/ UNCHANGED closed
    BY <1>3 DEF CreateRuntime, Close
  <2>2. devices # <<>> /\ closed \in BOOLEAN
    BY <1>3, DevicesAreTyped DEF IInv, Progress, Contents, Opened, CreateRuntime, Close
  <2>3. Announced' = Announced
    BY <2>1 DEF Announced
  <2>4. CASE closed' = TRUE
    <3>1. Observable!Close
      BY <2>1, <2>2, <2>3, <2>4 DEF Observable!Close
    <3> QED
      BY <3>1 DEF Observable!Next
  <2>5. CASE UNCHANGED closed
    BY <2>1, <2>3, <2>5 DEF Observable!vars
  <2> QED
    BY <2>1, <2>4, <2>5
<1>4. CASE Receive
  <2>1. PICK t \in Received, desired \in BOOLEAN :
          /\ ParseCommandTopic(Layout, t) \in Announced
          /\ SetDesired(ParseCommandTopic(Layout, t), desired)
    BY <1>4 DEF Receive
  <2>2. pc = "running" /\ Announced \subseteq Addresses
    BY <1>4, AnnouncedIsTyped DEF Receive, IInv, Contents, Opened
  <2> QED
    BY <2>1, <2>2, CommandIsAnswered DEF Observable!Next
<1>5. CASE Call
  <2>1. PICK a \in Commanded, desired \in BOOLEAN \cup Others : SetDesired(a, desired)
    BY <1>5 DEF Call
  <2>2. pc \in {"running", "closed"} /\ a \in Addresses
    BY <1>5, SimulatorAssumption DEF Call
  <2> QED
    BY <2>1, <2>2, CommandIsAnswered DEF Observable!Next
<1> QED
  BY <1>1, <1>2, <1>3, <1>4, <1>5 DEF Next, Build

\* The simulator keeps every promise of an observable backend: a command is
\* confirmed with the value it has set and the next sequence number of its address
\* exactly if the address was announced, the value is ON or OFF and the backend is
\* open; every other one is rejected and changes nothing (SimulatorBackend.
\* set_desired).
THEOREM Refinement == Spec => Implements
  BY Invariant, AbstractInitial, AbstractStep, PTL DEF Spec, Implements, Observable!Spec
=============================================================================
