------------------------------ MODULE Settings ------------------------------
(***************************************************************************)
(* config.py: what a TOML document has to be to become an AppConfig.       *)
(*                                                                         *)
(* A TOML value carries its type.  A table is a function on its keys, and  *)
(* the text of a string is what its field is read as: a word, a topic (see *)
(* Topics), the spelling of a device, the octets of an address.            *)
(***************************************************************************)
EXTENDS Topics

CONSTANT
  Synthetic   \* the identities of the reserved range 02000000000000xx

ASSUME SettingsAssumption == Synthetic \subseteq DeviceIds

String(x)  == [type |-> "string", value |-> x]
BlankText  == [type |-> "blank string"]
Integer(n) == [type |-> "integer", value |-> n]
Boolean(b) == [type |-> "boolean", value |-> b]
Array(s)   == [type |-> "array", value |-> s]
Table(f)   == [type |-> "table", value |-> f]

MqttKeys        == {"host", "port", "keepalive_seconds", "tls"}
CredentialKeys  == {"username_file", "password_file"}
RuntimeKeys     == {"client_id", "topic_prefix", "discovery_prefix",
                    "home_assistant_status_topic"}
SimulatorKeys   == {"type", "devices"}
HarmonyKeys     == SimulatorKeys \cup {"host", "certificate_sha256_file", "session_file"}
SimulatorDevice == {"device_id", "name", "profile_id", "initial_on"}
HarmonyDevice   == {"device_id", "name", "profile_id", "component_id"}

-----------------------------------------------------------------------------
\* _closed_mapping
ClosedTable(v, required, allowed) ==
  v.type = "table" /\ required \subseteq DOMAIN v.value /\ DOMAIN v.value \subseteq allowed

NonblankString(v) == v.type = "string"
BoundedInteger(v, low, high) == v.type = "integer" /\ low <= v.value /\ v.value <= high

\* _topic: no empty segment, no wildcard, no NUL.
TopicName(v) ==
  /\ NonblankString(v)
  /\ \A i \in DOMAIN v.value : v.value[i] \notin Wild \cup {Word("")}

ValidRuntime(v) ==
  /\ ClosedTable(v, RuntimeKeys, RuntimeKeys)
  /\ NonblankString(v.value["client_id"])
  /\ \A k \in RuntimeKeys \ {"client_id"} : TopicName(v.value[k])

\* Credentials are configured together or not at all.
ValidMqtt(v) ==
  /\ ClosedTable(v, MqttKeys, MqttKeys \cup CredentialKeys)
  /\ CredentialKeys \cap DOMAIN v.value \in {{}, CredentialKeys}
  /\ \A k \in (CredentialKeys \cap DOMAIN v.value) \cup {"host"} : NonblankString(v.value[k])
  /\ \A k \in {"port", "keepalive_seconds"} : BoundedInteger(v.value[k], 1, 65535)
  /\ v.value["tls"].type = "boolean"

ValidDeviceId(v, ids) ==
  NonblankString(v) /\ IsDeviceText(v.value) /\ ParseDeviceId(v.value) \in ids

\* Mutant of ValidNames: any identifier of a profile will do.
ValidNamesUnknown(item, known) ==
  NonblankString(item["name"]) /\ NonblankString(item["profile_id"])

\* _profile_id: one of the packaged profiles, all of which load.
ValidNames(item, known) ==
  /\ NonblankString(item["name"])
  /\ NonblankString(item["profile_id"]) /\ item["profile_id"].value \in known

\* Mutant of DistinctDevices: compared as they are spelled.
DistinctDevicesAsSpelled(items) ==
  \A i, j \in DOMAIN items : i # j =>
    items[i].value["device_id"].value # items[j].value["device_id"].value

\* seen_ids: the identities are compared after they have been parsed.
DistinctDevices(items) ==
  \A i, j \in DOMAIN items : i # j =>
    ParseDeviceId(items[i].value["device_id"].value)
      # ParseDeviceId(items[j].value["device_id"].value)

DeviceTables(v) == v.value["devices"].value

ValidDevices(v, keys, ids, known) ==
  /\ v.value["devices"].type = "array" /\ DeviceTables(v) # <<>>
  /\ \A i \in DOMAIN DeviceTables(v) :
       LET t == DeviceTables(v)[i] IN
       /\ ClosedTable(t, keys, keys)
       /\ ValidDeviceId(t.value["device_id"], ids)
       /\ ValidNames(t.value, known)
  /\ DistinctDevices(DeviceTables(v))

ValidSimulator(v, known) ==
  /\ ClosedTable(v, SimulatorKeys, SimulatorKeys)
  /\ ValidDevices(v, SimulatorDevice, Synthetic, known)
  /\ \A i \in DOMAIN DeviceTables(v) :
       DeviceTables(v)[i].value["initial_on"].type = "boolean"

\* A dotted quad of one of the networks of RFC 1918; no other text is one.
PrivateHost(v) ==
  /\ NonblankString(v) /\ Len(v.value) = 4
  /\ \A i \in 1 .. 4 : v.value[i] \in 0 .. 255
  /\ \/ v.value[1] = 10
     \/ v.value[1] = 172 /\ v.value[2] \in 16 .. 31
     \/ v.value[1] = 192 /\ v.value[2] = 168

\* seen_bindings adds nothing: a binding that is seen twice has its device twice.
ValidHarmony(v, known) ==
  /\ ClosedTable(v, HarmonyKeys, HarmonyKeys)
  /\ ValidDevices(v, HarmonyDevice, DeviceIds, known)
  /\ \A i \in DOMAIN DeviceTables(v) :
       LET component == DeviceTables(v)[i].value["component_id"] IN
       NonblankString(component) /\ component.value # "unsafe"
  /\ PrivateHost(v.value["host"])
  /\ NonblankString(v.value["certificate_sha256_file"])
  /\ NonblankString(v.value["session_file"])

ValidBackend(v, known) ==
  /\ v.type = "table" /\ "type" \in DOMAIN v.value /\ NonblankString(v.value["type"])
  /\ \/ v.value["type"].value = "simulator" /\ ValidSimulator(v, known)
     \/ v.value["type"].value = "harmony_g2" /\ ValidHarmony(v, known)

\* load_config; known are the identifiers of the packaged profiles.
ValidConfig(root, known) ==
  /\ ClosedTable(root, {"runtime", "mqtt", "backend"}, {"runtime", "mqtt", "backend"})
  /\ ValidRuntime(root.value["runtime"])
  /\ ValidMqtt(root.value["mqtt"])
  /\ ValidBackend(root.value["backend"], known)

-----------------------------------------------------------------------------
(***************************************************************************)
(* The AppConfig of a valid document, as far as the bridge's parts use it. *)
(***************************************************************************)
LayoutOf(root) == [k \in RuntimeKeys \ {"client_id"} |-> root.value["runtime"].value[k].value]

DeviceSettings(t) ==
  [device_id |-> ParseDeviceId(t["device_id"].value), profile_id |-> t["profile_id"].value,
   initial_on |-> IF "initial_on" \in DOMAIN t THEN t["initial_on"].value ELSE FALSE]

BackendType(root) == root.value["backend"].value["type"].value

DevicesOf(root) ==
  LET items == DeviceTables(root.value["backend"])
  IN  [i \in DOMAIN items |-> DeviceSettings(items[i].value)]

HasCredentials(root) == CredentialKeys \subseteq DOMAIN root.value["mqtt"].value

\* _read_credential: one line ending is removed, and something has to be left.
\* A file is a sequence of characters: "x", "blank", "cr", "lf".
WithoutLineEnding(s) ==
  LET n == Len(s) IN
  IF n >= 2 /\ s[n - 1] = "cr" /\ s[n] = "lf" THEN SubSeq(s, 1, n - 2)
  ELSE IF n >= 1 /\ s[n] \in {"cr", "lf"} THEN SubSeq(s, 1, n - 1) ELSE s

ReadableCredential(s) == \E i \in DOMAIN WithoutLineEnding(s) : s[i] = "x"
=============================================================================
