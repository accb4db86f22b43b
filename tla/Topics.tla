------------------------------- MODULE Topics -------------------------------
(***************************************************************************)
(* TopicLayout and the identities its topics are made of.                  *)
(*                                                                         *)
(* A topic is the sequence of its segments.  A segment is a word, or the   *)
(* text of a device or of an endpoint in one of its spellings: of the text *)
(* only what DeviceId.parse and parse_command_topic look at is kept.       *)
(***************************************************************************)
EXTENDS Naturals, Sequences

CONSTANTS
  DeviceIds,  \* the identities a text may name
  Words       \* the other segments, those of the layout and any a client makes up

\* "canonical" is sixteen lowercase digits; "upper" has capitals, "prefixed" a 0x,
\* "colons" and "dashes" eight groups of two; "short" and "nonhex" are no identity.
DeviceForms   == {"canonical", "upper", "prefixed", "colons", "dashes", "short", "nonhex"}

\* "decimal" is str() of the number; int() also reads it "padded" with zeros to
\* at most three characters, "signed", or in digits that are "not_ascii".
EndpointForms == {"decimal", "padded", "signed", "not_ascii"}

Word(w)               == <<"word", w>>
DeviceText(d, form)   == <<"device", d, form>>
EndpointText(n, form) == <<"endpoint", n, form>>
DiscoveryNode(d)      == <<"node", d>>       \* smartenit_rescue_<device>

Segments == ({"word"} \X Words) \cup ({"device"} \X DeviceIds \X DeviceForms)
              \cup ({"endpoint"} \X Nat \X EndpointForms) \cup ({"node"} \X DeviceIds)

EndpointIds   == 1 .. 240
CapabilityIds == {"on_off", "electrical_power", "electrical_energy", "voltage", "current",
                  "temperature", "battery", "level", "thermostat"}
Addresses     == [device : DeviceIds, endpoint : EndpointIds, capability : CapabilityIds]
NoAddress     == [device |-> "none", endpoint |-> 0, capability |-> "none"]

ASSUME TopicsAssumption ==
  CapabilityIds \cup {"availability", "bridge", "command", "state", "confidence",
    "last-command", "device", "config", "", "+", "#", "nul"} \subseteq Words

\* The segments with a wildcard or a NUL in them.
Wild == {Word("+"), Word("#"), Word("nul")}

Topics == Seq(Segments)

\* TopicLayout
Layouts == [topic_prefix : Topics, discovery_prefix : Topics,
            home_assistant_status_topic : Topics]

-----------------------------------------------------------------------------
IsDeviceText(s) == s[1] = "device" /\ s[3] \notin {"short", "nonhex"}

\* DeviceId.parse: every accepted spelling names the same device.
ParseDeviceId(s) == s[2]

\* int() of an endpoint's text, where EndpointId takes it.
IsEndpointText(s) == s[1] = "endpoint" /\ s[2] \in EndpointIds

Text(d) == DeviceText(d, "canonical")    \* str(device_id)
Number(n) == EndpointText(n, "decimal")  \* str(endpoint)

BridgeAvailability(layout) ==
  layout.topic_prefix \o <<Word("bridge"), Word("availability")>>
DeviceAvailability(layout, d) ==
  layout.topic_prefix \o <<Text(d), Word("availability")>>
CapabilityTopic(layout, a, kind) ==
  layout.topic_prefix \o <<Text(a.device), Number(a.endpoint), Word(a.capability), Word(kind)>>
Discovery(layout, d) ==
  layout.discovery_prefix \o <<Word("device"), DiscoveryNode(d), Word("config")>>

\* Mutant of Canonical: any spelling of the device will do.
CanonicalEndpoint(device, endpoint) == endpoint[3] = "decimal"

\* The segments are str() of what they were parsed to.
Canonical(device, endpoint) == device[3] = "canonical" /\ endpoint[3] = "decimal"

\* len(raw_endpoint) <= 3, isascii() and isdecimal().
ShortDecimal(s) ==
  s[1] = "endpoint" /\ s[2] <= 999 /\ s[3] \in {"decimal", "padded"}

StartsWith(t, prefix) == Len(t) > Len(prefix) /\ SubSeq(t, 1, Len(prefix)) = prefix

ParseCommandTopic(layout, t) ==
  LET k        == Len(layout.topic_prefix)
      device   == t[k + 1]
      endpoint == t[k + 2]
  IN  IF /\ StartsWith(t, layout.topic_prefix)
         /\ \A i \in DOMAIN t : t[i] \notin Wild
         /\ Len(t) = k + 4
         /\ t[k + 3] = Word("on_off") /\ t[k + 4] = Word("command")
         /\ ShortDecimal(endpoint)
         /\ IsDeviceText(device) /\ IsEndpointText(endpoint)
         /\ Canonical(device, endpoint)
      THEN [device |-> ParseDeviceId(device), endpoint |-> endpoint[2],
            capability |-> "on_off"]
      ELSE NoAddress

-----------------------------------------------------------------------------
(***************************************************************************)
(* The topics of a bridge: what BridgeRuntime publishes and subscribes to, *)
(* by what each of them is for.                                            *)
(***************************************************************************)
Names(devices, addresses, kinds) ==
  {<<"bridge">>} \cup ({"availability", "discovery"} \X devices) \cup (kinds \X addresses)

TopicOf(layout, name) ==
  CASE name[1] = "bridge"       -> BridgeAvailability(layout)
    [] name[1] = "availability" -> DeviceAvailability(layout, name[2])
    [] name[1] = "discovery"    -> Discovery(layout, name[2])
    [] OTHER                    -> CapabilityTopic(layout, name[2], name[1])
=============================================================================
