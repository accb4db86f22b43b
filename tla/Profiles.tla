------------------------------ MODULE Profiles ------------------------------
(***************************************************************************)
(* profiles/loader.py: the device profiles a JSON document becomes, and    *)
(* which devices they match.                                               *)
(*                                                                         *)
(* A document is a record of its properties.  Objects keyed by endpoint    *)
(* are sequences of records, in the order of the document, whose key is    *)
(* the text of the endpoint: its number and its spelling.  The scale of a  *)
(* capability is its normalization: "none", one that "fits" a float, one   *)
(* too "huge" for it, or a divisor of "zero".  "floats" are the properties *)
(* whose integer is written as a float (6.0), which the schema takes for   *)
(* an integer.  "rest" stands for what the schema asks of the others.      *)
(***************************************************************************)
EXTENDS Topics

Capabilities(doc) ==
  UNION {{doc.endpoints[i].capabilities[j].id : j \in DOMAIN doc.endpoints[i].capabilities} :
           i \in DOMAIN doc.endpoints}

UniqueIds(capabilities) ==
  \A i, j \in DOMAIN capabilities : i # j => capabilities[i].id # capabilities[j].id

\* patternProperties: a decimal number from 1 to 240.  The pattern ends in a $,
\* which also matches before a line feed at the end of the text.
EndpointKey(key) == key.number \in EndpointIds /\ key.form \in {"decimal", "line_feed"}

Distinct(keys) == \A i, j \in DOMAIN keys : i # j => keys[i].key.number # keys[j].key.number

\* _validate_schema
SatisfiesSchema(doc) ==
  /\ doc.rest
  /\ doc.models # <<>> /\ doc.endpoints # <<>>
  /\ \A i \in DOMAIN doc.endpoints :
       LET e == doc.endpoints[i] IN
       /\ EndpointKey(e.key)
       /\ e.capabilities # <<>> /\ UniqueIds(e.capabilities)
       /\ \A j \in DOMAIN e.capabilities :
            /\ e.capabilities[j].id \in CapabilityIds
            /\ e.capabilities[j].scale # "zero"
  /\ \A i \in DOMAIN doc.match.clusters : EndpointKey(doc.match.clusters[i].key)
  /\ \A c \in doc.limitations : c \in Capabilities(doc)

\* _integer, where the schema has taken a float for an integer.
OnlyIntegers(doc) == doc.floats = {}

\* Mutant of Loads: keys that name the same endpoint go unnoticed.
LoadsRepeated(doc) ==
  /\ SatisfiesSchema(doc)
  /\ OnlyIntegers(doc)
  /\ \A i \in DOMAIN doc.endpoints : \A j \in DOMAIN doc.endpoints[i].capabilities :
       doc.endpoints[i].capabilities[j].scale # "huge"

\* load_profile_data raises on what the schema has let through where two keys name
\* the same endpoint, an integer is a float (_integer), or a number does not fit one.
Loads(doc) ==
  /\ SatisfiesSchema(doc)
  /\ Distinct(doc.endpoints)
  /\ OnlyIntegers(doc)
  /\ \A i \in DOMAIN doc.endpoints : \A j \in DOMAIN doc.endpoints[i].capabilities :
       doc.endpoints[i].capabilities[j].scale # "huge"

Numbers(keys) == {keys[i].key.number : i \in DOMAIN keys}

\* _match_rules keeps the last of two keys that name the same endpoint.
ClustersOf(clusters) ==
  [n \in Numbers(clusters) |->
     LET last == CHOOSE i \in DOMAIN clusters :
                   /\ clusters[i].key.number = n
                   /\ \A j \in DOMAIN clusters : clusters[j].key.number = n => j <= i
     IN  clusters[last].required]

Capability(c) == [capability |-> c.id, writable |-> c.writable]

\* The DeviceProfile of a document that loads; order is that of its endpoints.
ProfileOf(doc) ==
  [profile_id |-> doc.profile_id, manufacturer |-> doc.manufacturer, models |-> doc.models,
   match |-> [doc.match EXCEPT !.clusters = ClustersOf(doc.match.clusters)],
   order |-> [i \in DOMAIN doc.endpoints |-> doc.endpoints[i].key.number],
   endpoints |-> [n \in Numbers(doc.endpoints) |->
      LET i == CHOOSE i \in DOMAIN doc.endpoints : doc.endpoints[i].key.number = n
      IN  {Capability(doc.endpoints[i].capabilities[j]) :
             j \in DOMAIN doc.endpoints[i].capabilities}]]

\* iter_builtin_profiles: every packaged document loads, or none can be used.
PackageLoads(package)  == \A i \in DOMAIN package : Loads(package[i])
ProfilesOf(package)    == [i \in DOMAIN package |-> ProfileOf(package[i])]
KnownProfiles(package) == {package[i].profile_id : i \in DOMAIN package}

-----------------------------------------------------------------------------
\* match_profile.  Rules with no manufacturers or no models do not restrict them;
\* a device without a Zigbee manufacturer has an identifier of its own for none.
MatchProfile(profile, evidence) ==
  LET rules == profile.match IN
  /\ evidence.manufacturer = profile.manufacturer
  /\ \E i \in DOMAIN profile.models : evidence.model = profile.models[i]
  /\ rules.model_ids # {} => evidence.model \in rules.model_ids
  /\ rules.manufacturer_ids # {} => evidence.manufacturer_id \in rules.manufacturer_ids
  /\ \A n \in DOMAIN rules.clusters :
       n \in DOMAIN evidence.clusters /\ rules.clusters[n] \subseteq evidence.clusters[n]
  /\ rules.processors \subseteq evidence.processors
  /\ rules.components \subseteq evidence.components

\* find_matching_profiles
MatchingProfiles(package, evidence) ==
  SelectSeq(ProfilesOf(package), LAMBDA p : MatchProfile(p, evidence))
=============================================================================
