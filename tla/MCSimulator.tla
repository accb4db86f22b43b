---------------------------- MODULE MCSimulator -----------------------------
(***************************************************************************)
(* Instances of Simulator for TLC: configurations that load, and one that  *)
(* does not for every check of config.py and of the profile loader.        *)
(***************************************************************************)
EXTENDS Simulator, TLC

CONSTANTS d1, d2, g1   \* two synthetic devices and another one

MCDeviceIds == {d1, d2, g1}
MCSynthetic == {d1, d2}
MCWords == CapabilityIds \cup
  {"availability", "bridge", "command", "state", "confidence", "last-command", "device",
   "config", "", "+", "#", "nul", "home", "rescue", "status"}

Home   == <<Word("home"), Word("rescue")>>
Status == <<Word("home"), Word("status")>>

MCRuntime == [client_id |-> String("bridge"), topic_prefix |-> String(Home),
              discovery_prefix |-> String(<<Word("home")>>),
              home_assistant_status_topic |-> String(Status)]
Mqtt == [host |-> String("broker"), port |-> Integer(8883),
         keepalive_seconds |-> Integer(60), tls |-> Boolean(TRUE)]
Secured == Mqtt @@ [username_file |-> String("user"), password_file |-> String("pass")]

Device(d, form, profile) ==
  [device_id |-> String(DeviceText(d, form)), name |-> String("switch"),
   profile_id |-> String(profile), initial_on |-> Boolean(FALSE)]
Bound(d, component) ==
  [device_id |-> String(DeviceText(d, "canonical")), name |-> String("switch"),
   profile_id |-> String("plug"), component_id |-> String(component)]

Tables(s) == Array([i \in DOMAIN s |-> Table(s[i])])
Simulated(s) == [type |-> String("simulator"), devices |-> Tables(s)]
Gateway(s) == [type |-> String("harmony_g2"), devices |-> Tables(s),
               host |-> String(<<192, 168, 1, 2>>), session_file |-> String("session"),
               certificate_sha256_file |-> String("pin")]

Doc(r, m, b) == Table([runtime |-> Table(r), mqtt |-> Table(m), backend |-> Table(b)])

Plug == Device(d1, "canonical", "plug")
One  == Simulated(<<Plug>>)
Two  == Simulated(<<Plug, Device(d2, "colons", "pair")>>)

WithoutKey(f, k) == [x \in DOMAIN f \ {k} |-> f[x]]
Prefix(t) == [MCRuntime EXCEPT !.topic_prefix = String(t)]
StatusAt(t) == [MCRuntime EXCEPT !.home_assistant_status_topic = String(t)]

Loading ==
  {Doc(MCRuntime, Mqtt, One), Doc(MCRuntime, Secured, Two),
   Doc(MCRuntime, Mqtt, Simulated(<<Device(d1, "prefixed", "pair")>>)),
   Doc(Prefix(<<Word("home"), Word("device")>>), Mqtt, One),
   Doc(MCRuntime, Mqtt, Gateway(<<Bound(g1, "c1")>>)),
   Doc(MCRuntime, Mqtt, Gateway(<<Bound(g1, "c1"), Bound(d1, "c1")>>))}
     \cup {Doc(StatusAt(Home \o t), Mqtt, One) :
             t \in {<<Word("bridge"), Word("availability")>>, <<Text(d1), Word("availability")>>,
                    <<Text(d1), Number(1), Word("on_off"), Word("command")>>,
                    <<Text(d1), Number(1), Word("on_off"), Word("state")>>}}

RuntimeErrors ==
  {Prefix(<<Word(""), Word("home")>>), Prefix(<<Word("home"), Word("+")>>),
   WithoutKey(MCRuntime, "client_id"), [MCRuntime EXCEPT !.discovery_prefix = BlankText],
   [MCRuntime EXCEPT !.client_id = Boolean(TRUE)], MCRuntime @@ [extra |-> Boolean(TRUE)]}
MqttErrors ==
  {[Mqtt EXCEPT !.port = Integer(0)], [Mqtt EXCEPT !.port = Integer(65536)],
   [Mqtt EXCEPT !.keepalive_seconds = Boolean(TRUE)], [Mqtt EXCEPT !.tls = Integer(1)],
   Mqtt @@ [username_file |-> String("user")]}
BackendErrors ==
  {Simulated(<<>>), Simulated(<<Plug, Device(d1, "upper", "plug")>>),
   Simulated(<<Device(g1, "canonical", "plug")>>), Simulated(<<Device(d1, "short", "plug")>>),
   Simulated(<<Device(d1, "dashes", "unknown")>>), Simulated(<<WithoutKey(Plug, "initial_on")>>),
   Simulated(<<[Plug EXCEPT !.name = BlankText]>>),
   Simulated(<<[Plug EXCEPT !.initial_on = Integer(1)]>>),
   [One EXCEPT !.type = String("other")], [One EXCEPT !.devices = Table(Plug)],
   Gateway(<<Bound(g1, "unsafe")>>), Gateway(<<Bound(g1, "c1"), Bound(g1, "c2")>>),
   [Gateway(<<Bound(g1, "c1")>>) EXCEPT !.host = String(<<172, 32, 0, 1>>)],
   [Gateway(<<Bound(g1, "c1")>>) EXCEPT !.host = String(<<"name">>)],
   WithoutKey(Gateway(<<Bound(g1, "c1")>>), "session_file")}

MCDocuments ==
  Loading \cup {Doc(r, Mqtt, One) : r \in RuntimeErrors}
          \cup {Doc(MCRuntime, m, One) : m \in MqttErrors}
          \cup {Doc(MCRuntime, Mqtt, b) : b \in BackendErrors}

-----------------------------------------------------------------------------
Cap(id, w) == [id |-> id, writable |-> w, scale |-> "none"]
Endpoint(n, form, caps) == [key |-> [number |-> n, form |-> form], capabilities |-> caps]
Clusters(n, form, required) == [key |-> [number |-> n, form |-> form], required |-> required]

NoRules == [manufacturer_ids |-> {}, model_ids |-> {}, clusters |-> <<>>,
            processors |-> {}, components |-> {}]

PlugDoc == [rest |-> TRUE, floats |-> {}, profile_id |-> "plug", manufacturer |-> "m", models |-> <<"x", "y">>,
            match |-> NoRules,
            endpoints |-> <<Endpoint(1, "decimal", <<Cap("on_off", TRUE), Cap("voltage", FALSE)>>)>>,
            limitations |-> {"voltage"}]
PairDoc == [PlugDoc EXCEPT !.profile_id = "pair",
              !.endpoints = <<Endpoint(1, "decimal", <<Cap("on_off", FALSE)>>),
                              Endpoint(2, "decimal", <<Cap("on_off", TRUE), Cap("level", TRUE)>>)>>,
              !.limitations = {}]

\* Documents the loader accepts, among them one whose endpoints are not in order.
Disordered == [PairDoc EXCEPT !.endpoints = <<PairDoc.endpoints[2], PairDoc.endpoints[1]>>]
LineFeed   == [PairDoc EXCEPT !.endpoints[1].key.form = "line_feed"]

ProfileErrors ==
  {[PairDoc EXCEPT !.endpoints = <<PairDoc.endpoints[1], Endpoint(1, "line_feed", <<Cap("level", TRUE)>>)>>],
   [PairDoc EXCEPT !.endpoints = <<>>], [PairDoc EXCEPT !.models = <<>>],
   [PairDoc EXCEPT !.rest = FALSE], [PairDoc EXCEPT !.floats = {"cluster_id"}],
   [PairDoc EXCEPT !.limitations = {"voltage"}],
   [PairDoc EXCEPT !.endpoints[1].capabilities = <<Cap("on_off", TRUE), Cap("on_off", FALSE)>>],
   [PairDoc EXCEPT !.endpoints[1].capabilities[1].scale = "zero"],
   [PairDoc EXCEPT !.endpoints[1].capabilities[1].scale = "huge"],
   [PairDoc EXCEPT !.endpoints[1].key.form = "padded"],
   [PairDoc EXCEPT !.endpoints[1].key.number = 241],
   [PairDoc EXCEPT !.match.clusters = <<Clusters(0, "decimal", {6})>>]}

MCPackages == {<<PlugDoc, p>> : p \in {PairDoc, Disordered, LineFeed} \cup ProfileErrors}

-----------------------------------------------------------------------------
Character == {"x", "blank", "cr", "lf"}
Contents == {<<"x">>, <<"x", "lf">>, <<"x", "cr", "lf">>, <<"lf", "lf">>, <<"blank", "cr">>, <<>>,
             <<"unreadable">>}
MCCredentials == {[k \in CredentialKeys |-> <<"x", "lf">>]}
                   \cup {[k \in CredentialKeys |-> IF k = "username_file" THEN <<"x">> ELSE c] :
                           c \in Contents}

Commands(d) == {DeviceText(d, f) : f \in DeviceForms} \X
                 ({EndpointText(n, f) : n \in {0, 1, 2}, f \in EndpointForms} \cup {Word("rescue")})

MCReceived ==
  {Home \o p \o <<Word("on_off"), Word("command")>> : p \in Commands(d1)}
    \cup {Home \o <<Text(d), Number(n), Word(c), Word(k)>> :
            d \in {d1, d2}, n \in 1 .. 2, c \in {"on_off", "level"}, k \in {"command", "state"}}
    \cup {<<Word("home")>> \o <<Text(d1), Number(1), Word("on_off"), Word("command")>>,
          Home \o <<Text(d1), Number(1), Word("on_off"), Word("command"), Word("")>>, Home}

MCCommanded == [device : {d1, d2}, endpoint : {1, 2, 3}, capability : {"on_off", "voltage", "level"}]

-----------------------------------------------------------------------------
(***************************************************************************)
(* The matching rules against their documentation, over small evidence.    *)
(***************************************************************************)
Ruled == [PlugDoc EXCEPT !.match =
            [manufacturer_ids |-> {7}, model_ids |-> {"y"}, processors |-> {"p"}, components |-> {},
             clusters |-> <<Clusters(1, "decimal", {6}), Clusters(1, "line_feed", {8})>>]]

Evidence == [manufacturer : {"m", "other"}, model : {"x", "y"}, manufacturer_id : {0, 7},
             clusters : {[n \in {} |-> {}], [n \in {1} |-> {6}], [n \in {1} |-> {6, 8}],
                         [n \in {2} |-> {8}]},
             processors : {{}, {"p"}}, components : {{}, {"c"}}]

ASSUME RulesRestrict ==
  /\ Loads(Ruled)
  /\ {e \in Evidence : MatchProfile(ProfileOf(Ruled), e)} =
       {e \in Evidence : /\ e.manufacturer = "m" /\ e.model = "y" /\ e.manufacturer_id = 7
                         /\ "p" \in e.processors /\ e.clusters = [n \in {1} |-> {6, 8}]}
  /\ \A e \in Evidence : MatchProfile(ProfileOf(PlugDoc), e) <=> e.manufacturer = "m"
=============================================================================
