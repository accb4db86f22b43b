# Formal models of Smartenit Rescue

TLA+ modules, TLC configurations and TLAPS proofs for the bridge in
`src/smartenit_rescue`. The bridge exposes locally owned Smartenit controllers to
Home Assistant over MQTT: a **runtime** turns MQTT events into calls of a **backend**
(a simulator, or a Harmony G2 gateway on the LAN) and publishes what the backend
reports as retained topics. The models are translated from the source; where a
document or a test says more than the code does, it says so under *Findings*.

Paths below are relative to `src/smartenit_rescue/` unless they start with `docs/`.

## Inventory

| Component | Source | State it keeps | Operations | Hard because |
|---|---|---|---|---|
| Bridge runtime | `runtime.py` | `_connected`, `_published_availability`, the stop flag it polls | `run`, `close`, `_subscribe`, `_publish_snapshot`, `_handle_message`, `_publish_changed_availability` | each handler is a series of transport calls, between any two of which the connection may go, come back, or the process die |
| MQTT transport | `mqtt/transport.py` | the event queue, `_loop_started`; in Paho: unacknowledged publications | `connect`, `next_event`, `subscribe`, `publish`, `publish_and_wait`, `disconnect`, three callbacks | callbacks on Paho's network thread; clean sessions; publications sent again after a reconnection; error codes while disconnected |
| MQTT broker (external) | - | sessions, subscriptions, retained values, last wills | - | notices a dead client late; publishes a will late or when a session is taken over |
| Process, service manager | `cli.py`, `deploy/` | the stop flag, the signal handlers, the pin file's descriptor; exit status | `_run`, `_build_runtime`, `_read_certificate_pin`, `_run_foreground`; `Restart=on-failure` | signals between any two steps, before and after the handlers are there; a pin file that changes while it is read; kills, restarts over what the last process left |
| Harmony G2 backend | `backends/harmony_g2/backend.py` | `_session`, `_force_renew`, `_availability`, `_bindings`, `_inventory_at`, `_next_refresh_at` | `open`, `refresh`, `set_desired`, `close`, `_maintain` | one maintenance serves three callers; each of its requests may fail, be refused, or have been carried out without an answer |
| G2 client | `backends/harmony_g2/client.py` | - | `renew`, `endpoints`, `set_on_off` | paging over an inventory that changes |
| Local session | `backends/harmony_g2/session.py` | the session file | `parse_refreshed_session`, `SessionStore.load`, `.save` | crash and power failure between its steps; rotating refresh tokens; expiry arithmetic |
| Pinned transport | `backends/harmony_g2/transport.py` | one connection per request | `request` | whether a request had started decides between *rejected* and *indeterminate* |
| Gateway (external) | - | its current session, inventory, what it executed | - | rotates the refresh token whether or not its answer arrives |
| Simulator | `backends/simulator.py` | `_devices`, `_capabilities`, `_observations`, `_sequences`, `_closed` | construction from settings and profiles, `set_desired`, `observation`, `close` | nothing concurrent; what it may be asked for is wider than what it announces |
| Backend contract, models | `backends/base.py`, `models/` | immutable values | - | - |
| Topics, discovery | `mqtt/topics.py`, `mqtt/discovery.py` | - | `TopicLayout`, `parse_command_topic`, codecs | identifiers and numbers have several spellings, topics only one |
| Configuration | `config.py` | - | `load_config`, `load_credentials` | checks of one table rely on those of another |
| Device profiles | `profiles/` | - | `load_profile_data`, `iter_builtin_profiles`, `match_profile` | what the schema lets through the code has to refuse or bear |
| Release tooling | `scripts/` | - | text scanners | not part of the bridge |

**How they interact.** `cli.py` opens the backend, builds the transport with a last
will, and calls `run()`, which polls a queue that Paho's network thread fills.
Everything the runtime does to the backend is an ordinary call on its own thread; a
slow gateway therefore delays the queue, and the connection may change several times
while one call runs. Publications go to Paho's memory and from there to the broker.
The session file is the only state that survives the process besides what the broker
retains.

**What makes it correct.** For the runtime: the broker's retained view is the
backend's, never an older process's; commands are executed at most once each and only
live ones; a stop ends, and leaves *offline*. For the G2 backend: the answer to a
command tells the truth about the gateway; the session on disk stays usable through
failures and restarts; no expired or refused token is used; the backend comes back on
its own. For the process: what was opened is closed whatever fails and whenever a signal
comes, and the exit status says whether to start again. For the configuration: what
loads can be run, on topics that cannot be confused. The full list of hazards, each at its line with the properties that watch it,
is in `PROJECT.json`.

## Modules

| Module | What it is |
|---|---|
| `Bridge` | runtime thread, Paho's network thread, broker, signals, kills and restarts. The backend is abstract |
| `CommandBackend` | abstract: what a command-only backend promises about each command and its availability |
| `ObservableBackend` | abstract: what a backend with observable switches promises |
| `G2Backend` | the Harmony G2 backend with its client, session and gateway; implements `CommandBackend` (`Promise == INSTANCE CommandBackend WITH online <- AllOnline`) |
| `AtomicStore` | abstract: a value replaced whole, and durable once acknowledged |
| `SessionFile` | `SessionStore.save` and `.load`, call by call, on a POSIX file system; implements `AtomicStore` (`value <- dir.name, durable <- dirStored.name`) |
| `PinnedRequest` | a command's way through `PinnedG2Transport.request`, `set_on_off` and `set_desired`; implements `CommandBackend` for one command |
| `Inventory` | `endpoints` and `_snapshot` against an inventory that changes between pages |
| `Foreground` | one process of `smartenit-rescue run`: `_build_runtime` with the certificate pin file, the signal handlers, the exit status |
| `Topics`, `Settings`, `Profiles` | operators: topics and their parser; the checks of `config.py`; the profile loader and `match_profile` |
| `Simulator` | from a configuration document and the packaged profiles to a simulator that is commanded; composes the three modules above and implements `ObservableBackend` |
| `MCBridge`, `MCG2Backend`, `MCSessionFile`, `MCPinnedRequest`, `MCInventory`, `MCForeground`, `MCSimulator` | the instances TLC checks |
| `Bridge_proofs`, `BridgeCurrent_proofs` | the theorems about `Bridge`; the second extends the first by `OnlineMeansCurrent` |
| `G2Backend_proofs`, `SessionFile_proofs`, `PinnedRequest_proofs`, `Inventory_proofs`, `Foreground_proofs` | the theorems about the module of that name |
| `Simulator_proofs` | the theorems about `Simulator`, with the lemmas about `Topics`, `Settings` and `Profiles` they rest on |

How they fit together: `Foreground` takes `run()` and `close()` by what they may raise,
`Bridge` opens them up; `Bridge` takes the backend by what `CommandBackend` and
`ObservableBackend` say, which `G2Backend` and `Simulator` implement; `SessionFile`,
`PinnedRequest` and `Inventory` each open one step of `G2Backend`. That the topics of
`Bridge` are distinct names is a property of `Simulator` (`TopicsAreDistinct`). What one
module takes for granted of another is proved of the other: `RunEndsInOrder` for
`Foreground`, `BridgeIsRight` for `Bridge` over a G2, `Refinement` of `Simulator_proofs`
for `Bridge` over a simulator.

Operators named `...` after a comment *Mutant of X* are broken variants of the
definition `X` that follows them. No specification uses them: each is a plausible bug
of the code, kept to show that the property it is listed with in `PROJECT.json`
would notice it.

### Bridge

A handler (*Connected*, a message, the end of the loop body) puts its transport calls
into `todo` as *slots*; `TransportCall` makes the next one in program order (`Order`),
so a snapshot of *n* devices is as many steps as the code has calls. `pc` is where the
runtime thread stands:

| `pc` | Code |
|---|---|
| `start` | `transport.connect()` |
| `head`, `get` | `while not stop_requested()`, `next_event(0.2)` |
| `handle` | the calls of the event's handler, `runtime.py:83-92` |
| `refresh`, `publish` | `backend.refresh()`, `_publish_changed_availability`, `:93-95` |
| `close`, `delivery`, `cleanup`, `disconnect` | `close()`, `publish_and_wait`, `backend.close()`, `transport.disconnect()` |
| `exited` | the process is gone |

`cause` is the exception on its way out. Paho keeps `outbox`, of which the broker has
received the first `sent` on the current connection; a new connection starts over
(at-least-once). The link is `up`, `half` (broken, unnoticed) or `down`; a call on a
link known to be `down` returns `MQTT_ERR_NO_CONN`, which the code raises. The broker
holds the session (`armed`) until a DISCONNECT, its own will, or a take-over.
Each retained value carries the process (`run`) that published it, a history the
properties need.

The backend is abstract. `Outcomes` gives what a command may answer and leave behind:
an observable backend confirms and records, or rejects; a command-only one accepts,
rejects or does not know, and is online or offline for all its devices at once, which
is what `CommandBackend` states and `G2Backend` is proved to do. `Refresh` may change
the availability of all devices. Observations may be missing at the start
(`InitialObs`), as the contract allows (`observation()` returns `None`).

`MaxTroubles` bounds connection faults and changes of availability together, so that a
run can have two of either without having four.

Abstractions: values are words, not payloads; a discovery document is one word; of
Paho's client only unacknowledged publications are kept, without its window of 20 in
flight. `NetworkConnects` is one step from the TCP connection to the CONNACK and the
resending that follows it. Paho takes publications in between, and sends them in front
of those it will resend; nothing here covers that order. (The *Connected* that follows
publishes the whole snapshot again, but a stop may come before it.) An exception of
`set_desired` that is not one of its answers (`Escapes` of `PinnedRequest`) is in `Bridge`
a crash of the process, though the code closes what it has opened on the way out. A
publication that its sender delivers twice counts as two live commands in `NoReplay`:
the code does not compare them. Messages other clients send come from a small set with one member for every
branch of `_handle_message`.

### CommandBackend and G2Backend

`CommandBackend` has a command's answer (`status`) and its fate (`gate`), and says
which pairs an answer may make: *accepted* with executed, *rejected* with unsent or
refused, *indeterminate* with pending or executed and everything offline. A command
without an answer belongs to a process that died.

`G2Backend` has one step per gateway request:

| Action | Code |
|---|---|
| `Open` | `HarmonyG2Backend.open`, up to its first request |
| `GatewayRenews`, `ReceiveSession`, `RenewFails` | `G2Client.renew`, split where the gateway has rotated the token and the bridge does not know |
| `Save`, `SaveFails` | `SessionStore.save`, failing before or after `os.replace` |
| `ReadInventory`, `InventoryFails` | `endpoints` and `_snapshot` |
| `Refresh`, `SetDesired` | the entry of `refresh()` and `set_desired()` into `_maintain` |
| `Submit` (five outcomes) | `set_on_off` and what `set_desired` makes of its errors |
| `Close`, `Crash` | `close()`, and a kill at any step |
| `Tick`, `Revoke`, `ChangeInventory`, `ExecuteLate` | time and the gateway |

Instants are kept as the ticks left until them, so that the state space is finite:
`session.left` is `expires_at - now`, `refreshIn` is `_next_refresh_at - now`, `age` is
`now - _inventory_at`, and `elapsed` the time since the maintenance read its clock,
which the code keeps using for the expiry and the age.

`G2Assumption` carries what the code relies on: at least one device (`config.py` refuses
an empty list), and a positive lifetime and freshness. It does not relate the lifetime,
the margin of five minutes (`_SESSION_REFRESH_MARGIN`) and the duration of a maintenance,
because the code does not: `parse_refreshed_session` takes any positive `expires_in`, and
`endpoints` reads up to 100 pages, each of which may take its five seconds and more. So a
maintenance may outlast its margin, its session, or the inventory's freshness, and send an
expired token, which is refused and renewed. Each tick beyond the margin costs one of the
`MaxFaults`, like any other failure: `Recovers` is about a gateway that is fast enough in
the end. `TokenIsLive` says that there is no other way to send an expired token. What is
left of a span that is over is nothing (`Until`).

### AtomicStore and SessionFile

`SessionFile` opens the step `Save` of `G2Backend`. A file is named by the number of
the save that created it; `data` and `dir` are what the kernel shows a process,
`dataStored` and `dirStored` what the medium holds. `WriteBackData` and
`WriteBackDirectory` let the kernel write back whenever it likes, a part of a file
included; `PowerFails` leaves only the medium.

| `pc`, action | Code |
|---|---|
| `down`, `Load` | `load()` of a process that is started: modes, then contents |
| `idle`, `Create` | `save()` up to `mkstemp` and `fchmod` |
| `write`, `Write` | `write`, `flush` |
| `sync`, `Sync` | `os.fsync` of the file |
| `replace`, `Replace` | the second look at the modes, `os.replace` |
| `syncdir`, `SyncDirectory` | `os.fsync` of the directory; the caller uses the session |
| `SaveFails` | an exception from any of them, and the unlink in `finally` |

The file system is assumed to do what POSIX and the code's authors count on: `rename`
is atomic on the medium too, and `fsync` returns only when the data is there. What the
save of `G2Backend` may do (succeed, fail before the file is replaced, fail after) is
what `Implements` and `NoRollback` leave to it. A kill after `os.replace` may leave a
process using a session that a loss of power takes back: it was never acknowledged, and
`AtomicStore` allows it (`PowerFails`).

### PinnedRequest

`PinnedRequest` opens the step `Submit` of `G2Backend`. `pc` is the socket operation
the request waits in (`connect`, `handshake`, `send`, `head`, `body`); a step is the end
of one with the code up to the next: `Secured`, for one, is the end of the TLS handshake,
the certificate, the look at the deadline and `request_started = True`. `timeout` is the
socket's, `waited` the time in this operation, `clock` the time since the deadline was
set. What was sent may arrive and be executed after the request has ended. An answer is
a success, one of the refusals 400 and 401/403, any other status, or a 2xx that is not
acceptable for whatever reason. It is assumed of the gateway that a refusal means it has
not executed the command, and will not.

The deadline is no upper bound of the duration: every piece of an answer may take the
time-out anew, and if the answer closes the connection, `connection.sock` is `None` and
the body is read with the time-out of the head. The code bounds the pieces only by the
size of the answer, and `http.client` skips any number of `100 Continue`, so the model has
any number of them (`pieces` counts up to `Pieces` and stays there, `clock` up to `Late`).
`Bounded` says what a request with fewer pieces takes; `Ends` that a request ends unless
its peer goes on sending for ever.

`Escapes` is the `RecursionError` that `json.loads` raises for a deeply nested answer and
`_parse_response` does not catch: the process ends, and the command, which the gateway
may have executed, has no answer.

### Inventory

`Inventory` opens the step `ReadInventory` of `G2Backend`, which takes the whole
inventory at once. Devices join and leave between the requests for two pages, which
shifts the others across the boundary. An entry is its local id, its hardware identity
and its components with `OnOff`; `Invalid` stands for an id or identity the client
rejects. A reading may bind two devices to entries that were never listed together, and
may miss a device that was there throughout and so fail; what it may never do is in
`BoundAsListed` and `OneDeviceEach`.

### Foreground

`Foreground` has a step for each call that may raise or be interrupted. `Signal` acts as
the handlers installed at that point decide: SIGTERM kills, SIGINT raises
`KeyboardInterrupt` wherever the process is, or both set the stop flag. `_run` turns what
is propagating (`raised`) into `status`. `_read_certificate_pin` is four steps (`lstat`,
`open`, `fstat`, `read`), and `ChangeFile` may put another file at the path, move one that
exists there, or write other contents into it, between any two. A file is known by the
change that made it (`born`), and shows an inode number, which can be given to a new file
once no descriptor and no name holds it: the code compares numbers, and sees no more.
`NoOtherFileRead` therefore says what that comparison is worth: of all files that existed
at the `lstat`, only the one it showed may supply the pin. A file made between `lstat` and
`open` that was given the number of the one inspected passes; TLC reaches that state, and
no property excludes it. Ownership and permissions are not looked at by this code; the
read is one step, since a pin is shorter than any buffer.

`Unprotected` names the points where a `KeyboardInterrupt` leaves an open backend behind:
after `backend_builder` has returned and before the `try`, between the runtime and the
installation of the first handler, and while the backend is being closed. `Released`
holds outside them.

### Topics, Settings, Profiles and Simulator

A text is what the code can tell about it: a device in one of seven spellings, five of
which `DeviceId.parse` accepts; a number in one of four, of which `int()` takes all; a
topic as its segments; a TOML value with its type. `ValidConfig` and `Loads` are the
checks of `config.py` and of the profile loader, in conjuncts instead of early returns,
since every failure has the same effect: the process ends before anything is opened.

Of the integers in a profile the model keeps which of them are written as floats (6.0):
the schema takes those for integers, and `_integer` refuses them (`OnlyIntegers`).

`Simulator` runs the construction in the order of `_build_runtime` (`LoadConfig`,
`LoadCredentials`, `OpenBackend`, `CreateRuntime`), and then takes messages on any topic
(`Receive`) and calls from any caller (`Call`). Of the document's `devices` it builds what
`SimulatorBackend.__init__` builds. `MCSimulator` has documents that load and at least one
that fails for every check, and `RulesRestrict`, an assumption TLC evaluates, compares
`MatchProfile` with a direct definition over every piece of evidence of a small universe.

## Runs

All bounds are in the `.cfg` files; deadlock is checked in every run but `simulator`,
where a refused configuration is the end (`Bridge` and `Foreground` have a `Terminated`
step for a process that exited for good).

| Run | Instance | Asks |
|---|---|---|
| `bridge_sessions` | 2 command-only devices, 2 troubles, a message | is an idle loop subscribed in the session it has, does the cache ever hide a value the broker lacks, and does the broker end up with what the backend reports? |
| `bridge_restart` | 1 command-only device, 2 processes, 1 fault, a message; fair | does a clean close leave *offline*, is a command replayed, is a crash reported, does a stop end, does the bridge settle? |
| `bridge_incomplete` | 2 devices, one with an observable switch whose observation may be missing, 2 processes, 1 fault, every kind of message | is *online* ever said over an earlier process's values, is a device online over a state that was never published, do the retained states follow the observations? |
| `foreground` | 2 inode numbers, 2 signals, 2 changes of the pin file; fair | is what was opened closed, is the exit status true, can any other file that was there at the `lstat` supply the pin, does a stop end? |
| `g2_safety` | 2 devices, 2 commands, 4 sessions, 3 faults, a maintenance of up to 3 ticks | the session, token and command invariants; is it a `CommandBackend`? |
| `g2_liveness` | 1 device, 1 command, 3 faults, a maintenance of up to 3 ticks; fair | do the devices come back? |
| `session_file` | 3 saves, 3 faults | is the session file always whole, cleaned up after, never rolled back; is it an `AtomicStore`? |
| `pinned_request` | a time-out of 3 ticks, answers in any number of pieces, of which 3 are counted; fair | does each result tell the truth, does a request end, and when? |
| `inventory` | 2 devices, 10 entries, lists of up to 4, 2 pages of 2, 2 changes | are the bindings right? |
| `simulator` | 36 documents, 15 packages, 8 pairs of credential files | does what loads open, with all that was listed, are the topics distinct, does any other topic reach the backend, is it an `ObservableBackend`? |
| `graceful_stop`, `lost_connection` | small | the two findings: TLC has to find the violation |

**Why the bounds are enough.** What the properties of `Bridge` tell apart is one
handler against the next, one session against the next, one process against the next:
two of each, with two devices where a property relates a device to another. One fault
already gives the four orders in which Disconnected, Connected, resent and new
publications may meet; two troubles of any kind (two faults, or a fault and an
availability that refresh finds changed) are checked where sessions and the cache are
compared. In `Foreground` a second signal can hit what the first one set going, and a
second change give the number of the inspected file to another; two numbers are enough
to tell "the same" from "another". In
`G2Backend` three faults suffice to lose an answer, fail again while recovering and take
longer than the margin meanwhile; four
session identities let a renewal always find one that neither the gateway, the disk
nor the memory holds; `Lifetime = 3`, `Margin = 1` and `Freshness` of 1 or 2 make a
session pass through fresh, due and expired, within one maintenance too (`MaxElapsed = 3`
is longer than margin and freshness, and as long as the lifetime).
Sessions are interchangeable, and TLC uses that symmetry in the safety run.
In `SessionFile` one fault fails or cuts off a save, a second hits the process that
starts again over what the first left, and a third changes the modes meanwhile.
In `PinnedRequest` three ticks let the deadline pass before, at and after each look at
it. In `Inventory` a list of four fills the last page allowed, and two changes move one
device across a boundary and bring it back, under its own id or another. In `Simulator`
two devices and two commands for each address tell spellings, addresses and sequence
numbers apart; what is checked one document at a time needs no more of them.

**Fairness.** `Bridge`: the runtime thread (its waits have time-outs of 0.2 s and 5 s),
Paho's reconnection and keepalive, delivery and acknowledgement on a live connection,
the broker's keepalive and so its last will, and the restart of a failed process
(`Restart=on-failure`). Signals, faults, messages and kills get none. `G2Backend`:
requests end, by an answer or by their time-out; the runtime's loop calls `refresh()` on
every turn; time passes; a process that exited is started again. `Recovers` excludes
what no retry can mend: a device the gateway does not list, and a session the gateway
has moved on from. `PinnedRequest`: time
passes and a time-out is raised; nothing is assumed of the peer, so `Ends` excepts one
that sends for ever. `Foreground`: the main
thread takes its next step, except that `run()` is not assumed to end unless the stop
flag is set; it then does, as `StopEnds` of `Bridge` shows. An `open()` of a FIFO, which
never returns, is only interrupted by a signal.

## What is proved

`G2Backend_proofs` proves for **every** set of devices, commands, sessions and local
ids and every lifetime, margin, freshness and bound that satisfies `G2Assumption`:

| Theorem | Property |
|---|---|
| `TypeCorrect` | `TypeOK` |
| `Durable` | `MemoryIsDurable` |
| `Lockout` | `LockoutHasCause` |
| `Expiry` | `ExpiryIsEarly` |
| `TokenLives` | `TokenIsLive` |
| `CommandsAreChecked` | `CommandIsChecked` |
| `RefusalsRenew` | `RefusedIsRenewed` |
| `Refinement` | `Implements`: `Spec => Promise!Spec` |
| `OutcomeIsTold` | `Outcome` |
| `AnswersStay` | `AnswersAreFinal`: an answer, and what it says of the gateway, stays |
| `BridgeIsRight` | `AvailabilityIsOne`, `SuitsBridge`: the outcomes and availabilities `Bridge` expects |

The invariants are not inductive by themselves; each proof states what holds while
something is under way:

- `LockoutInv` adds that what is about to be saved is the gateway's session;
- `ExpiryInv` adds that a grant is no older at the gateway than the maintenance
  (`Lifetime <= gw.left + elapsed`), and carries it through the save;
- `TokenInv` replaces "not expired" by "was not due when the clock was read, `elapsed`
  ago" (`session.left + elapsed > Margin`), or granted since; with nothing left of it,
  `elapsed` is then past the margin, or past the lifetime;
- `CheckedInv` says what being online means: the inventory was read whole and nothing
  has failed since, so `_maintain` may skip the inventory;
- `RefusedInv` ties a refusal to `_force_renew`, and `_force_renew` to the requests;
- `CommandInv` says that the command being executed is unanswered and unsent, which is
  what every abstract step of the refinement needs.

`Flags` and `Data` split `TypeOK` only because the provers treat Boolean variables
apart. The theorems on outcomes and answers follow from the refinement and an invariant of
the abstract specification. The last two state properties no run has, and were checked by
TLC on the instance of `g2_safety` before they were proved.

`SessionFile_proofs` proves, for any number of saves and faults, `TypeOK`
(`TypeCorrect`), `NeverTorn` (`Whole`), `NoLeftovers` (`Clean`), `NoRollback`
(`Durable`) and `Implements` (`Refinement`). Its inductive invariant says what each
step of `save()` has established (`Progress`): before the replacement the new file is
another than the one in use, and its data is stored. `Order` chains the last
acknowledged save, the directory on the medium, the directory and the newest file.

`PinnedRequest_proofs` proves, for any time-out and number of pieces, `TypeOK`
(`TypeCorrect`), `OnlyToThePinned` (`Pinned`), `Bounded` (`Duration`) and `Implements`
(`Refinement`). `StartInv` orders the certificate, `request_started` and the first byte;
`GatewayInv` ties an answer to what was executed; `ClockInv` bounds the clock at the
beginning of each operation, so that `Multiple` gives the bound at its end.

`Bridge_proofs` and `BridgeCurrent_proofs` prove, for any number of devices,
addresses, faults, messages and processes that satisfy `BridgeAssumption`:

| Theorem | Property | For |
|---|---|---|
| `TypeCorrect` | `TypeOK` | any backend |
| `CacheIsRight` | `CacheMatchesBroker` | any backend |
| `SessionIsSubscribed` | `SubscribedWhenIdle` | any backend |
| `GracefulClose` | `GracefulCloseIsOffline` | any backend |
| `NothingIsReplayed` | `NoReplay` | any backend |
| `BrokerMirrorsBackend` | `RetainedMirrorsBackend` | `CommandOnly` devices |
| `BrokerMirrorsObservations` | `ObservationsAreMirrored` | `Observing` devices |
| `OnlineMeansCurrent` | `OnlineIsCurrent` | `Uniform`: either of the two |
| `RunEndsInOrder` | `EndsInOrder`: what `Foreground` takes `run()` and `close()` for. No run checks it | any backend |

`CommandOnly` and `Observing` are no restriction of the shipped backends: every device of
a G2 is command-only, every one of the simulator observable. `BridgeAssumption` has one
premise about backends, that a refreshable one has command-only devices.

- `Final(box, kept, t, v)` says that the broker will hold `v` for `t` once it has what
  Paho is sending; resending after a reconnection does not change it (`Mirror`), which is
  the heart of every theorem about retained values. `Cached` is `CacheMatchesBroker` in
  these terms.
- `Session` is a connection the loop has heard of. `Subscribed` and the `Told...` parts
  say that while it lasts each topic is settled (`Final`), or a call that settles it is
  still in `todo`; with no calls left that is the property. `Quiet`, `Unconnected` and
  `Seen` keep `todo`, the link and the observations in step with `pc`; `Leaving` carries
  the last *offline* through `close()`.
- `Accounted` counts the live commands still queued: `executed` and these together are
  never more than `delivered`.
- `OnlineMeansCurrent` needs to know what a publication depends on (`Needs`): *online* of
  the bridge on every availability, *online* of a device on its states and confidences.
  `Ordered` says that what a publication in Paho's memory depends on is before it there
  or has reached the broker, `Queued` the same of the calls still to be made, and `Runs`
  that acknowledged publications have arrived. `Supported` and the property itself are
  then kept when the broker receives the next publication. `Untold` and `Announcing` deal
  with the *online* of an earlier process: as long as it is there, this process has
  told the broker nothing, and what it says first is *offline*.

`Inventory_proofs` proves, for any entries, settings, page size and number of pages,
`TypeOK` (`TypeCorrect`), `BoundAsListed` (`BindingsWereListed`), `OneDeviceEach`
(`BindingsAreDistinct`) and `SteadyIsExact` (`SteadyReadingIsExact`). For the first three
the invariant says that what has been collected was listed during this reading under ids
it has noted (`Collected`, `Known`), one endpoint's id never being that of another device
(`OneIdentity`). For the last it says how far a list that stays as it is has been read:
before page *p* is asked for, the first *(p - 1) × size* entries have been read and found
clean, and what was noted of them is exactly what they hold (`ReadUpTo(Position)`).
`PageExtends` carries this over a page: a page that is acceptable by itself *and* against
what was noted before is one that leaves the longer beginning clean, which is what the
sets of ids seen so far are in the code for. The last page, short or the last allowed,
then makes the beginning the whole list, and a page that is refused shows the entry the
list is refused for (`FailureIsExact`).

`Foreground_proofs` proves, for any numbers of files, signals and changes, `TypeOK`,
`Released` (`ReleasedAtTheEnd`), `StatusTellsTruth` (`StatusIsTrue`) and `NoOtherFileRead`
(`PinRead`), from what each `pc` knows of what has been opened, closed and installed, and
of the descriptor. `Inspected` is the part about the number that `lstat` showed: what has
it now is the file it showed, or one made later.

`Simulator_proofs` proves, for any documents, packaged profiles, layouts, messages and
commands, `TypeOK`, and

| Theorem | Property |
|---|---|
| `LoadedMakesBackend` | `LoadedOpens` |
| `NothingIsDropped` | `BuiltAsDocumented` |
| `DistinctTopics` | `TopicsAreDistinct` |
| `CommandsComeExactly` | `ExactTopics` |
| `EveryAddressIsReachable` | `Reachable`, the converse: the topic of every announced address is read as that address. No run checks it |
| `Refinement` | `Implements`: `Spec => Observable!Spec` |

The assumptions say what TOML and JSON are, not what a configuration holds
(`DocumentsAssumption`, `PackagesAssumption`): an array is a sequence, what is called a
Boolean is one, the text of a topic is a sequence of segments. `SettingsAssumption` is
that the reserved identities of the simulator are identities. TLC evaluates all of them
on the instances.

- `Progress` says what each `pc` has established: from `credentials` on the files were
  accepted, from `running` on the status topic is none of the bridge's. `Contents` says
  that a backend once opened is the one the configuration describes (`Built`), so that
  its devices, addresses and observations need not be followed through the steps.
- `ShapeOfTopic` puts a topic into one of four shapes by its length and its last segments,
  whatever the prefix; `DistinctShapes` compares two. A prefix of one topic may therefore
  look like a device, or be as long as another prefix and a device together, and no two
  names collide. `ParsedTopic` and `TopicIsParsed` are the two directions of
  `parse_command_topic`: each address has exactly one topic that is read as it.
- `EndpointsAreKept` is what the loader's refusal of repeated keys is for: each endpoint of
  a document is found again in its profile, with its own capabilities; `ListedIsAddress`
  and `AddressIsListed` carry it to the backend's addresses.
- That a profile is found for each device `config.py` accepts needs the *first* profile
  with an identifier, and so the least of a set of numbers (`LeastNumber`).

Two forms of induction are used. An invariant that speaks of a beginning of the data is
an induction over the steps that read it (`ReadUpTo`). And `LeastNumber` takes the least
element from the library's theorem that strict inclusion of finite sets is well-founded,
numbers being the intervals up to them; that theorem has sets as parameters, where the
induction schemes have operators, which the provers cannot instantiate.

Model-checked only:

- liveness (`Ends`, `Recovers`, `WillReportsCrash`, `StopEnds`, `Settles`,
  `StopIsHonoured`), which the proof system does not reach;
- `RulesRestrict`, the comparison of `match_profile` with a direct definition, for a
  profile of the instance that has every kind of rule;
- the mixed backend, with command-only and observable switches on one device, which no
  shipped backend has: there `changed` may announce a device online whose observation is
  missing.

## Findings

1. `graceful_stop`: `docs/home-assistant.md` says a graceful stop publishes retained
   *offline*. `close()` does so only if `_connected`, which follows the event queue. If
   the connection was lost and renewed while a handler ran, that handler's last
   publications go out on the new connection, *Disconnected* and *Connected* wait in the
   queue, and a stop lets `run()` take only the first: `close()` skips *offline*, and
   the DISCONNECT packet discards the will. The broker keeps *online*.
2. `lost_connection`: the same document says the bridge reconnects when the broker
   restarts. A publish or subscribe while Paho has no connection raises
   `TransportError`, which ends the process (the service manager, if there is one,
   starts another). So it does whenever the connection breaks within a handler.

Met while modelling, and not findings, since no document says otherwise:

- With a backend whose observation is missing, a command that is confirmed leaves the
  device *offline* at the broker until the next snapshot. No shipped backend does that.
- Three windows in which `KeyboardInterrupt` leaves the backend open (`Unprotected` in
  `Foreground`); the process ends right after.
- Two endpoint keys of one profile that differ in a line feed only (`"1"`, `"1\n"`)
  pass the schema's pattern. `load_profile_data` refuses them (`BuiltAsDocumented`); `_match_rules` keeps the last.
- A profile whose endpoints are not in order loads, is accepted by `config.py`, and is
  refused by `Device` when the simulator is built (`LoadedOpens`).
- The test of `seen_bindings` in `config.py` cannot fail: two equal bindings have equal
  devices, which `seen_ids` has refused.
- After a restart with a revoked but unexpired token `open()` fails until the token is
  nearly due; `_force_renew` does not outlive the process.

## Not modelled

- Payloads: discovery documents, the encoding of last-command, the JSON of the gateway,
  the format of the session file. They are formatting and parsing; the models have what
  they say, not how.
- The JSON schema library: of the profile schema only what the rest of the program
  relies on; TOML and JSON parsing.
- The status topic check of a bridge over a G2, whose construction `Simulator` leaves at
  `OpenBackend`: that topics of last commands are distinct from all others is checked and
  proved (`TopicsAreDistinct`), that none is the status topic only for the simulator's.
- TLS, credentials on the wire, and Paho's window of 20 publications in flight.
- The commands `profiles list` and `profiles validate`, the argument parser and wording.
- `scripts/` (release tooling) and packaging: text and archive scanners, one pass, no
  state and no concurrency, not part of the bridge.
- A wall clock that jumps back: time in `G2Backend` only moves forward.

## Plan

In order of what matters to the running bridge:

1. done: `Bridge`, `CommandBackend`, `G2Backend` and their theorems.
2. done: `SessionFile`, `PinnedRequest`, `Inventory`, each opening a step of `G2Backend`.
3. done: `Foreground`; `Topics`, `Settings`, `Profiles`, composed by `Simulator`, which
   implements `ObservableBackend`.
4. open: a second clock in `G2Backend`, for a wall clock that is set.
5. open: `OnlineIsCurrent` and `RetainedMirrorsBackend` for devices of both kinds, which
   need `_publish_changed_availability` to look at observations first.
