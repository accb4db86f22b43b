----------------------------- MODULE G2Backend ------------------------------
(***************************************************************************)
(* HarmonyG2Backend, G2Client, the rotating local session and the gateway. *)
(*                                                                         *)
(* The backend runs in the runtime's thread.  Its maintenance (renew the   *)
(* session, save it, read the inventory) is shared by open(), refresh()    *)
(* and set_desired(); each of its gateway requests is a step, between      *)
(* which time passes and the process may be killed.  The gateway rotates   *)
(* the refresh token: a renewal is granted to the current session only,    *)
(* and what it grants is current from then on, received or not.            *)
(*                                                                         *)
(* Instants are kept as the time left until them (expires_at, the next     *)
(* refresh) or since them (the inventory), in ticks that saturate.         *)
(***************************************************************************)
EXTENDS Integers

CONSTANTS
  Devices,     \* the configured devices
  Commands,    \* the commands the runtime submits
  Sessions,    \* identities of sessions: an access and a refresh token
  LocalIds,    \* identities the gateway gives its devices
  Lifetime,    \* expires_in of a renewed session, in ticks: any that is positive
  Margin,      \* _SESSION_REFRESH_MARGIN
  Freshness,   \* _INVENTORY_FRESHNESS
  MaxElapsed,  \* bound on the ticks that pass while one maintenance runs
  MaxFaults,   \* bound on failures, delays and changes at the gateway
  None         \* no command, no session, no local id

ASSUME G2Assumption ==
  /\ {Lifetime, Margin, Freshness, MaxElapsed, MaxFaults} \subseteq Nat
  /\ Lifetime > 0 /\ Freshness > 0 /\ Devices # {}
  /\ None \notin Commands \cup Sessions \cup LocalIds \cup Devices

VARIABLES
  \* external: the disk and the gateway
  disk,      \* the session in the session file
  gw,        \* the gateway's current session
  revoked,   \* its access token is no longer accepted
  inventory, \* the local id under which the gateway lists a device, or None
  gate,      \* what became of each command at the gateway
  \* HarmonyG2Backend
  pc,        \* "down": no process; "idle"; else the request it waits for
  caller,    \* what the maintenance is for: "open", "refresh" or "command"
  elapsed,   \* ticks since the maintenance read the clock
  session,   \* _session
  renewed,   \* the session renew() has returned, not saved yet
  force,     \* _force_renew
  avail,     \* _availability
  bindings,  \* _bindings: the local id of each device
  age,       \* now - _inventory_at
  refreshIn, \* _next_refresh_at - now
  command,   \* the command set_desired is executing, and its device
  status,    \* the results it has returned
  \* history
  lost,      \* a granted session failed to reach the disk
  diverged,  \* save() failed after it had replaced the file
  failed,    \* a request failed since the inventory was last read
  refused,   \* the session the gateway last refused to this process
  faults

external == <<disk, gw, revoked, inventory, gate>>
clocks   == <<elapsed, age, refreshIn>>
backend  == <<pc, caller, session, renewed, force, avail, bindings, command, status>>
history  == <<lost, diverged, failed, refused, faults>>
vars == <<external, clocks, backend, history>>

Session == [id : Sessions, left : 0 .. Lifetime]
NoCommand == [id |-> None, device |-> None]

All(state) == [d \in Devices |-> state]
AllOnline  == \A d \in Devices : avail[d] = "online"

Fault == faults < MaxFaults /\ faults' = faults + 1

\* Mutant of Due: renew only what has expired.
DueWhenExpired(s) == s.left = 0

Due(s)    == s.left <= Margin
\* inventory_stale, by the clock as the maintenance read it.
Stale     == age - elapsed >= Freshness
\* The gateway surely accepts the access token of its current session; that of
\* an earlier one it may still accept, until it expires.
Authorized    == session.id = gw.id /\ gw.left > 0 /\ ~revoked
MayAuthorize  == Authorized \/ (session.id # gw.id /\ session.left > 0)

-----------------------------------------------------------------------------
Init ==
  /\ \E s \in Session : disk = s /\ gw = s
  /\ session = disk /\ renewed = disk
  /\ revoked = FALSE
  /\ inventory \in [Devices -> LocalIds]
  /\ gate = [c \in Commands |-> "unsent"]
  /\ status = [c \in Commands |-> "none"]
  /\ pc = "down" /\ caller = "open" /\ command = NoCommand
  /\ force = FALSE /\ avail = All("offline") /\ bindings = [d \in Devices |-> None]
  /\ elapsed = 0 /\ age = 0 /\ refreshIn = 0
  /\ lost = FALSE /\ diverged = FALSE /\ failed = FALSE /\ refused = None
  /\ faults = 0

-----------------------------------------------------------------------------
(***************************************************************************)
(* Time, and the gateway on its own (external).                            *)
(***************************************************************************)
Less(n) == IF n > 0 THEN n - 1 ELSE 0
Older(s) == [s EXCEPT !.left = Less(@)]

Busy == pc \notin {"down", "idle"}

\* Nothing keeps a maintenance, of up to 100 pages each with a time-out of its own,
\* shorter than the margin; one that outlasts it is a fault.
Tick ==
  /\ Busy => elapsed < MaxElapsed
  /\ IF Busy /\ elapsed >= Margin THEN Fault ELSE UNCHANGED faults
  /\ elapsed' = IF Busy THEN elapsed + 1 ELSE elapsed
  /\ disk' = Older(disk) /\ gw' = Older(gw)
  /\ session' = Older(session) /\ renewed' = Older(renewed)
  /\ age' = IF age < Freshness + MaxElapsed THEN age + 1 ELSE age
  /\ refreshIn' = Less(refreshIn)
  /\ UNCHANGED <<revoked, inventory, gate, pc, caller, force, avail, bindings,
                 command, status, lost, diverged, failed, refused>>

Revoke ==
  /\ Fault /\ ~revoked /\ revoked' = TRUE
  /\ UNCHANGED <<disk, gw, inventory, gate, clocks, backend, lost, diverged,
                 failed, refused>>

ChangeInventory ==
  /\ Fault
  /\ \E d \in Devices, l \in LocalIds \cup {None} : inventory' = [inventory EXCEPT ![d] = l]
  /\ UNCHANGED <<disk, gw, revoked, gate, clocks, backend, lost, diverged, failed,
                 refused>>

\* A command whose answer was lost takes effect after all.
ExecuteLate ==
  /\ \E c \in Commands : gate[c] = "pending" /\ gate' = [gate EXCEPT ![c] = "executed"]
  /\ UNCHANGED <<disk, gw, revoked, inventory, clocks, backend, history>>

-----------------------------------------------------------------------------
(***************************************************************************)
(* _maintain, for each of its callers.                                     *)
(***************************************************************************)
\* Where the caller goes on when the maintenance is complete.
Resume(who) == IF who = "command" THEN "submit" ELSE "idle"

\* Mutant of AfterSession: an offline device does not call for the inventory.
AfterSessionOffline(who, stale) ==
  IF who = "open" \/ stale THEN "inventory" ELSE Resume(who)

\* open() always reads the inventory; _maintain only when it is stale or some
\* device is not online.
AfterSession(who, stale) ==
  IF who = "open" \/ stale \/ ~AllOnline THEN "inventory" ELSE Resume(who)

\* refresh() and set_desired() read the clock and enter _maintain.
Begin(who) ==
  /\ caller' = who /\ elapsed' = 0
  /\ pc' = IF force \/ Due(session) THEN "renew" ELSE AfterSession(who, age >= Freshness)

\* Mutant of Fail: a refused token is not remembered.
FailForgets(unauthorized) ==
  /\ pc' = IF caller = "open" THEN "down" ELSE "idle"
  /\ avail' = All("offline")
  /\ failed' = TRUE
  /\ refused' = IF unauthorized THEN session.id ELSE refused
  /\ command' = NoCommand
  /\ status' = IF caller = "command"
               THEN [status EXCEPT ![command.id] = "rejected"] ELSE status
  /\ UNCHANGED <<force, caller, elapsed>>

\* A request or the save raised: refresh() marks every device offline, as does
\* set_desired(), which rejects the command; open() fails and the process with
\* it.  A 401 or 403 makes a running backend renew next.
Fail(unauthorized) ==
  /\ pc' = IF caller = "open" THEN "down" ELSE "idle"
  /\ force' = (force \/ (unauthorized /\ caller # "open"))
  /\ avail' = All("offline")
  /\ failed' = TRUE
  /\ refused' = IF unauthorized THEN session.id ELSE refused
  /\ command' = NoCommand
  /\ status' = IF caller = "command"
               THEN [status EXCEPT ![command.id] = "rejected"] ELSE status
  /\ UNCHANGED <<caller, elapsed>>

\* HarmonyG2Backend.open: load the session.
Open ==
  /\ pc = "down"
  /\ session' = disk /\ force' = FALSE
  /\ caller' = "open" /\ elapsed' = 0
  /\ pc' = IF Due(disk) THEN "renew" ELSE "inventory"
  /\ diverged' = FALSE /\ refused' = None
  /\ UNCHANGED <<external, age, refreshIn, renewed, avail, bindings, command, status,
                 lost, failed, faults>>

\* The gateway grants a renewal to its current session, and rotates it.
GatewayRenews ==
  /\ pc = "renew" /\ session.id = gw.id
  /\ \E new \in Sessions \ {gw.id, disk.id, session.id} :
       gw' = [id |-> new, left |-> Lifetime]
  /\ revoked' = FALSE
  /\ pc' = "renewing"
  /\ UNCHANGED <<disk, inventory, gate, clocks, caller, session, renewed, force, avail,
                 bindings, command, status, history>>

\* What is left of a span that began when the maintenance read the clock.
Until(span) == IF elapsed < span THEN span - elapsed ELSE 0

\* Mutant of ReceiveSession: the expiry counts from the answer.
ReceiveSessionLate ==
  /\ pc = "renewing"
  /\ renewed' = [id |-> gw.id, left |-> Lifetime]
  /\ pc' = "save"
  /\ UNCHANGED <<external, clocks, caller, session, force, avail, bindings, command,
                 status, history>>

\* renew() returns: the expiry counts from the clock read before the request.
ReceiveSession ==
  /\ pc = "renewing"
  /\ renewed' = [id |-> gw.id, left |-> Until(Lifetime)]
  /\ pc' = "save"
  /\ UNCHANGED <<external, clocks, caller, session, force, avail, bindings, command,
                 status, history>>

\* The renewal is refused, does not get through, or its answer is lost.
RenewFails ==
  /\ \/ /\ pc = "renew" /\ session.id # gw.id
        /\ \E unauthorized \in BOOLEAN : Fail(unauthorized)
        /\ UNCHANGED <<lost, faults>>
     \/ pc = "renew" /\ Fault /\ Fail(FALSE) /\ UNCHANGED lost
     \/ pc = "renewing" /\ Fault /\ Fail(FALSE) /\ lost' = TRUE
  /\ UNCHANGED <<external, age, refreshIn, session, renewed, bindings, diverged>>

\* Mutant of Save: the file is written but not replaced.
SaveTemporary ==
  /\ pc = "save"
  /\ session' = renewed /\ force' = FALSE
  /\ pc' = AfterSession(caller, Stale)
  /\ diverged' = FALSE /\ refused' = None
  /\ UNCHANGED <<external, clocks, caller, renewed, avail, bindings,
                 command, status, lost, failed, faults>>

Save ==
  /\ pc = "save"
  /\ disk' = renewed /\ session' = renewed
  /\ force' = FALSE
  /\ pc' = AfterSession(caller, Stale)
  /\ diverged' = FALSE /\ refused' = None
  /\ UNCHANGED <<gw, revoked, inventory, gate, clocks, caller, renewed, avail, bindings,
                 command, status, lost, failed, faults>>

\* Mutant of SaveFails: the session in memory is replaced before it is saved.
SaveFailsInUse ==
  /\ pc = "save" /\ Fault /\ Fail(FALSE)
  /\ session' = renewed
  /\ \/ lost' = TRUE /\ UNCHANGED <<disk, diverged>>
     \/ disk' = renewed /\ diverged' = TRUE /\ UNCHANGED lost
  /\ UNCHANGED <<gw, revoked, inventory, gate, age, refreshIn, renewed, bindings>>

\* save() raises before os.replace, or after it.
SaveFails ==
  /\ pc = "save" /\ Fault /\ Fail(FALSE)
  /\ \/ lost' = TRUE /\ UNCHANGED <<disk, diverged>>
     \/ disk' = renewed /\ diverged' = TRUE /\ UNCHANGED lost
  /\ UNCHANGED <<gw, revoked, inventory, gate, age, refreshIn, session, renewed, bindings>>

\* endpoints() and _snapshot: every configured device is listed once.
ReadInventory ==
  /\ pc = "inventory" /\ MayAuthorize
  /\ \A d \in Devices : inventory[d] # None
  /\ bindings' = inventory /\ age' = elapsed
  /\ avail' = All("online")
  /\ failed' = FALSE
  /\ refreshIn' = IF caller = "open" THEN Until(Freshness) ELSE refreshIn
  /\ pc' = Resume(caller)
  /\ UNCHANGED <<external, elapsed, caller, session, renewed, force, command, status,
                 lost, diverged, refused, faults>>

InventoryFails ==
  /\ pc = "inventory"
  /\ \/ ~Authorized /\ Fail(TRUE) /\ UNCHANGED faults
     \/ MayAuthorize /\ (\E d \in Devices : inventory[d] = None) /\ Fail(FALSE)
        /\ UNCHANGED faults
     \/ Fault /\ Fail(FALSE)
  /\ UNCHANGED <<external, age, refreshIn, session, renewed, bindings, lost, diverged>>

-----------------------------------------------------------------------------
(***************************************************************************)
(* The calls of the runtime.                                               *)
(***************************************************************************)
\* Mutant of Refresh: an offline backend waits for a command.
RefreshOnline ==
  /\ pc = "idle" /\ refreshIn = 0 /\ AllOnline
  /\ refreshIn' = Freshness
  /\ Begin("refresh")
  /\ UNCHANGED <<external, age, session, renewed, force, avail, bindings, command,
                 status, history>>

Refresh ==
  /\ pc = "idle" /\ refreshIn = 0
  /\ refreshIn' = Freshness
  /\ Begin("refresh")
  /\ UNCHANGED <<external, age, session, renewed, force, avail, bindings, command,
                 status, history>>

SetDesired ==
  /\ pc = "idle"
  /\ \E c \in Commands, d \in Devices :
       /\ status[c] = "none" /\ gate[c] = "unsent"
       /\ command' = [id |-> c, device |-> d]
  /\ Begin("command")
  /\ UNCHANGED <<external, age, refreshIn, session, renewed, force, avail, bindings,
                 status, history>>

\* set_desired returns: its answer, and what it leaves of the availability.
Answer(result, fate, state) ==
  /\ status' = [status EXCEPT ![command.id] = result]
  /\ gate' = [gate EXCEPT ![command.id] = fate]
  /\ avail' = state
  /\ command' = NoCommand /\ pc' = "idle"

\* set_on_off: the gateway acknowledges.
Acknowledged ==
  /\ pc = "submit" /\ MayAuthorize
  /\ Answer("accepted", "executed", [avail EXCEPT ![command.device] = "online"])
  /\ UNCHANGED <<force, failed, refused, faults>>

\* 401 or 403: the access token is refused.
Unauthorized ==
  /\ pc = "submit" /\ ~Authorized
  /\ Answer("rejected", "refused", All("offline"))
  /\ force' = TRUE /\ failed' = TRUE /\ refused' = session.id
  /\ UNCHANGED faults

\* 400: the gateway understood and refused; the binding is still good.
BadRequest ==
  /\ pc = "submit" /\ Fault
  /\ Answer("rejected", "refused", avail)
  /\ UNCHANGED <<force, failed, refused>>

\* The connection failed before the request was started.
NotSubmitted ==
  /\ pc = "submit" /\ Fault
  /\ Answer("rejected", "unsent", All("offline"))
  /\ failed' = TRUE /\ UNCHANGED <<force, refused>>

\* Mutant of OutcomeUnknown: the command is submitted again.
OutcomeUnknownRetried ==
  /\ pc = "submit" /\ Fault
  /\ gate' = [gate EXCEPT ![command.id] = "pending"]
  /\ UNCHANGED <<pc, status, avail, command, failed, force, refused>>

\* It failed later, or the answer is any other status or not an answer at all.
OutcomeUnknown ==
  /\ pc = "submit" /\ Fault
  /\ \E fate \in {"pending", "executed"} : Answer("indeterminate", fate, All("offline"))
  /\ failed' = TRUE /\ UNCHANGED <<force, refused>>

Submit ==
  /\ Acknowledged \/ Unauthorized \/ BadRequest \/ NotSubmitted \/ OutcomeUnknown
  /\ UNCHANGED <<disk, gw, revoked, inventory, clocks, caller, session, renewed,
                 bindings, lost, diverged>>

\* close(), by the runtime's close.
Close ==
  /\ pc = "idle" /\ Fault
  /\ pc' = "down" /\ avail' = All("offline")
  /\ UNCHANGED <<external, clocks, caller, session, renewed, force, bindings, command,
                 status, lost, diverged, failed, refused>>

\* The process is killed; a command it was submitting may have got through.
Crash ==
  /\ pc # "down" /\ Fault
  /\ pc' = "down" /\ avail' = All("offline") /\ command' = NoCommand
  /\ lost' = (lost \/ pc \in {"renewing", "save"})
  /\ \/ UNCHANGED gate
     \/ pc = "submit" /\ gate' = [gate EXCEPT ![command.id] = "pending"]
  /\ UNCHANGED <<disk, gw, revoked, inventory, clocks, caller, session, renewed, force,
                 bindings, status, diverged, failed, refused>>

-----------------------------------------------------------------------------
Maintenance == \/ GatewayRenews \/ ReceiveSession \/ RenewFails \/ Save \/ SaveFails
               \/ ReadInventory \/ InventoryFails
Environment == Tick \/ Revoke \/ ChangeInventory \/ ExecuteLate \/ Crash

Next == Open \/ Maintenance \/ Refresh \/ SetDesired \/ Submit \/ Close \/ Environment

Spec == Init /\ [][Next]_vars

(***************************************************************************)
(* Fairness: a request ends, by its timeout if not by its answer (see Ends *)
(* of PinnedRequest: only an answer that never ends keeps it from it); the *)
(* runtime calls refresh() on every turn of its loop; time passes; and the *)
(* service manager starts a process again.                                 *)
(***************************************************************************)
FairSpec == Spec /\ WF_vars(Open) /\ WF_vars(Maintenance) /\ WF_vars(Submit)
                 /\ WF_vars(Refresh) /\ WF_vars(Tick)

-----------------------------------------------------------------------------
\* Type invariant.
TypeOK ==
  /\ disk \in Session /\ gw \in Session /\ session \in Session /\ renewed \in Session
  /\ revoked \in BOOLEAN
  /\ inventory \in [Devices -> LocalIds \cup {None}]
  /\ gate \in [Commands -> {"unsent", "pending", "refused", "executed"}]
  /\ pc \in {"down", "idle", "renew", "renewing", "save", "inventory", "submit"}
  /\ caller \in {"open", "refresh", "command"}
  /\ elapsed \in 0 .. MaxElapsed
  /\ age \in 0 .. Freshness + MaxElapsed /\ refreshIn \in 0 .. Freshness
  /\ force \in BOOLEAN
  /\ avail \in [Devices -> {"online", "offline"}]
  /\ bindings \in [Devices -> LocalIds \cup {None}]
  /\ command \in [id : Commands, device : Devices] \cup {NoCommand}
  /\ status \in [Commands -> {"none", "accepted", "rejected", "indeterminate"}]
  /\ lost \in BOOLEAN /\ diverged \in BOOLEAN /\ failed \in BOOLEAN
  /\ refused \in Sessions \cup {None}
  /\ faults \in 0 .. MaxFaults

\* A running process uses the session that is on disk, so that a restart can
\* go on from it, except after a save that failed once the file was replaced.
MemoryIsDurable == pc # "down" => session.id = disk.id \/ diverged

\* The disk holds the gateway's current session unless the answer to a renewal
\* was lost, could not be saved, or found the process dead: nothing else locks
\* the bridge out, in whatever order renewals, failures and restarts come.
LockoutHasCause == disk.id = gw.id \/ lost \/ pc \in {"renewing", "save"}

\* The bridge never believes in a session longer than the gateway does: the
\* clock read before the request makes the expiry early, never late.
ExpiryIsEarly == /\ session.id = gw.id => session.left <= gw.left
                 /\ disk.id = gw.id => disk.left <= gw.left

\* A request carries an access token that has expired only where the maintenance
\* before it has outlasted the margin, or the session that it was granted itself:
\* what the margin buys.  Neither is excluded by the code; the gateway then answers
\* 401, which RefusedIsRenewed and Recovers are about.
TokenIsLive ==
  pc \in {"inventory", "submit"} /\ session.left = 0 => elapsed > Margin \/ elapsed >= Lifetime

\* A command goes to the gateway only on bindings that were all read together,
\* within the freshness window, and after the last failure of any request.
CommandIsChecked ==
  pc = "submit" => /\ AllOnline /\ ~failed /\ ~Stale
                   /\ \A d \in Devices : bindings[d] # None

\* A session that the gateway refused to this process is renewed before any
\* other request is made with it.
RefusedIsRenewed == pc \in {"inventory", "submit"} => session.id # refused

\* With faults over, slow maintenances among them, the devices come back online and
\* stay so, by refresh() alone and whatever failed before, unless the gateway does not
\* list them, or has moved on to a session this process or the disk has not.
Recovers ==
  <>[](\/ pc \in {"idle", "renew", "renewing", "save", "inventory", "submit"} /\ AllOnline
       \/ \E d \in Devices : inventory[d] = None
       \/ disk.id # gw.id \/ session.id # gw.id)

\* The bridge sees an instance of the abstract command backend.
Promise == INSTANCE CommandBackend WITH online <- AllOnline
Implements == Promise!Spec
Outcome == Promise!Outcome
=============================================================================
