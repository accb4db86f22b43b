----------------------------- MODULE Inventory ------------------------------
(***************************************************************************)
(* G2Client.endpoints and _snapshot: the configured devices are bound from *)
(* an inventory that is read page by page while devices join and leave it. *)
(*                                                                         *)
(* G2Backend takes a reading as one step; this is what that step may be.   *)
(***************************************************************************)
EXTENDS Integers, SequencesExt

CONSTANTS
  Entries,    \* what the gateway may list: [id, hw, comps], where comps are the
              \* identifiers of the components that have OnOff, in order
  Settings,   \* the configured devices: [hw, comp]
  PageSize,   \* _PAGE_SIZE
  MaxPages,   \* _MAX_INVENTORY_PAGES
  MaxListed,  \* bound on the length of the gateway's list
  MaxChanges, \* bound on the changes of that list
  Invalid     \* an identifier, or an identity, that the client does not accept

ASSUME InventoryAssumption ==
  /\ PageSize \in Nat \ {0} /\ MaxPages \in Nat \ {0}
  /\ MaxListed \in Nat /\ MaxChanges \in Nat
  /\ Settings # {} /\ \A s, t \in Settings : s.hw = t.hw => s = t

VARIABLES
  list,     \* external: the gateway's devices, in its order
  pc,       \* "idle", or "page" while a request for a page is under way
  page,     \* its number
  seenIds, seenHardware, \* seen_local_ids, seen_hardware_ids
  found,    \* the endpoints so far: [id, hw, comp]
  bindings, \* _bindings: the local id of each setting; Invalid before the first
  outcome,  \* of the last reading: "none", "listed", "failed" (by what it found) or
            \* "error" (a request failed)
  \* history
  listed,   \* entries that were in the list at some time during the reading
  steady,   \* it has not changed since then
  changes

client  == <<pc, page, seenIds, seenHardware, found, bindings, outcome>>
vars == <<list, client, listed, steady, changes>>

Endpoints(entries) ==
  UNION {{[id |-> e.id, hw |-> e.hw, comp |-> c] : c \in ToSet(e.comps)} : e \in entries}

Init ==
  /\ list \in {s \in SeqOf(Entries, MaxListed) : IsInjective(s)}
  /\ pc = "idle" /\ page = 1
  /\ seenIds = {} /\ seenHardware = {} /\ found = {}
  /\ bindings = [s \in Settings |-> Invalid] /\ outcome = "none"
  /\ listed = {} /\ steady = TRUE /\ changes = 0

-----------------------------------------------------------------------------
(***************************************************************************)
(* The gateway (external).                                                 *)
(***************************************************************************)
Change(new) ==
  /\ changes < MaxChanges /\ changes' = changes + 1
  /\ list' = new /\ steady' = FALSE
  /\ listed' = IF pc = "page" THEN listed \cup ToSet(new) ELSE listed
  /\ UNCHANGED client

Join == /\ Len(list) < MaxListed
        /\ \E e \in Entries \ ToSet(list), i \in 1 .. Len(list) + 1 :
             Change(InsertAt(list, i, e))

Leave == \E i \in DOMAIN list : Change(RemoveAt(list, i))

-----------------------------------------------------------------------------
(***************************************************************************)
(* One reading.                                                            *)
(***************************************************************************)
Begin ==
  /\ pc = "idle" /\ pc' = "page" /\ page' = 1
  /\ seenIds' = {} /\ seenHardware' = {} /\ found' = {}
  /\ listed' = ToSet(list) /\ steady' = TRUE
  /\ UNCHANGED <<list, bindings, outcome, changes>>

Answer(n) == SubSeq(list, (n - 1) * PageSize + 1,
                    IF n * PageSize < Len(list) THEN n * PageSize ELSE Len(list))

\* The identifiers of a page, by position; and those of the devices that have an
\* OnOff component.
Ids(data)      == [i \in DOMAIN data |-> data[i].id]
Hardware(data) == [i \in {k \in DOMAIN data : data[k].comps # <<>>} |-> data[i].hw]

\* Mutant of Acceptable: what an earlier page has listed is forgotten.
AcceptableAlone(data) ==
  /\ Invalid \notin Range(Ids(data)) /\ IsInjective(Ids(data))
  /\ Invalid \notin Range(Hardware(data)) /\ IsInjective(Hardware(data))
  /\ \A e \in ToSet(data) : IsInjective(e.comps)

\* Mutant of Acceptable: a local identifier may occur twice.
AcceptableHardware(data) ==
  /\ Invalid \notin Range(Ids(data))
  /\ Invalid \notin Range(Hardware(data)) /\ IsInjective(Hardware(data))
  /\ Range(Hardware(data)) \cap seenHardware = {}
  /\ \A e \in ToSet(data) : IsInjective(e.comps)

\* No device is listed twice, by either identity, on this page and those before;
\* only devices with an OnOff component need an acceptable identity.
Acceptable(data) ==
  /\ Invalid \notin Range(Ids(data)) /\ IsInjective(Ids(data))
  /\ Range(Ids(data)) \cap seenIds = {}
  /\ Invalid \notin Range(Hardware(data)) /\ IsInjective(Hardware(data))
  /\ Range(Hardware(data)) \cap seenHardware = {}
  /\ \A e \in ToSet(data) : IsInjective(e.comps)

\* endpoints() or _snapshot returns, or raises; only then do the bindings change.
Return(result, new) ==
  /\ pc' = "idle" /\ outcome' = result /\ bindings' = new
  /\ page' = 1 /\ seenIds' = {} /\ seenHardware' = {} /\ found' = {}

Matches(s, endpoints) == {x \in endpoints : x.hw = s.hw /\ x.comp = s.comp}

\* Mutant of Snapshot: any component of the device will do.
SnapshotByDevice(endpoints) ==
  IF \A s \in Settings : \E x \in endpoints : x.hw = s.hw
  THEN Return("listed", [s \in Settings |-> (CHOOSE x \in endpoints : x.hw = s.hw).id])
  ELSE Return("failed", bindings)

\* _snapshot: every setting matches exactly one endpoint.
Snapshot(endpoints) ==
  IF \A s \in Settings : Cardinality(Matches(s, endpoints)) = 1
  THEN Return("listed", [s \in Settings |-> (CHOOSE x \in Matches(s, endpoints) : TRUE).id])
  ELSE Return("failed", bindings)

\* A page that is not full is the last one.
ReadPage ==
  LET data == Answer(page) IN
  /\ pc = "page"
  /\ \/ ~Acceptable(data) /\ Return("failed", bindings)
     \/ /\ Acceptable(data) /\ Len(data) = PageSize /\ page < MaxPages
        /\ page' = page + 1 /\ found' = found \cup Endpoints(ToSet(data))
        /\ seenIds' = seenIds \cup Range(Ids(data))
        /\ seenHardware' = seenHardware \cup Range(Hardware(data))
        /\ UNCHANGED <<pc, bindings, outcome>>
     \/ /\ Acceptable(data) /\ Len(data) = PageSize /\ page = MaxPages
        /\ Return("failed", bindings)
     \/ /\ Acceptable(data) /\ Len(data) < PageSize
        /\ Snapshot(found \cup Endpoints(ToSet(data)))
  /\ UNCHANGED <<list, listed, steady, changes>>

\* The request for a page fails.
RequestFails ==
  /\ pc = "page" /\ Return("error", bindings)
  /\ UNCHANGED <<list, listed, steady, changes>>

Next == Join \/ Leave \/ Begin \/ ReadPage \/ RequestFails

Spec == Init /\ [][Next]_vars

-----------------------------------------------------------------------------
IdsOf == {e.id : e \in Entries}
HardwareOf == {e.hw : e \in Entries}

\* Type invariant; there is no page after the last one that may be asked for.
TypeOK ==
  /\ list \in Seq(Entries) /\ pc \in {"idle", "page"} /\ page \in 1 .. MaxPages
  /\ seenIds \subseteq IdsOf /\ seenHardware \subseteq HardwareOf
  /\ found \subseteq Endpoints(Entries)
  /\ bindings \in [Settings -> IdsOf \cup {Invalid}]
  /\ outcome \in {"none", "listed", "failed", "error"}
  /\ listed \subseteq Entries /\ steady \in BOOLEAN /\ changes \in 0 .. MaxChanges

\* The list as a whole, without pages: what a reading of it should find.
Sound ==
  /\ Len(list) < MaxPages * PageSize
  /\ \A i \in DOMAIN list :
       /\ list[i].id # Invalid
       /\ list[i].comps # <<>> => list[i].hw # Invalid /\ IsInjective(list[i].comps)
  /\ \A i, j \in DOMAIN list : i # j =>
       /\ list[i].id # list[j].id
       /\ list[i].comps # <<>> /\ list[j].comps # <<>> => list[i].hw # list[j].hw

Lists(e, s) == e.hw = s.hw /\ s.comp \in ToSet(e.comps)

\* A list that does not change is read exactly: accepted if and only if it is
\* sound, short enough and has every configured device, wherever pages end; and
\* each device is bound to its entry.
SteadyIsExact ==
  pc = "idle" /\ steady /\ outcome \in {"listed", "failed"} =>
    /\ outcome = "listed" <=>
         Sound /\ \A s \in Settings : \E e \in ToSet(list) : Lists(e, s)
    /\ outcome = "listed" =>
         \A s \in Settings : \E e \in ToSet(list) : Lists(e, s) /\ bindings[s] = e.id

\* Whatever joins and leaves between two pages, a device is bound to an entry that
\* was its own while the inventory was read.
BoundAsListed ==
  outcome = "listed" /\ pc = "idle" =>
    \A s \in Settings : \E e \in listed : Lists(e, s) /\ bindings[s] = e.id

\* No two configured devices are ever bound to the same device of the gateway.
OneDeviceEach ==
  \A s, t \in Settings : s # t => bindings[s] # bindings[t] \/ bindings[s] = Invalid
=============================================================================
