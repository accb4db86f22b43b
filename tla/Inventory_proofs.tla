-------------------------- MODULE Inventory_proofs --------------------------
(***************************************************************************)
(* The theorems about Inventory: for any list, any pages, any settings and *)
(* any number of changes of the list while it is read.                     *)
(***************************************************************************)
EXTENDS Inventory, SequenceTheorems, FiniteSetTheorems, TLAPS

(***************************************************************************)
(* The inductive invariant: what a reading under way has collected was in  *)
(* the list since it began, and has one identity for each local identifier.*)
(***************************************************************************)
Collected ==
  /\ pc = "page" => ToSet(list) \subseteq listed /\ found \subseteq Endpoints(listed)
  /\ pc = "idle" => found = {}

Known == \A x \in found : x.id \in seenIds

OneIdentity(endpoints) == \A x, y \in endpoints : x.id = y.id => x.hw = y.hw

IInv == TypeOK /\ Collected /\ Known /\ OneIdentity(found) /\ BoundAsListed /\ OneDeviceEach

-----------------------------------------------------------------------------
(***************************************************************************)
(* Lists and pages.                                                        *)
(***************************************************************************)
\* A list one entry longer, or shorter, is a list of entries.
LEMMA InsertedIsList ==
  ASSUME NEW s \in Seq(Entries), NEW i \in 1 .. Len(s) + 1, NEW e \in Entries
  PROVE  InsertAt(s, i, e) \in Seq(Entries)
<1>1. SubSeq(s, 1, i - 1) \in Seq(Entries) /\ SubSeq(s, i, Len(s)) \in Seq(Entries)
  BY SubSeqProperties, ElementOfSeq, LenProperties
<1>2. <<e>> \in Seq(Entries)
  OBVIOUS
<1> QED
  BY <1>1, <1>2, ConcatProperties DEF InsertAt

LEMMA RemovedIsList ==
  ASSUME NEW s \in Seq(Entries), NEW i \in 1 .. Len(s)
  PROVE  RemoveAt(s, i) \in Seq(Entries)
<1>1. SubSeq(s, 1, i - 1) \in Seq(Entries) /\ SubSeq(s, i + 1, Len(s)) \in Seq(Entries)
  BY SubSeqProperties, ElementOfSeq, LenProperties
<1> QED
  BY <1>1, ConcatProperties DEF RemoveAt

LEMMA ListHasEntries ==
  ASSUME NEW s \in Seq(Entries)
  PROVE  ToSet(s) \subseteq Entries
  BY LenProperties, ElementOfSeq DEF ToSet

\* A page has nothing that is not in the list.
LEMMA PageIsListed ==
  ASSUME list \in Seq(Entries), NEW n \in Nat \ {0}
  PROVE  Answer(n) \in Seq(Entries) /\ ToSet(Answer(n)) \subseteq ToSet(list)
<1> DEFINE first == (n - 1) * PageSize + 1
           last  == IF n * PageSize < Len(list) THEN n * PageSize ELSE Len(list)
<1>1. first \in Nat \ {0} /\ last \in Int /\ last <= Len(list)
  <2>1. (n - 1) * PageSize \in Nat /\ n * PageSize \in Nat
    BY InventoryAssumption
  <2> QED
    BY <2>1, LenProperties
<1> HIDE DEF first, last
<1>2. \A i \in first .. last : i \in 1 .. Len(list) /\ list[i] \in Entries
  BY <1>1, LenProperties, ElementOfSeq
<1>3. /\ SubSeq(list, first, last) \in Seq(Entries)
      /\ \A i \in 1 .. last - first + 1 : SubSeq(list, first, last)[i] = list[first + i - 1]
      /\ Len(SubSeq(list, first, last)) = IF first <= last THEN last - first + 1 ELSE 0
  BY <1>1, <1>2, SubSeqProperties
<1>4. ASSUME NEW i \in DOMAIN SubSeq(list, first, last)
      PROVE  SubSeq(list, first, last)[i] \in ToSet(list)
  <2>1. i \in 1 .. last - first + 1
    BY <1>1, <1>3, <1>4, LenProperties
  <2>2. first + i - 1 \in DOMAIN list
    BY <1>1, <1>2, <2>1, LenProperties
  <2> QED
    BY <1>3, <2>1, <2>2 DEF ToSet
<1>5. Answer(n) = SubSeq(list, first, last)
  BY DEF Answer, first, last
<1> QED
  BY <1>3, <1>4, <1>5 DEF ToSet

\* The endpoints of a set of entries, and of a larger one.
LEMMA EndpointsGrow ==
  ASSUME NEW A, NEW B, A \subseteq B
  PROVE  Endpoints(A) \subseteq Endpoints(B)
  BY DEF Endpoints

LEMMA EndpointsOfBoth ==
  ASSUME NEW A, NEW B
  PROVE  Endpoints(A) \cup Endpoints(B) = Endpoints(A \cup B)
  BY DEF Endpoints

\* An endpoint is a component of an entry.
LEMMA EndpointHasEntry ==
  ASSUME NEW A, NEW x \in Endpoints(A)
  PROVE  \E e \in A : x.id = e.id /\ x.hw = e.hw /\ x.comp \in ToSet(e.comps)
  BY DEF Endpoints

-----------------------------------------------------------------------------
(***************************************************************************)
(* What an acceptable page adds.                                           *)
(***************************************************************************)
LEMMA AcceptableAdds ==
  ASSUME NEW data \in Seq(Entries), Acceptable(data)
  PROVE  /\ Range(Ids(data)) \subseteq IdsOf
         /\ Range(Hardware(data)) \subseteq HardwareOf
         /\ \A x \in Endpoints(ToSet(data)) : x.id \in Range(Ids(data)) /\ x.id \notin seenIds
         /\ OneIdentity(Endpoints(ToSet(data)))
<1>1. \A i \in DOMAIN data : data[i] \in Entries
  BY LenProperties, ElementOfSeq
<1>2. Range(Ids(data)) \subseteq IdsOf
  BY <1>1 DEF Range, Ids, IdsOf
<1>3. Range(Hardware(data)) \subseteq HardwareOf
  BY <1>1 DEF Range, Hardware, HardwareOf
<1>4. ASSUME NEW x \in Endpoints(ToSet(data))
      PROVE  \E i \in DOMAIN data : x.id = data[i].id /\ x.hw = data[i].hw
  BY EndpointHasEntry DEF ToSet
<1>5. \A x \in Endpoints(ToSet(data)) : x.id \in Range(Ids(data))
  BY <1>4 DEF Range, Ids
<1>6. Range(Ids(data)) \cap seenIds = {} /\ IsInjective(Ids(data))
  BY DEF Acceptable
<1>7. ASSUME NEW i \in DOMAIN data, NEW j \in DOMAIN data, data[i].id = data[j].id
      PROVE  i = j
  BY <1>6, <1>7 DEF IsInjective, Ids
<1>8. OneIdentity(Endpoints(ToSet(data)))
  <2> SUFFICES ASSUME NEW x \in Endpoints(ToSet(data)), NEW y \in Endpoints(ToSet(data)),
                      x.id = y.id
               PROVE  x.hw = y.hw
    BY DEF OneIdentity
  <2>1. PICK i \in DOMAIN data : x.id = data[i].id /\ x.hw = data[i].hw
    BY <1>4
  <2>2. PICK j \in DOMAIN data : y.id = data[j].id /\ y.hw = data[j].hw
    BY <1>4
  <2> QED
    BY <1>7, <2>1, <2>2
<1> QED
  BY <1>2, <1>3, <1>5, <1>6, <1>8

\* With the pages before it, a local identifier still has one identity.
LEMMA OneIdentityGrows ==
  ASSUME NEW data \in Seq(Entries), Acceptable(data), Known, OneIdentity(found)
  PROVE  OneIdentity(found \cup Endpoints(ToSet(data)))
  BY AcceptableAdds DEF Known, OneIdentity

\* A setting that one endpoint matches is bound to it.
LEMMA MatchIsChosen ==
  ASSUME NEW endpoints, NEW s \in Settings, Cardinality(Matches(s, endpoints)) = 1
  PROVE  LET x == CHOOSE y \in Matches(s, endpoints) : TRUE
         IN  x \in endpoints /\ x.hw = s.hw /\ x.comp = s.comp
<1>1. Matches(s, endpoints) # {}
  BY FS_EmptySet
<1>2. (CHOOSE y \in Matches(s, endpoints) : TRUE) \in Matches(s, endpoints)
  BY <1>1
<1> QED
  BY <1>2 DEF Matches

-----------------------------------------------------------------------------
(***************************************************************************)
(* The initial states and the steps.                                       *)
(***************************************************************************)
LEMMA Initial == Init => IInv
<1> SUFFICES ASSUME Init PROVE IInv
  OBVIOUS
<1> USE InventoryAssumption DEF Init
<1>1. list \in Seq(Entries)
  BY DEF SeqOf
<1>2. TypeOK
  BY <1>1 DEF TypeOK
<1> QED
  BY <1>2 DEF IInv, Collected, Known, OneIdentity, BoundAsListed, OneDeviceEach

\* The list changes: during a reading, what joins is listed as well.
LEMMA ChangeKeeps ==
  ASSUME IInv, NEW new \in Seq(Entries), Change(new)
  PROVE  IInv'
<1> USE DEF IInv, Change, client
<1>1. listed \subseteq listed' /\ listed' \subseteq Entries
  BY ListHasEntries DEF TypeOK
<1>2. TypeOK'
  <2>1. steady' \in BOOLEAN
    OBVIOUS
  <2>2. changes' \in 0 .. MaxChanges
    BY InventoryAssumption DEF TypeOK
  <2> QED
    BY <1>1, <2>1, <2>2 DEF TypeOK
<1>3. Collected' /\ Known' /\ OneIdentity(found)'
  <2>1. Endpoints(listed) \subseteq Endpoints(listed')
    BY <1>1, EndpointsGrow
  <2> QED
    BY <2>1 DEF Collected, Known, OneIdentity
<1>4. BoundAsListed'
  BY <1>1 DEF BoundAsListed
<1>5. OneDeviceEach'
  BY DEF OneDeviceEach
<1> QED
  BY <1>2, <1>3, <1>4, <1>5

LEMMA BeginKeeps ==
  ASSUME IInv, Begin
  PROVE  IInv'
<1> USE DEF IInv, Begin
<1>1. TypeOK'
  BY ListHasEntries, InventoryAssumption DEF TypeOK
<1>2. Collected' /\ Known' /\ OneIdentity(found)' /\ BoundAsListed' /\ OneDeviceEach'
  BY DEF Collected, Known, OneIdentity, BoundAsListed, OneDeviceEach
<1> QED
  BY <1>1, <1>2

\* A reading that fails leaves the bindings as they were.
LEMMA ReturnKeeps ==
  ASSUME IInv, NEW result \in {"failed", "error"}, Return(result, bindings),
         UNCHANGED <<list, listed, steady, changes>>
  PROVE  IInv'
<1> USE DEF IInv, Return
<1>1. TypeOK'
  BY InventoryAssumption DEF TypeOK
<1>2. Collected' /\ Known' /\ OneIdentity(found)' /\ BoundAsListed' /\ OneDeviceEach'
  BY DEF Collected, Known, OneIdentity, BoundAsListed, OneDeviceEach
<1> QED
  BY <1>1, <1>2

\* One that ends with the endpoints of entries that were listed binds every
\* setting to an entry of its own.
LEMMA SnapshotKeeps ==
  ASSUME IInv, NEW endpoints, endpoints \subseteq Endpoints(listed),
         OneIdentity(endpoints), Snapshot(endpoints),
         UNCHANGED <<list, listed, steady, changes>>
  PROVE  IInv'
<1> DEFINE All == \A s \in Settings : Cardinality(Matches(s, endpoints)) = 1
           Chosen(s) == CHOOSE x \in Matches(s, endpoints) : TRUE
           new == [s \in Settings |-> Chosen(s).id]
<1>1. CASE ~All
  <2>1. Return("failed", bindings)
    BY <1>1 DEF Snapshot
  <2> QED
    BY <2>1, ReturnKeeps
<1>2. CASE All
  <2>1. Return("listed", new)
    BY <1>2 DEF Snapshot
  <2>2. ASSUME NEW s \in Settings
        PROVE  /\ Chosen(s) \in endpoints
               /\ Chosen(s).hw = s.hw
               /\ \E e \in listed : Lists(e, s) /\ Chosen(s).id = e.id
    <3>1. Chosen(s) \in endpoints /\ Chosen(s).hw = s.hw /\ Chosen(s).comp = s.comp
      BY <1>2, MatchIsChosen
    <3> HIDE DEF Chosen
    <3>2. PICK e \in listed : /\ Chosen(s).id = e.id /\ Chosen(s).hw = e.hw
                              /\ Chosen(s).comp \in ToSet(e.comps)
      BY <3>1, EndpointHasEntry
    <3> QED
      BY <3>1, <3>2 DEF Lists
  <2> HIDE DEF Chosen
  <2>3. new \in [Settings -> IdsOf]
    BY <2>2 DEF IInv, TypeOK, IdsOf
  <2>4. TypeOK'
    BY <2>1, <2>3, InventoryAssumption DEF IInv, TypeOK, Return
  <2>5. Collected' /\ Known' /\ OneIdentity(found)'
    BY <2>1 DEF Return, Collected, Known, OneIdentity
  <2>6. BoundAsListed'
    BY <2>1, <2>2 DEF Return, BoundAsListed
  <2>7. OneDeviceEach'
    <3> SUFFICES ASSUME NEW s \in Settings, NEW t \in Settings, s # t
                 PROVE  new[s] # new[t]
      BY <2>1 DEF Return, OneDeviceEach
    <3>1. s.hw # t.hw
      BY InventoryAssumption
    <3> QED
      BY <2>2, <3>1 DEF OneIdentity
  <2> QED
    BY <2>4, <2>5, <2>6, <2>7 DEF IInv
<1> QED
  BY <1>1, <1>2

LEMMA ReadPageKeeps ==
  ASSUME IInv, ReadPage
  PROVE  IInv'
<1> DEFINE data == Answer(page)
<1> USE DEF IInv
<1>1. data \in Seq(Entries) /\ ToSet(data) \subseteq ToSet(list) /\ pc = "page"
  BY PageIsListed, InventoryAssumption DEF TypeOK, ReadPage
<1>2. Endpoints(ToSet(data)) \subseteq Endpoints(listed) /\ found \subseteq Endpoints(listed)
  <2>1. ToSet(data) \subseteq listed
    BY <1>1 DEF Collected
  <2> QED
    BY <1>1, <2>1, EndpointsGrow DEF Collected
<1>3. CASE Return("failed", bindings)
  BY <1>3, ReturnKeeps DEF ReadPage
<1>4. CASE Acceptable(data) /\ Snapshot(found \cup Endpoints(ToSet(data)))
  <2> HIDE DEF data
  <2>1. OneIdentity(found \cup Endpoints(ToSet(data)))
    BY <1>1, <1>4, OneIdentityGrows
  <2>2. UNCHANGED <<list, listed, steady, changes>>
    BY DEF ReadPage
  <2> QED
    BY <1>2, <1>4, <2>1, <2>2, SnapshotKeeps
<1>5. CASE /\ Acceptable(data) /\ page < MaxPages
           /\ page' = page + 1 /\ found' = found \cup Endpoints(ToSet(data))
           /\ seenIds' = seenIds \cup Range(Ids(data))
           /\ seenHardware' = seenHardware \cup Range(Hardware(data))
           /\ UNCHANGED <<pc, bindings, outcome>>
  <2>1. UNCHANGED <<list, listed, steady, changes>>
    BY DEF ReadPage
  <2> HIDE DEF data
  <2>2. /\ Range(Ids(data)) \subseteq IdsOf
        /\ Range(Hardware(data)) \subseteq HardwareOf
        /\ \A x \in Endpoints(ToSet(data)) : x.id \in Range(Ids(data))
    BY <1>1, <1>5, AcceptableAdds
  <2>3. Endpoints(listed) \subseteq Endpoints(Entries)
    BY EndpointsGrow DEF TypeOK
  <2>4. TypeOK'
    BY <1>2, <1>5, <2>1, <2>2, <2>3, InventoryAssumption DEF TypeOK
  <2>5. Collected'
    BY <1>1, <1>2, <1>5, <2>1 DEF Collected
  <2>6. Known'
    BY <1>5, <2>2 DEF Known
  <2>7. OneIdentity(found)'
    BY <1>1, <1>5, OneIdentityGrows DEF OneIdentity
  <2>8. BoundAsListed' /\ OneDeviceEach'
    BY <1>1, <1>5, <2>1 DEF BoundAsListed, OneDeviceEach
  <2> QED
    BY <2>4, <2>5, <2>6, <2>7, <2>8
<1> QED
  BY <1>3, <1>4, <1>5 DEF ReadPage

LEMMA Inductive == IInv /\ [Next]_vars => IInv'
<1> SUFFICES ASSUME IInv, [Next]_vars PROVE IInv'
  OBVIOUS
<1>1. CASE Join
  <2>1. PICK e \in Entries \ ToSet(list), i \in 1 .. Len(list) + 1 :
          Change(InsertAt(list, i, e))
    BY <1>1 DEF Join
  <2>2. InsertAt(list, i, e) \in Seq(Entries)
    BY InsertedIsList DEF IInv, TypeOK
  <2> QED
    BY <2>1, <2>2, ChangeKeeps
<1>2. CASE Leave
  <2>1. PICK i \in DOMAIN list : Change(RemoveAt(list, i))
    BY <1>2 DEF Leave
  <2>2. RemoveAt(list, i) \in Seq(Entries)
    BY RemovedIsList, LenProperties DEF IInv, TypeOK
  <2> QED
    BY <2>1, <2>2, ChangeKeeps
<1>3. CASE Begin
  BY <1>3, BeginKeeps
<1>4. CASE ReadPage
  BY <1>4, ReadPageKeeps
<1>5. CASE RequestFails
  BY <1>5, ReturnKeeps DEF RequestFails
<1>6. CASE UNCHANGED vars
  BY <1>6 DEF vars, client, IInv, TypeOK, Collected, Known, OneIdentity, BoundAsListed,
     OneDeviceEach
<1> QED
  BY <1>1, <1>2, <1>3, <1>4, <1>5, <1>6 DEF Next

LEMMA Invariant == Spec => []IInv
<1> QED
  BY Initial, Inductive, PTL DEF Spec

\* Every variable keeps its type: no page after the last is asked for.
THEOREM TypeCorrect == Spec => []TypeOK
<1>1. IInv => TypeOK
  BY DEF IInv
<1> QED
  BY <1>1, Invariant, PTL

\* A configured device is bound to an entry that the gateway listed, with that
\* identity and that component, while the inventory was read (G2Client.endpoints).
THEOREM BindingsWereListed == Spec => []BoundAsListed
<1>1. IInv => BoundAsListed
  BY DEF IInv
<1> QED
  BY <1>1, Invariant, PTL

\* Two configured devices never share a device of the gateway (G2Backend._snapshot),
\* whatever the gateway answers.
THEOREM BindingsAreDistinct == Spec => []OneDeviceEach
<1>1. IInv => OneDeviceEach
  BY DEF IInv
<1> QED
  BY <1>1, Invariant, PTL

-----------------------------------------------------------------------------
(***************************************************************************)
(* A list that does not change.  After some pages, the entries before the  *)
(* next one have been read and found clean: that is what makes the pages   *)
(* put together the list, wherever they end.                               *)
(***************************************************************************)
CleanUpTo(n) ==
  /\ \A i \in 1 .. n :
       /\ list[i].id # Invalid
       /\ list[i].comps # <<>> => list[i].hw # Invalid /\ IsInjective(list[i].comps)
  /\ \A i, j \in 1 .. n : i # j =>
       /\ list[i].id # list[j].id
       /\ list[i].comps # <<>> /\ list[j].comps # <<>> => list[i].hw # list[j].hw

ReadUpTo(n) ==
  /\ n \in Nat /\ n <= Len(list) /\ CleanUpTo(n)
  /\ seenIds = {list[i].id : i \in 1 .. n}
  /\ seenHardware = {list[i].hw : i \in {k \in 1 .. n : list[k].comps # <<>>}}
  /\ found = Endpoints({list[i] : i \in 1 .. n})

Position == (page - 1) * PageSize

SteadyInv == (pc = "page" /\ steady => ReadUpTo(Position)) /\ SteadyIsExact

\* Where a page ends: at the next multiple of the size of a page, or at the end of
\* the list.
Upto == IF page * PageSize < Len(list) THEN page * PageSize ELSE Len(list)

\* A page continues where the one before it has ended.
LEMMA PageContinues ==
  ASSUME TypeOK, Position <= Len(list)
  PROVE  LET data == Answer(page) IN
         /\ Position \in Nat /\ Upto \in Nat
         /\ page * PageSize = Position + PageSize
         /\ Position <= Upto /\ Upto <= Len(list)
         /\ DOMAIN data = 1 .. Upto - Position /\ Len(data) = Upto - Position
         /\ \A i \in 1 .. Upto - Position : data[i] = list[Position + i]
<1>1. page \in Nat \ {0} /\ list \in Seq(Entries) /\ Len(list) \in Nat
  BY LenProperties, InventoryAssumption DEF TypeOK
<1>2. /\ Position \in Nat /\ page * PageSize \in Nat
      /\ page * PageSize = Position + PageSize
  BY <1>1, InventoryAssumption DEF Position
<1>3. Upto \in Nat /\ Position <= Upto /\ Upto <= Len(list)
  BY <1>1, <1>2, InventoryAssumption DEF Upto
<1>4. Answer(page) = SubSeq(list, Position + 1, Upto)
  BY DEF Answer, Position, Upto
<1> HIDE DEF Position, Upto
<1>5. \A i \in Position + 1 .. Upto : list[i] \in Entries
  BY <1>1, <1>2, <1>3, ElementOfSeq
<1>6. /\ Answer(page) \in Seq(Entries)
      /\ Len(Answer(page)) = IF Position + 1 <= Upto THEN Upto - (Position + 1) + 1 ELSE 0
      /\ \A i \in 1 .. Upto - (Position + 1) + 1 :
           Answer(page)[i] = list[(Position + 1) + i - 1]
  BY <1>2, <1>3, <1>4, <1>5, SubSeqProperties
<1>7. Len(Answer(page)) = Upto - Position
  BY <1>2, <1>3, <1>6
<1>8. \A i \in 1 .. Upto - Position : Answer(page)[i] = list[Position + i]
  BY <1>2, <1>3, <1>6
<1> QED
  BY <1>2, <1>3, <1>6, <1>7, <1>8, LenProperties

\* The entries up to the end of a page are those read before it and those on it.
LEMMA PageExtends ==
  ASSUME TypeOK, ReadUpTo(Position)
  PROVE  LET data == Answer(page) IN
         /\ \A i \in 1 .. Upto :
              i \in 1 .. Position \/ \E k \in DOMAIN data : i = Position + k /\ data[k] = list[i]
         /\ \A k \in DOMAIN data : Position + k \in 1 .. Upto /\ data[k] = list[Position + k]
         /\ 1 .. Position \subseteq 1 .. Upto
<1> DEFINE data == Answer(page)
<1>1. /\ Position \in Nat /\ Upto \in Nat /\ Position <= Upto
      /\ DOMAIN data = 1 .. Upto - Position
      /\ \A i \in 1 .. Upto - Position : data[i] = list[Position + i]
  BY PageContinues DEF ReadUpTo
<1> HIDE DEF data, Position, Upto
<1>2. ASSUME NEW i \in 1 .. Upto, i \notin 1 .. Position
      PROVE  \E k \in DOMAIN data : i = Position + k /\ data[k] = list[i]
  <2>1. i - Position \in 1 .. Upto - Position /\ i = Position + (i - Position)
    BY <1>1, <1>2
  <2> QED
    BY <1>1, <2>1
<1>3. \A k \in DOMAIN data : Position + k \in 1 .. Upto /\ data[k] = list[Position + k]
  BY <1>1
<1>4. 1 .. Position \subseteq 1 .. Upto
  BY <1>1
<1> QED
  BY <1>2, <1>3, <1>4 DEF data

\* So with an acceptable page the entries up to its end have been read.
LEMMA PageIsRead ==
  ASSUME TypeOK, ReadUpTo(Position)
  PROVE  LET data == Answer(page) IN
         /\ seenIds \cup Range(Ids(data)) = {list[i].id : i \in 1 .. Upto}
         /\ seenHardware \cup Range(Hardware(data)) =
              {list[i].hw : i \in {k \in 1 .. Upto : list[k].comps # <<>>}}
         /\ found \cup Endpoints(ToSet(data)) = Endpoints({list[i] : i \in 1 .. Upto})
<1> DEFINE data == Answer(page)
<1>1. /\ \A i \in 1 .. Upto :
           i \in 1 .. Position \/ \E k \in DOMAIN data : i = Position + k /\ data[k] = list[i]
      /\ \A k \in DOMAIN data : Position + k \in 1 .. Upto /\ data[k] = list[Position + k]
      /\ 1 .. Position \subseteq 1 .. Upto
  BY PageExtends
<1> HIDE DEF data, Position, Upto
<1>2. /\ Range(Ids(data)) = {data[k].id : k \in DOMAIN data}
      /\ Range(Hardware(data)) = {data[k].hw : k \in {j \in DOMAIN data : data[j].comps # <<>>}}
  BY DEF Range, Ids, Hardware
<1>3. seenIds \cup Range(Ids(data)) = {list[i].id : i \in 1 .. Upto}
  BY <1>1, <1>2 DEF ReadUpTo
<1>4. seenHardware \cup Range(Hardware(data)) =
        {list[i].hw : i \in {k \in 1 .. Upto : list[k].comps # <<>>}}
  BY <1>1, <1>2 DEF ReadUpTo
<1>5. {list[i] : i \in 1 .. Position} \cup ToSet(data) = {list[i] : i \in 1 .. Upto}
  BY <1>1 DEF ToSet
<1>6. found = Endpoints({list[i] : i \in 1 .. Position})
  BY DEF ReadUpTo
<1>7. found \cup Endpoints(ToSet(data)) = Endpoints({list[i] : i \in 1 .. Upto})
  BY <1>5, <1>6, EndpointsOfBoth
<1> QED
  BY <1>3, <1>4, <1>7 DEF data

\* The identifiers of a page, and the identities of its devices with OnOff, occur
\* once each.
LEMMA Injective ==
  ASSUME NEW data
  PROVE  /\ Range(Ids(data)) = {data[k].id : k \in DOMAIN data}
         /\ IsInjective(Ids(data)) <=>
              \A k, l \in DOMAIN data : data[k].id = data[l].id => k = l
         /\ Range(Hardware(data)) =
              {data[k].hw : k \in {j \in DOMAIN data : data[j].comps # <<>>}}
         /\ IsInjective(Hardware(data)) <=>
              \A k, l \in DOMAIN data :
                (data[k].comps # <<>> /\ data[l].comps # <<>> /\ data[k].hw = data[l].hw)
                  => k = l
<1>1. Range(Ids(data)) = {data[k].id : k \in DOMAIN data}
  BY DEF Range, Ids
<1>2. IsInjective(Ids(data)) <=>
        \A k, l \in DOMAIN data : data[k].id = data[l].id => k = l
  BY DEF IsInjective, Ids
<1> DEFINE known == {j \in DOMAIN data : data[j].comps # <<>>}
<1>3. /\ DOMAIN Hardware(data) = known
      /\ \A k \in known : Hardware(data)[k] = data[k].hw
  BY DEF Hardware
<1>4. Range(Hardware(data)) = {data[k].hw : k \in known}
  BY <1>3 DEF Range
<1>5. IsInjective(Hardware(data)) <=>
        \A k, l \in known : data[k].hw = data[l].hw => k = l
  BY <1>3 DEF IsInjective
<1> QED
  BY <1>1, <1>2, <1>4, <1>5

\* A page is acceptable if and only if the entries up to its end are clean.
LEMMA AcceptableIsClean ==
  ASSUME TypeOK, ReadUpTo(Position)
  PROVE  Acceptable(Answer(page)) <=> CleanUpTo(Upto)
<1> DEFINE data == Answer(page)
<1>1. /\ \A i \in 1 .. Upto :
           i \in 1 .. Position \/ \E k \in DOMAIN data : i = Position + k /\ data[k] = list[i]
      /\ \A k \in DOMAIN data : Position + k \in 1 .. Upto /\ data[k] = list[Position + k]
      /\ 1 .. Position \subseteq 1 .. Upto
  BY PageExtends
<1>2. Position \in Nat /\ DOMAIN data \subseteq Nat \ {0}
  BY PageContinues DEF ReadUpTo
<1> HIDE DEF data, Position, Upto
<1>3. /\ \A k, l \in DOMAIN data : Position + k = Position + l => k = l
      /\ \A k \in DOMAIN data : Position + k \notin 1 .. Position
  BY <1>2
<1>4. /\ Range(Ids(data)) = {data[k].id : k \in DOMAIN data}
      /\ IsInjective(Ids(data)) <=>
           \A k, l \in DOMAIN data : data[k].id = data[l].id => k = l
      /\ Range(Hardware(data)) =
           {data[k].hw : k \in {j \in DOMAIN data : data[j].comps # <<>>}}
      /\ IsInjective(Hardware(data)) <=>
           \A k, l \in DOMAIN data :
             (data[k].comps # <<>> /\ data[l].comps # <<>> /\ data[k].hw = data[l].hw) => k = l
  BY Injective
<1>5. IsInjective(<<>>)
  BY DEF IsInjective
<1>6. ASSUME CleanUpTo(Upto) PROVE Acceptable(data)
  <2>1. /\ Invalid \notin Range(Ids(data)) /\ IsInjective(Ids(data))
        /\ Range(Ids(data)) \cap seenIds = {}
    BY <1>1, <1>3, <1>4, <1>6 DEF ReadUpTo, CleanUpTo
  <2>2. /\ Invalid \notin Range(Hardware(data)) /\ IsInjective(Hardware(data))
        /\ Range(Hardware(data)) \cap seenHardware = {}
    BY <1>1, <1>3, <1>4, <1>6 DEF ReadUpTo, CleanUpTo
  <2>3. \A e \in ToSet(data) : IsInjective(e.comps)
    BY <1>1, <1>5, <1>6 DEF CleanUpTo, ToSet
  <2> QED
    BY <2>1, <2>2, <2>3 DEF Acceptable
<1>7. ASSUME Acceptable(data) PROVE CleanUpTo(Upto)
  <2>1. CleanUpTo(Position)
    BY DEF ReadUpTo
  <2>2. ASSUME NEW k \in DOMAIN data
        PROVE  /\ data[k].id # Invalid
               /\ data[k].comps # <<>> => data[k].hw # Invalid
               /\ IsInjective(data[k].comps)
    BY <1>4, <1>7 DEF Acceptable, ToSet
  <2>3. ASSUME NEW i \in 1 .. Upto
        PROVE  /\ list[i].id # Invalid
               /\ list[i].comps # <<>> => list[i].hw # Invalid /\ IsInjective(list[i].comps)
    BY <1>1, <2>1, <2>2 DEF CleanUpTo
  <2>4. ASSUME NEW i \in 1 .. Position, NEW k \in DOMAIN data
        PROVE  /\ list[i].id # data[k].id
               /\ list[i].comps # <<>> /\ data[k].comps # <<>> => list[i].hw # data[k].hw
    BY <1>4, <1>7 DEF Acceptable, ReadUpTo
  <2>5. ASSUME NEW k \in DOMAIN data, NEW l \in DOMAIN data, k # l
        PROVE  /\ data[k].id # data[l].id
               /\ data[k].comps # <<>> /\ data[l].comps # <<>> => data[k].hw # data[l].hw
    BY <1>4, <1>7, <2>5 DEF Acceptable
  <2>6. ASSUME NEW i \in 1 .. Upto, NEW j \in 1 .. Upto, i # j
        PROVE  /\ list[i].id # list[j].id
               /\ list[i].comps # <<>> /\ list[j].comps # <<>> => list[i].hw # list[j].hw
    <3>1. CASE i \in 1 .. Position /\ j \in 1 .. Position
      BY <2>1, <2>6, <3>1 DEF CleanUpTo
    <3>2. CASE i \in 1 .. Position /\ j \notin 1 .. Position
      BY <1>1, <2>4, <3>2
    <3>3. CASE i \notin 1 .. Position /\ j \in 1 .. Position
      BY <1>1, <2>4, <3>3
    <3>4. CASE i \notin 1 .. Position /\ j \notin 1 .. Position
      BY <1>1, <2>5, <2>6, <3>4
    <3> QED
      BY <3>1, <3>2, <3>3, <3>4
  <2> QED
    BY <2>3, <2>6 DEF CleanUpTo
<1> QED
  BY <1>6, <1>7 DEF data

\* In a clean list at most one endpoint matches a setting: exactly one does if and
\* only if an entry lists its component.
LEMMA OneMatch ==
  ASSUME TypeOK, CleanUpTo(Len(list)), NEW s \in Settings
  PROVE  Cardinality(Matches(s, Endpoints(ToSet(list)))) = 1
           <=> \E e \in ToSet(list) : Lists(e, s)
<1> DEFINE M == Matches(s, Endpoints(ToSet(list)))
<1>1. DOMAIN list = 1 .. Len(list)
  BY LenProperties DEF TypeOK
<1>2. ASSUME NEW x \in M
      PROVE  \E i \in 1 .. Len(list) :
               /\ x = [id |-> list[i].id, hw |-> list[i].hw, comp |-> s.comp]
               /\ list[i].hw = s.hw /\ s.comp \in ToSet(list[i].comps)
  <2>1. x \in Endpoints(ToSet(list)) /\ x.hw = s.hw /\ x.comp = s.comp
    BY <1>2 DEF Matches
  <2>2. PICK e \in ToSet(list) : \E c \in ToSet(e.comps) :
               x = [id |-> e.id, hw |-> e.hw, comp |-> c]
    BY <2>1 DEF Endpoints
  <2>3. PICK i \in 1 .. Len(list) : e = list[i]
    BY <1>1 DEF ToSet
  <2> QED
    BY <2>1, <2>2, <2>3
<1>3. \A i \in 1 .. Len(list) : s.comp \in ToSet(list[i].comps) => list[i].comps # <<>>
  BY DEF ToSet
<1>4. ASSUME NEW x \in M, NEW y \in M PROVE x = y
  <2>1. PICK i \in 1 .. Len(list) :
          /\ x = [id |-> list[i].id, hw |-> list[i].hw, comp |-> s.comp]
          /\ list[i].hw = s.hw /\ s.comp \in ToSet(list[i].comps)
    BY <1>2
  <2>2. PICK j \in 1 .. Len(list) :
          /\ y = [id |-> list[j].id, hw |-> list[j].hw, comp |-> s.comp]
          /\ list[j].hw = s.hw /\ s.comp \in ToSet(list[j].comps)
    BY <1>2
  <2>3. i = j
    BY <1>3, <2>1, <2>2 DEF CleanUpTo
  <2> QED
    BY <2>1, <2>2, <2>3
<1>5. ASSUME NEW e \in ToSet(list), Lists(e, s)
      PROVE  [id |-> e.id, hw |-> e.hw, comp |-> s.comp] \in M
  <2>1. e.hw = s.hw /\ s.comp \in ToSet(e.comps)
    BY <1>5 DEF Lists
  <2>2. [id |-> e.id, hw |-> e.hw, comp |-> s.comp] \in
          {[id |-> e.id, hw |-> e.hw, comp |-> c] : c \in ToSet(e.comps)}
    BY <2>1
  <2>3. [id |-> e.id, hw |-> e.hw, comp |-> s.comp] \in Endpoints(ToSet(list))
    BY <2>2 DEF Endpoints
  <2> QED
    BY <2>1, <2>3 DEF Matches
<1>6. (\E x : x \in M) <=> \E e \in ToSet(list) : Lists(e, s)
  <2>1. ASSUME NEW x \in M PROVE \E e \in ToSet(list) : Lists(e, s)
    BY <1>1, <1>2 DEF Lists, ToSet
  <2> QED
    BY <1>5, <2>1
<1> HIDE DEF M
<1>7. Cardinality(M) = 1 <=> \E x : x \in M
  <2>1. ASSUME NEW x \in M PROVE Cardinality(M) = 1
    <3>1. M = {x}
      BY <1>4, <2>1
    <3> QED
      BY <3>1, FS_Singleton
  <2>2. M = {} => Cardinality(M) = 0
    BY FS_EmptySet
  <2> QED
    BY <2>1, <2>2
<1> QED
  BY <1>6, <1>7 DEF M

\* The list is sound if and only if it is short enough and clean.
LEMMA SoundIsClean ==
  ASSUME TypeOK
  PROVE  Sound <=> Len(list) < MaxPages * PageSize /\ CleanUpTo(Len(list))
<1>1. DOMAIN list = 1 .. Len(list)
  BY LenProperties DEF TypeOK
<1> QED
  BY <1>1 DEF Sound, CleanUpTo

\* An unclean beginning makes the list unclean.
LEMMA CleanBeginning ==
  ASSUME TypeOK, NEW n \in Nat, n <= Len(list), CleanUpTo(Len(list))
  PROVE  CleanUpTo(n)
<1>1. 1 .. n \subseteq 1 .. Len(list)
  BY LenProperties DEF TypeOK
<1> QED
  BY <1>1 DEF CleanUpTo

-----------------------------------------------------------------------------
\* A failed reading of a steady list that is not sound, and the last page of one
\* that is read to its end.
LEMMA FailureIsExact ==
  ASSUME ~Sound, Return("failed", bindings), UNCHANGED <<list, steady>>
  PROVE  SteadyInv'
<1>1. ~Sound'
  BY DEF Sound
<1> QED
  BY <1>1 DEF SteadyInv, SteadyIsExact, Return

LEMMA SnapshotIsExact ==
  ASSUME TypeOK, Sound, Snapshot(Endpoints(ToSet(list))), UNCHANGED <<list, steady>>
  PROVE  SteadyInv'
<1> DEFINE endpoints == Endpoints(ToSet(list))
           All == \A s \in Settings : Cardinality(Matches(s, endpoints)) = 1
           Chosen(s) == CHOOSE x \in Matches(s, endpoints) : TRUE
<1>1. All <=> \A s \in Settings : \E e \in ToSet(list) : Lists(e, s)
  BY SoundIsClean, OneMatch
<1>2. Sound' /\ ToSet(list)' = ToSet(list)
  BY DEF Sound
<1>3. CASE ~All
  <2>1. Return("failed", bindings)
    BY <1>3 DEF Snapshot
  <2> HIDE DEF All
  <2> QED
    BY <1>1, <1>2, <1>3, <2>1 DEF SteadyInv, SteadyIsExact, Return
<1>4. CASE All
  <2>1. Return("listed", [s \in Settings |-> Chosen(s).id])
    BY <1>4 DEF Snapshot
  <2>2. ASSUME NEW s \in Settings
        PROVE  \E e \in ToSet(list) : Lists(e, s) /\ Chosen(s).id = e.id
    <3>1. Chosen(s) \in endpoints /\ Chosen(s).hw = s.hw /\ Chosen(s).comp = s.comp
      BY <1>4, MatchIsChosen
    <3> HIDE DEF Chosen
    <3>2. PICK e \in ToSet(list) : /\ Chosen(s).id = e.id /\ Chosen(s).hw = e.hw
                                   /\ Chosen(s).comp \in ToSet(e.comps)
      BY <3>1, EndpointHasEntry
    <3> QED
      BY <3>1, <3>2 DEF Lists
  <2> HIDE DEF All, Chosen
  <2>3. \A s \in Settings : bindings'[s] = Chosen(s).id
    BY <2>1 DEF Return
  <2>4. pc' = "idle" /\ outcome' = "listed"
    BY <2>1 DEF Return
  <2>5. \A s \in Settings : \E e \in ToSet(list)' : Lists(e, s) /\ bindings'[s] = e.id
    BY <1>2, <2>2, <2>3
  <2>6. \A s \in Settings : \E e \in ToSet(list)' : Lists(e, s)
    BY <2>5
  <2> QED
    BY <1>2, <2>4, <2>5, <2>6 DEF SteadyInv, SteadyIsExact
<1> QED
  BY <1>3, <1>4

LEMMA ReadPageIsExact ==
  ASSUME TypeOK, SteadyInv, ReadPage
  PROVE  SteadyInv'
<1> DEFINE data == Answer(page)
<1>1. pc = "page" /\ UNCHANGED <<list, listed, steady, changes>>
  BY DEF ReadPage
<1>2. CASE ~steady
  <2>1. ~steady'
    BY <1>1, <1>2
  <2> QED
    BY <2>1 DEF SteadyInv, SteadyIsExact
<1>3. CASE steady
  <2>1. ReadUpTo(Position)
    BY <1>1, <1>3 DEF SteadyInv
  <2>2. /\ Position \in Nat /\ Upto \in Nat /\ Upto <= Len(list)
        /\ page * PageSize = Position + PageSize /\ Len(data) = Upto - Position
    BY <2>1, PageContinues DEF ReadUpTo
  <2>3. Len(list) \in Nat /\ page \in 1 .. MaxPages
    BY LenProperties DEF TypeOK
  <2>4. Acceptable(data) <=> CleanUpTo(Upto)
    BY <2>1, AcceptableIsClean
  <2>5. /\ seenIds \cup Range(Ids(data)) = {list[i].id : i \in 1 .. Upto}
        /\ seenHardware \cup Range(Hardware(data)) =
             {list[i].hw : i \in {k \in 1 .. Upto : list[k].comps # <<>>}}
        /\ found \cup Endpoints(ToSet(data)) = Endpoints({list[i] : i \in 1 .. Upto})
    BY <2>1, PageIsRead
  <2> HIDE DEF data
  <2>6. CASE ~Acceptable(data) /\ Return("failed", bindings)
    <3>1. ~Sound
      BY <2>2, <2>4, <2>6, SoundIsClean, CleanBeginning
    <3> QED
      BY <1>1, <2>6, <3>1, FailureIsExact
  <2>7. CASE /\ Acceptable(data) /\ Len(data) = PageSize /\ page < MaxPages
             /\ page' = page + 1 /\ found' = found \cup Endpoints(ToSet(data))
             /\ seenIds' = seenIds \cup Range(Ids(data))
             /\ seenHardware' = seenHardware \cup Range(Hardware(data))
             /\ UNCHANGED <<pc, bindings, outcome>>
    <3>1. Position' = Upto
      <4>1. Position' = page * PageSize
        BY <2>3, <2>7 DEF Position
      <4> QED
        BY <2>2, <2>7, <4>1, InventoryAssumption
    <3>2. /\ CleanUpTo(Upto) /\ UNCHANGED list
          /\ seenIds' = {list[i].id : i \in 1 .. Upto}
          /\ seenHardware' = {list[i].hw : i \in {k \in 1 .. Upto : list[k].comps # <<>>}}
          /\ found' = Endpoints({list[i] : i \in 1 .. Upto})
      BY <1>1, <2>4, <2>5, <2>7
    <3>3. ReadUpTo(Position)'
      BY <2>2, <3>1, <3>2 DEF ReadUpTo, CleanUpTo, Endpoints
    <3> QED
      BY <1>1, <2>7, <3>3 DEF SteadyInv, SteadyIsExact
  <2>8. CASE Acceptable(data) /\ Len(data) = PageSize /\ page = MaxPages /\ Return("failed", bindings)
    <3>1. ~(Len(list) < MaxPages * PageSize)
      BY <2>2, <2>3, <2>8, InventoryAssumption
    <3> QED
      BY <1>1, <2>8, <3>1, SoundIsClean, FailureIsExact
  <2>9. CASE /\ Acceptable(data) /\ Len(data) < PageSize
             /\ Snapshot(found \cup Endpoints(ToSet(data)))
    <3>1. Upto = Len(list) /\ Len(list) < page * PageSize
      BY <2>2, <2>3, <2>9, InventoryAssumption DEF Upto
    <3>2. page * PageSize <= MaxPages * PageSize
      BY <2>3, InventoryAssumption
    <3>3. Sound
      <4>1. page * PageSize \in Int /\ MaxPages * PageSize \in Int
        BY <2>3, InventoryAssumption
      <4>2. Len(list) < MaxPages * PageSize
        BY <2>3, <3>1, <3>2, <4>1
      <4> QED
        BY <2>4, <2>9, <3>1, <4>2, SoundIsClean
    <3>4. {list[i] : i \in 1 .. Len(list)} = ToSet(list)
      BY LenProperties DEF TypeOK, ToSet
    <3>5. Snapshot(Endpoints(ToSet(list)))
      BY <2>5, <2>9, <3>1, <3>4
    <3> QED
      BY <1>1, <3>3, <3>5, SnapshotIsExact
  <2> QED
    BY <2>6, <2>7, <2>8, <2>9 DEF ReadPage, data
<1> QED
  BY <1>2, <1>3 DEF TypeOK

\* The other steps: a change ends the steadiness, a reading begins with nothing
\* read, and one that ends by an error has not refused the list.
LEMMA SteadyInitial == Init => SteadyInv
  BY DEF Init, SteadyInv, SteadyIsExact

LEMMA SteadyInductive == IInv /\ SteadyInv /\ [Next]_vars => SteadyInv'
<1> SUFFICES ASSUME IInv, SteadyInv, [Next]_vars PROVE SteadyInv'
  OBVIOUS
<1>1. TypeOK
  BY DEF IInv
<1>2. CASE Join \/ Leave
  BY <1>2 DEF Join, Leave, Change, SteadyInv, SteadyIsExact
<1>3. CASE Begin
  <2>1. pc' = "page" /\ Position' = 0
    BY <1>3, InventoryAssumption DEF Begin, Position
  <2>2. ReadUpTo(0)'
    <3>1. Len(list)' \in Nat /\ 1 .. 0 = {}
      BY <1>1, <1>3, LenProperties DEF TypeOK, Begin
    <3> QED
      BY <1>3, <3>1 DEF Begin, ReadUpTo, CleanUpTo, Endpoints
  <2> QED
    BY <2>1, <2>2 DEF SteadyInv, SteadyIsExact
<1>4. CASE ReadPage
  BY <1>1, <1>4, ReadPageIsExact
<1>5. CASE RequestFails
  BY <1>5 DEF RequestFails, Return, SteadyInv, SteadyIsExact
<1>6. CASE UNCHANGED vars
  BY <1>6 DEF vars, client, SteadyInv, ReadUpTo, CleanUpTo, Position, SteadyIsExact, Sound
<1> QED
  BY <1>2, <1>3, <1>4, <1>5, <1>6 DEF Next

\* A list that does not change while it is read is accepted if and only if it is
\* sound, fits the pages and has every configured device, and then every device is
\* bound to its entry (G2Client.endpoints, G2Backend._snapshot): no device is lost or
\* taken twice where one page ends and the next begins.
THEOREM SteadyReadingIsExact == Spec => []SteadyIsExact
<1>1. SteadyInv => SteadyIsExact
  BY DEF SteadyInv
<1> QED
  BY <1>1, Invariant, SteadyInitial, SteadyInductive, PTL DEF Spec
=============================================================================
