------------------------- MODULE SessionFile_proofs -------------------------
(***************************************************************************)
(* The theorems about SessionFile, for any number of saves and of faults.  *)
(***************************************************************************)
EXTENDS SessionFile, TLAPS

-----------------------------------------------------------------------------
(***************************************************************************)
(* The inductive invariant.  A file is named by the directory only once    *)
(* its data is stored (Stored), which holds because save() has its data    *)
(* stored before it renames it (Progress) and numbers only grow (Order).   *)
(***************************************************************************)
Stored ==
  /\ data[dir.name] = "whole" /\ dataStored[dir.name] = "whole"
  /\ data[dirStored.name] = "whole" /\ dataStored[dirStored.name] = "whole"

Progress ==
  /\ pc \in Saving => dir.name < new
  /\ pc \in {"sync", "replace"} => data[new] = "whole"
  /\ pc = "replace" => dataStored[new] = "whole"
  /\ pc = "syncdir" => dir.name = new

Order ==
  /\ acked <= dirStored.name /\ dirStored.name <= dir.name /\ dir.name <= new
  /\ pc # "down" => acked <= using /\ using <= dir.name

Temporary == left \/ dir.temps \subseteq (IF pc \in Saving THEN {new} ELSE {})

IInv == TypeOK /\ Stored /\ Progress /\ Order /\ Temporary

-----------------------------------------------------------------------------
\* Before anything has run, the provisioned session is on the medium.
LEMMA InitHolds == Init => IInv
<1> SUFFICES ASSUME Init PROVE IInv
  OBVIOUS
<1> USE SessionFileAssumption DEF Init, Files
<1>1. 0 \in Files
  OBVIOUS
<1>2. /\ data \in [Files -> Contents] /\ dataStored \in [Files -> Contents]
      /\ dir \in Directory /\ dirStored \in Directory
  BY <1>1 DEF Contents, Directory
<1>3. /\ private \in BOOLEAN /\ left \in BOOLEAN
      /\ pc \in Saving \cup {"down", "idle", "syncdir"}
  BY DEF Saving
<1>4. new \in Files /\ using \in Files /\ acked \in Files /\ faults \in 0 .. MaxFaults
  BY <1>1
<1>5. TypeOK
  BY <1>2, <1>3, <1>4, Zenon DEF TypeOK
<1>6. Stored /\ Progress /\ Order
  BY <1>1 DEF Stored, Progress, Order, Saving
<1> QED BY <1>5, <1>6 DEF IInv, Temporary

USE SessionFileAssumption DEF Files, Contents, Saving, Fault, filesystem, Step

\* The file system on its own, a change of modes, a kill and a loss of power.
LEMMA EnvironmentKeeps == IInv /\ (FileSystem \/ Faulty) => IInv'
<1> SUFFICES ASSUME IInv, FileSystem \/ Faulty PROVE IInv'
  OBVIOUS
<1> USE DEF IInv, TypeOK, Directory
<1>1. CASE WriteBackData
  <2>1. TypeOK'
    BY <1>1 DEF WriteBackData
  <2>2. Stored'
    BY <1>1 DEF WriteBackData, Stored
  <2>3. Progress'
    BY <1>1 DEF WriteBackData, Progress
  <2> QED BY <1>1, <2>1, <2>2, <2>3 DEF WriteBackData, Order, Temporary
<1>2. CASE WriteBackDirectory
  BY <1>2 DEF WriteBackDirectory, Stored, Progress, Order, Temporary
<1>3. CASE ChangeModes
  BY <1>3 DEF ChangeModes, Stored, Progress, Order, Temporary
<1>4. CASE Killed
  <2>1. left' \in BOOLEAN
    BY <1>4 DEF Killed
  <2>2. TypeOK'
    BY <1>4, <2>1 DEF Killed
  <2>3. Stored' /\ Progress' /\ Order'
    BY <1>4 DEF Killed, Stored, Progress, Order
  <2>4. Temporary'
    BY <1>4 DEF Killed, Temporary
  <2> QED BY <2>2, <2>3, <2>4
<1>5. CASE PowerFails
  BY <1>5 DEF PowerFails, Stored, Progress, Order, Temporary
<1> QED BY <1>1, <1>2, <1>3, <1>4, <1>5 DEF FileSystem, Faulty

\* load() and every step of save(), the failing one included.
LEMMA StoreKeeps == IInv /\ (Load \/ Save \/ Done) => IInv'
<1> SUFFICES ASSUME IInv, Load \/ Save \/ Done PROVE IInv'
  OBVIOUS
<1> USE DEF IInv, TypeOK, Directory
<1>1. CASE Load
  BY <1>1 DEF Load, Stored, Progress, Order, Temporary
<1>2. CASE Create
  <2>1. new' \in Files /\ dir.temps \cup {new + 1} \subseteq Files
    BY <1>2 DEF Create
  <2>2. dir' \in Directory
    BY <1>2, <2>1 DEF Create
  <2>3. TypeOK'
    BY <1>2, <2>1, <2>2 DEF Create
  <2>4. Stored' /\ Progress' /\ Order'
    BY <1>2 DEF Create, Stored, Progress, Order
  <2>5. Temporary'
    BY <1>2 DEF Create, Temporary
  <2> QED BY <2>3, <2>4, <2>5
<1>3. CASE Write
  BY <1>3 DEF Write, Stored, Progress, Order, Temporary
<1>4. CASE Sync
  BY <1>4 DEF Sync, Stored, Progress, Order, Temporary
<1>5. CASE Replace
  <2>1. TypeOK'
    BY <1>5 DEF Replace
  <2>2. Stored' /\ Progress' /\ Order'
    BY <1>5 DEF Replace, Stored, Progress, Order
  <2>3. Temporary'
    BY <1>5 DEF Replace, Temporary
  <2> QED BY <2>1, <2>2, <2>3
<1>6. CASE SyncDirectory
  BY <1>6 DEF SyncDirectory, Stored, Progress, Order, Temporary
<1>7. CASE SaveFails
  <2>1. data' \in [Files -> Contents]
    <3>1. CASE pc = "write"
      BY <1>7, <3>1 DEF SaveFails
    <3>2. CASE pc # "write"
      BY <1>7, <3>2 DEF SaveFails
    <3> QED BY <3>1, <3>2
  <2>2. dir' \in Directory
    BY <1>7 DEF SaveFails
  <2>3. left' \in BOOLEAN
    <3>1. left' = TRUE \/ left' = left
      BY <1>7 DEF SaveFails
    <3> QED BY <3>1
  <2>4. faults' \in 0 .. MaxFaults
    BY <1>7 DEF SaveFails
  <2>5. TypeOK'
    BY <1>7, <2>1, <2>2, <2>3, <2>4 DEF SaveFails
  <2>6. Stored'
    BY <1>7 DEF SaveFails, Stored, Progress, Order
  <2>7. Progress' /\ Order'
    BY <1>7 DEF SaveFails, Progress, Order
  <2>8. Temporary'
    BY <1>7 DEF SaveFails, Temporary
  <2> QED BY <2>5, <2>6, <2>7, <2>8
<1>8. CASE Done
  BY <1>8 DEF Done, vars, Stored, Progress, Order, Temporary
<1> QED BY <1>1, <1>2, <1>3, <1>4, <1>5, <1>6, <1>7, <1>8 DEF Save

\* A step of the system keeps the invariant, and so does a step of no variable.
LEMMA StepKeeps == IInv /\ [Next]_vars => IInv'
<1>1. IInv /\ UNCHANGED vars => IInv'
  BY DEF IInv, TypeOK, Stored, Progress, Order, Temporary, vars, Directory
<1> QED BY <1>1, EnvironmentKeeps, StoreKeeps DEF Next

\* The invariant holds throughout.
LEMMA Invariance == Spec => []IInv
  BY InitHolds, StepKeeps, PTL DEF Spec

-----------------------------------------------------------------------------
\* Every variable keeps its type.
THEOREM TypeCorrect == Spec => []TypeOK
<1>1. IInv => TypeOK
  BY DEF IInv
<1> QED BY <1>1, Invariance, PTL

\* At every instant of a save, a restart or a loss of power finds a whole session.
THEOREM Whole == Spec => []NeverTorn
<1>1. IInv => NeverTorn
  BY DEF IInv, Stored, NeverTorn
<1> QED BY <1>1, Invariance, PTL

\* save() cleans up after itself wherever it is left to.
THEOREM Clean == Spec => []NoLeftovers
<1>1. IInv => NoLeftovers
  BY DEF IInv, Temporary, NoLeftovers
<1> QED BY <1>1, Invariance, PTL

\* A session whose save has returned is never taken back.
THEOREM Durable == Spec => []NoRollback
<1>1. IInv => NoRollback
  BY DEF IInv, TypeOK, Directory, Order, NoRollback, Promise!AcknowledgedSurvives
<1> QED BY <1>1, Invariance, PTL

-----------------------------------------------------------------------------
\* A write-back of the directory persists the session the store holds, and a loss
\* of power returns it to the one that was persisted; os.replace replaces it, the
\* flush of the directory acknowledges it, and nothing else changes it.
LEMMA StepRefines == IInv /\ [Next]_vars => [Promise!Next]_(Promise!vars)
<1> SUFFICES ASSUME IInv, [Next]_vars PROVE [Promise!Next]_(Promise!vars)
  OBVIOUS
<1> USE DEF IInv, TypeOK, Directory, Promise!vars
<1>1. CASE WriteBackDirectory
  BY <1>1 DEF WriteBackDirectory, Promise!Next, Promise!Persist
<1>2. CASE PowerFails
  BY <1>2 DEF PowerFails, Promise!Next, Promise!PowerFails
<1>3. CASE Replace
  BY <1>3 DEF Replace, Progress, Promise!Next, Promise!Replace
<1>4. CASE SyncDirectory
  BY <1>4 DEF SyncDirectory, Progress, Promise!Next, Promise!Acknowledge
<1>5. CASE Create \/ Write \/ Sync \/ SaveFails \/ Load \/ Done
  BY <1>5 DEF Create, Write, Sync, SaveFails, Load, Done, vars
<1>6. CASE WriteBackData \/ ChangeModes \/ Killed
  BY <1>6 DEF WriteBackData, ChangeModes, Killed
<1>7. CASE UNCHANGED vars
  BY <1>7 DEF vars
<1> QED BY <1>1, <1>2, <1>3, <1>4, <1>5, <1>6, <1>7
        DEF Next, FileSystem, Faulty, Save

\* SessionStore implements the store it promises to be.
THEOREM Refinement == Spec => Implements
<1>1. Init => Promise!Init
  BY DEF Init, Promise!Init
<1> QED BY <1>1, StepRefines, Invariance, PTL DEF Spec, Implements, Promise!Spec
=============================================================================
