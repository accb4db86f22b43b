----------------------------- MODULE SessionFile -----------------------------
(***************************************************************************)
(* SessionStore: save() and load() on a POSIX file system, for one process *)
(* that may be killed, and a machine that may lose power.                  *)
(*                                                                         *)
(* Files are numbered by the save that creates them; 0 is the session the  *)
(* operator provisioned.  The file system keeps data and directory in its  *)
(* cache and writes either back whenever it likes; fsync makes it do so.   *)
(***************************************************************************)
EXTENDS Naturals

CONSTANTS
  MaxSaves,  \* saves attempted
  MaxFaults  \* calls that fail, kills, losses of power, changes of permissions

ASSUME SessionFileAssumption == MaxSaves \in Nat /\ MaxFaults \in Nat

Files == 0 .. MaxSaves

VARIABLES
  \* external: the file system
  data, dataStored, \* content of each file: in the cache, and on the medium
  dir, dirStored,   \* the directory: the file self.path names (name), and the
                    \* files that still have a temporary name (temps)
  private,          \* directory and file have the modes that are asked for
  \* the process
  pc,               \* "down", "idle", or the next step of save()
  new,              \* the file being saved, or the last one that was
  using,            \* the session in use
  \* history
  acked,            \* the last save that returned
  left,             \* a save was cut off, or could not unlink
  faults

filesystem == <<data, dataStored, dir, dirStored, private>>
vars == <<filesystem, pc, new, using, acked, left, faults>>

Directory == [name : Files, temps : SUBSET Files]

\* The steps of save() during which its temporary file exists.
Saving == {"write", "sync", "replace"}

Fault == faults < MaxFaults /\ faults' = faults + 1

Init ==
  /\ data = [f \in Files |-> IF f = 0 THEN "whole" ELSE "empty"]
  /\ dataStored = data
  /\ dir = [name |-> 0, temps |-> {}] /\ dirStored = dir
  /\ private = TRUE
  /\ pc = "down" /\ new = 0 /\ using = 0
  /\ acked = 0 /\ left = FALSE /\ faults = 0

-----------------------------------------------------------------------------
(***************************************************************************)
(* The file system on its own, the operator, and the machine (external).   *)
(***************************************************************************)
\* Some of a file's data, or all of it, reaches the medium.
WriteBackData ==
  /\ \E f \in Files :
       \/ dataStored' = [dataStored EXCEPT ![f] = data[f]]
       \/ data[f] = "whole" /\ dataStored[f] = "empty"
          /\ dataStored' = [dataStored EXCEPT ![f] = "part"]
  /\ UNCHANGED <<data, dir, dirStored, private, pc, new, using, acked, left, faults>>

WriteBackDirectory ==
  /\ dirStored' = dir
  /\ UNCHANGED <<data, dataStored, dir, private, pc, new, using, acked, left, faults>>

ChangeModes ==
  /\ Fault /\ private' = ~private
  /\ UNCHANGED <<data, dataStored, dir, dirStored, pc, new, using, acked, left>>

Killed ==
  /\ pc # "down" /\ Fault
  /\ pc' = "down" /\ left' = (left \/ pc \in Saving)
  /\ UNCHANGED <<filesystem, new, using, acked>>

PowerFails ==
  /\ Fault
  /\ data' = dataStored /\ dir' = dirStored
  /\ pc' = "down" /\ left' = TRUE
  /\ UNCHANGED <<dataStored, dirStored, private, new, using, acked>>

-----------------------------------------------------------------------------
(***************************************************************************)
(* SessionStore.                                                           *)
(***************************************************************************)
\* load(): modes, size and fields are checked; a file cut short is no JSON.
Load ==
  /\ pc = "down" /\ private /\ data[dir.name] = "whole"
  /\ using' = dir.name /\ pc' = "idle"
  /\ UNCHANGED <<filesystem, new, acked, left, faults>>

Step(from, to) == pc = from /\ pc' = to

\* save() up to mkstemp: the modes are checked before anything is written.
Create ==
  /\ Step("idle", "write") /\ new < MaxSaves /\ private
  /\ new' = new + 1
  /\ dir' = [dir EXCEPT !.temps = @ \cup {new + 1}]
  /\ UNCHANGED <<data, dataStored, dirStored, private, using, acked, left, faults>>

\* The session is written and handed to the kernel (flush).
Write ==
  /\ Step("write", "sync")
  /\ data' = [data EXCEPT ![new] = "whole"]
  /\ UNCHANGED <<dataStored, dir, dirStored, private, new, using, acked, left, faults>>

\* Mutant of Sync: flush() without fsync().
SyncFlushOnly ==
  /\ Step("sync", "replace")
  /\ UNCHANGED <<filesystem, new, using, acked, left, faults>>

\* fsync.
Sync ==
  /\ Step("sync", "replace")
  /\ dataStored' = [dataStored EXCEPT ![new] = data[new]]
  /\ UNCHANGED <<data, dir, dirStored, private, new, using, acked, left, faults>>

\* The modes are checked again, then os.replace.
Replace ==
  /\ Step("replace", "syncdir") /\ private
  /\ dir' = [name |-> new, temps |-> dir.temps \ {new}]
  /\ UNCHANGED <<data, dataStored, dirStored, private, new, using, acked, left, faults>>

\* Mutant of SyncDirectory: the directory is not flushed.
SyncDirectoryNot ==
  /\ Step("syncdir", "idle")
  /\ using' = new /\ acked' = new
  /\ UNCHANGED <<filesystem, new, left, faults>>

\* The directory is flushed and save() returns; its caller uses the session.
SyncDirectory ==
  /\ Step("syncdir", "idle")
  /\ dirStored' = dir
  /\ using' = new /\ acked' = new
  /\ UNCHANGED <<data, dataStored, dir, private, new, left, faults>>

\* Mutant of SaveFails: the temporary file is left to the operator.
SaveFailsDirty ==
  /\ pc \in Saving \cup {"syncdir"}
  /\ Fault \/ (pc = "replace" /\ ~private /\ UNCHANGED faults)
  /\ pc' = "idle"
  /\ IF pc = "write"
     THEN \E d \in {"empty", "part"} : data' = [data EXCEPT ![new] = d]
     ELSE UNCHANGED data
  /\ UNCHANGED <<dir, left, dataStored, dirStored, private, new, using, acked>>

\* A call of save() fails, or the modes do not suit: before os.replace the
\* temporary file is unlinked, after it there is nothing to undo.  A write that
\* fails leaves any part of the data.
SaveFails ==
  /\ pc \in Saving \cup {"syncdir"}
  /\ Fault \/ (pc = "replace" /\ ~private /\ UNCHANGED faults)
  /\ pc' = "idle"
  /\ IF pc = "write"
     THEN \E d \in {"empty", "part"} : data' = [data EXCEPT ![new] = d]
     ELSE UNCHANGED data
  /\ \/ dir' = [dir EXCEPT !.temps = @ \ {new}] /\ UNCHANGED left
     \/ pc # "syncdir" /\ left' = TRUE /\ UNCHANGED dir
  /\ UNCHANGED <<dataStored, dirStored, private, new, using, acked>>

-----------------------------------------------------------------------------
FileSystem == WriteBackData \/ WriteBackDirectory
Faulty     == ChangeModes \/ Killed \/ PowerFails
Save       == Create \/ Write \/ Sync \/ Replace \/ SyncDirectory \/ SaveFails

\* Nothing is left to save, and no fault to come.
Done == pc = "idle" /\ new = MaxSaves /\ UNCHANGED vars

Next == FileSystem \/ Faulty \/ Load \/ Save \/ Done

Spec == Init /\ [][Next]_vars

-----------------------------------------------------------------------------
Contents == {"empty", "part", "whole"}

\* Type invariant.
TypeOK ==
  /\ data \in [Files -> Contents] /\ dataStored \in [Files -> Contents]
  /\ dir \in Directory /\ dirStored \in Directory
  /\ private \in BOOLEAN
  /\ pc \in Saving \cup {"down", "idle", "syncdir"}
  /\ new \in Files /\ using \in Files /\ acked \in Files
  /\ left \in BOOLEAN /\ faults \in 0 .. MaxFaults

\* At every instant the session file is whole, for a process that is started
\* again as for a machine that has lost power.
NeverTorn == data[dir.name] = "whole" /\ dataStored[dirStored.name] = "whole"

\* Between saves a temporary file is left behind only where a save was cut off,
\* by a kill or a loss of power, or its unlink failed.
NoLeftovers == pc = "idle" /\ dir.temps # {} => left

\* The store is atomic and durable: it implements AtomicStore.
Promise == INSTANCE AtomicStore WITH value <- dir.name, durable <- dirStored.name
Implements == Promise!Spec

\* No session whose save has returned is taken back: not by what the medium holds,
\* not by the file, and not by the process, whichever file it started from.
NoRollback ==
  /\ Promise!AcknowledgedSurvives
  /\ pc # "down" => acked <= using /\ using <= dir.name
=============================================================================
