------------------------- MODULE Foreground_proofs --------------------------
(***************************************************************************)
(* Proofs about Foreground: what a process has released when it ends, what *)
(* its exit status says, and which file its pin comes from, for any number *)
(* of signals and of changes to the pin file.                              *)
(***************************************************************************)
EXTENDS Foreground, TLAPS

Settings == {"config", "credentials", "profiles", "lstat", "open", "fstat", "read",
             "open_backend"}
Built    == {"returned", "transport", "runtime", "abandon", "built", "half_installed"}
Running  == {"run", "close", "close_backend"}
Restored == {"restore_int", "restore_term"}

Balanced == /\ closes = IF opened THEN 1 ELSE 0
            /\ disconnects = IF connected THEN 1 ELSE 0

\* What has been opened and closed at each point.
Progress ==
  /\ pc \in Settings => ~opened /\ ~connected /\ closes = 0 /\ disconnects = 0
  /\ pc \in Built => opened /\ ~connected /\ closes = 0 /\ disconnects = 0
  /\ pc \in Running => opened /\ connected /\ closes = 0 /\ disconnects = 0
  /\ pc = "disconnect" => opened /\ connected /\ closes = 1 /\ disconnects = 0
  /\ pc \in Restored => opened /\ connected /\ closes = 1 /\ disconnects = 1
  /\ pc = "report" /\ ~exposed => Balanced
  /\ pc = "exited" /\ status # "killed" /\ ~exposed => Balanced

\* No interrupt reaches the part of the process that close() ends.
Handled ==
  pc \in {"half_installed", "disconnect", "restore_int"} \cup Running => onInt = "request_stop"

\* Nothing has been raised, or something has failed; a run that has ended without
\* an exception was stopped.
Truth ==
  /\ raised = "none" <=> ~failed
  /\ stop => requested
  /\ pc = "abandon" => failed
  /\ pc \in {"close", "close_backend", "disconnect"} \cup Restored => stop \/ failed
  /\ pc = "report" /\ ~failed => stop /\ closes = 1 /\ disconnects = 1
  /\ pc # "exited" => status = "none"
  /\ status = "0" => stop /\ ~failed /\ closes = 1 /\ disconnects = 1

\* From the lstat on the inspected number stands for the file it stood for then, or
\* for one that was made since; and the file that is read bears that number.
Inspected ==
  /\ pc = "fstat" => descriptor \in Numbers
  /\ pc \in {"open", "fstat", "read"} =>
       /\ expected.number \in Numbers /\ expected.at <= changes
       /\ \/ files[expected.number].born = expected.born
          \/ files[expected.number].born > expected.at
  /\ pc = "read" => descriptor = expected.number /\ files[descriptor].kind = "regular"

\* The two parts of the type invariant.
Flags == /\ gateway \in BOOLEAN /\ stop \in BOOLEAN /\ opened \in BOOLEAN
         /\ connected \in BOOLEAN /\ exposed \in BOOLEAN /\ failed \in BOOLEAN
         /\ requested \in BOOLEAN

Points == {"config", "credentials", "profiles", "lstat", "open", "fstat", "read",
           "open_backend", "returned", "transport", "runtime", "abandon", "built",
           "half_installed", "run", "close", "close_backend", "disconnect",
           "restore_int", "restore_term", "report", "exited"}

Data ==
  /\ files \in [Numbers -> FilesOf(0 .. MaxChanges)] /\ path \in Numbers \cup {Missing}
  /\ pc \in Points
  /\ expected \in [number : Numbers \cup {NoFile}, born : 0 .. MaxChanges, at : 0 .. MaxChanges]
  /\ descriptor \in Numbers \cup {NoFile} /\ pin \in Numbers \cup {NoFile}
  /\ raised \in {"none", "interrupt"} \cup Errors
  /\ onInt \in {"default", "request_stop"} /\ onTerm \in {"default", "request_stop"}
  /\ status \in {"none", "0", "2", "traceback", "killed"}
  /\ closes \in 0 .. 1 /\ disconnects \in 0 .. 1
  /\ signals \in 0 .. MaxSignals /\ changes \in 0 .. MaxChanges

IInv == Flags /\ Data /\ Progress /\ Handled /\ Truth /\ Inspected

LEMMA Typed == Flags /\ Data => TypeOK
<1> SUFFICES ASSUME Flags, Data PROVE TypeOK
  OBVIOUS
<1>1. pc \in Points
  BY DEF Data
<1> QED
  BY <1>1 DEF TypeOK, Flags, Data, Points

LEMMA Initial == Init => IInv
<1> SUFFICES ASSUME Init PROVE IInv
  OBVIOUS
<1>1. Flags
  BY DEF Init, Flags
<1>2. Data
  BY ForegroundAssumption DEF Init, Data, Points, FilesOf
<1>3. Progress
  BY DEF Init, Progress, Settings, Built, Running, Restored
<1>4. Handled /\ Truth /\ Inspected
  BY DEF Init, Handled, Truth, Inspected, Running, Restored
<1> QED
  BY <1>1, <1>2, <1>3, <1>4 DEF IInv

USE DEF Settings, Built, Running, Restored, Balanced, Errors, Points

LEMMA Invariant == IInv /\ [Next]_vars => IInv'
<1> SUFFICES ASSUME IInv, [Next]_vars PROVE IInv'
  OBVIOUS
<1> USE ForegroundAssumption DEF IInv, Step, Raise, vars, disk, pinFile, handlers, history
<1>1. CASE LoadSettings
  <2>1. Flags'
    BY <1>1 DEF LoadSettings, Load, Flags
  <2>2. Data'
    BY <1>1 DEF LoadSettings, Load, Data
  <2>3. Progress' /\ Handled' /\ Truth' /\ Inspected'
    BY <1>1 DEF LoadSettings, Load, Flags, Data, Progress, Handled, Truth, Inspected
  <2> QED
    BY <2>1, <2>2, <2>3
<1>2. CASE Inspect
  <2>1. Flags'
    BY <1>2 DEF Inspect, LooksRight, Flags
  <2>2. Data'
    <3>1. expected' \in [number : Numbers \cup {NoFile}, born : 0 .. MaxChanges,
                         at : 0 .. MaxChanges]
      BY <1>2 DEF Inspect, LooksRight, FilesOf, Data
    <3> QED
      BY <1>2, <3>1 DEF Inspect, LooksRight, Data
  <2>3. Progress' /\ Handled' /\ Truth' /\ Inspected'
    BY <1>2 DEF Inspect, LooksRight, Flags, Data, Progress, Handled, Truth, Inspected
  <2> QED
    BY <2>1, <2>2, <2>3
<1>3. CASE OpenFile
  <2>1. Flags'
    BY <1>3 DEF OpenFile, Opens, Flags
  <2>2. Data'
    BY <1>3 DEF OpenFile, Opens, Data
  <2>3. Progress' /\ Handled' /\ Truth' /\ Inspected'
    BY <1>3 DEF OpenFile, Opens, Flags, Data, Progress, Handled, Truth, Inspected
  <2> QED
    BY <2>1, <2>2, <2>3
<1>4. CASE CheckFile
  <2>1. Flags'
    BY <1>4 DEF CheckFile, SameFile, Flags
  <2>2. Data'
    BY <1>4 DEF CheckFile, SameFile, Data
  <2>3. Progress' /\ Handled' /\ Truth' /\ Inspected'
    <3>1. Progress'
      BY <1>4 DEF CheckFile, SameFile, Flags, Data, Progress, Handled, Truth
    <3>2. Handled'
      BY <1>4 DEF CheckFile, SameFile, Handled
    <3>3. Truth'
      BY <1>4 DEF CheckFile, SameFile, Flags, Data, Progress, Truth
    <3>4. Inspected'
      BY <1>4 DEF CheckFile, SameFile, Data, Inspected
    <3> QED
      BY <3>1, <3>2, <3>3, <3>4
  <2> QED
    BY <2>1, <2>2, <2>3
<1>5. CASE ReadPin
  <2>1. Flags'
    BY <1>5 DEF ReadPin, Flags
  <2>2. Data'
    BY <1>5 DEF ReadPin, Data
  <2>3. Progress' /\ Handled' /\ Truth' /\ Inspected'
    BY <1>5 DEF ReadPin, Flags, Data, Progress, Handled, Truth, Inspected
  <2> QED
    BY <2>1, <2>2, <2>3
<1>6. CASE OpenBackend
  <2>1. Flags'
    BY <1>6 DEF OpenBackend, Flags
  <2>2. Data'
    BY <1>6 DEF OpenBackend, Data
  <2>3. Progress' /\ Handled' /\ Truth' /\ Inspected'
    BY <1>6 DEF OpenBackend, Flags, Data, Progress, Handled, Truth, Inspected
  <2> QED
    BY <2>1, <2>2, <2>3
<1>7. CASE CreateRuntime
  <2>1. Flags'
    BY <1>7 DEF CreateRuntime, Abandoning, Flags
  <2>2. Data'
    BY <1>7 DEF CreateRuntime, Abandoning, Data
  <2>3. Progress' /\ Handled' /\ Truth' /\ Inspected'
    BY <1>7 DEF CreateRuntime, Abandoning, Flags, Data, Progress, Handled, Truth, Inspected
  <2> QED
    BY <2>1, <2>2, <2>3
<1>8. CASE Abandon
  <2>1. Flags'
    BY <1>8 DEF Abandon, Flags
  <2>2. Data'
    BY <1>8 DEF Abandon, Data, Progress
  <2>3. Progress' /\ Handled' /\ Truth' /\ Inspected'
    <3>1. Progress'
      BY <1>8 DEF Abandon, Flags, Data, Progress, Handled, Truth
    <3>2. Handled'
      BY <1>8 DEF Abandon, Handled
    <3>3. Truth'
      BY <1>8 DEF Abandon, Flags, Data, Progress, Truth
    <3>4. Inspected'
      BY <1>8 DEF Abandon, Data, Inspected
    <3> QED
      BY <3>1, <3>2, <3>3, <3>4
  <2> QED
    BY <2>1, <2>2, <2>3
<1>9. CASE InstallHandlers
  <2>1. Flags'
    BY <1>9 DEF InstallHandlers, Flags
  <2>2. Data'
    BY <1>9 DEF InstallHandlers, Data
  <2>3. Progress' /\ Handled' /\ Truth' /\ Inspected'
    BY <1>9 DEF InstallHandlers, Flags, Data, Progress, Handled, Truth, Inspected
  <2> QED
    BY <2>1, <2>2, <2>3
<1>10. CASE Run
  <2>1. Flags'
    BY <1>10 DEF Run, Flags
  <2>2. Data'
    BY <1>10 DEF Run, Data
  <2>3. Progress' /\ Handled' /\ Truth' /\ Inspected'
    BY <1>10 DEF Run, Flags, Data, Progress, Handled, Truth, Inspected
  <2> QED
    BY <2>1, <2>2, <2>3
<1>11. CASE Close
  <2>1. Flags'
    BY <1>11 DEF Close, Flags
  <2>2. Data'
    BY <1>11 DEF Close, Data, Progress
  <2>3. Progress' /\ Handled' /\ Truth' /\ Inspected'
    BY <1>11 DEF Close, Flags, Data, Progress, Handled, Truth, Inspected
  <2> QED
    BY <2>1, <2>2, <2>3
<1>12. CASE RestoreHandlers
  <2>1. Flags'
    BY <1>12 DEF RestoreHandlers, Flags
  <2>2. Data'
    BY <1>12 DEF RestoreHandlers, Data
  <2>3. Progress' /\ Handled' /\ Truth' /\ Inspected'
    BY <1>12 DEF RestoreHandlers, Flags, Data, Progress, Handled, Truth, Inspected
  <2> QED
    BY <2>1, <2>2, <2>3
<1>13. CASE Report
  <2>1. Flags'
    BY <1>13 DEF Report, StatusOf, Flags
  <2>2. Data'
    BY <1>13 DEF Report, StatusOf, Data
  <2>3. Progress' /\ Handled' /\ Truth' /\ Inspected'
    BY <1>13 DEF Report, StatusOf, Flags, Data, Progress, Handled, Truth, Inspected
  <2> QED
    BY <2>1, <2>2, <2>3
<1>14. CASE Signal
  <2>1. Flags'
    BY <1>14 DEF Signal, Interrupt, Kill, RequestStop, Abandoning, Unprotected, Alive, Flags
  <2>2. Data'
    BY <1>14 DEF Signal, Interrupt, Kill, RequestStop, Abandoning, Unprotected, Alive, Data
  <2>3. Progress' /\ Handled' /\ Truth' /\ Inspected'
    BY <1>14 DEF Signal, Interrupt, Kill, RequestStop, Abandoning, Unprotected, Alive,
       Flags, Data, Progress, Handled, Truth, Inspected
  <2> QED
    BY <2>1, <2>2, <2>3
<1>15. CASE ChangeFile
  <2>1. Flags'
    BY <1>15 DEF ChangeFile, Flags
  <2>2. Data'
    <3>1. files' \in [Numbers -> FilesOf(0 .. MaxChanges)] /\ path' \in Numbers \cup {Missing}
      BY <1>15 DEF ChangeFile, Data, FilesOf
    <3> QED
      BY <1>15, <3>1 DEF ChangeFile, Data
  <2>3. Progress' /\ Handled' /\ Truth' /\ Inspected'
    <3>1. Progress'
      BY <1>15 DEF ChangeFile, Flags, Data, Progress, Handled, Truth
    <3>2. Handled'
      BY <1>15 DEF ChangeFile, Handled
    <3>3. Truth'
      BY <1>15 DEF ChangeFile, Flags, Data, Progress, Truth
    <3>4. Inspected'
      <4>1. \A n \in Numbers : \/ files'[n].born = files[n].born
                             \/ files'[n].born = changes + 1
        BY <1>15 DEF ChangeFile, Data, FilesOf
      <4>2. pc = "read" => files'[descriptor] = files[descriptor] \/
                           files'[descriptor].kind = files[descriptor].kind
        BY <1>15 DEF ChangeFile, Data, FilesOf, Inspected
      <4> QED
        BY <1>15, <4>1, <4>2 DEF ChangeFile, Data, FilesOf, Inspected
    <3> QED
      BY <3>1, <3>2, <3>3, <3>4
  <2> QED
    BY <2>1, <2>2, <2>3
<1>16. CASE UNCHANGED vars
  BY <1>16 DEF Flags, Data, Progress, Handled, Truth, Inspected
<1> QED
  BY <1>1, <1>2, <1>3, <1>4, <1>5, <1>6, <1>7, <1>8, <1>9, <1>10, <1>11, <1>12, <1>13,
     <1>14, <1>15, <1>16 DEF Next, Main, Build, Foreground, Terminated

LEMMA Inductive == Spec => []IInv
<1>1. Init => IInv
  BY Initial
<1>2. IInv /\ [Next]_vars => IInv'
  BY Invariant
<1> QED
  BY <1>1, <1>2, PTL DEF Spec

-----------------------------------------------------------------------------
\* Every variable of the process keeps its type; the backend and the transport are
\* closed at most once.
THEOREM TypeCorrect == Spec => []TypeOK
<1>1. IInv => TypeOK
  BY Typed DEF IInv
<1> QED
  BY <1>1, Inductive, PTL

\* What a process has opened it has closed, once, when it ends by itself.
THEOREM ReleasedAtTheEnd == Spec => []Released
<1>1. IInv => Released
  BY DEF IInv, Progress, Released
<1> QED
  BY <1>1, Inductive, PTL

\* Success is reported only for a stop that was asked for and met no failure.
THEOREM StatusIsTrue == Spec => []StatusTellsTruth
<1>1. IInv => StatusTellsTruth
  BY DEF IInv, Truth, StatusTellsTruth
<1> QED
  BY <1>1, Inductive, PTL

\* Of the files that were there at the lstat only the one it showed may supply the
\* pin, however the path and the numbers of the files change until it is read.
THEOREM PinRead == Spec => NoOtherFileRead
<1> DEFINE ReadRight == /\ files[pin'].kind = "regular" /\ pin' = expected.number
                        /\ files[pin'].born <= expected.at => files[pin'].born = expected.born
<1>1. IInv /\ [Next]_vars => [pin' # pin => ReadRight]_vars
  <2> SUFFICES ASSUME IInv, Next, pin' # pin PROVE ReadRight
    BY DEF vars, pinFile
  <2>1. CASE ReadPin
    <3>1. pc = "read" /\ pin' = descriptor
      BY <2>1 DEF ReadPin, Step
    <3>2. expected.at \in Nat /\ files[expected.number].born \in Nat
      BY <3>1, ForegroundAssumption DEF IInv, Data, Inspected, FilesOf
    <3> QED
      BY <3>1, <3>2 DEF IInv, Inspected
  <2>2. ~ReadPin => pin' = pin
    BY DEF Next, Main, Build, Foreground, Terminated, vars, pinFile, LoadSettings, Load,
       Inspect, OpenFile, CheckFile, OpenBackend, CreateRuntime, Abandon, InstallHandlers,
       Run, Close, RestoreHandlers, Report, Signal, Interrupt, Kill, ChangeFile
  <2> QED
    BY <2>1, <2>2
<1> QED
  BY <1>1, Inductive, PTL DEF Spec, NoOtherFileRead
=============================================================================
