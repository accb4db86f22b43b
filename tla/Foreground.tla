----------------------------- MODULE Foreground -----------------------------
(***************************************************************************)
(* cli.py: one process of "smartenit-rescue run", from the construction of *)
(* the runtime to the exit status the service manager sees.                *)
(*                                                                         *)
(* A signal may arrive between any two steps.  Until the handlers are      *)
(* installed, and after they have been restored, SIGTERM kills the process *)
(* and SIGINT raises KeyboardInterrupt wherever it is; in between both set *)
(* the stop flag.  Somebody may replace or rewrite the certificate pin     *)
(* file while it is being read: an inode number is not a file, for the     *)
(* number of a file that is gone may be given to a new one.                *)
(*                                                                         *)
(* run() and close() are the ones of Bridge, by what they may raise.       *)
(***************************************************************************)
EXTENDS Naturals, FiniteSets

CONSTANTS
  Numbers,     \* inode numbers
  MaxSignals,  \* bounds on signals, and on changes of the pin file
  MaxChanges

\* A symbolic link, a FIFO or a device may be at the path; a regular file holds a
\* pin, something else, or more than _MAX_PIN_FILE_BYTES.
Kinds    == {"regular", "symlink", "fifo", "device"}
Contents == {"pin", "junk", "long"}
FilesOf(times) == [kind : Kinds, content : Contents, born : times]
Missing  == "missing"
NoFile   == "none"

ASSUME ForegroundAssumption ==
  /\ IsFiniteSet(Numbers) /\ Numbers \cap {Missing, NoFile} = {}
  /\ MaxSignals \in Nat /\ MaxChanges \in Nat

VARIABLES
  \* external: the file system
  files, path,  \* the file each number stands for, with the change that made it,
                \* and the number that is at the path
  \* the process
  gateway,      \* the backend is a Harmony G2, which needs the pin
  pc,
  expected,     \* lstat of the path: its number; which file that was, and after how
                \* many changes, is history
  descriptor,   \* file_descriptor
  pin,          \* the number of the file the accepted pin was read from
  raised,       \* the exception that is propagating: "none", "expected" (an OSError
                \* or a RescueError), "unexpected", or "interrupt"
  onInt, onTerm,  \* the handlers: "default" or "request_stop"
  stop,         \* stop_requested
  status,       \* the exit status: "0", "2", "traceback" or "killed"; "none" before
  \* history
  opened,       \* the backend has been opened
  closes, disconnects,  \* how often backend.close() and disconnect() were called
  connected,    \* run() was reached
  exposed,      \* interrupted where nothing closes what has been opened
  failed,       \* something has raised
  requested,    \* a signal has been sent
  signals, changes

disk    == <<files, path>>
pinFile == <<expected, descriptor, pin>>
handlers == <<onInt, onTerm, stop>>
history == <<opened, closes, disconnects, connected, exposed, failed, requested,
             signals, changes>>
vars == <<disk, gateway, pc, pinFile, raised, handlers, status, history>>

Init ==
  /\ files \in [Numbers -> FilesOf({0})] /\ path \in Numbers \cup {Missing}
  /\ gateway \in BOOLEAN /\ pc = "config"
  /\ expected = [number |-> NoFile, born |-> 0, at |-> 0] /\ descriptor = NoFile /\ pin = NoFile
  /\ raised = "none" /\ onInt = "default" /\ onTerm = "default" /\ stop = FALSE
  /\ status = "none" /\ opened = FALSE /\ closes = 0 /\ disconnects = 0
  /\ connected = FALSE /\ exposed = FALSE /\ failed = FALSE /\ requested = FALSE
  /\ signals = 0 /\ changes = 0

-----------------------------------------------------------------------------
\* The next step, or an exception that goes where next and handler say.
Step(from, to) == pc = from /\ pc' = to /\ UNCHANGED <<raised, failed>>

Raise(from, to, kinds) ==
  /\ pc = from /\ pc' = to /\ raised' \in kinds /\ failed' = TRUE

Errors == {"expected", "unexpected"}

Load(from, to) ==
  /\ Step(from, to) \/ Raise(from, "report", Errors)
  /\ UNCHANGED <<disk, gateway, pinFile, handlers, status, opened, closes, disconnects,
                 connected, exposed, requested, signals, changes>>

\* load_config, load_credentials and iter_builtin_profiles, in this order.
LoadSettings ==
  \/ Load("config", "credentials")
  \/ Load("credentials", "profiles")
  \/ Load("profiles", IF gateway THEN "lstat" ELSE "open_backend")

\* What is at the path is a short regular file.
LooksRight ==
  path # Missing /\ files[path].kind = "regular" /\ files[path].content # "long"

\* _read_certificate_pin: lstat.
Inspect ==
  /\ pc = "lstat"
  /\ \/ /\ LooksRight /\ Step("lstat", "open")
        /\ expected' = [number |-> path, born |-> files[path].born, at |-> changes]
     \/ ~LooksRight /\ Raise("lstat", "report", {"expected"}) /\ UNCHANGED expected
  /\ UNCHANGED <<disk, gateway, descriptor, pin, handlers, status, opened, closes,
                 disconnects, connected, exposed, requested, signals, changes>>

\* os.open with O_NOFOLLOW; that of a FIFO does not return.
Opens(kinds) == path # Missing /\ files[path].kind \in kinds

OpenFile ==
  /\ pc = "open"
  /\ \/ Opens({"regular", "device"}) /\ descriptor' = path /\ Step("open", "fstat")
     \/ ~Opens(Kinds \ {"symlink"}) /\ Raise("open", "report", {"expected"})
        /\ UNCHANGED descriptor
  /\ UNCHANGED <<disk, gateway, expected, pin, handlers, status, opened, closes,
                 disconnects, connected, exposed, requested, signals, changes>>

\* Mutant of SameFile: any regular file will do.
RegularFile == files[descriptor].kind = "regular"

\* fstat: a regular file, of the same number.
SameFile == files[descriptor].kind = "regular" /\ descriptor = expected.number

CheckFile ==
  /\ pc = "fstat"
  /\ \/ SameFile /\ Step("fstat", "read") /\ UNCHANGED descriptor
     \/ ~SameFile /\ Raise("fstat", "report", {"expected"}) /\ descriptor' = NoFile
  /\ UNCHANGED <<disk, gateway, expected, pin, handlers, status, opened, closes,
                 disconnects, connected, exposed, requested, signals, changes>>

\* The read of one byte more than a pin file may have; the descriptor is closed
\* in any case.
ReadPin ==
  /\ pc = "read"
  /\ \/ /\ files[descriptor].content = "pin"
        /\ pin' = descriptor /\ Step("read", "open_backend")
     \/ Raise("read", "report", {"expected"}) /\ UNCHANGED pin
  /\ descriptor' = NoFile
  /\ UNCHANGED <<disk, gateway, expected, handlers, status, opened, closes,
                 disconnects, connected, exposed, requested, signals, changes>>

\* backend_builder, which closes nothing when it raises.
OpenBackend ==
  /\ \/ Step("open_backend", "returned") /\ opened' = TRUE
     \/ Raise("open_backend", "report", Errors) /\ UNCHANGED opened
  /\ UNCHANGED <<disk, gateway, pinFile, handlers, status, closes, disconnects,
                 connected, exposed, requested, signals, changes>>

\* Mutant of Abandoning: only an error closes the backend.
AbandoningErrors(from, kinds) == Raise(from, IF kinds = {"interrupt"} THEN "report" ELSE "abandon", kinds)

\* except BaseException: backend.close(), and the exception goes on.
Abandoning(from, kinds) == Raise(from, "abandon", kinds)

Abandon ==
  /\ pc = "abandon" /\ pc' = "report" /\ closes' = closes + 1
  /\ \/ UNCHANGED <<raised, failed>>
     \/ raised' \in Errors /\ failed' = TRUE
  /\ UNCHANGED <<disk, gateway, pinFile, handlers, status, opened, disconnects,
                 connected, exposed, requested, signals, changes>>

\* transport_factory and runtime_factory, inside the try.
CreateRuntime ==
  /\ \/ Step("returned", "transport")
     \/ Step("transport", "runtime") \/ Abandoning("transport", Errors)
     \/ Step("runtime", "built") \/ Abandoning("runtime", Errors)
  /\ UNCHANGED <<disk, gateway, pinFile, handlers, status, opened, closes, disconnects,
                 connected, exposed, requested, signals, changes>>

-----------------------------------------------------------------------------
\* _run_foreground
InstallHandlers ==
  /\ \/ Step("built", "half_installed") /\ onInt' = "request_stop" /\ UNCHANGED <<onTerm, connected>>
     \/ /\ Step("half_installed", "run") /\ onTerm' = "request_stop" /\ connected' = TRUE
        /\ UNCHANGED onInt
  /\ UNCHANGED <<disk, gateway, pinFile, stop, status, opened, closes, disconnects,
                 exposed, requested, signals, changes>>

\* run() returns when it finds the flag set, within 0.2 s, or raises.
Run ==
  /\ \/ stop /\ Step("run", "close")
     \/ Raise("run", "close", Errors)
  /\ UNCHANGED <<disk, gateway, pinFile, handlers, status, opened, closes, disconnects,
                 connected, exposed, requested, signals, changes>>

\* BridgeRuntime.close: the last publication, the backend, the transport, each in
\* the finally of the one before it.
Close ==
  /\ \/ Step("close", "close_backend") /\ UNCHANGED <<closes, disconnects>>
     \/ Raise("close", "close_backend", Errors) /\ UNCHANGED <<closes, disconnects>>
     \/ /\ Step("close_backend", "disconnect") \/ Raise("close_backend", "disconnect", Errors)
        /\ closes' = closes + 1 /\ UNCHANGED disconnects
     \/ /\ Step("disconnect", "restore_int") \/ Raise("disconnect", "restore_int", Errors)
        /\ disconnects' = disconnects + 1 /\ UNCHANGED closes
  /\ UNCHANGED <<disk, gateway, pinFile, handlers, status, opened, connected, exposed,
                 requested, signals, changes>>

RestoreHandlers ==
  /\ \/ Step("restore_int", "restore_term") /\ onInt' = "default" /\ UNCHANGED onTerm
     \/ Step("restore_term", "report") /\ onTerm' = "default" /\ UNCHANGED onInt
  /\ UNCHANGED <<disk, gateway, pinFile, stop, status, opened, closes, disconnects,
                 connected, exposed, requested, signals, changes>>

\* Mutant of StatusOf: what close() raised is not told.
StatusOfStopped == IF stop THEN "0" ELSE IF raised = "expected" THEN "2" ELSE "traceback"

\* _run: an OSError or a RescueError is a message and a 2; anything else is
\* left to the interpreter.
StatusOf == CASE raised = "none"     -> "0"
              [] raised = "expected" -> "2"
              [] OTHER               -> "traceback"

Report ==
  /\ pc = "report" /\ pc' = "exited" /\ status' = StatusOf
  /\ UNCHANGED <<disk, gateway, pinFile, raised, handlers, history>>

-----------------------------------------------------------------------------
(***************************************************************************)
(* Signals, and the pin file (external).                                   *)
(***************************************************************************)
Alive == pc # "exited"

\* Where KeyboardInterrupt goes: after the call of backend_builder has returned
\* and before its result is bound, or between the runtime and its try, nothing
\* closes what has been opened; nor while the backend is being closed.
Unprotected == {"returned", "built", "abandon"}

Interrupt ==
  /\ \/ pc \in {"transport", "runtime"} /\ Abandoning(pc, {"interrupt"}) /\ UNCHANGED exposed
     \/ /\ pc \notin {"transport", "runtime"} /\ Raise(pc, "report", {"interrupt"})
        /\ exposed' = (exposed \/ pc \in Unprotected)
  /\ descriptor' = NoFile
  /\ UNCHANGED <<expected, pin, status>>

Kill == /\ pc' = "exited" /\ status' = "killed"
        /\ UNCHANGED <<pinFile, raised, failed, exposed>>

\* Mutant of RequestStop: the handler sets a variable of its own.
RequestNothing == UNCHANGED stop

RequestStop == stop' = TRUE

Signal ==
  /\ Alive /\ signals < MaxSignals /\ signals' = signals + 1 /\ requested' = TRUE
  /\ \/ onInt = "default" /\ Interrupt /\ UNCHANGED stop
     \/ onTerm = "default" /\ Kill /\ UNCHANGED stop
     \/ /\ "request_stop" \in {onInt, onTerm}
        /\ RequestStop /\ UNCHANGED <<pc, pinFile, raised, failed, exposed, status>>
  /\ UNCHANGED <<disk, gateway, onInt, onTerm, opened, closes, disconnects, connected, changes>>

\* The pin file is removed or rewritten, or another one takes its place: one that
\* was there before, or a new one.  A number is free for a new file once its file
\* is gone and no descriptor holds it.
ChangeFile ==
  /\ Alive /\ changes < MaxChanges /\ changes' = changes + 1
  /\ \/ path' = Missing /\ UNCHANGED files
     \/ \E n \in Numbers \ {path} : path' = n /\ UNCHANGED files
     \/ \E n \in Numbers \ {descriptor, path}, f \in FilesOf({changes + 1}) :
          path' = n /\ files' = [files EXCEPT ![n] = f]
     \/ /\ path # Missing /\ UNCHANGED path
        /\ \E c \in Contents : files' = [files EXCEPT ![path].content = c]
  /\ UNCHANGED <<gateway, pc, pinFile, raised, handlers, status, opened, closes,
                 disconnects, connected, exposed, failed, requested, signals>>

-----------------------------------------------------------------------------
Build == \/ LoadSettings \/ Inspect \/ OpenFile \/ CheckFile \/ ReadPin \/ OpenBackend
         \/ CreateRuntime \/ Abandon
Foreground == InstallHandlers \/ Run \/ Close \/ RestoreHandlers \/ Report
Main == Build \/ Foreground

Terminated == pc = "exited" /\ UNCHANGED vars

Next == Main \/ Signal \/ ChangeFile \/ Terminated

Spec == Init /\ [][Next]_vars

\* The main thread goes on wherever it can, but no failure of run() is assumed:
\* without a stop it may run for ever.  Nothing is assumed of signals.
FairSpec == Spec /\ WF_vars(Main /\ (pc = "run" => stop))

-----------------------------------------------------------------------------
\* Type invariant.
TypeOK ==
  /\ files \in [Numbers -> FilesOf(0 .. MaxChanges)] /\ path \in Numbers \cup {Missing}
  /\ gateway \in BOOLEAN
  /\ pc \in {"config", "credentials", "profiles", "lstat", "open", "fstat", "read",
             "open_backend", "returned", "transport", "runtime", "abandon", "built",
             "half_installed", "run", "close", "close_backend", "disconnect",
             "restore_int", "restore_term", "report", "exited"}
  /\ expected \in [number : Numbers \cup {NoFile}, born : 0 .. MaxChanges, at : 0 .. MaxChanges]
  /\ descriptor \in Numbers \cup {NoFile} /\ pin \in Numbers \cup {NoFile}
  /\ raised \in {"none", "interrupt"} \cup Errors
  /\ onInt \in {"default", "request_stop"} /\ onTerm \in {"default", "request_stop"}
  /\ stop \in BOOLEAN /\ status \in {"none", "0", "2", "traceback", "killed"}
  /\ opened \in BOOLEAN /\ closes \in 0 .. 1 /\ disconnects \in 0 .. 1
  /\ connected \in BOOLEAN /\ exposed \in BOOLEAN /\ failed \in BOOLEAN
  /\ requested \in BOOLEAN /\ signals \in 0 .. MaxSignals /\ changes \in 0 .. MaxChanges

\* A process that ends by itself has closed the backend it opened, once, and the
\* transport, whatever failed and wherever it was interrupted, but for the few
\* points where an exception finds nothing to close it.
Released ==
  pc = "exited" /\ status # "killed" /\ ~exposed =>
    /\ closes = IF opened THEN 1 ELSE 0
    /\ disconnects = IF connected THEN 1 ELSE 0

\* The service manager starts the bridge again unless it reports success: it does
\* so only after a stop was asked for and nothing has failed, in closing either.
StatusTellsTruth ==
  status = "0" => requested /\ stop /\ ~failed /\ closes = 1 /\ disconnects = 1

\* _read_certificate_pin: whatever is done to the path between lstat, open and
\* fstat, of all the files there were at the lstat only the one it showed may
\* supply the pin; and never a link, a FIFO or a device.  The numbers it compares
\* do not exclude a file made since then, which was given the same number; and a
\* file rewritten in place is still the same.
NoOtherFileRead ==
  [][pin' # pin =>
       /\ files[pin'].kind = "regular" /\ pin' = expected.number
       /\ files[pin'].born <= expected.at => files[pin'].born = expected.born]_vars

\* A signal ends the process, at whatever step it arrives.
StopIsHonoured == requested ~> (pc = "exited")
=============================================================================
