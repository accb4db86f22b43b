------------------------ MODULE PinnedRequest_proofs ------------------------
(***************************************************************************)
(* The theorems about PinnedRequest, for any time-out, any number of       *)
(* pieces an answer may arrive in, and however many of them are counted.   *)
(***************************************************************************)
EXTENDS PinnedRequest, TLAPS

-----------------------------------------------------------------------------
(***************************************************************************)
(* The inductive invariant.                                                *)
(***************************************************************************)
\* What is Boolean, and the rest of TypeOK.
Flags == started \in BOOLEAN /\ online \in BOOLEAN

Data ==
  /\ cert \in {"pinned", "other"} /\ arrived \in 0 .. Sends
  /\ fate \in {"none", "executed", "refused"}
  /\ answer \in {"none", "success", "unfit", "error", "bad", "forbidden"}
  /\ pc \in Waiting \cup {"idle", "done"}
  /\ sent \in 0 .. Sends /\ pieces \in 0 .. Pieces
  /\ timeout \in 1 .. Timeout /\ waited \in 0 .. timeout /\ clock \in 0 .. Late
  /\ status \in {"none", "accepted", "rejected", "indeterminate"}

\* A request is started, to the pinned host, before anything of it is sent.
StartInv ==
  /\ pc \in Connecting \cup {"idle"} => sent = 0 /\ started = FALSE
  /\ pc \in {"send", "head", "body"} => started = TRUE /\ cert = "pinned"
  /\ pc = "send" => sent < Sends
  /\ sent > 0 => started = TRUE /\ cert = "pinned"
  /\ arrived <= sent

\* The gateway executes what it has received whole, and answers accordingly.
GatewayInv ==
  /\ fate = "executed" => arrived = Sends
  /\ answer \in {"bad", "forbidden"} <=> fate = "refused"
  /\ answer = "success" => fate = "executed"

\* A result tells what the gateway has done, or cannot do any more.
ResultInv ==
  /\ status # "none" => pc = "done"
  /\ escaped => answer = "unfit" /\ started = TRUE /\ fate \in {"none", "executed"}
  /\ pc \in Waiting => online = TRUE
  /\ status = "accepted" => fate = "executed"
  /\ status = "rejected" => fate = "refused" \/ sent = 0

\* The clock at the beginning of each operation.
ClockInv ==
  /\ pc = "idle" => clock = 0 /\ waited = 0
  /\ pc = "connect" => clock <= waited
  /\ pc = "handshake" => clock <= Timeout + waited
  /\ pc \in Connecting \cup {"idle", "send"} => pieces = 0
  /\ pc = "send" /\ sent = 0 => clock + timeout <= Timeout + waited
  /\ pc = "send" /\ sent = 1 => clock <= Timeout + waited
  /\ pc \in {"head", "body"} /\ pieces < Pieces => clock <= Timeout + pieces * Timeout + waited
  /\ pc = "done" => Bounded

IInv == Data /\ Flags /\ StartInv /\ GatewayInv /\ ResultInv /\ ClockInv

-----------------------------------------------------------------------------
LEMMA LateTyped == Late \in Nat
<1>1. (2 + Pieces) * Timeout \in Nat
  BY PinnedAssumption
<1> QED BY <1>1 DEF Late

LEMMA Typed == Data /\ Flags <=> TypeOK
  BY DEF Data, Flags, TypeOK

\* However an operation ends, the clock is within its bound.
LEMMA InTime == IInv /\ pc \in Waiting => Bounded
<1> SUFFICES ASSUME IInv, pc \in Waiting PROVE Bounded
  OBVIOUS
<1> USE PinnedAssumption DEF IInv, Data, Sends
<1>1. waited <= Timeout
  OBVIOUS
<1>2. (2 + pieces) * Timeout = Timeout + pieces * Timeout + Timeout
  OBVIOUS
<1>3. CASE pc \in Connecting \cup {"send"}
  <2>1. pieces = 0 /\ clock <= Timeout + Timeout
    BY <1>1, <1>3 DEF Connecting, ClockInv, StartInv
  <2>2. 0 * Timeout = 0
    OBVIOUS
  <2> QED BY <1>2, <2>1, <2>2 DEF Bounded
<1>4. CASE pc \in {"head", "body"}
  <2>1. pieces * Timeout \in Int
    OBVIOUS
  <2> QED BY <1>1, <1>2, <1>4, <2>1 DEF ClockInv, Bounded
<1> QED BY <1>3, <1>4 DEF Waiting

-----------------------------------------------------------------------------
\* The invariant holds before the command is submitted.
LEMMA InitHolds == Init => IInv
<1> SUFFICES ASSUME Init PROVE IInv
  OBVIOUS
<1> USE PinnedAssumption DEF Init, Sends
<1>1. Data
  BY LateTyped DEF Data, Waiting, Connecting
<1>2. Flags
  BY DEF Flags
<1>3. StartInv /\ GatewayInv /\ ResultInv /\ ClockInv
  BY DEF escaped, StartInv, GatewayInv, ResultInv, ClockInv, Waiting, Connecting, Bounded
<1> QED BY <1>1, <1>2, <1>3 DEF IInv

USE PinnedAssumption DEF Sends, Waiting, Connecting, peer, Remaining, escaped

\* A failure without an answer keeps it, wherever it comes from.
LEMMA RaiseKeeps ==
  ASSUME IInv, pc \in Waiting, Raise, UNCHANGED <<peer, clock>>,
         sent' \in 0 .. Sends, sent' >= sent, pc = "send" \/ sent' = sent
  PROVE  IInv'
<1> USE DEF IInv
<1>1. /\ pc' = "done" /\ UNCHANGED <<started, timeout, waited, pieces>>
      /\ status' = (IF started THEN "indeterminate" ELSE "rejected")
      /\ online' = FALSE
  BY DEF Raise, Finish
<1>2. Data'
  BY <1>1 DEF Data
<1>3. Flags'
  BY <1>1 DEF Flags
<1>4. StartInv'
  BY <1>1 DEF Data, StartInv
<1>5. GatewayInv'
  BY DEF GatewayInv
<1>6. ResultInv'
  BY <1>1 DEF Data, StartInv, ResultInv
<1>7. ClockInv'
  BY <1>1, InTime DEF ClockInv, Bounded
<1> QED BY <1>2, <1>3, <1>4, <1>5, <1>6, <1>7

\* An answer that ends the request keeps it, if the result is the gateway's.
LEMMA FinishKeeps ==
  ASSUME IInv, NEW result, NEW up \in BOOLEAN,
         pc \in {"head", "body"}, Finish(result, up), UNCHANGED <<peer, sent, clock>>,
         \/ result = "accepted" /\ fate = "executed"
         \/ result = "rejected" /\ fate = "refused"
         \/ result = "indeterminate"
  PROVE  IInv'
<1> USE DEF IInv
<1>1. /\ pc' = "done" /\ UNCHANGED <<started, timeout, waited, pieces>>
      /\ status' = result /\ online' = up
  BY DEF Finish
<1>2. Data'
  BY <1>1 DEF Data
<1>3. Flags'
  BY <1>1 DEF Flags
<1>4. StartInv'
  BY <1>1 DEF Data, StartInv
<1>5. GatewayInv'
  BY DEF GatewayInv
<1>6. ResultInv'
  BY <1>1 DEF Data, ResultInv
<1>7. ClockInv'
  BY <1>1, InTime DEF ClockInv, Bounded
<1> QED BY <1>2, <1>3, <1>4, <1>5, <1>6, <1>7

\* Time, and what the gateway does on its own.
LEMMA EnvironmentKeeps == IInv /\ (Tick \/ Gateway) => IInv'
<1> SUFFICES ASSUME IInv, Tick \/ Gateway PROVE IInv'
  OBVIOUS
<1> USE DEF IInv
<1>1. CASE Tick
  <2>1. Data'
    BY <1>1, LateTyped DEF Tick, Data
  <2>2. Flags' /\ StartInv' /\ GatewayInv' /\ ResultInv'
    BY <1>1 DEF Tick, Flags, StartInv, GatewayInv, ResultInv
  <2>3. sent * Timeout \in Int /\ pieces * Timeout \in Int
    BY DEF Data
  <2>4. ClockInv'
    BY <1>1, <2>3 DEF Tick, Data, ClockInv
  <2> QED BY <2>1, <2>2, <2>4
<1>2. CASE Gateway
  <2> USE <1>2 DEF Gateway, Arrive, Execute, GatewayAnswers
  <2>1. Data'
    BY DEF Data, StartInv
  <2>2. Flags'
    BY DEF Flags
  <2>3. StartInv'
    BY DEF Data, StartInv
  <2>4. GatewayInv'
    BY DEF Data, GatewayInv, StartInv
  <2>5. ResultInv'
    BY DEF Data, GatewayInv, StartInv, ResultInv
  <2>6. ClockInv'
    BY DEF ClockInv, Bounded
  <2> QED BY <2>1, <2>2, <2>3, <2>4, <2>5, <2>6
<1> QED BY <1>1, <1>2

\* Every step of the request.
LEMMA RequestKeeps == IInv /\ Request => IInv'
<1> SUFFICES ASSUME IInv, Request PROVE IInv'
  OBVIOUS
<1> USE DEF IInv
<1>1. CASE Begin
  <2> USE <1>1 DEF Begin
  <2>1. Data' /\ StartInv' /\ GatewayInv'
    BY DEF Data, StartInv, GatewayInv
  <2>2. Flags' /\ ResultInv'
    BY DEF Flags, ResultInv
  <2>3. ClockInv'
    BY DEF ClockInv, Data
  <2> QED BY <2>1, <2>2, <2>3
<1>2. CASE Connected
  <2> USE <1>2 DEF Connected, Proceed
  <2>1. Data' /\ StartInv' /\ GatewayInv'
    BY DEF Data, StartInv, GatewayInv
  <2>2. Flags' /\ ResultInv'
    BY DEF Flags, ResultInv
  <2>3. ClockInv'
    BY DEF ClockInv, Data
  <2> QED BY <2>1, <2>2, <2>3
<1>3. CASE Secured
  <2>1. CASE cert = "pinned" /\ Remaining > 0
    <3> USE <1>3, <2>1 DEF Secured, Proceed
    <3>1. Data' /\ StartInv' /\ GatewayInv'
      BY DEF Data, StartInv, GatewayInv
    <3>2. Flags' /\ ResultInv'
      BY DEF Flags, ResultInv
    <3>3. sent' = 0
      BY DEF StartInv
    <3>4. ClockInv'
      BY <3>3 DEF ClockInv, Data
    <3> QED BY <3>1, <3>2, <3>4
  <2>2. CASE ~(cert = "pinned" /\ Remaining > 0)
    BY <1>3, <2>2, RaiseKeeps DEF Secured, Data
  <2> QED BY <2>1, <2>2
<1>4. CASE SendHeaders
  <2> USE <1>4 DEF SendHeaders
  <2>1. Data' /\ StartInv' /\ GatewayInv'
    BY DEF Data, StartInv, GatewayInv
  <2>2. Flags' /\ ResultInv'
    BY DEF Flags, ResultInv
  <2>3. ClockInv'
    BY DEF ClockInv, Data
  <2> QED BY <2>1, <2>2, <2>3
<1>5. CASE SendBody
  <2>1. CASE Remaining > 0
    <3> USE <1>5, <2>1 DEF SendBody, Proceed
    <3>1. Data' /\ StartInv' /\ GatewayInv'
      BY DEF Data, StartInv, GatewayInv
    <3>2. Flags' /\ ResultInv'
      BY DEF Flags, ResultInv
    <3>3. 0 * Timeout = 0
      OBVIOUS
    <3>4. ClockInv'
      BY <3>3 DEF ClockInv, Data
    <3> QED BY <3>1, <3>2, <3>4
  <2>2. CASE ~(Remaining > 0)
    BY <1>5, <2>2, RaiseKeeps DEF SendBody, Data
  <2> QED BY <2>1, <2>2
<1>6. CASE ReadMore
  <2> USE <1>6 DEF ReadMore
  <2>1. Data' /\ StartInv' /\ GatewayInv'
    BY DEF Data, StartInv, GatewayInv
  <2>2. Flags' /\ ResultInv'
    BY DEF Flags, ResultInv
  <2>3. (pieces + 1) * Timeout = pieces * Timeout + Timeout /\ pieces * Timeout \in Int
    BY DEF Data
  <2>4. ClockInv'
    BY <2>3 DEF ClockInv, Data
  <2> QED BY <2>1, <2>2, <2>4
<1>7. CASE ReadHead
  <2>1. CASE answer \in {"error", "bad", "forbidden"} /\ StatusError
    <3>1. CASE answer = "error"
      BY <1>7, <2>1, <3>1, FinishKeeps DEF ReadHead, StatusError
    <3>2. CASE answer \in {"bad", "forbidden"}
      <4>1. (answer = "bad" /\ online) \in BOOLEAN
        OBVIOUS
      <4>2. fate = "refused"
        BY <3>2 DEF GatewayInv
      <4> QED BY <1>7, <2>1, <3>2, <4>1, <4>2, FinishKeeps DEF ReadHead, StatusError
    <3> QED BY <2>1, <3>1, <3>2
  <2>2. CASE Raise
    BY <1>7, <2>2, RaiseKeeps DEF ReadHead, Data
  <2>3. CASE Remaining > 0 /\ \E limit \in {Remaining, timeout} : Proceed("body", limit)
    <3> USE <1>7, <2>3 DEF ReadHead, Proceed
    <3>1. Data' /\ StartInv' /\ GatewayInv'
      BY DEF Data, StartInv, GatewayInv
    <3>2. Flags' /\ ResultInv'
      BY DEF Flags, ResultInv
    <3>3. 0 * Timeout = 0
      OBVIOUS
    <3>4. ClockInv'
      BY <3>3 DEF ClockInv, Data
    <3> QED BY <3>1, <3>2, <3>4
  <2> QED BY <1>7, <2>1, <2>2, <2>3 DEF ReadHead
<1>8. CASE ReadBody
  <2>1. CASE answer = "success"
    <3>1. online \in BOOLEAN
      BY DEF Flags
    <3>2. fate = "executed"
      BY <2>1 DEF GatewayInv
    <3> QED BY <1>8, <2>1, <3>1, <3>2, FinishKeeps DEF ReadBody
  <2>2. CASE answer # "success"
    BY <1>8, <2>2, RaiseKeeps DEF ReadBody, Data
  <2> QED BY <2>1, <2>2
<1>9. CASE TimesOut \/ Breaks
  <2>1. /\ pc \in Waiting /\ Raise /\ UNCHANGED <<peer, clock>>
        /\ sent' \in IF pc = "send" THEN {sent, sent + 1} ELSE {sent}
    BY <1>9 DEF TimesOut, Breaks
  <2>2. sent' \in 0 .. Sends /\ sent' >= sent /\ (pc = "send" \/ sent' = sent)
    BY <2>1 DEF Data, StartInv
  <2> QED BY <2>1, <2>2, RaiseKeeps
<1>10. CASE Escapes
  <2> USE <1>10 DEF Escapes
  <2>1. Data' /\ StartInv' /\ GatewayInv'
    BY DEF Data, StartInv, GatewayInv
  <2>2. Flags' /\ status' = "none" /\ started = TRUE /\ fate \in {"none", "executed"}
    BY DEF Flags, Data, StartInv, GatewayInv, ResultInv
  <2>3. ResultInv'
    BY <2>2 DEF ResultInv, escaped
  <2>4. ClockInv'
    BY InTime DEF ClockInv, Bounded
  <2> QED BY <2>1, <2>2, <2>3, <2>4
<1> QED BY <1>1, <1>2, <1>3, <1>4, <1>5, <1>6, <1>7, <1>8, <1>9, <1>10 DEF Request

\* Every step keeps the invariant, and so it holds throughout.
LEMMA Invariance == Spec => []IInv
<1>1. IInv /\ UNCHANGED vars => IInv'
  BY DEF IInv, Data, Flags, StartInv, GatewayInv, ResultInv, ClockInv, Bounded, vars
<1>2. IInv /\ [Next]_vars => IInv'
  BY <1>1, EnvironmentKeeps, RequestKeeps DEF Next, Over
<1> QED BY <1>2, InitHolds, PTL DEF Spec

-----------------------------------------------------------------------------
\* Every variable keeps its type; no socket is made non-blocking by a time-out of 0.
THEOREM TypeCorrect == Spec => []TypeOK
<1>1. IInv => TypeOK
  BY Typed DEF IInv
<1> QED BY <1>1, Invariance, PTL

\* Nothing of a request is sent to a host that does not show the pinned certificate.
THEOREM Pinned == Spec => []OnlyToThePinned
<1>1. IInv => OnlyToThePinned
  BY DEF IInv, StartInv, OnlyToThePinned
<1> QED BY <1>1, Invariance, PTL

\* A request outlasts its deadline by one time-out, and one for each piece it got.
THEOREM Duration == Spec => []Bounded
<1>1. IInv /\ pc \in {"idle", "done"} => Bounded
  <2> SUFFICES ASSUME IInv, pc = "idle" PROVE Bounded
    BY DEF IInv, ClockInv
  <2>1. clock = 0 /\ pieces = 0 /\ (2 + 0) * Timeout >= 0
    BY PinnedAssumption DEF IInv, ClockInv
  <2> QED BY <2>1 DEF Bounded
<1>2. IInv => Bounded
  BY <1>1, InTime DEF IInv, Data
<1> QED BY <1>2, Invariance, PTL

-----------------------------------------------------------------------------
(***************************************************************************)
(* The refinement of CommandBackend: only the end of the request, and an   *)
(* execution after it, change what the gateway is known to have done.      *)
(***************************************************************************)
USE DEF Promise!vars, Promise!Next, Promise!Unanswered

\* The result of a command and what became of it may be told together so.
LEMMA EndRefines ==
  ASSUME IInv, pc \in Waiting, NEW result, NEW up \in BOOLEAN,
         pc' = "done", status' = result, online' = up, UNCHANGED fate,
         \/ result = "accepted" /\ fate = "executed" /\ up = TRUE
         \/ result = "rejected" /\ fate \in {"none", "refused"}
         \/ result = "indeterminate" /\ up = FALSE
  PROVE  [Promise!Next]_(Promise!vars)
<1>1. status = "none" /\ gate = "unsent" /\ offered' = up
  BY DEF IInv, Data, ResultInv, gate, offered, escaped
<1>2. gate' = (IF fate = "executed" THEN "executed"
               ELSE IF result = "indeterminate" THEN "pending"
               ELSE IF fate = "refused" THEN "refused" ELSE "unsent")
  BY DEF gate, escaped
<1>3. CASE result = "accepted"
  BY <1>1, <1>2, <1>3 DEF Promise!Accept
<1>4. CASE result = "rejected"
  BY <1>1, <1>2, <1>4 DEF Promise!Reject
<1>5. CASE result = "indeterminate"
  BY <1>1, <1>2, <1>5 DEF Promise!Doubt
<1> QED BY <1>3, <1>4, <1>5

\* A failure without an answer tells the truth: before submission nothing of the
\* command has left.
LEMMA RaiseRefines ==
  ASSUME IInv, pc \in Waiting, Raise, UNCHANGED fate
  PROVE  [Promise!Next]_(Promise!vars)
<1>1. CASE started
  <2>1. pc' = "done" /\ status' = "indeterminate" /\ online' = FALSE
    BY <1>1 DEF Raise, Finish
  <2> QED BY <2>1, EndRefines
<1>2. CASE ~started
  <2>1. pc' = "done" /\ status' = "rejected" /\ online' = FALSE
    BY <1>2 DEF Raise, Finish
  <2>2. fate # "executed"
    BY <1>2 DEF IInv, Data, StartInv, GatewayInv
  <2>3. fate \in {"none", "refused"}
    BY <2>2 DEF IInv, Data
  <2> QED BY <2>1, <2>3, EndRefines
<1> QED BY <1>1, <1>2

LEMMA StepRefines == IInv /\ [Next]_vars => [Promise!Next]_(Promise!vars)
<1> SUFFICES ASSUME IInv, [Next]_vars PROVE [Promise!Next]_(Promise!vars)
  OBVIOUS
<1>1. CASE UNCHANGED <<status, online, fate>> /\ (pc' = "done" <=> pc = "done")
  BY <1>1 DEF gate, offered, escaped
<1>2. CASE Begin
  <2>1. pc # "done" /\ pc' # "done" /\ online' \in BOOLEAN /\ UNCHANGED <<status, fate>>
    BY <1>2 DEF Begin
  <2>2. UNCHANGED gate /\ offered' \in BOOLEAN
    BY <2>1 DEF gate, offered, escaped
  <2> QED BY <2>1, <2>2 DEF Promise!ChangeAvailability
<1>3. CASE Execute
  <2>1. fate = "none" /\ fate' = "executed" /\ UNCHANGED <<pc, status, online>>
    BY <1>3 DEF Execute
  <2>2. pc = "done" => status \in {"none", "indeterminate"}
    BY <1>3 DEF Execute, IInv, Data, ResultInv, StartInv
  <2>3. UNCHANGED offered
    BY <2>1 DEF offered, escaped
  <2>4. CASE pc # "done"
    BY <2>1, <2>3, <2>4 DEF gate
  <2>5. CASE pc = "done"
    <3>1. gate = "pending" /\ gate' = "executed"
      BY <2>1, <2>2, <2>5 DEF gate, escaped
    <3> QED BY <2>1, <2>3, <3>1 DEF Promise!TakeEffect
  <2> QED BY <2>4, <2>5
<1>4. CASE GatewayAnswers
  <2>1. /\ UNCHANGED <<pc, status, online>> /\ answer = "none"
        /\ UNCHANGED fate \/ (fate = "none" /\ fate' = "refused")
    BY <1>4 DEF GatewayAnswers
  <2>2. ~escaped
    BY <1>4 DEF GatewayAnswers, IInv, ResultInv
  <2>3. pc = "done" => status \in {"none", "indeterminate"} \/ UNCHANGED fate
    BY <1>4 DEF GatewayAnswers, IInv, Data, ResultInv, StartInv
  <2>4. UNCHANGED <<gate, offered>>
    BY <2>1, <2>2, <2>3 DEF gate, offered, escaped
  <2> QED BY <2>1, <2>4
<1>5. CASE Raise /\ pc \in Waiting /\ UNCHANGED fate
  BY <1>5, RaiseRefines
<1>6. CASE ReadHead
  <2>1. CASE answer \in {"error", "bad", "forbidden"} /\ StatusError
    <3>1. pc \in Waiting /\ UNCHANGED fate
      BY <1>6 DEF ReadHead
    <3>2. CASE answer = "error"
      <4>1. pc' = "done" /\ status' = "indeterminate" /\ online' = FALSE
        BY <2>1, <3>2 DEF StatusError, Finish
      <4> QED BY <3>1, <4>1, EndRefines
    <3>3. CASE answer \in {"bad", "forbidden"}
      <4>1. pc' = "done" /\ status' = "rejected" /\ online' = (answer = "bad" /\ online)
        BY <2>1, <3>3 DEF StatusError, Finish
      <4>2. fate = "refused"
        BY <3>3 DEF IInv, GatewayInv
      <4>3. online' \in BOOLEAN
        BY <4>1
      <4> QED BY <3>1, <4>1, <4>2, <4>3, EndRefines
    <3> QED BY <2>1, <3>2, <3>3
  <2>2. CASE \E limit \in {Remaining, timeout} : Proceed("body", limit)
    BY <1>1, <1>6, <2>2 DEF ReadHead, Proceed
  <2> QED BY <1>5, <1>6, <2>1, <2>2 DEF ReadHead
<1>7. CASE ReadBody
  <2>1. CASE answer = "success"
    <3>1. pc' = "done" /\ status' = "accepted" /\ online' = online /\ pc \in Waiting /\ UNCHANGED fate
      BY <1>7, <2>1 DEF ReadBody, Finish
    <3>2. online = TRUE /\ fate = "executed"
      BY <2>1, <3>1 DEF IInv, ResultInv, GatewayInv
    <3> QED BY <3>1, <3>2, EndRefines
  <2> QED BY <1>5, <1>7, <2>1 DEF ReadBody
<1>8. CASE Secured
  BY <1>1, <1>5, <1>8 DEF Secured, Proceed
<1>9. CASE SendBody
  BY <1>1, <1>5, <1>9 DEF SendBody, Proceed
<1>10. CASE TimesOut \/ Breaks
  BY <1>5, <1>10 DEF TimesOut, Breaks
<1>11. CASE Tick \/ Arrive \/ Connected \/ SendHeaders \/ ReadMore
  BY <1>1, <1>11 DEF Tick, Arrive, Connected, Proceed, SendHeaders, ReadMore
<1>12. CASE Escapes
  <2>1. /\ pc # "done" /\ pc' = "done" /\ status = "none" /\ status' = "none"
        /\ UNCHANGED fate /\ fate \in {"none", "executed"}
    BY <1>12 DEF Escapes, IInv, Data, ResultInv, GatewayInv
  <2>2. gate = "unsent" /\ gate' \in {"pending", "executed"} /\ offered' = FALSE
    BY <2>1 DEF gate, offered, escaped
  <2> QED BY <2>1, <2>2 DEF Promise!Abandon
<1>13. CASE UNCHANGED vars
  BY <1>1, <1>13 DEF vars
<1> QED BY <1>2, <1>3, <1>4, <1>6, <1>7, <1>8, <1>9, <1>10, <1>11, <1>12, <1>13
        DEF Next, Gateway, Request, Over

\* A request, with its connection and its deadline, is the one step that the
\* promised backend makes of a command.
THEOREM Refinement == Spec => Implements
<1>1. Init => Promise!Init
  BY DEF Init, Promise!Init, gate, offered
<1> QED BY <1>1, StepRefines, Invariance, PTL DEF Spec, Implements, Promise!Spec
=============================================================================
