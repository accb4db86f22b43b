-------------------------- MODULE G2Backend_proofs --------------------------
(***************************************************************************)
(* Theorems about G2Backend, for any devices, commands and sessions, any   *)
(* margin, freshness and lifetime of a session, and maintenances of any    *)
(* length: G2Assumption relates none of them.                              *)
(***************************************************************************)
EXTENDS G2Backend, TLAPS

USE G2Assumption

-----------------------------------------------------------------------------
(***************************************************************************)
(* Type correctness.  The provers handle the flags apart from the rest.    *)
(***************************************************************************)
Flags == /\ revoked \in BOOLEAN /\ force \in BOOLEAN
         /\ lost \in BOOLEAN /\ diverged \in BOOLEAN /\ failed \in BOOLEAN

Data ==
  /\ disk \in Session /\ gw \in Session /\ session \in Session /\ renewed \in Session
  /\ inventory \in [Devices -> LocalIds \cup {None}]
  /\ gate \in [Commands -> {"unsent", "pending", "refused", "executed"}]
  /\ pc \in {"down", "idle", "renew", "renewing", "save", "inventory", "submit"}
  /\ caller \in {"open", "refresh", "command"}
  /\ elapsed \in 0 .. MaxElapsed
  /\ age \in 0 .. Freshness + MaxElapsed /\ refreshIn \in 0 .. Freshness
  /\ avail \in [Devices -> {"online", "offline"}]
  /\ bindings \in [Devices -> LocalIds \cup {None}]
  /\ command \in [id : Commands, device : Devices] \cup {NoCommand}
  /\ status \in [Commands -> {"none", "accepted", "rejected", "indeterminate"}]
  /\ refused \in Sessions \cup {None}
  /\ faults \in 0 .. MaxFaults

\* The two halves are the type invariant.
LEMMA TypeHalves == TypeOK <=> Flags /\ Data
  BY DEF TypeOK, Flags, Data

\* A failed maintenance leaves what it changes well typed, whoever called it.
LEMMA FailType ==
  ASSUME Flags, Data, NEW u \in BOOLEAN, Fail(u)
  PROVE  /\ pc' \in {"down", "idle"} /\ force' \in BOOLEAN
         /\ avail' \in [Devices -> {"online", "offline"}]
         /\ failed' \in BOOLEAN /\ refused' \in Sessions \cup {None}
         /\ command' \in [id : Commands, device : Devices] \cup {NoCommand}
         /\ status' \in [Commands -> {"none", "accepted", "rejected", "indeterminate"}]
         /\ caller' = caller /\ elapsed' = elapsed
<1>1. force' \in BOOLEAN /\ failed' \in BOOLEAN
  BY DEF Flags, Fail
<1> QED
  BY <1>1 DEF Data, Fail, All, Session

\* An answer leaves what it changes well typed.
LEMMA AnswerType ==
  ASSUME Data, NEW r \in {"accepted", "rejected", "indeterminate"},
         NEW g \in {"unsent", "pending", "refused", "executed"},
         NEW s \in [Devices -> {"online", "offline"}], Answer(r, g, s)
  PROVE  /\ status' \in [Commands -> {"none", "accepted", "rejected", "indeterminate"}]
         /\ gate' \in [Commands -> {"unsent", "pending", "refused", "executed"}]
         /\ avail' \in [Devices -> {"online", "offline"}]
         /\ command' \in [id : Commands, device : Devices] \cup {NoCommand}
         /\ pc' = "idle"
  BY DEF Data, Answer

LEMMA TypeInit == Init => TypeOK
<1> SUFFICES ASSUME Init PROVE Flags /\ Data
  BY TypeHalves
<1>1. Flags
  BY DEF Init, Flags
<1>2. Data
  BY DEF Init, Data, Session, All, NoCommand
<1> QED
  BY <1>1, <1>2

LEMMA TypeStep == TypeOK /\ [Next]_vars => TypeOK'
<1> SUFFICES ASSUME Flags, Data, [Next]_vars PROVE Flags' /\ Data'
  BY DEF TypeOK, Flags, Data
<1>1. CASE Open
  <2>1. Flags'
    BY <1>1 DEF Flags, Open, external
  <2>2. Data'
    BY <1>1 DEF Data, Open, external
  <2> QED
    BY <2>1, <2>2
<1>2. CASE GatewayRenews
  <2>1. Flags'
    BY <1>2 DEF Flags, GatewayRenews, history
  <2>2. Data'
    BY <1>2 DEF Data, GatewayRenews, clocks, history, Session
  <2> QED
    BY <2>1, <2>2
<1>3. CASE ReceiveSession
  <2>1. Flags'
    BY <1>3 DEF Flags, ReceiveSession, external, history
  <2>2. Data'
    BY <1>3 DEF Data, ReceiveSession, Until, external, clocks, history, Session
  <2> QED
    BY <2>1, <2>2
<1>4. CASE RenewFails
  <2>1. PICK u \in BOOLEAN : Fail(u)
    BY <1>4 DEF RenewFails
  <2>2. Flags'
    BY <1>4, <2>1, FailType DEF Flags, RenewFails, external
  <2>3. Fault \/ faults' = faults
    BY <1>4 DEF RenewFails
  <2>4. Data'
    BY <1>4, <2>1, <2>3, FailType DEF Data, RenewFails, Fault, external
  <2> QED
    BY <2>2, <2>4
<1>5. CASE Save
  <2>1. Flags'
    BY <1>5 DEF Flags, Save
  <2>2. Data'
    BY <1>5 DEF Data, Save, clocks, AfterSession, Resume
  <2> QED
    BY <2>1, <2>2
<1>6. CASE SaveFails
  <2>1. PICK u \in BOOLEAN : Fail(u)
    BY <1>6 DEF SaveFails
  <2>2. Flags'
    BY <1>6, <2>1, FailType DEF Flags, SaveFails
  <2>3. Fault \/ faults' = faults
    BY <1>6 DEF SaveFails
  <2>4. Data'
    BY <1>6, <2>1, <2>3, FailType DEF Data, SaveFails, Fault
  <2> QED
    BY <2>2, <2>4
<1>7. CASE ReadInventory
  <2>1. Flags'
    BY <1>7 DEF Flags, ReadInventory, external
  <2>2. Data'
    <3>1. Until(Freshness) \in 0 .. Freshness
      BY DEF Until, Data
    <3> QED
      BY <1>7, <3>1 DEF Data, ReadInventory, external, All, Resume
  <2> QED
    BY <2>1, <2>2
<1>8. CASE InventoryFails
  <2>1. PICK u \in BOOLEAN : Fail(u)
    BY <1>8 DEF InventoryFails
  <2>2. Flags'
    BY <1>8, <2>1, FailType DEF Flags, InventoryFails, external
  <2>3. Fault \/ faults' = faults
    BY <1>8 DEF InventoryFails
  <2>4. Data'
    BY <1>8, <2>1, <2>3, FailType DEF Data, InventoryFails, Fault, external
  <2> QED
    BY <2>2, <2>4
<1>9. CASE Refresh
  <2>1. Flags'
    BY <1>9 DEF Flags, Refresh, external, history, Begin
  <2>2. Data'
    BY <1>9 DEF Data, Refresh, external, history, Begin, AfterSession, Resume
  <2> QED
    BY <2>1, <2>2
<1>10. CASE SetDesired
  <2>1. Flags'
    BY <1>10 DEF Flags, SetDesired, external, history, Begin
  <2>2. Data'
    BY <1>10 DEF Data, SetDesired, external, history, Begin, AfterSession, Resume
  <2> QED
    BY <2>1, <2>2
<1>11. CASE Submit /\ Acknowledged
  <2>1. Answer("accepted", "executed", [avail EXCEPT ![command.device] = "online"])
    BY <1>11 DEF Acknowledged
  <2>2. Flags'
    BY <1>11 DEF Flags, Submit, Acknowledged
  <2>3. faults' \in 0 .. MaxFaults /\ refused' \in Sessions \cup {None}
    BY <1>11 DEF Data, Acknowledged, Fault, Session
  <2>4. Data'
    BY <1>11, <2>1, <2>3, AnswerType DEF Data, Submit, All, clocks
  <2> QED
    BY <2>2, <2>4
<1>12. CASE Submit /\ Unauthorized
  <2>1. Answer("rejected", "refused", All("offline"))
    BY <1>12 DEF Unauthorized
  <2>2. Flags'
    BY <1>12 DEF Flags, Submit, Unauthorized
  <2>3. faults' \in 0 .. MaxFaults /\ refused' \in Sessions \cup {None}
    BY <1>12 DEF Data, Unauthorized, Fault, Session
  <2>4. Data'
    BY <1>12, <2>1, <2>3, AnswerType DEF Data, Submit, All, clocks
  <2> QED
    BY <2>2, <2>4
<1>13. CASE Submit /\ BadRequest
  <2>1. Answer("rejected", "refused", avail)
    BY <1>13 DEF BadRequest
  <2>2. Flags'
    BY <1>13 DEF Flags, Submit, BadRequest
  <2>3. faults' \in 0 .. MaxFaults /\ refused' \in Sessions \cup {None}
    BY <1>13 DEF Data, BadRequest, Fault, Session
  <2>4. Data'
    BY <1>13, <2>1, <2>3, AnswerType DEF Data, Submit, All, clocks
  <2> QED
    BY <2>2, <2>4
<1>14. CASE Submit /\ NotSubmitted
  <2>1. Answer("rejected", "unsent", All("offline"))
    BY <1>14 DEF NotSubmitted
  <2>2. Flags'
    BY <1>14 DEF Flags, Submit, NotSubmitted
  <2>3. faults' \in 0 .. MaxFaults /\ refused' \in Sessions \cup {None}
    BY <1>14 DEF Data, NotSubmitted, Fault, Session
  <2>4. Data'
    BY <1>14, <2>1, <2>3, AnswerType DEF Data, Submit, All, clocks
  <2> QED
    BY <2>2, <2>4
<1>15. CASE Submit /\ OutcomeUnknown
  <2>1. PICK fate \in {"pending", "executed"} : Answer("indeterminate", fate, All("offline"))
    BY <1>15 DEF OutcomeUnknown
  <2>2. Flags'
    BY <1>15 DEF Flags, Submit, OutcomeUnknown
  <2>3. faults' \in 0 .. MaxFaults /\ refused' \in Sessions \cup {None}
    BY <1>15 DEF Data, OutcomeUnknown, Fault, Session
  <2>4. Data'
    BY <1>15, <2>1, <2>3, AnswerType DEF Data, Submit, All, clocks
  <2> QED
    BY <2>2, <2>4
<1>16. CASE Close
  <2>1. Flags'
    BY <1>16 DEF Flags, Close, external, Fault
  <2>2. Data'
    BY <1>16 DEF Data, Close, external, clocks, Fault, All
  <2> QED
    BY <2>1, <2>2
<1>17. CASE Tick
  <2>1. Flags'
    BY <1>17 DEF Flags, Tick
  <2>2. Data'
    <3>1. faults' \in 0 .. MaxFaults
      BY <1>17 DEF Data, Tick, Fault
    <3>2. elapsed' \in 0 .. MaxElapsed
      BY <1>17 DEF Data, Tick
    <3>3. /\ disk' \in Session /\ gw' \in Session /\ session' \in Session
          /\ renewed' \in Session
      BY <1>17 DEF Data, Tick, Less, Older, Session
    <3>4. age' \in 0 .. Freshness + MaxElapsed /\ refreshIn' \in 0 .. Freshness
      BY <1>17 DEF Data, Tick, Less
    <3> QED
      BY <1>17, <3>1, <3>2, <3>3, <3>4 DEF Data, Tick
  <2> QED
    BY <2>1, <2>2
<1>18. CASE Revoke
  <2>1. Flags'
    BY <1>18 DEF Flags, Revoke, Fault, backend
  <2>2. Data'
    BY <1>18 DEF Data, Revoke, clocks, backend, Fault
  <2> QED
    BY <2>1, <2>2
<1>19. CASE ChangeInventory
  <2>1. Flags'
    BY <1>19 DEF Flags, ChangeInventory, Fault, backend
  <2>2. Data'
    BY <1>19 DEF Data, ChangeInventory, clocks, backend, Fault
  <2> QED
    BY <2>1, <2>2
<1>20. CASE ExecuteLate
  <2>1. Flags'
    BY <1>20 DEF Flags, ExecuteLate, history, backend
  <2>2. Data'
    BY <1>20 DEF Data, ExecuteLate, clocks, backend, history
  <2> QED
    BY <2>1, <2>2
<1>21. CASE Crash
  <2>1. Flags'
    BY <1>21 DEF Flags, Crash, Fault
  <2>2. Data'
    BY <1>21 DEF Data, Crash, clocks, Fault, All, NoCommand
  <2> QED
    BY <2>1, <2>2
<1>22. CASE UNCHANGED vars
  BY <1>22 DEF Flags, Data, vars, external, clocks, backend, history
<1> QED
  BY <1>1, <1>2, <1>3, <1>4, <1>5, <1>6, <1>7, <1>8, <1>9, <1>10, <1>11, <1>12, <1>13,
     <1>14, <1>15, <1>16, <1>17, <1>18, <1>19, <1>20, <1>21, <1>22
  DEF Next, Maintenance, Environment, Submit

\* TypeOK: the clocks stay within their ranges, and no failure or crash leaves
\* the backend with anything but sessions, bindings and commands it knows.
THEOREM TypeCorrect == Spec => []TypeOK
  BY TypeInit, TypeStep, PTL DEF Spec

-----------------------------------------------------------------------------
(***************************************************************************)
(* Safety.  Each invariant is strengthened by what holds while a renewal   *)
(* or a command is under way, and proved to be kept by every step.         *)
(***************************************************************************)
\* Where a failed maintenance ends.
LEMMA FailEnds ==
  ASSUME NEW u \in BOOLEAN, Fail(u)
  PROVE  /\ pc' = "down" \/ pc' = "idle"
         /\ elapsed' = elapsed
  BY DEF Fail

\* Where an answer ends.
LEMMA AnswerEnds ==
  ASSUME Submit
  PROVE  /\ pc = "submit" /\ pc' = "idle"
         /\ UNCHANGED <<disk, gw, session, renewed, lost, diverged>>
  BY DEF Submit, Acknowledged, Unauthorized, BadRequest, NotSubmitted, OutcomeUnknown,
         Answer

LEMMA DurableStep ==
  ASSUME TypeOK, MemoryIsDurable, [Next]_vars
  PROVE  MemoryIsDurable'
<1> USE DEF MemoryIsDurable
<1>0. diverged \in BOOLEAN
  BY DEF TypeOK
<1>1. CASE Open
  BY <1>1 DEF Open, external
<1>2. CASE GatewayRenews
  BY <1>2 DEF GatewayRenews, history
<1>3. CASE ReceiveSession
  BY <1>3 DEF ReceiveSession, external, history
<1>4. CASE RenewFails
  <2>1. pc # "down" /\ UNCHANGED <<session, disk, diverged>>
    BY <1>4 DEF RenewFails, external
  <2> QED
    BY <2>1, <1>0
<1>5. CASE Save
  BY <1>5 DEF Save
<1>6. CASE SaveFails
  <2>1. /\ pc # "down" /\ session' = session
        /\ diverged' = TRUE \/ UNCHANGED <<disk, diverged>>
    BY <1>6 DEF SaveFails
  <2> QED
    BY <2>1, <1>0
<1>7. CASE ReadInventory \/ InventoryFails
  <2>1. pc # "down" /\ UNCHANGED <<session, disk, diverged>>
    BY <1>7 DEF ReadInventory, InventoryFails, external
  <2> QED
    BY <2>1, <1>0
<1>8. CASE Refresh \/ SetDesired
  BY <1>8 DEF Refresh, SetDesired, external, history
<1>9. CASE Submit
  BY <1>9, AnswerEnds
<1>10. CASE Close \/ Crash
  BY <1>10 DEF Close, Crash
<1>11. CASE Tick
  BY <1>11 DEF Tick, Older, history, TypeOK, Session
<1>12. CASE Revoke \/ ChangeInventory \/ ExecuteLate
  BY <1>12 DEF Revoke, ChangeInventory, ExecuteLate, backend, history
<1>13. CASE UNCHANGED vars
  BY <1>13 DEF vars, external, backend, history
<1> QED
  BY <1>1, <1>2, <1>3, <1>4, <1>5, <1>6, <1>7, <1>8, <1>9, <1>10, <1>11, <1>12, <1>13
  DEF Next, Maintenance, Environment

\* MemoryIsDurable: a running backend uses the session on disk, unless a save
\* failed after os.replace.
THEOREM Durable == Spec => []MemoryIsDurable
<1>1. Init => MemoryIsDurable
  BY DEF Init, MemoryIsDurable
<1> QED
  BY <1>1, DurableStep, TypeCorrect, PTL DEF Spec

LockoutInv == /\ LockoutHasCause
              /\ pc = "save" => renewed.id = gw.id

LEMMA LockoutStep ==
  ASSUME TypeOK, LockoutInv, [Next]_vars
  PROVE  LockoutInv'
<1> USE DEF LockoutInv, LockoutHasCause
<1>0. lost \in BOOLEAN
  BY DEF TypeOK
<1>1. CASE Open
  BY <1>1 DEF Open, external
<1>2. CASE GatewayRenews
  BY <1>2 DEF GatewayRenews
<1>3. CASE ReceiveSession
  BY <1>3 DEF ReceiveSession, external, history
<1>4. CASE RenewFails
  <2>1. PICK u \in BOOLEAN : Fail(u)
    BY <1>4 DEF RenewFails
  <2>2. /\ UNCHANGED <<disk, gw, renewed>>
        /\ (pc = "renewing" /\ lost' = TRUE) \/ (pc = "renew" /\ lost' = lost)
    BY <1>4 DEF RenewFails, external
  <2> QED
    BY <2>1, <2>2, FailEnds, <1>0
<1>5. CASE Save
  BY <1>5 DEF Save, AfterSession, Resume
<1>6. CASE SaveFails
  <2>1. Fail(FALSE)
    BY <1>6 DEF SaveFails
  <2>2. /\ pc = "save" /\ UNCHANGED <<gw, renewed>>
        /\ lost' = TRUE \/ (disk' = renewed /\ lost' = lost)
    BY <1>6 DEF SaveFails
  <2> QED
    BY <2>1, <2>2, FailEnds, <1>0
<1>7. CASE ReadInventory
  BY <1>7 DEF ReadInventory, Resume, external
<1>8. CASE InventoryFails
  <2>1. PICK u \in BOOLEAN : Fail(u)
    BY <1>8 DEF InventoryFails
  <2>2. pc = "inventory" /\ UNCHANGED <<disk, gw, renewed, lost>>
    BY <1>8 DEF InventoryFails, external
  <2> QED
    BY <2>1, <2>2, FailEnds, <1>0
<1>9. CASE Refresh \/ SetDesired
  BY <1>9 DEF Refresh, SetDesired, Begin, AfterSession, Resume, external, history
<1>10. CASE Submit
  BY <1>10, AnswerEnds
<1>11. CASE Close
  BY <1>11 DEF Close, external
<1>12. CASE Crash
  BY <1>12, <1>0 DEF Crash
<1>13. CASE Tick
  BY <1>13 DEF Tick, Older, history, TypeOK, Session
<1>14. CASE Revoke \/ ChangeInventory \/ ExecuteLate
  BY <1>14 DEF Revoke, ChangeInventory, ExecuteLate, backend, history
<1>15. CASE UNCHANGED vars
  BY <1>15 DEF vars, external, backend, history
<1> QED
  BY <1>1, <1>2, <1>3, <1>4, <1>5, <1>6, <1>7, <1>8, <1>9, <1>10, <1>11, <1>12, <1>13,
     <1>14, <1>15
  DEF Next, Maintenance, Environment

\* LockoutHasCause: only a lost answer, a failed save or a death in the middle
\* of a renewal leaves the disk behind the gateway.
THEOREM Lockout == Spec => []LockoutHasCause
<1>1. Init => LockoutInv
  BY DEF Init, LockoutInv, LockoutHasCause
<1>2. Spec => []LockoutInv
  BY <1>1, LockoutStep, TypeCorrect, PTL DEF Spec
<1> QED
  BY <1>2, PTL DEF LockoutInv

-----------------------------------------------------------------------------
(***************************************************************************)
(* Time.  A granted session is as old at the bridge as it is at the        *)
(* gateway, or older, from the grant on.                                   *)
(***************************************************************************)
ExpiryInv == /\ ExpiryIsEarly
             /\ pc = "renewing" => Lifetime <= gw.left + elapsed
             /\ pc = "save" => renewed.left <= gw.left

\* A tick makes every session older by the same time.
LEMMA OlderSession ==
  ASSUME NEW s \in Session
  PROVE  /\ Older(s) \in Session /\ Older(s).id = s.id
         /\ Older(s).left = IF s.left > 0 THEN s.left - 1 ELSE 0
  BY DEF Older, Less, Session

LEMMA ExpiryStep ==
  ASSUME TypeOK, ExpiryInv, [Next]_vars
  PROVE  ExpiryInv'
<1> USE DEF ExpiryInv, ExpiryIsEarly
<1>0. /\ disk \in Session /\ gw \in Session /\ session \in Session /\ renewed \in Session
      /\ elapsed \in 0 .. MaxElapsed
  BY DEF TypeOK
<1>1. CASE Open
  BY <1>1 DEF Open, external
<1>2. CASE GatewayRenews
  <2>1. PICK new \in Sessions \ {gw.id, disk.id, session.id} :
          gw' = [id |-> new, left |-> Lifetime]
    BY <1>2 DEF GatewayRenews
  <2>2. pc' = "renewing" /\ UNCHANGED <<disk, session, elapsed>>
    BY <1>2 DEF GatewayRenews, clocks
  <2> QED
    BY <2>1, <2>2, <1>0
<1>3. CASE ReceiveSession
  BY <1>3, <1>0 DEF ReceiveSession, Until, external, Session
<1>4. CASE RenewFails
  <2>1. PICK u \in BOOLEAN : Fail(u)
    BY <1>4 DEF RenewFails
  <2>2. UNCHANGED <<disk, gw, session>>
    BY <1>4 DEF RenewFails, external
  <2> QED
    BY <2>1, <2>2, FailEnds
<1>5. CASE Save
  BY <1>5 DEF Save, AfterSession, Resume
<1>6. CASE SaveFails
  <2>1. Fail(FALSE)
    BY <1>6 DEF SaveFails
  <2>2. /\ pc = "save" /\ UNCHANGED <<gw, session>>
        /\ disk' = renewed \/ disk' = disk
    BY <1>6 DEF SaveFails
  <2> QED
    BY <2>1, <2>2, FailEnds
<1>7. CASE ReadInventory
  BY <1>7 DEF ReadInventory, Resume, external
<1>8. CASE InventoryFails
  <2>1. PICK u \in BOOLEAN : Fail(u)
    BY <1>8 DEF InventoryFails
  <2>2. UNCHANGED <<disk, gw, session>>
    BY <1>8 DEF InventoryFails, external
  <2> QED
    BY <2>1, <2>2, FailEnds
<1>9. CASE Refresh \/ SetDesired
  BY <1>9 DEF Refresh, SetDesired, Begin, AfterSession, Resume, external
<1>10. CASE Submit
  BY <1>10, AnswerEnds
<1>11. CASE Close \/ Crash
  BY <1>11 DEF Close, Crash, external
<1>12. CASE Tick
  <2>1. /\ disk' = Older(disk) /\ gw' = Older(gw)
        /\ session' = Older(session) /\ renewed' = Older(renewed)
        /\ pc' = pc
        /\ pc \in {"renewing", "save"} => elapsed' = elapsed + 1 /\ elapsed < MaxElapsed
    BY <1>12 DEF Tick, Busy
  <2>2. \A s, t \in Session : s.left <= t.left => Older(s).left <= Older(t).left
    BY OlderSession DEF Session
  <2>3. ExpiryIsEarly'
    BY <2>1, <2>2, <1>0, OlderSession
  <2>4. pc' = "save" => renewed'.left <= gw'.left
    BY <2>1, <2>2, <1>0
  <2>5. pc' = "renewing" => Lifetime <= gw'.left + elapsed'
    BY <2>1, <1>0, OlderSession DEF Session
  <2> QED
    BY <2>3, <2>4, <2>5
<1>13. CASE Revoke \/ ChangeInventory \/ ExecuteLate
  BY <1>13 DEF Revoke, ChangeInventory, ExecuteLate, backend, clocks
<1>14. CASE UNCHANGED vars
  BY <1>14 DEF vars, external, backend, clocks
<1> QED
  BY <1>1, <1>2, <1>3, <1>4, <1>5, <1>6, <1>7, <1>8, <1>9, <1>10, <1>11, <1>12, <1>13,
     <1>14
  DEF Next, Maintenance, Environment

\* ExpiryIsEarly: neither the session in use nor the one on disk outlives the
\* gateway's.
THEOREM Expiry == Spec => []ExpiryIsEarly
<1>1. Init => ExpiryInv
  BY DEF Init, ExpiryInv, ExpiryIsEarly, Session
<1>2. Spec => []ExpiryInv
  BY <1>1, ExpiryStep, TypeCorrect, PTL DEF Spec
<1> QED
  BY <1>2, PTL DEF ExpiryInv

\* The session was not due when the maintenance read the clock, elapsed ago, or was
\* granted for Lifetime from then on.
TokenInv == /\ pc \in {"inventory", "submit"} => \/ session.left + elapsed > Margin
                                                \/ session.left + elapsed >= Lifetime
            /\ pc = "save" => renewed.left + elapsed >= Lifetime

LEMMA TokenStep ==
  ASSUME TypeOK, TokenInv, [Next]_vars
  PROVE  TokenInv'
<1> USE DEF TokenInv
<1>0. /\ disk \in Session /\ session \in Session /\ renewed \in Session
      /\ elapsed \in 0 .. MaxElapsed
  BY DEF TypeOK
<1>1. CASE Open
  BY <1>1, <1>0 DEF Open, Due, Session
<1>2. CASE GatewayRenews
  BY <1>2 DEF GatewayRenews
<1>3. CASE ReceiveSession
  BY <1>3, <1>0 DEF ReceiveSession, Until, clocks, Session
<1>4. CASE RenewFails
  <2>1. PICK u \in BOOLEAN : Fail(u)
    BY <1>4 DEF RenewFails
  <2> QED
    BY <2>1, FailEnds
<1>5. CASE Save
  BY <1>5, <1>0 DEF Save, AfterSession, Resume, clocks
<1>6. CASE SaveFails
  <2>1. Fail(FALSE)
    BY <1>6 DEF SaveFails
  <2> QED
    BY <2>1, FailEnds
<1>7. CASE ReadInventory
  BY <1>7 DEF ReadInventory, Resume
<1>8. CASE InventoryFails
  <2>1. PICK u \in BOOLEAN : Fail(u)
    BY <1>8 DEF InventoryFails
  <2> QED
    BY <2>1, FailEnds
<1>9. CASE Refresh \/ SetDesired
  <2>1. PICK who \in {"refresh", "command"} : Begin(who) /\ session' = session
    BY <1>9 DEF Refresh, SetDesired
  <2>2. pc' \in {"inventory", "submit"} => ~Due(session)
    BY <2>1 DEF Begin
  <2> QED
    BY <2>1, <2>2, <1>0 DEF Begin, AfterSession, Resume, Due, Session
<1>10. CASE Submit
  BY <1>10, AnswerEnds
<1>11. CASE Close \/ Crash
  BY <1>11 DEF Close, Crash
<1>12. CASE Tick
  <2>1. /\ session' = Older(session) /\ renewed' = Older(renewed)
        /\ pc' = pc
        /\ pc \in {"inventory", "submit", "save"} =>
             elapsed' = elapsed + 1 /\ elapsed < MaxElapsed
    BY <1>12 DEF Tick, Busy
  <2> QED
    BY <2>1, <1>0, OlderSession DEF Session
<1>13. CASE Revoke \/ ChangeInventory \/ ExecuteLate
  BY <1>13 DEF Revoke, ChangeInventory, ExecuteLate, backend, clocks
<1>14. CASE UNCHANGED vars
  BY <1>14 DEF vars, backend, clocks
<1> QED
  BY <1>1, <1>2, <1>3, <1>4, <1>5, <1>6, <1>7, <1>8, <1>9, <1>10, <1>11, <1>12, <1>13,
     <1>14
  DEF Next, Maintenance, Environment

\* TokenIsLive: an expired access token is sent, for the inventory or for a command,
\* only by a maintenance that has outlasted the margin or the session's lifetime.
THEOREM TokenLives == Spec => []TokenIsLive
<1>1. Init => TokenInv
  BY DEF Init, TokenInv
<1>2. Spec => []TokenInv
  BY <1>1, TokenStep, TypeCorrect, PTL DEF Spec
<1>3. TypeOK /\ TokenInv => TokenIsLive
  BY DEF TypeOK, TokenInv, TokenIsLive, Session
<1> QED
  BY <1>2, <1>3, TypeCorrect, PTL

-----------------------------------------------------------------------------
(***************************************************************************)
(* Commands.                                                               *)
(***************************************************************************)
\* Every device online means that the inventory was read, whole, and that
\* nothing has failed since.
CheckedInv == /\ AllOnline => ~failed /\ \A d \in Devices : bindings[d] # None
              /\ pc = "submit" => AllOnline /\ age - elapsed < Freshness

\* Devices marked offline are not all online: there is at least one.
LEMMA OfflineIsNotOnline ==
  ASSUME avail' = All("offline")
  PROVE  AllOnline' = FALSE
  BY DEF AllOnline, All

LEMMA CheckedStep ==
  ASSUME TypeOK, CheckedInv, [Next]_vars
  PROVE  CheckedInv'
<1> USE DEF CheckedInv
<1>0. /\ failed \in BOOLEAN /\ age \in Nat /\ elapsed \in 0 .. MaxElapsed
      /\ avail \in [Devices -> {"online", "offline"}]
  BY DEF TypeOK
<1>1. CASE Open
  BY <1>1 DEF Open, AllOnline
<1>2. CASE GatewayRenews
  BY <1>2 DEF GatewayRenews, AllOnline, history
<1>3. CASE ReceiveSession
  BY <1>3 DEF ReceiveSession, AllOnline, history
<1>4. CASE RenewFails \/ SaveFails \/ InventoryFails
  <2>1. PICK u \in BOOLEAN : Fail(u)
    BY <1>4 DEF RenewFails, SaveFails, InventoryFails
  <2>2. AllOnline' = FALSE
    BY <2>1, OfflineIsNotOnline DEF Fail
  <2> QED
    BY <2>1, <2>2, FailEnds
<1>5. CASE Save
  BY <1>5, <1>0 DEF Save, AfterSession, Resume, AllOnline, Stale, clocks
<1>6. CASE ReadInventory
  <2>1. /\ failed' = FALSE /\ age' = elapsed /\ elapsed' = elapsed
        /\ avail' = All("online") /\ bindings' = inventory
        /\ \A d \in Devices : inventory[d] # None
    BY <1>6 DEF ReadInventory
  <2>2. AllOnline'
    BY <2>1 DEF AllOnline, All
  <2> QED
    BY <2>1, <2>2, <1>0
<1>7. CASE Refresh \/ SetDesired
  <2>1. PICK who \in {"refresh", "command"} : Begin(who)
    BY <1>7 DEF Refresh, SetDesired
  <2>2. UNCHANGED <<avail, bindings, failed, age>>
    BY <1>7 DEF Refresh, SetDesired, history
  <2>3. elapsed' = 0 /\ (pc' = "submit" => AllOnline /\ ~(age >= Freshness))
    BY <2>1 DEF Begin, AfterSession, Resume
  <2> QED
    BY <2>2, <2>3, <1>0 DEF AllOnline
<1>8. CASE Submit
  <2>1. pc' = "idle" /\ bindings' = bindings
    BY <1>8, AnswerEnds DEF Submit
  <2>2. CASE Unauthorized \/ NotSubmitted \/ OutcomeUnknown
    BY <2>1, <2>2, OfflineIsNotOnline DEF Unauthorized, NotSubmitted, OutcomeUnknown, Answer
  <2>3. CASE Acknowledged \/ BadRequest
    <3>1. pc = "submit" /\ failed' = failed
      BY <2>3 DEF Acknowledged, BadRequest
    <3> QED
      BY <3>1, <2>1
  <2> QED
    BY <1>8, <2>2, <2>3 DEF Submit
<1>9. CASE Close \/ Crash
  <2>1. avail' = All("offline") /\ pc' = "down"
    BY <1>9 DEF Close, Crash
  <2> QED
    BY <2>1, OfflineIsNotOnline
<1>10. CASE Tick
  <2>1. /\ UNCHANGED <<avail, bindings, failed, pc>>
        /\ pc = "submit" => elapsed' = elapsed + 1
        /\ age' = IF age < Freshness + MaxElapsed THEN age + 1 ELSE age
    BY <1>10 DEF Tick, Busy, history
  <2> QED
    BY <2>1, <1>0 DEF AllOnline
<1>11. CASE Revoke \/ ChangeInventory \/ ExecuteLate
  BY <1>11 DEF Revoke, ChangeInventory, ExecuteLate, backend, history, clocks, AllOnline
<1>12. CASE UNCHANGED vars
  BY <1>12 DEF vars, backend, history, clocks, AllOnline
<1> QED
  BY <1>1, <1>2, <1>3, <1>4, <1>5, <1>6, <1>7, <1>8, <1>9, <1>10, <1>11, <1>12
  DEF Next, Maintenance, Environment

\* CommandIsChecked: a command is sent only on bindings read whole, within the
\* freshness window, and after the last failure.
THEOREM CommandsAreChecked == Spec => []CommandIsChecked
<1>1. Init => CheckedInv
  BY OfflineIsNotOnline DEF Init, CheckedInv, AllOnline, All
<1>2. Spec => []CheckedInv
  BY <1>1, CheckedStep, TypeCorrect, PTL DEF Spec
<1>3. TypeOK /\ CheckedInv => CommandIsChecked
  BY DEF TypeOK, CheckedInv, CommandIsChecked, Stale
<1> QED
  BY <1>2, <1>3, TypeCorrect, PTL

\* A refusal is remembered until the renewal it calls for, or the process ends.
RefusedInv == /\ pc # "down" /\ refused # None => force = TRUE
              /\ pc \in {"inventory", "submit"} => force = FALSE
              /\ pc # "down" /\ caller = "open" => force = FALSE \/ pc = "idle"

LEMMA RefusedStep ==
  ASSUME TypeOK, RefusedInv, [Next]_vars
  PROVE  RefusedInv'
<1> USE DEF RefusedInv
<1>0. /\ force \in BOOLEAN /\ session \in Session
  BY DEF TypeOK
<1>1. CASE Open
  BY <1>1 DEF Open
<1>2. CASE GatewayRenews
  BY <1>2 DEF GatewayRenews, history
<1>3. CASE ReceiveSession
  BY <1>3 DEF ReceiveSession, history
<1>4. CASE RenewFails \/ SaveFails \/ InventoryFails
  <2>1. PICK u \in BOOLEAN : Fail(u)
    BY <1>4 DEF RenewFails, SaveFails, InventoryFails
  <2>2. pc # "down"
    BY <1>4 DEF RenewFails, SaveFails, InventoryFails
  <2>3. caller = "open" => pc' = "down"
    BY <2>1 DEF Fail
  <2>4. CASE caller # "open"
    <3>1. /\ pc' = "idle" /\ caller' = caller
          /\ force' = (force \/ u)
          /\ refused' = IF u THEN session.id ELSE refused
      BY <2>1, <2>4 DEF Fail
    <3>2. CASE u = TRUE
      BY <3>1, <3>2, <2>4
    <3>3. CASE u = FALSE
      BY <3>1, <3>3, <2>2, <2>4, <1>0
    <3> QED
      BY <3>2, <3>3
  <2> QED
    BY <2>3, <2>4
<1>5. CASE Save
  BY <1>5 DEF Save
<1>6. CASE ReadInventory
  BY <1>6 DEF ReadInventory, Resume
<1>7. CASE Refresh \/ SetDesired
  <2>1. PICK who \in {"refresh", "command"} : Begin(who)
    BY <1>7 DEF Refresh, SetDesired
  <2>2. pc # "down" /\ UNCHANGED <<force, refused>>
    BY <1>7 DEF Refresh, SetDesired, history
  <2>3. /\ pc' \in {"inventory", "submit"} => ~force
        /\ caller' # "open"
    BY <2>1 DEF Begin
  <2> QED
    BY <2>2, <2>3, <1>0
<1>8. CASE Submit
  <2>1. pc = "submit" /\ pc' = "idle" /\ caller' = caller
    BY <1>8, AnswerEnds DEF Submit
  <2>2. force' = TRUE \/ UNCHANGED <<force, refused>>
    BY <1>8 DEF Submit, Acknowledged, Unauthorized, BadRequest, NotSubmitted, OutcomeUnknown
  <2> QED
    BY <2>1, <2>2
<1>9. CASE Close \/ Crash
  BY <1>9 DEF Close, Crash
<1>10. CASE Tick
  BY <1>10 DEF Tick, history
<1>11. CASE Revoke \/ ChangeInventory \/ ExecuteLate
  BY <1>11 DEF Revoke, ChangeInventory, ExecuteLate, backend, history
<1>12. CASE UNCHANGED vars
  BY <1>12 DEF vars, backend, history
<1> QED
  BY <1>1, <1>2, <1>3, <1>4, <1>5, <1>6, <1>7, <1>8, <1>9, <1>10, <1>11, <1>12
  DEF Next, Maintenance, Environment

\* RefusedIsRenewed: no request is made with a session the gateway has refused.
THEOREM RefusalsRenew == Spec => []RefusedIsRenewed
<1>1. Init => RefusedInv
  BY DEF Init, RefusedInv
<1>2. Spec => []RefusedInv
  BY <1>1, RefusedStep, TypeCorrect, PTL DEF Spec
<1>3. TypeOK /\ RefusedInv => RefusedIsRenewed
  BY DEF TypeOK, RefusedInv, RefusedIsRenewed, Session
<1> QED
  BY <1>2, <1>3, TypeCorrect, PTL

-----------------------------------------------------------------------------
(***************************************************************************)
(* Refinement: the backend and its gateway are a CommandBackend.           *)
(***************************************************************************)
\* The command being executed is unanswered, and the gateway has not seen it.
CommandInv == /\ command # NoCommand => /\ command \in [id : Commands, device : Devices]
                                        /\ status[command.id] = "none"
                                        /\ gate[command.id] = "unsent"
              /\ caller = "command" /\ Busy => command # NoCommand
              /\ pc = "submit" => caller = "command"

LEMMA CommandStep ==
  ASSUME TypeOK, CommandInv, [Next]_vars
  PROVE  CommandInv'
<1> USE DEF CommandInv, Busy
<1>0. /\ command \in [id : Commands, device : Devices] \cup {NoCommand}
      /\ gate \in [Commands -> {"unsent", "pending", "refused", "executed"}]
      /\ status \in [Commands -> {"none", "accepted", "rejected", "indeterminate"}]
  BY DEF TypeOK
<1>1. CASE Open
  BY <1>1 DEF Open, external
<1>2. CASE GatewayRenews
  BY <1>2 DEF GatewayRenews
<1>3. CASE ReceiveSession
  BY <1>3 DEF ReceiveSession, external
<1>4. CASE RenewFails \/ SaveFails \/ InventoryFails
  <2>1. PICK u \in BOOLEAN : Fail(u)
    BY <1>4 DEF RenewFails, SaveFails, InventoryFails
  <2>2. command' = NoCommand
    BY <2>1 DEF Fail
  <2> QED
    BY <2>1, <2>2, FailEnds
<1>5. CASE Save
  BY <1>5 DEF Save, AfterSession, Resume
<1>6. CASE ReadInventory
  BY <1>6 DEF ReadInventory, Resume, external
<1>7. CASE Refresh
  BY <1>7 DEF Refresh, Begin, AfterSession, Resume, external
<1>8. CASE SetDesired
  <2>1. PICK c \in Commands, d \in Devices :
          status[c] = "none" /\ gate[c] = "unsent" /\ command' = [id |-> c, device |-> d]
    BY <1>8 DEF SetDesired
  <2>2. caller' = "command" /\ UNCHANGED <<status, gate>>
    BY <1>8 DEF SetDesired, Begin, external
  <2>3. command' # NoCommand
    BY <2>1, <1>0 DEF NoCommand
  <2> QED
    BY <2>1, <2>2, <2>3
<1>9. CASE Submit
  <2>1. command' = NoCommand
    BY <1>9 DEF Submit, Acknowledged, Unauthorized, BadRequest, NotSubmitted,
                OutcomeUnknown, Answer
  <2> QED
    BY <1>9, <2>1, AnswerEnds
<1>10. CASE Close
  BY <1>10 DEF Close, external
<1>11. CASE Crash
  BY <1>11 DEF Crash
<1>12. CASE Tick
  BY <1>12 DEF Tick
<1>13. CASE Revoke \/ ChangeInventory
  BY <1>13 DEF Revoke, ChangeInventory, backend
<1>14. CASE ExecuteLate
  <2>1. PICK c \in Commands : gate[c] = "pending" /\ gate' = [gate EXCEPT ![c] = "executed"]
    BY <1>14 DEF ExecuteLate
  <2>2. UNCHANGED <<command, status, caller, pc>>
    BY <1>14 DEF ExecuteLate, backend
  <2>3. command # NoCommand => gate'[command.id] = "unsent"
    BY <2>1, <1>0
  <2> QED
    BY <2>2, <2>3
<1>15. CASE UNCHANGED vars
  BY <1>15 DEF vars, backend, external
<1> QED
  BY <1>1, <1>2, <1>3, <1>4, <1>5, <1>6, <1>7, <1>8, <1>9, <1>10, <1>11, <1>12, <1>13,
     <1>14, <1>15
  DEF Next, Maintenance, Environment

LEMMA CommandHolds == Spec => []CommandInv
<1>1. Init => CommandInv
  BY DEF Init, CommandInv, Busy
<1> QED
  BY <1>1, CommandStep, TypeCorrect, PTL DEF Spec

LEMMA CheckedHolds == Spec => []CheckedInv
<1>1. Init => CheckedInv
  BY OfflineIsNotOnline DEF Init, CheckedInv, AllOnline, All
<1> QED
  BY <1>1, CheckedStep, TypeCorrect, PTL DEF Spec

LEMMA PromiseInit == Init => Promise!Init
<1> SUFFICES ASSUME Init PROVE Promise!Init
  OBVIOUS
<1>1. ~AllOnline
  BY DEF Init, AllOnline, All
<1> QED
  BY <1>1 DEF Init, Promise!Init

\* The abstract step of each answer, and of a failure.
LEMMA FailPromise ==
  ASSUME TypeOK, CommandInv, Busy, NEW u \in BOOLEAN, Fail(u), gate' = gate
  PROVE  Promise!Next
<1>1. AllOnline' = FALSE
  BY OfflineIsNotOnline DEF Fail
<1>2. CASE caller = "command"
  <2>1. command \in [id : Commands, device : Devices] /\ Promise!Unanswered(command.id)
    BY <1>2 DEF CommandInv, Promise!Unanswered
  <2>2. status' = [status EXCEPT ![command.id] = "rejected"]
    BY <1>2 DEF Fail
  <2>3. gate' = [gate EXCEPT ![command.id] = "unsent"]
    BY <2>1 DEF TypeOK, Promise!Unanswered
  <2>4. Promise!Reject(command.id)
    BY <1>1, <2>1, <2>2, <2>3 DEF Promise!Reject
  <2> QED
    BY <2>1, <2>4 DEF Promise!Next
<1>3. CASE caller # "command"
  BY <1>1, <1>3 DEF Fail, Promise!Next, Promise!ChangeAvailability
<1> QED
  BY <1>2, <1>3

LEMMA SubmitPromise ==
  ASSUME TypeOK, CommandInv, CheckedInv, Submit
  PROVE  Promise!Next
<1>0. /\ command \in [id : Commands, device : Devices] /\ Promise!Unanswered(command.id)
      /\ AllOnline /\ avail \in [Devices -> {"online", "offline"}]
  BY AnswerEnds DEF CommandInv, CheckedInv, Busy, Promise!Unanswered, TypeOK
<1>1. CASE Acknowledged
  <2>1. AllOnline'
    BY <1>0, <1>1 DEF Acknowledged, Answer, AllOnline
  <2>2. Promise!Accept(command.id)
    BY <1>0, <1>1, <2>1 DEF Acknowledged, Answer, Promise!Accept
  <2> QED
    BY <1>0, <2>2 DEF Promise!Next
<1>2. CASE Unauthorized
  <2>1. AllOnline' = FALSE
    BY <1>2, OfflineIsNotOnline DEF Unauthorized, Answer
  <2>2. Promise!Reject(command.id)
    BY <1>0, <1>2, <2>1 DEF Unauthorized, Answer, Promise!Reject
  <2> QED
    BY <1>0, <2>2 DEF Promise!Next
<1>3. CASE BadRequest
  <2>1. AllOnline'
    BY <1>0, <1>3 DEF BadRequest, Answer, AllOnline
  <2>2. Promise!Reject(command.id)
    BY <1>0, <1>3, <2>1 DEF BadRequest, Answer, Promise!Reject
  <2> QED
    BY <1>0, <2>2 DEF Promise!Next
<1>4. CASE NotSubmitted
  <2>1. AllOnline' = FALSE
    BY <1>4, OfflineIsNotOnline DEF NotSubmitted, Answer
  <2>2. Promise!Reject(command.id)
    BY <1>0, <1>4, <2>1 DEF NotSubmitted, Answer, Promise!Reject
  <2> QED
    BY <1>0, <2>2 DEF Promise!Next
<1>5. CASE OutcomeUnknown
  <2>1. AllOnline' = FALSE
    BY <1>5, OfflineIsNotOnline DEF OutcomeUnknown, Answer
  <2>2. Promise!Doubt(command.id)
    BY <1>0, <1>5, <2>1 DEF OutcomeUnknown, Answer, Promise!Doubt
  <2> QED
    BY <1>0, <2>2 DEF Promise!Next
<1> QED
  BY <1>1, <1>2, <1>3, <1>4, <1>5 DEF Submit

LEMMA CrashPromise ==
  ASSUME TypeOK, CommandInv, Crash
  PROVE  Promise!Next
<1>1. AllOnline' = FALSE /\ status' = status
  BY OfflineIsNotOnline DEF Crash
<1>2. CASE gate' = gate
  BY <1>1, <1>2 DEF Promise!Next, Promise!ChangeAvailability
<1>3. CASE pc = "submit" /\ gate' = [gate EXCEPT ![command.id] = "pending"]
  <2>1. command \in [id : Commands, device : Devices] /\ Promise!Unanswered(command.id)
    BY <1>3 DEF CommandInv, Busy, Promise!Unanswered
  <2>2. Promise!Abandon(command.id)
    BY <1>1, <1>3, <2>1 DEF Promise!Abandon
  <2> QED
    BY <2>1, <2>2 DEF Promise!Next
<1> QED
  BY <1>2, <1>3 DEF Crash

LEMMA PromiseStep ==
  ASSUME TypeOK, CommandInv, CheckedInv, [Next]_vars
  PROVE  [Promise!Next]_(Promise!vars)
<1>1. CASE UNCHANGED <<status, gate, avail>>
  BY <1>1 DEF Promise!vars, AllOnline
<1>2. CASE RenewFails \/ SaveFails \/ InventoryFails
  <2>1. PICK u \in BOOLEAN : Fail(u)
    BY <1>2 DEF RenewFails, SaveFails, InventoryFails
  <2>2. Busy /\ gate' = gate
    BY <1>2 DEF RenewFails, SaveFails, InventoryFails, external, Busy
  <2> QED
    BY <2>1, <2>2, FailPromise
<1>3. CASE ReadInventory
  <2>1. AllOnline' /\ UNCHANGED <<status, gate>>
    BY <1>3 DEF ReadInventory, external, AllOnline, All
  <2> QED
    BY <2>1 DEF Promise!Next, Promise!ChangeAvailability
<1>4. CASE Submit
  BY <1>4, SubmitPromise
<1>5. CASE Close
  <2>1. AllOnline' = FALSE /\ UNCHANGED <<status, gate>>
    BY <1>5, OfflineIsNotOnline DEF Close, external
  <2> QED
    BY <2>1 DEF Promise!Next, Promise!ChangeAvailability
<1>6. CASE Crash
  BY <1>6, CrashPromise
<1>7. CASE ExecuteLate
  <2>1. PICK c \in Commands : gate[c] = "pending" /\ gate' = [gate EXCEPT ![c] = "executed"]
    BY <1>7 DEF ExecuteLate
  <2>2. AllOnline' = AllOnline /\ status' = status
    BY <1>7 DEF ExecuteLate, backend, AllOnline
  <2> QED
    BY <2>1, <2>2 DEF Promise!Next, Promise!TakeEffect
<1>8. CASE Open \/ GatewayRenews \/ ReceiveSession \/ Save
  BY <1>1, <1>8 DEF Open, GatewayRenews, ReceiveSession, Save, external
<1>9. CASE Refresh \/ SetDesired
  BY <1>1, <1>9 DEF Refresh, SetDesired, external
<1>10. CASE Tick \/ Revoke \/ ChangeInventory
  BY <1>1, <1>10 DEF Tick, Revoke, ChangeInventory, backend
<1>11. CASE UNCHANGED vars
  BY <1>1, <1>11 DEF vars, backend, external
<1> QED
  BY <1>2, <1>3, <1>4, <1>5, <1>6, <1>7, <1>8, <1>9, <1>10, <1>11
  DEF Next, Maintenance, Environment

\* Implements: whatever renewals, failures, refusals, kills and restarts do, the
\* bridge sees a backend that executes each command at most once and answers
\* what became of it.
THEOREM Refinement == Spec => Implements
<1>1. Spec => Promise!Init /\ [][Promise!Next]_(Promise!vars)
  BY PromiseInit, PromiseStep, TypeCorrect, CommandHolds, CheckedHolds, PTL DEF Spec
<1> QED
  BY <1>1 DEF Implements, Promise!Spec

LEMMA OutcomeStep ==
  ASSUME TypeOK, Promise!Outcome, [Promise!Next]_(Promise!vars)
  PROVE  Promise!Outcome'
<1> USE DEF Promise!Outcome
<1>0. /\ gate \in [Commands -> {"unsent", "pending", "refused", "executed"}]
      /\ status \in [Commands -> {"none", "accepted", "rejected", "indeterminate"}]
  BY DEF TypeOK
<1>1. ASSUME NEW c \in Commands,
             Promise!Accept(c) \/ Promise!Reject(c) \/ Promise!Doubt(c)
      PROVE  Promise!Outcome'
  BY <1>0, <1>1 DEF Promise!Accept, Promise!Reject, Promise!Doubt
<1>2. ASSUME NEW c \in Commands, Promise!Abandon(c) \/ Promise!TakeEffect(c)
      PROVE  Promise!Outcome'
  BY <1>0, <1>2 DEF Promise!Abandon, Promise!TakeEffect, Promise!Unanswered
<1>3. CASE Promise!ChangeAvailability \/ UNCHANGED Promise!vars
  BY <1>3 DEF Promise!ChangeAvailability, Promise!vars
<1> QED
  BY <1>1, <1>2, <1>3 DEF Promise!Next

\* Outcome: a command answered "rejected" never takes effect, and one answered
\* "accepted" has.
THEOREM OutcomeIsTold == Spec => []Outcome
<1>1. Promise!Init => Promise!Outcome
  BY DEF Promise!Init, Promise!Outcome
<1>2. Spec => []Promise!Outcome
  BY <1>1, OutcomeStep, PromiseInit, PromiseStep, TypeCorrect, CommandHolds, CheckedHolds,
     PTL DEF Spec
<1> QED
  BY <1>2 DEF Outcome

-----------------------------------------------------------------------------
(***************************************************************************)
(* What Bridge takes for granted of a command-only backend.                *)
(***************************************************************************)
Whole == {All("online"), All("offline")}

\* Devices are online together or offline together (AllDevices in Bridge).
AvailabilityIsOne == avail \in Whole

\* The outcomes of a command, by its answer; every device online after open(); and
\* nothing changes between the calls of the runtime.
SuitsBridge ==
  /\ \A c \in Commands : status'[c] # status[c] =>
       <<status'[c], avail'>> \in {<<"accepted", All("online")>>,
                                   <<"rejected", All("online")>>,
                                   <<"rejected", All("offline")>>,
                                   <<"indeterminate", All("offline")>>}
  /\ caller = "open" /\ pc # "idle" /\ pc' = "idle" => avail' = All("online")
  /\ pc = "idle" /\ pc' = "idle" => avail' = avail

LEMMA OnlineIsWhole ==
  ASSUME TypeOK, AllOnline
  PROVE  avail = All("online")
  BY DEF TypeOK, AllOnline, All

LEMMA WholeStep ==
  ASSUME TypeOK, CheckedInv, CommandInv, AvailabilityIsOne, [Next]_vars
  PROVE  AvailabilityIsOne' /\ SuitsBridge
<1> USE DEF AvailabilityIsOne, Whole
<1>0. status \in [Commands -> {"none", "accepted", "rejected", "indeterminate"}]
  BY DEF TypeOK
<1>1. CASE RenewFails \/ SaveFails \/ InventoryFails
  <2>1. PICK u \in BOOLEAN : Fail(u)
    BY <1>1 DEF RenewFails, SaveFails, InventoryFails
  <2>2. Busy /\ pc \notin {"down", "idle"}
    BY <1>1 DEF RenewFails, SaveFails, InventoryFails, Busy
  <2>3. avail' = All("offline") /\ (caller = "open" => pc' # "idle")
    BY <2>1 DEF Fail
  <2>4. ASSUME NEW c \in Commands, status'[c] # status[c] PROVE status'[c] = "rejected"
    BY <2>1, <2>4, <1>0 DEF Fail
  <2> QED
    BY <2>2, <2>3, <2>4 DEF SuitsBridge
<1>2. CASE ReadInventory
  <2>1. avail' = All("online") /\ status' = status /\ pc = "inventory"
    BY <1>2 DEF ReadInventory
  <2> QED
    BY <2>1 DEF SuitsBridge
<1>3. CASE Submit
  <2>1. pc = "submit" /\ avail = All("online") /\ caller = "command"
        /\ command \in [id : Commands, device : Devices]
    BY <1>3, AnswerEnds, OnlineIsWhole DEF CheckedInv, CommandInv, Busy
  <2>2. ASSUME NEW r, NEW f, NEW a,
               Answer(r, f, a),
               <<r, a>> \in {<<"accepted", All("online")>>, <<"rejected", All("online")>>,
                             <<"rejected", All("offline")>>,
                             <<"indeterminate", All("offline")>>}
        PROVE  AvailabilityIsOne' /\ SuitsBridge
    <3>1. avail' = a /\ status' = [status EXCEPT ![command.id] = r]
      BY <2>2 DEF Answer
    <3>2. \A c \in Commands : status'[c] # status[c] => status'[c] = r
      BY <3>1, <1>0
    <3>3. a \in Whole
      BY <2>2
    <3> QED
      BY <2>1, <2>2, <3>1, <3>2, <3>3 DEF SuitsBridge
  <2>3. CASE Acknowledged
    <3>1. [avail EXCEPT ![command.device] = "online"] = All("online")
      BY <2>1 DEF All
    <3> QED
      BY <2>2, <2>3, <3>1 DEF Acknowledged
  <2>4. CASE BadRequest
    BY <2>1, <2>2, <2>4 DEF BadRequest
  <2>5. CASE Unauthorized \/ NotSubmitted
    BY <2>2, <2>5 DEF Unauthorized, NotSubmitted
  <2>6. CASE OutcomeUnknown
    BY <2>2, <2>6 DEF OutcomeUnknown
  <2> QED
    BY <1>3, <2>3, <2>4, <2>5, <2>6 DEF Submit
<1>4. CASE Close \/ Crash
  <2>1. avail' = All("offline") /\ pc' = "down" /\ status' = status
    BY <1>4 DEF Close, Crash
  <2> QED
    BY <2>1 DEF SuitsBridge
<1>5. CASE Open \/ GatewayRenews \/ ReceiveSession \/ Save
  <2>1. avail' = avail /\ status' = status
    BY <1>5 DEF Open, GatewayRenews, ReceiveSession, Save
  <2>2. pc' = "idle" => caller # "open" /\ pc # "idle"
    BY <1>5 DEF Open, GatewayRenews, ReceiveSession, Save, AfterSession, Resume
  <2> QED
    BY <2>1, <2>2 DEF SuitsBridge
<1>6. CASE Refresh \/ SetDesired
  <2>1. avail' = avail /\ status' = status /\ pc = "idle"
    BY <1>6 DEF Refresh, SetDesired
  <2> QED
    BY <2>1 DEF SuitsBridge
<1>7. CASE Tick \/ Revoke \/ ChangeInventory \/ ExecuteLate
  <2>1. UNCHANGED <<avail, status, pc>>
    BY <1>7 DEF Tick, Revoke, ChangeInventory, ExecuteLate, backend
  <2> QED
    BY <2>1 DEF SuitsBridge
<1>8. CASE UNCHANGED vars
  BY <1>8 DEF vars, backend, SuitsBridge
<1> QED
  BY <1>1, <1>2, <1>3, <1>4, <1>5, <1>6, <1>7, <1>8 DEF Next, Maintenance, Environment

LEMMA WholeHolds == Spec => []AvailabilityIsOne
<1>1. Init => AvailabilityIsOne
  BY DEF Init, AvailabilityIsOne, Whole
<1> QED
  BY <1>1, WholeStep, TypeCorrect, CheckedHolds, CommandHolds, PTL DEF Spec

\* What Bridge says of a command-only backend is what HarmonyG2Backend does: the
\* outcomes of set_desired, all devices online after open() and otherwise online or
\* offline together, and no change but in refresh, set_desired and close.
THEOREM BridgeIsRight == Spec => []AvailabilityIsOne /\ [][SuitsBridge]_vars
  BY WholeStep, WholeHolds, TypeCorrect, CheckedHolds, CommandHolds, PTL DEF Spec

-----------------------------------------------------------------------------
\* An answer is never taken back, and what it says of the gateway stays so: a command
\* that was executed is not executed again, one that was rejected never is.
AnswersAreFinal ==
  \A c \in Commands :
    /\ status[c] # "none" => status'[c] = status[c]
    /\ gate[c] \in {"refused", "executed"} \/ status[c] = "rejected" => gate'[c] = gate[c]

LEMMA FinalStep ==
  ASSUME TypeOK, Promise!Outcome, [Promise!Next]_(Promise!vars)
  PROVE  AnswersAreFinal
<1>0. /\ gate \in [Commands -> {"unsent", "pending", "refused", "executed"}]
      /\ status \in [Commands -> {"none", "accepted", "rejected", "indeterminate"}]
  BY DEF TypeOK
<1>1. ASSUME NEW c \in Commands,
             Promise!Accept(c) \/ Promise!Reject(c) \/ Promise!Doubt(c) \/ Promise!Abandon(c)
      PROVE  AnswersAreFinal
  <2>1. status[c] = "none" /\ gate[c] = "unsent"
    BY <1>1 DEF Promise!Accept, Promise!Reject, Promise!Doubt, Promise!Abandon,
                Promise!Unanswered
  <2>2. \A k \in Commands \ {c} : status'[k] = status[k] /\ gate'[k] = gate[k]
    BY <1>0, <1>1 DEF Promise!Accept, Promise!Reject, Promise!Doubt, Promise!Abandon
  <2> QED
    BY <2>1, <2>2 DEF AnswersAreFinal
<1>2. ASSUME NEW c \in Commands, Promise!TakeEffect(c)
      PROVE  AnswersAreFinal
  <2>1. gate[c] = "pending" /\ status[c] # "rejected" /\ status' = status
    BY <1>2 DEF Promise!TakeEffect, Promise!Outcome
  <2>2. \A k \in Commands \ {c} : gate'[k] = gate[k]
    BY <1>0, <1>2 DEF Promise!TakeEffect
  <2> QED
    BY <2>1, <2>2 DEF AnswersAreFinal
<1>3. CASE Promise!ChangeAvailability \/ UNCHANGED Promise!vars
  BY <1>3 DEF Promise!ChangeAvailability, Promise!vars, AnswersAreFinal
<1> QED
  BY <1>1, <1>2, <1>3 DEF Promise!Next

\* An answer of set_desired is final, and no command is executed twice.
THEOREM AnswersStay == Spec => [][AnswersAreFinal]_vars
<1>1. Promise!Init => Promise!Outcome
  BY DEF Promise!Init, Promise!Outcome
<1>2. Spec => []Promise!Outcome
  BY <1>1, OutcomeStep, PromiseInit, PromiseStep, TypeCorrect, CommandHolds, CheckedHolds,
     PTL DEF Spec
<1> QED
  BY <1>2, FinalStep, PromiseStep, TypeCorrect, CommandHolds, CheckedHolds, PTL DEF Spec
=============================================================================
