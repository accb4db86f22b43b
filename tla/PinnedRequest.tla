--------------------------- MODULE PinnedRequest ----------------------------
(***************************************************************************)
(* One command on its way through PinnedG2Transport.request, set_on_off    *)
(* and what set_desired makes of them: one connection, one request, each   *)
(* socket operation with a time-out of its own, and a gateway that goes on *)
(* with what it has received whatever became of the connection.            *)
(***************************************************************************)
EXTENDS Integers

CONSTANTS
  Timeout, \* _timeout_seconds, in ticks
  Pieces   \* pieces of a head or a body that are counted; any number may arrive

Sends == 2 \* http.client sends the headers, then the body

Late == (2 + Pieces) * Timeout \* ticks that are counted: later is as late

ASSUME PinnedAssumption == Timeout \in Nat \ {0} /\ Pieces \in Nat \ {0}

VARIABLES
  \* external: the peer
  cert,    \* "pinned", or the certificate of another host
  arrived, \* pieces of the request it has received
  fate,    \* "none", "executed" or "refused"
  answer,  \* what it answers
  \* the request
  pc,      \* the socket operation it waits in; "idle" before and "done" after
  started, \* request_started
  sent,    \* pieces of the request handed to the kernel
  pieces,  \* pieces of the head, or of the body, that were read before this one
  timeout, \* the socket's time-out
  waited,  \* ticks since this operation began
  clock,   \* ticks since the deadline was set, Timeout ticks ahead
  \* set_desired
  status,  \* its result
  online   \* the devices are online

peer == <<cert, arrived, fate, answer>>
vars == <<peer, pc, started, sent, pieces, timeout, waited, clock, status, online>>

Connecting == {"connect", "handshake"}
Waiting    == Connecting \cup {"send", "head", "body"}
Remaining  == Timeout - clock

Init ==
  /\ cert \in {"pinned", "other"} /\ arrived = 0 /\ fate = "none" /\ answer = "none"
  /\ pc = "idle" /\ started = FALSE /\ sent = 0 /\ pieces = 0
  /\ timeout = Timeout /\ waited = 0 /\ clock = 0
  /\ status = "none" /\ online = FALSE

-----------------------------------------------------------------------------
(***************************************************************************)
(* Time, and the gateway (external).                                       *)
(***************************************************************************)
Tick ==
  /\ pc \in Waiting /\ waited < timeout
  /\ waited' = waited + 1 /\ clock' = IF clock < Late THEN clock + 1 ELSE clock
  /\ UNCHANGED <<peer, pc, started, sent, pieces, timeout, status, online>>

Arrive ==
  /\ arrived < sent /\ arrived' = arrived + 1
  /\ UNCHANGED <<cert, fate, answer, pc, started, sent, pieces, timeout, waited, clock,
                 status, online>>

Execute ==
  /\ arrived = Sends /\ fate = "none" /\ fate' = "executed"
  /\ UNCHANGED <<cert, arrived, answer, pc, started, sent, pieces, timeout, waited,
                 clock, status, online>>

\* "unfit" is a 2xx that is no JSON object with success true; "error" is a status
\* other than 2xx and the refusals: 400 ("bad"), and 401 and 403 ("forbidden").
GatewayAnswers ==
  /\ arrived > 0 /\ answer = "none"
  /\ \/ answer' = "success" /\ fate = "executed" /\ UNCHANGED fate
     \/ answer' \in {"unfit", "error"} /\ UNCHANGED fate
     \/ answer' \in {"bad", "forbidden"} /\ fate = "none" /\ fate' = "refused"
  /\ UNCHANGED <<cert, arrived, pc, started, sent, pieces, timeout, waited, clock,
                 status, online>>

-----------------------------------------------------------------------------
(***************************************************************************)
(* The end of a request: what set_desired returns.                         *)
(***************************************************************************)
Finish(result, up) ==
  /\ pc' = "done" /\ status' = result /\ online' = up
  /\ UNCHANGED <<started, timeout, waited, pieces>>

\* A failure without an answer: only one before submission is a rejection.
Raise == Finish(IF started THEN "indeterminate" ELSE "rejected", FALSE)

\* Mutant of StatusError: every status of the gateway is taken for a refusal.
StatusErrorRejected == Finish("rejected", answer = "bad")

\* Of the statuses that are errors three say that the command was not executed;
\* only after a 400 do the devices stay online.
StatusError ==
  IF answer = "error" THEN Finish("indeterminate", FALSE)
                      ELSE Finish("rejected", answer = "bad" /\ online)

\* The next operation may take what remains of the time, or the request is late.
Proceed(next, limit) ==
  /\ pc' = next /\ timeout' = limit /\ waited' = 0 /\ pieces' = 0
  /\ UNCHANGED <<status, online>>

-----------------------------------------------------------------------------
(***************************************************************************)
(* The request, one step per socket operation that comes to its end, with  *)
(* the code that runs from there to the next one.                          *)
(***************************************************************************)
\* set_desired submits the command, with the devices online.
Begin ==
  /\ pc = "idle" /\ pc' = "connect" /\ online' = TRUE
  /\ UNCHANGED <<peer, started, sent, pieces, timeout, waited, clock, status>>

Connected ==
  /\ pc = "connect" /\ Proceed("handshake", Timeout)
  /\ UNCHANGED <<peer, started, sent, clock>>

\* Mutant of Secured: the certificate is not compared.
SecuredByAnyone ==
  /\ pc = "handshake"
  /\ IF Remaining > 0
     THEN started' = TRUE /\ Proceed("send", Remaining)
     ELSE Raise
  /\ UNCHANGED <<peer, sent, clock>>

\* Mutant of Secured: the time that remains may be none.
SecuredAtTheDeadline ==
  /\ pc = "handshake"
  /\ IF cert = "pinned" /\ Remaining >= 0
     THEN started' = TRUE /\ Proceed("send", Remaining)
     ELSE Raise
  /\ UNCHANGED <<peer, sent, clock>>

\* TLS is up: the certificate, the deadline, and request_started.
Secured ==
  /\ pc = "handshake"
  /\ IF cert = "pinned" /\ Remaining > 0
     THEN started' = TRUE /\ Proceed("send", Remaining)
     ELSE Raise
  /\ UNCHANGED <<peer, sent, clock>>

SendHeaders ==
  /\ pc = "send" /\ sent = 0 /\ sent' = 1 /\ waited' = 0
  /\ UNCHANGED <<peer, pc, started, pieces, timeout, clock, status, online>>

SendBody ==
  /\ pc = "send" /\ sent = 1 /\ sent' = 2
  /\ IF Remaining > 0 THEN Proceed("head", Remaining) ELSE Raise
  /\ UNCHANGED <<peer, started, clock>>

\* A piece of the answer that is not its head's, or its body's, last: there may be
\* any number, for http.client reads over answers of 100 Continue.
ReadMore ==
  /\ pc \in {"head", "body"} /\ answer # "none"
  /\ pieces' = (IF pieces < Pieces THEN pieces + 1 ELSE pieces) /\ waited' = 0
  /\ UNCHANGED <<peer, pc, started, sent, timeout, clock, status, online>>

\* Mutant of ReadHead: the deadline is not looked at.
ReadHeadLate ==
  /\ pc = "head" /\ answer # "none"
  /\ \/ answer \in {"error", "bad", "forbidden"} /\ StatusError
     \/ answer = "unfit" /\ Raise
     \/ answer \in {"success", "unfit"} /\ Proceed("body", timeout)
  /\ UNCHANGED <<peer, started, sent, clock>>

\* getresponse() has returned: the status, the content type and the deadline.  A
\* connection the answer has closed keeps the time-out it had.
ReadHead ==
  /\ pc = "head" /\ answer # "none"
  /\ \/ answer \in {"error", "bad", "forbidden"} /\ StatusError
     \/ answer = "unfit" /\ Raise
     \/ /\ answer \in {"success", "unfit"} /\ Remaining > 0
        /\ \E limit \in {Remaining, timeout} : Proceed("body", limit)
     \/ answer \in {"success", "unfit"} /\ Remaining <= 0 /\ Raise
  /\ UNCHANGED <<peer, started, sent, clock>>

\* The body is whole: an object that says success, or not.
ReadBody ==
  /\ pc = "body"
  /\ IF answer = "success" THEN Finish("accepted", online) ELSE Raise
  /\ UNCHANGED <<peer, started, sent, clock>>

\* A body nested too deep for json.loads: a RecursionError is none of the errors
\* that request() and set_desired look for.  It ends the process, without a result.
Escapes ==
  /\ pc = "body" /\ answer = "unfit" /\ pc' = "done"
  /\ UNCHANGED <<peer, started, sent, pieces, timeout, waited, clock, status, online>>

\* Mutant of TimesOut: no time-out once the request has been sent.
TimesOutBefore ==
  /\ pc \in Connecting \cup {"send"} /\ waited = timeout /\ Raise
  /\ sent' \in IF pc = "send" THEN {sent, sent + 1} ELSE {sent}
  /\ UNCHANGED <<peer, started, clock>>

\* An operation times out; what it was sending may have left.
TimesOut ==
  /\ pc \in Waiting /\ waited = timeout /\ Raise
  /\ sent' \in IF pc = "send" THEN {sent, sent + 1} ELSE {sent}
  /\ UNCHANGED <<peer, started, clock>>

\* The connection is refused or breaks, or what arrives is no HTTP.
Breaks ==
  /\ pc \in Waiting /\ Raise
  /\ sent' \in IF pc = "send" THEN {sent, sent + 1} ELSE {sent}
  /\ UNCHANGED <<peer, started, clock>>

-----------------------------------------------------------------------------
Gateway == Arrive \/ Execute \/ GatewayAnswers
Request == \/ Begin \/ Connected \/ Secured \/ SendHeaders \/ SendBody
           \/ ReadMore \/ ReadHead \/ ReadBody \/ Escapes \/ TimesOut \/ Breaks
Over    == pc = "done" /\ UNCHANGED vars

Next == Tick \/ Gateway \/ Request \/ Over

Spec == Init /\ [][Next]_vars

\* Fairness: the backend submits, time passes, and a time-out is raised.  Nothing is
\* assumed of the gateway.
FairSpec == Spec /\ WF_vars(Begin) /\ WF_vars(Tick) /\ WF_vars(TimesOut)

-----------------------------------------------------------------------------
\* Type invariant: the time-out of a socket is never zero, which would make it
\* non-blocking.
TypeOK ==
  /\ cert \in {"pinned", "other"} /\ arrived \in 0 .. Sends
  /\ fate \in {"none", "executed", "refused"}
  /\ answer \in {"none", "success", "unfit", "error", "bad", "forbidden"}
  /\ pc \in Waiting \cup {"idle", "done"}
  /\ started \in BOOLEAN /\ sent \in 0 .. Sends /\ pieces \in 0 .. Pieces
  /\ timeout \in 1 .. Timeout /\ waited \in 0 .. timeout /\ clock \in 0 .. Late
  /\ status \in {"none", "accepted", "rejected", "indeterminate"}
  /\ online \in BOOLEAN

\* No part of a request, the access token among it, goes to another host.
OnlyToThePinned == sent > 0 => cert = "pinned"

\* The deadline is looked at between operations, and each one that follows may
\* use up the time-out again: a request outlasts it by one time-out at most, and by
\* one more for each piece of the head, or of the body, it has got.
Bounded == pieces < Pieces => clock <= (2 + pieces) * Timeout

\* Only a gateway that keeps sending holds a request up for ever: one that falls
\* silent, at whatever operation, is timed out.  (Nothing bounds the pieces.)
Ends == <>(pc = "done") \/ []<><<ReadMore>>_vars

\* The process has ended in the middle of set_desired, and offers no device more.
escaped == pc = "done" /\ status = "none"

offered == online /\ ~escaped

\* The command at the gateway as its result lets it be known.
gate == IF pc # "done" THEN "unsent"
        ELSE IF fate = "executed" THEN "executed"
        ELSE IF escaped \/ status = "indeterminate" THEN "pending"
        ELSE IF fate = "refused" THEN "refused" ELSE "unsent"

\* A command that is submitted keeps what the bridge relies on: it implements
\* CommandBackend.
Promise == INSTANCE CommandBackend WITH
  Commands <- {"command"}, status <- [c \in {"command"} |-> status],
  gate <- [c \in {"command"} |-> gate], online <- offered
Implements == Promise!Spec
=============================================================================
