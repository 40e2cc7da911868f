----------------------------- MODULE SmsOutbound -----------------------------
(***************************************************************************)
(* The outbound SMS path: HighLevel delivers a signed callback for each    *)
(* message, a handler claims a durable operation, acquires the permission  *)
(* to send, submits the SMS to EVERY8D once and records the outcome.  In   *)
(* mock mode a conditional update starts the send and the transport is a   *)
(* stub; in controlled_live mode one RPC consumes a one-time authorization *)
(* and starts the send in one transaction.                                 *)
(*                                                                         *)
(* A database call is one step of the database.  Its caller may see an     *)
(* error before or after that step: a call its caller has given up stays   *)
(* in late and may still execute.  A handler may die at any moment.  The   *)
(* one deadline, the provider's time-out, may pass at any moment.          *)
(***************************************************************************)
EXTENDS FiniteSets

CONSTANTS
  Callbacks,       \* deliveries of the webhook, each with its own handler
  Messages,        \* HighLevel message ids; an operation row has its message's id
  Authorizations,  \* rows of ghl_sms_controlled_live_authorizations
  None             \* no message: the authorization is not bound

ASSUME NoneAssumption == None \notin Messages

VARIABLES
  op,       \* ghl_sms_outbound_operations, by message
  auth,     \* ghl_sms_controlled_live_authorizations
  at,       \* where each handler is, and at last what it has answered
  req,      \* the message of each handler's callback and its process's configuration
  call,     \* the database call each handler awaits
  late,     \* database calls whose caller has gone on without the answer
  sms       \* what EVERY8D made of the SMS each handler submitted

vars == <<op, auth, at, req, call, late, sms>>

Modes == {"mock", "controlled_live"}
Final == {"accepted", "definitive_failed", "ambiguous"}
Kinds == {"claim", "mark", "consume", "before_send", "after_send"}
Calls == [caller : Callbacks, kind : Kinds, outcome : Final \cup {"none"}]

NoRow == [mode |-> "none", state |-> "absent", started |-> FALSE]
NoRequest == [message |-> None, mode |-> "none", authorization |-> None]
NoCall == [kind |-> "none", outcome |-> "none", result |-> "none"]

Init ==
  /\ op = [m \in Messages |-> NoRow]
  /\ auth \in [Authorizations -> [state : {"created"}, fits : BOOLEAN, by : {None}]]
  /\ at = [c \in Callbacks |-> "idle"]
  /\ req = [c \in Callbacks |-> NoRequest]
  /\ call = [c \in Callbacks |-> NoCall]
  /\ late = {}
  /\ sms = [c \in Callbacks |-> "none"]

-----------------------------------------------------------------------------
(* The database: what each call does when it executes *)

Row(c) == op[req[c].message]
Unstarted(c, mode) == Row(c) = [mode |-> mode, state |-> "processing", started |-> FALSE]

\* The insert: the identity key answers 23505 when the row exists.
ClaimMatches(c) == Row(c) = NoRow
MarkMatches(c) == Unstarted(c, "mock")

BeforeSendMatches(c) == Unstarted(c, "controlled_live")
AfterSendMatches(c) ==
  Row(c) = [mode |-> req[c].mode, state |-> "processing", started |-> TRUE]

\* The authorization the deployment names fits the request and is armed.
Armed(c) == LET a == auth[req[c].authorization] IN a.state = "armed" /\ a.fits

\* Mutant: the RPC starts the operation without looking at its state.
ConsumeMatches_AnyOperation(c) == Armed(c)

\* One transaction: without an operation it can start the RPC raises, and the
\* consumption is rolled back.
ConsumeMatches(c) == Armed(c) /\ Unstarted(c, "controlled_live")

Matches(q) ==
  \/ q.kind = "claim" /\ ClaimMatches(q.caller)
  \/ q.kind = "mark" /\ MarkMatches(q.caller)
  \/ q.kind = "consume" /\ ConsumeMatches(q.caller)
  \/ q.kind = "before_send" /\ BeforeSendMatches(q.caller)
  \/ q.kind = "after_send" /\ AfterSendMatches(q.caller)

\* The row a call that matches leaves behind.
Written(q) ==
  [mode |-> req[q.caller].mode,
   state |-> IF q.kind = "before_send" THEN "definitive_failed"
             ELSE IF q.kind = "after_send" THEN q.outcome ELSE "processing",
   started |-> q.kind \in {"mark", "consume", "after_send"}]

Run(q) ==
  LET c == q.caller IN
  /\ op' = IF Matches(q) THEN [op EXCEPT ![req[c].message] = Written(q)] ELSE op
  /\ auth' = IF Matches(q) /\ q.kind = "consume"
             THEN [auth EXCEPT ![req[c].authorization] =
                     [state |-> "consumed", fits |-> TRUE, by |-> req[c].message]]
             ELSE auth

Result(q) ==
  IF Matches(q) THEN "true"
  ELSE IF q.kind = "consume" /\ Armed(q.caller) THEN "raised" ELSE "false"

Pending(c) == [caller |-> c, kind |-> call[c].kind, outcome |-> call[c].outcome]

\* The call of c executes.
Execute(c) ==
  /\ call[c].result = "sent"
  /\ Run(Pending(c))
  /\ call' = [call EXCEPT ![c] = [kind |-> call[c].kind, outcome |-> call[c].outcome,
                                 result |-> Result(Pending(c))]]
  /\ UNCHANGED <<at, req, late, sms>>

\* A call nobody waits for any more executes.
ExecuteLate(q) ==
  /\ Run(q)
  /\ late' = late \ {q}
  /\ UNCHANGED <<at, req, call, sms>>

-----------------------------------------------------------------------------
(* The handler *)

GoTo(c, place) == at' = [at EXCEPT ![c] = place]

\* Go on with a database call.
Ask(c, place, kind, outcome) ==
  /\ GoTo(c, place)
  /\ call' = [call EXCEPT ![c] = [kind |-> kind, outcome |-> outcome, result |-> "sent"]]

\* Go on without one, or answer the callback.
Leave(c, answer) ==
  /\ GoTo(c, answer)
  /\ call' = [call EXCEPT ![c] = NoCall]

Answers == {"refused", "duplicate", "failed_unclaimed", "failed_unstarted", "failed_started",
            "accepted", "unfinalized", "dead"}

\* Every gate of the configuration, of the request and of its tenant is
\* passed; mode and authorization id come from the handler's process.
Receive(c) ==
  /\ at[c] = "idle"
  /\ \E m \in Messages, mode \in Modes, a \in Authorizations :
       req' = [req EXCEPT ![c] = [message |-> m, mode |-> mode, authorization |-> a]]
  /\ GoTo(c, "claiming")
  /\ call' = [call EXCEPT ![c] = [kind |-> "claim", outcome |-> "none", result |-> "sent"]]
  /\ UNCHANGED <<op, auth, late, sms>>

\* One of the gates, or a tenant query, refuses.
Refuse(c) ==
  /\ at[c] = "idle"
  /\ Leave(c, "refused")
  /\ UNCHANGED <<op, auth, req, late, sms>>

\* The two ways to acquire the permission to send.
AskToSend(c) ==
  IF req[c].mode = "mock"
  THEN Ask(c, "marking", "mark", "none")
  ELSE Ask(c, "consuming", "consume", "none")

AfterClaim(c, answer) ==
  \/ answer = "true" /\ AskToSend(c)
  \/ answer = "false" /\ Leave(c, "duplicate")
  \/ answer \notin {"true", "false"} /\ Leave(c, "failed_unclaimed")

AfterMark(c, answer) ==
  IF answer = "true" THEN Leave(c, "starting") ELSE Leave(c, "unfinalized")

\* Mutant: an error of the RPC is taken for its commit.
AfterConsume_ErrorSends(c, answer) ==
  IF answer # "false" THEN Leave(c, "starting") ELSE Ask(c, "excusing", "before_send", "none")

\* False or an error: close the operation before the send.
AfterConsume(c, answer) ==
  IF answer = "true"
  THEN Leave(c, "starting")
  ELSE Ask(c, "excusing", "before_send", "none")

AfterExcuse(c, answer) ==
  Leave(c, IF answer = "true" THEN "failed_unstarted" ELSE "unfinalized")

AfterRecord(c, answer) ==
  \/ answer # "true" /\ Leave(c, "unfinalized")
  \/ /\ answer = "true"
     /\ Leave(c, IF call[c].outcome = "accepted" THEN "accepted" ELSE "failed_started")

GoOn(c, answer) ==
  \/ at[c] = "claiming" /\ AfterClaim(c, answer)
  \/ at[c] = "marking" /\ AfterMark(c, answer)
  \/ at[c] = "consuming" /\ AfterConsume(c, answer)
  \/ at[c] = "excusing" /\ AfterExcuse(c, answer)
  \/ at[c] = "recording" /\ AfterRecord(c, answer)

\* The answer of the call arrives.
Answered(c) ==
  /\ call[c].result \notin {"none", "sent"}
  /\ GoOn(c, call[c].result)
  /\ UNCHANGED <<op, auth, req, late, sms>>

\* The call fails for its caller; if it has not executed, it still may.
CallFails(c) ==
  /\ call[c].result # "none"
  /\ GoOn(c, "error")
  /\ late' = late \cup (IF call[c].result = "sent" THEN {Pending(c)} ELSE {})
  /\ UNCHANGED <<op, auth, req, sms>>

Record(c, outcome) ==
  /\ Ask(c, "recording", "after_send", outcome)
  /\ UNCHANGED <<op, auth, req, late>>

\* The provider cannot be created, or it is not asked.
ProviderUnavailable(c) ==
  /\ at[c] = "starting"
  /\ Record(c, "definitive_failed")
  /\ UNCHANGED sms

\* EVERY8D issues a token and the SMS is submitted.
Submit(c) ==
  /\ at[c] = "starting"
  /\ GoTo(c, "sending")
  /\ sms' = [sms EXCEPT ![c] = "submitted"]
  /\ UNCHANGED <<op, auth, req, call, late>>

\* Authentication is refused, or its outcome is unknown.
AuthenticationFails(c, outcome) ==
  /\ at[c] = "starting"
  /\ req[c].mode = "controlled_live"
  /\ outcome \in {"definitive_failed", "ambiguous"}
  /\ Record(c, outcome)
  /\ UNCHANGED sms

\* EVERY8D handles the submission, whoever still waits; the stub accepts.
ProviderHandles(c, verdict) ==
  /\ sms[c] = "submitted"
  /\ verdict = "rejected" => req[c].mode = "controlled_live"
  /\ sms' = [sms EXCEPT ![c] = verdict]
  /\ UNCHANGED <<op, auth, at, req, call, late>>

\* The answer tells what EVERY8D did, or it is lost, late or malformed.
Classified(answer) ==
  IF answer = "accepted" THEN "accepted"
  ELSE IF answer = "rejected" THEN "definitive_failed" ELSE "ambiguous"

ProviderAnswers(c) ==
  /\ at[c] = "sending"
  /\ \/ sms[c] # "submitted" /\ Record(c, Classified(sms[c]))
     \/ req[c].mode = "controlled_live" /\ Record(c, Classified("unknown"))
  /\ UNCHANGED sms

\* The process stops: nobody waits for the call it had sent.
Die(c) ==
  /\ at[c] \notin Answers \cup {"idle"}
  /\ Leave(c, "dead")
  /\ late' = late \cup (IF call[c].result = "sent" THEN {Pending(c)} ELSE {})
  /\ UNCHANGED <<op, auth, req, sms>>

-----------------------------------------------------------------------------
(* The operators who prepare authorizations *)

\* The transitions and the frozen scope of the trigger.
Protected(old, new) ==
  /\ \/ old.state = "created"
     \/ old.state = "armed" /\ new.state # "created"
     \/ old.state = new.state
  /\ old.state # "created" => new.fits = old.fits

\* An update of an authorization by hand; a deleted one is as unusable as
\* a revoked one.
Administer(a) ==
  /\ \E state \in {"created", "armed", "revoked"}, fits \in BOOLEAN :
       LET new == [state |-> state, fits |-> fits, by |-> None] IN
       /\ Protected(auth[a], new)
       /\ auth' = [auth EXCEPT ![a] = new]
  /\ UNCHANGED <<op, at, req, call, late, sms>>

Next ==
  \/ \E c \in Callbacks :
       \/ Receive(c)
       \/ Refuse(c)
       \/ Execute(c)
       \/ Answered(c)
       \/ CallFails(c)
       \/ ProviderUnavailable(c)
       \/ Submit(c)
       \/ \E outcome \in Final : AuthenticationFails(c, outcome)
       \/ \E verdict \in {"accepted", "rejected"} : ProviderHandles(c, verdict)
       \/ ProviderAnswers(c)
       \/ Die(c)
  \/ \E q \in late : ExecuteLate(q)
  \/ \E a \in Authorizations : Administer(a)

Spec == Init /\ [][Next]_vars

-----------------------------------------------------------------------------
(* Properties *)

Live(c) == req[c].mode = "controlled_live" /\ sms[c] # "none"
ConsumedBy(m) == {a \in Authorizations : auth[a].state = "consumed" /\ auth[a].by = m}

\* Every column holds one of its values.
TypeOK ==
  /\ op \in [Messages -> [mode : Modes \cup {"none"}, started : BOOLEAN,
                          state : Final \cup {"absent", "processing"}]]
  /\ auth \in [Authorizations -> [state : {"created", "armed", "consumed", "revoked"},
                                  fits : BOOLEAN, by : Messages \cup {None}]]
  /\ at \in [Callbacks -> Answers \cup
       {"idle", "claiming", "marking", "consuming", "excusing", "starting", "sending", "recording"}]
  /\ req \in [Callbacks ->
       [message : Messages \cup {None}, mode : Modes \cup {"none"},
        authorization : Authorizations \cup {None}]]
  /\ call \in [Callbacks -> [kind : Kinds \cup {"none"}, outcome : Final \cup {"none"},
                             result : {"none", "sent", "true", "false", "raised"}]]
  /\ late \subseteq Calls
  /\ sms \in [Callbacks -> {"none", "submitted", "accepted", "rejected"}]

\* Every SMS that is really sent spends one authorization of its own: a
\* message is submitted once, under an operation whose start consumed exactly
\* one authorization, and no authorization is consumed by an operation that
\* did not start, however late its RPC executes.
SendIsAuthorized ==
  /\ \A c, d \in Callbacks :
       sms[c] # "none" /\ sms[d] # "none" /\ req[c].message = req[d].message => c = d
  /\ \A c \in Callbacks : Live(c) => Row(c).mode = "controlled_live" /\ Row(c).started
  /\ \A m \in Messages :
       IF op[m].mode = "controlled_live" /\ op[m].started
       THEN \E a \in Authorizations : ConsumedBy(m) = {a} /\ auth[a].fits
       ELSE ConsumedBy(m) = {}

\* What is recorded and what is answered is true: an accepted operation was
\* accepted by EVERY8D, a definitively failed one was not and never will be,
\* and a callback answered with no attempt left an operation that cannot
\* start any more.
OutcomeIsTrue ==
  /\ \A m \in Messages :
       /\ op[m].state = "accepted" =>
            \E c \in Callbacks : req[c].message = m /\ sms[c] = "accepted"
       /\ op[m].state = "definitive_failed" =>
            \A c \in Callbacks : req[c].message = m => sms[c] \in {"none", "rejected"}
  /\ \A c \in Callbacks :
       /\ at[c] = "accepted" => Row(c).state = "accepted" /\ sms[c] = "accepted"
       /\ at[c] = "failed_unstarted" => Row(c).state = "definitive_failed" /\ ~Row(c).started

\* What a callback submitted, and what is recorded of a message.
Attempt(c) ==
  [of |-> IF sms[c] # "none" THEN req[c].message ELSE None,
   fate |-> IF sms[c] = "rejected" THEN "refused" ELSE sms[c]]

Recorded(m) ==
  CASE op[m].state = "accepted" -> "sent"
    [] op[m].state = "definitive_failed" -> "failed"
    [] op[m].state = "ambiguous" -> "unknown"
    [] OTHER -> "none"

\* What the answers of the callbacks say of their message.
Answer(m, answers) == \E c \in Callbacks : req[c].message = m /\ at[c] \in answers

Told(m) ==
  (IF Answer(m, {"accepted"}) THEN {"sent"} ELSE {})
  \cup (IF Answer(m, {"failed_unstarted", "failed_started"}) THEN {"failed"} ELSE {})

Delivery ==
  INSTANCE MessageDelivery WITH
    Handlers <- Callbacks,
    attempt <- [c \in Callbacks |-> Attempt(c)],
    record <- [m \in Messages |-> Recorded(m)],
    told <- [m \in Messages |-> Told(m)]

\* Operations, claims, authorizations, late calls and dying handlers together
\* are the delivery of a message: one submission, an outcome that is recorded
\* once, and answers that agree with it (processOutboundSms).
DeliversTruthfully == Delivery!Spec
=============================================================================
