----------------------------- MODULE LineDelivery -----------------------------
(***************************************************************************)
(* Messages on their way from HighLevel to LINE.                           *)
(*                                                                         *)
(* A workflow action (a run) either pushes its message to LINE itself, and *)
(* then mirrors a text in HighLevel's inbox, or creates a message of the   *)
(* tenant's conversation provider in HighLevel.  HighLevel calls the       *)
(* provider back for the messages it holds, an agent's as well as a run's, *)
(* as often as it likes; the handler of a callback pushes the message to   *)
(* LINE.  The rows of message_events decide between the handlers: a mirror *)
(* row marks a message LINE already has, a dispatch row vouches for a      *)
(* callback that names no provider, and the delivery row of a message,     *)
(* inserted under a unique key, is claimed by one callback.                *)
(*                                                                         *)
(* Every handler chooses its lifecycle for itself, from its own            *)
(* environment, when it reaches that point.  A write (to the database, or  *)
(* the status of a message to HighLevel) whose caller sees an error may    *)
(* still be carried out later: it stays in late.  A handler may die at any *)
(* moment.                                                                 *)
(***************************************************************************)

CONSTANTS
  Runs,        \* requests of the workflow action, all of one workflow
  Callbacks,   \* deliveries of the provider webhook
  Messages,    \* ids of HighLevel messages
  None

ASSUME ActorsAssumption ==
  /\ Runs \cap (Callbacks \cup Messages) = {}
  /\ None \notin Runs \cup Messages

VARIABLES
  message,      \* the messages HighLevel holds: who created each, its status
  row,          \* message_events about each message
  workflowRow,  \* the row every direct text of the workflow shares
  at,           \* where each handler is, and at last what it has answered
  job,          \* of each run: its lifecycle, the id HighLevel answered
  callback,     \* of each callback: its contents and what came of it
  push,         \* what LINE made of the push each handler submitted
  create,       \* what HighLevel made of the message each run submitted
  late          \* writes whose caller has gone on with an error

vars == <<message, row, workflowRow, at, job, callback, push, create, late>>

Actors == Runs \cup Callbacks

\* How a run delivers: through the conversation provider (provider_first_v3,
\* provider_first_legacy) or by itself, as a text it mirrors or as an image or
\* attachments it does not.
Kinds == {"v3", "legacy", "text", "files"}
ProviderFirst == {"v3", "legacy"}

RunPlaces == {"idle", "push", "log_sent", "log_failed", "create", "save"}
RunAnswers == {"sent", "failed", "skipped", "error", "dead"}
CallbackPlaces == {"idle", "lookup", "select", "claim", "push", "finalize", "status"}
CallbackAnswers == {"processed", "skipped", "error", "dead"}

NoMessage == [by |-> None, status |-> "none"]
NoRows == [delivery |-> "none", dispatch |-> FALSE, mirror |-> FALSE]
NoJob == [kind |-> "none", id |-> None]
NoCallback ==
  [message |-> None, provider |-> "none", life |-> "none", outcome |-> "none", answer |-> "none"]

Init ==
  /\ message = [m \in Messages |-> NoMessage]
  /\ row = [m \in Messages |-> NoRows]
  /\ workflowRow = "none"
  /\ at = [a \in Actors |-> "idle"]
  /\ job = [r \in Runs |-> NoJob]
  /\ callback = [c \in Callbacks |-> NoCallback]
  /\ push = [a \in Actors |-> "none"]
  /\ create = [r \in Runs |-> "none"]
  /\ late = {}

-----------------------------------------------------------------------------
(* Writes *)

MessageWrites ==
  {"claim", "sent", "failed", "dispatch", "mirror", "set_delivered", "set_failed"}
Writes ==
  [op : MessageWrites, on : Messages] \cup [op : {"log_sent", "log_failed"}, on : {None}]

\* Mutant: a delivery that failed is taken up again.
Claimable_Retry(m) == row[m].delivery \in {"none", "failed"}

\* The insert of the delivery row: its unique key answers 23505 when it exists.
Claimable(m) == row[m].delivery = "none"

\* The delivery row after a write: inserted once, finalized while it is received.
DeliveryAfter(w) ==
  LET now == row[w.on].delivery IN
  IF w.op = "claim" /\ Claimable(w.on) THEN "received"
  ELSE IF w.op \in {"sent", "failed"} /\ now = "received" THEN w.op
  ELSE now

RowAfter(w) ==
  [delivery |-> DeliveryAfter(w),
   dispatch |-> row[w.on].dispatch \/ w.op = "dispatch",
   mirror |-> row[w.on].mirror \/ w.op = "mirror"]

StatusAfter(w) ==
  IF w.op = "set_delivered" THEN "delivered"
  ELSE IF w.op = "set_failed" THEN "failed" ELSE message[w.on].status

\* saveMessageEvent takes 23505 for success: the first row of the workflow stays.
WorkflowRowAfter(w) ==
  IF w.on # None \/ workflowRow # "none" THEN workflowRow
  ELSE IF w.op = "log_sent" THEN "sent" ELSE "failed"

Apply(w) ==
  /\ row' = IF w.on = None THEN row ELSE [row EXCEPT ![w.on] = RowAfter(w)]
  /\ message' = IF w.on = None THEN message
                ELSE [message EXCEPT ![w.on] = [by |-> @.by, status |-> StatusAfter(w)]]
  /\ workflowRow' = WorkflowRowAfter(w)

GoTo(a, place) == at' = [at EXCEPT ![a] = place]

\* Handler a writes w: it is carried out and a told so, or a sees an error.
Succeeds(a, w, place) == Apply(w) /\ GoTo(a, place) /\ UNCHANGED late
Errs(a, w, place) ==
  GoTo(a, place) /\ late' = late \cup {w} /\ UNCHANGED <<row, message, workflowRow>>

\* A write whose caller saw an error is carried out.
LandLate(w) ==
  /\ Apply(w)
  /\ late' = late \ {w}
  /\ UNCHANGED <<at, job, callback, push, create>>

stored == <<message, row, workflowRow, late>>

-----------------------------------------------------------------------------
(* The push to LINE *)

Submit(a) ==
  /\ at[a] = "push" /\ push[a] = "none"
  /\ push' = [push EXCEPT ![a] = "submitted"]
  /\ UNCHANGED <<stored, at, job, callback, create>>

LineHandles(a) ==
  /\ push[a] = "submitted"
  /\ \E result \in {"accepted", "refused"} : push' = [push EXCEPT ![a] = result]
  /\ UNCHANGED <<stored, at, job, callback, create>>

\* LINE's answer arrives; or the request fails, whatever LINE made of it.
Answered(a) == at[a] = "push" /\ push[a] = "accepted"
PushFails(a) == at[a] = "push" /\ push[a] # "none"

-----------------------------------------------------------------------------
(* The workflow action *)

\* The request names no deliverable message, no contact with a mapping, or a
\* provider or a channel the tenant has not connected.
RefuseRun(r) ==
  /\ at[r] = "idle"
  /\ \E answer \in {"failed", "skipped", "error"} : GoTo(r, answer)
  /\ UNCHANGED <<stored, job, callback, push, create>>

StartRun(r) ==
  /\ at[r] = "idle"
  /\ \E kind \in Kinds :
       /\ job' = [job EXCEPT ![r] = [kind |-> kind, id |-> None]]
       /\ GoTo(r, IF kind \in ProviderFirst THEN "create" ELSE "push")
  /\ UNCHANGED <<stored, callback, push, create>>

\* A direct text whose channel is not connected: nothing is pushed.
RefuseText(r) ==
  /\ at[r] = "idle"
  /\ job' = [job EXCEPT ![r] = [kind |-> "text", id |-> None]]
  /\ GoTo(r, "log_failed")
  /\ UNCHANGED <<stored, callback, push, create>>

TextPushed(r) ==
  /\ job[r].kind = "text" /\ Answered(r)
  /\ GoTo(r, "log_sent")
  /\ UNCHANGED <<stored, job, callback, push, create>>

TextPushFails(r) ==
  /\ job[r].kind = "text" /\ PushFails(r)
  /\ GoTo(r, "log_failed")
  /\ UNCHANGED <<stored, job, callback, push, create>>

\* The audit of an image or of attachments decides nothing, stored or not.
FilesPushed(r) ==
  /\ job[r].kind = "files" /\ Answered(r)
  /\ GoTo(r, "sent")
  /\ UNCHANGED <<stored, job, callback, push, create>>

FilesPushFails(r) ==
  /\ job[r].kind = "files" /\ PushFails(r)
  /\ GoTo(r, "failed")
  /\ UNCHANGED <<stored, job, callback, push, create>>

\* An error falls into the catch of the whole delivery, though LINE has the text.
LogSent(r) ==
  /\ at[r] = "log_sent"
  /\ LET w == [op |-> "log_sent", on |-> None] IN
     \/ \E place \in {"create", "sent"} : Succeeds(r, w, place)
     \/ Errs(r, w, "log_failed")
  /\ UNCHANGED <<job, callback, push, create>>

LogFailed(r) ==
  /\ at[r] = "log_failed"
  /\ LET w == [op |-> "log_failed", on |-> None] IN
     Succeeds(r, w, "failed") \/ Errs(r, w, "error")
  /\ UNCHANGED <<job, callback, push, create>>

SubmitMessage(r) ==
  /\ at[r] = "create" /\ create[r] = "none"
  /\ create' = [create EXCEPT ![r] = "submitted"]
  /\ UNCHANGED <<stored, at, job, callback, push>>

\* A provider-first v3 message is pending; a mirror and a legacy provider message
\* claim to be delivered from the start.
FirstStatus(kind) == IF kind = "v3" THEN "pending" ELSE "delivered"

HighLevelCreates(r) ==
  /\ create[r] = "submitted"
  /\ \E m \in Messages :
       /\ message[m] = NoMessage
       /\ message' = [message EXCEPT ![m] = [by |-> r, status |-> FirstStatus(job[r].kind)]]
  /\ create' = [create EXCEPT ![r] = "created"]
  /\ UNCHANGED <<row, workflowRow, late, at, job, callback, push>>

HighLevelRefuses(r) ==
  /\ create[r] = "submitted"
  /\ create' = [create EXCEPT ![r] = "refused"]
  /\ UNCHANGED <<stored, at, job, callback, push>>

\* The answer may lack the id of the message.
MessageCreated(r) ==
  /\ at[r] = "create" /\ create[r] = "created"
  /\ \E id \in {m \in Messages : message[m].by = r} \cup {None} :
       job' = [job EXCEPT ![r] = [kind |-> @.kind, id |-> id]]
  /\ GoTo(r, "save")
  /\ UNCHANGED <<stored, callback, push, create>>

\* No usable answer: the failed attempt is saved under no id, stored or not.
CreateFails(r) ==
  /\ at[r] = "create" /\ create[r] # "none"
  /\ GoTo(r, IF job[r].kind = "text" THEN "sent" ELSE "failed")
  /\ UNCHANGED <<stored, job, callback, push, create>>

\* Save the row of a created message; without its id the row matches no callback.
Save(r, op, unsaved) ==
  /\ at[r] = "save"
  /\ LET w == [op |-> op, on |-> job[r].id] IN
     IF job[r].id = None
     THEN (\E place \in {"sent", unsaved} : GoTo(r, place)) /\ UNCHANGED stored
     ELSE Succeeds(r, w, "sent") \/ Errs(r, w, unsaved)
  /\ UNCHANGED <<job, callback, push, create>>

\* A message HighLevel created stays sent when its row cannot be saved.
SaveDispatch(r) == job[r].kind = "v3" /\ Save(r, "dispatch", "sent")

\* The legacy lifecycle reports the error, though HighLevel has the message.
SaveLegacyDispatch(r) == job[r].kind = "legacy" /\ Save(r, "dispatch", "failed")

SaveMirror(r) == job[r].kind = "text" /\ Save(r, "mirror", "sent")

-----------------------------------------------------------------------------
(* The provider callback *)

\* An agent sends a message in HighLevel.
AgentSends(m) ==
  /\ message[m] = NoMessage
  /\ message' = [message EXCEPT ![m] = [by |-> None, status |-> "pending"]]
  /\ UNCHANGED <<row, workflowRow, late, at, job, callback, push, create>>

\* HighLevel delivers a callback of a message it holds.  It names the tenant's
\* provider, none ("absent": a text without attachments), or anything else.
HighLevelCallsBack(c) ==
  /\ at[c] = "idle"
  /\ \E m \in Messages, provider \in {"match", "absent", "other"} :
       /\ message[m].status # "none"
       /\ callback' = [callback EXCEPT ![c] =
            [message |-> m, provider |-> provider, life |-> "none",
             outcome |-> "none", answer |-> "none"]]
  /\ GoTo(c, "lookup")
  /\ UNCHANGED <<stored, job, push, create>>

\* A read fails, or the payload, the tenant, the mapping, the provider or the
\* channel stops the callback before its claim.
RefuseCallback(c) ==
  /\ at[c] \in {"lookup", "select"}
  /\ \E answer \in {"skipped", "error"} : GoTo(c, answer)
  /\ UNCHANGED <<stored, job, callback, push, create>>

\* Mutant: the mirror is looked up by the wrong key.
LookUp_NoMirror(c) ==
  /\ at[c] = "lookup"
  /\ GoTo(c, "select")
  /\ UNCHANGED <<stored, job, callback, push, create>>

\* The mirror row is read once, here: an echo ends skipped.
LookUp(c) ==
  /\ at[c] = "lookup"
  /\ ~ row[callback[c].message].mirror
  /\ GoTo(c, "select")
  /\ UNCHANGED <<stored, job, callback, push, create>>

\* Mutant: any row about the message vouches for the callback.
Verified_AnyCallback(c) == callback[c].provider # "other"

\* provider_first_v3 validates the provider; the legacy lifecycle does not.
Verified(c) ==
  \/ callback[c].provider = "match"
  \/ callback[c].provider = "absent" /\ row[callback[c].message].dispatch

Select(c) ==
  /\ at[c] = "select"
  /\ \E life \in ProviderFirst :
       /\ life = "v3" => Verified(c)
       /\ callback' = [callback EXCEPT ![c] =
            [message |-> @.message, provider |-> @.provider, life |-> life,
             outcome |-> "none", answer |-> "none"]]
  /\ GoTo(c, "claim")
  /\ UNCHANGED <<stored, job, push, create>>

\* Mutant: a claim whose answer is lost is taken for granted.
Claim_ErrorProceeds(c) ==
  /\ at[c] = "claim"
  /\ LET m == callback[c].message
         w == [op |-> "claim", on |-> m] IN
     \/ Succeeds(c, w, IF Claimable(m) THEN "push" ELSE "skipped")
     \/ Errs(c, w, "push")
  /\ UNCHANGED <<job, callback, push, create>>

Claim(c) ==
  /\ at[c] = "claim"
  /\ LET m == callback[c].message
         w == [op |-> "claim", on |-> m] IN
     \/ Succeeds(c, w, IF Claimable(m) THEN "push" ELSE "skipped")
     \/ Errs(c, w, "error")
  /\ UNCHANGED <<job, callback, push, create>>

Conclude(c, outcome, answer) ==
  /\ callback' = [callback EXCEPT ![c] =
       [message |-> @.message, provider |-> @.provider, life |-> @.life,
        outcome |-> outcome, answer |-> answer]]
  /\ GoTo(c, "finalize")
  /\ UNCHANGED <<stored, job, push, create>>

\* Contents LINE cannot carry, or no connected channel: v3 finds out after its claim.
Undeliverable(c) ==
  /\ at[c] = "push" /\ push[c] = "none" /\ callback[c].life = "v3"
  /\ Conclude(c, "failed", "processed")

CallbackPushed(c) == Answered(c) /\ Conclude(c, "sent", "processed")

\* Every error of the push is a failure, an answer lost after acceptance too.
CallbackPushFails(c) == PushFails(c) /\ Conclude(c, "failed", "error")

Outcome(c) == [op |-> callback[c].outcome, on |-> callback[c].message]

\* v3 tells HighLevel next, and does so even if the row could not be finalized.
FinalizeV3(c) ==
  /\ at[c] = "finalize" /\ callback[c].life = "v3"
  /\ \/ Succeeds(c, Outcome(c), "status") /\ UNCHANGED callback
     \/ /\ Errs(c, Outcome(c), "status")
        /\ callback' = [callback EXCEPT ![c] =
             [message |-> @.message, provider |-> @.provider, life |-> @.life,
              outcome |-> @.outcome,
              answer |-> IF @.outcome = "sent" THEN "error" ELSE @.answer]]
  /\ UNCHANGED <<job, push, create>>

\* Mutant: the answer does not depend on whether the row was finalized.
FinalizeLegacy_ErrorIgnored(c) ==
  /\ at[c] = "finalize" /\ callback[c].life = "legacy"
  /\ \/ Succeeds(c, Outcome(c), callback[c].answer)
     \/ Errs(c, Outcome(c), callback[c].answer)
  /\ UNCHANGED <<job, callback, push, create>>

FinalizeLegacy(c) ==
  /\ at[c] = "finalize" /\ callback[c].life = "legacy"
  /\ \/ Succeeds(c, Outcome(c), callback[c].answer)
     \/ Errs(c, Outcome(c), "error")
  /\ UNCHANGED <<job, callback, push, create>>

UpdateStatus(c) ==
  /\ at[c] = "status"
  /\ LET w == [op |-> IF callback[c].outcome = "sent" THEN "set_delivered" ELSE "set_failed",
               on |-> callback[c].message]
     IN Succeeds(c, w, callback[c].answer) \/ Errs(c, w, callback[c].answer)
  /\ UNCHANGED <<job, callback, push, create>>

\* The process of a handler stops.
Die(a) ==
  /\ at[a] \in (RunPlaces \cup CallbackPlaces) \ {"idle"}
  /\ GoTo(a, "dead")
  /\ UNCHANGED <<stored, job, callback, push, create>>

-----------------------------------------------------------------------------

RunStep(r) ==
  \/ RefuseRun(r) \/ StartRun(r) \/ RefuseText(r)
  \/ TextPushed(r) \/ TextPushFails(r) \/ FilesPushed(r) \/ FilesPushFails(r)
  \/ LogSent(r) \/ LogFailed(r) \/ SubmitMessage(r) \/ MessageCreated(r) \/ CreateFails(r)
  \/ SaveDispatch(r) \/ SaveLegacyDispatch(r) \/ SaveMirror(r)

CallbackStep(c) ==
  \/ RefuseCallback(c) \/ LookUp(c) \/ Select(c) \/ Claim(c) \/ Undeliverable(c)
  \/ CallbackPushed(c) \/ CallbackPushFails(c)
  \/ FinalizeV3(c) \/ FinalizeLegacy(c) \/ UpdateStatus(c)

Next ==
  \/ \E r \in Runs : RunStep(r) \/ HighLevelCreates(r) \/ HighLevelRefuses(r)
  \/ \E c \in Callbacks : HighLevelCallsBack(c) \/ CallbackStep(c)
  \/ \E a \in Actors : Submit(a) \/ LineHandles(a) \/ Die(a)
  \/ \E m \in Messages : AgentSends(m)
  \/ \E w \in late : LandLate(w)

Spec == Init /\ [][Next]_vars

-----------------------------------------------------------------------------
(* Properties *)

\* Every variable has its type; in particular every handler is at a place of its
\* own kind, and a row of message_events in a state its check constraint admits.
TypeOK ==
  /\ message \in [Messages -> [by : Runs \cup {None},
                               status : {"none", "pending", "delivered", "failed"}]]
  /\ row \in [Messages -> [delivery : {"none", "received", "sent", "failed"},
                           dispatch : BOOLEAN, mirror : BOOLEAN]]
  /\ workflowRow \in {"none", "sent", "failed"}
  /\ at \in [Actors -> RunPlaces \cup RunAnswers \cup CallbackPlaces \cup CallbackAnswers]
  /\ \A r \in Runs : at[r] \in RunPlaces \cup RunAnswers
  /\ \A c \in Callbacks : at[c] \in CallbackPlaces \cup CallbackAnswers
  /\ job \in [Runs -> [kind : Kinds \cup {"none"}, id : Messages \cup {None}]]
  /\ callback \in [Callbacks -> [message : Messages \cup {None},
                                 provider : {"none", "match", "absent", "other"},
                                 life : ProviderFirst \cup {"none"},
                                 outcome : {"none", "sent", "failed"},
                                 answer : {"none", "processed", "error"}]]
  /\ push \in [Actors -> {"none", "submitted", "accepted", "refused"}]
  /\ create \in [Runs -> {"none", "submitted", "created", "refused"}]
  /\ late \subseteq Writes

Pushed(a) == push[a] # "none"
Of(c) == callback[c].message

\* What reaches LINE under m: the run that created it, or an agent's message.
Origin(m) == IF message[m].by = None THEN m ELSE message[m].by

\* What a run or an agent sends through the conversation provider is pushed to
\* LINE by at most one handler, whatever the callbacks, their lifecycles, their
\* lost answers, their late writes and their crashes; a run pushes it as well
\* only when it is the echo of a text it mirrors (claimGhlOutboundProviderDelivery).
OneDelivery ==
  /\ \A c, d \in Callbacks :
       Pushed(c) /\ Pushed(d) /\ Origin(Of(c)) = Origin(Of(d)) => c = d
  /\ \A c \in Callbacks, r \in Runs :
       Pushed(c) /\ Pushed(r) /\ Origin(Of(c)) = r => job[r].kind = "text"

\* A v3 callback that names no provider makes a push only for a message which a
\* run, not an agent and not a mirror, has created through the provider
\* (processProviderCallback).
OnlyVerified ==
  \A c \in Callbacks :
    Pushed(c) /\ callback[c].life = "v3" /\ callback[c].provider # "match" =>
      \E r \in Runs : Origin(Of(c)) = r /\ job[r].kind \in ProviderFirst

AcceptedFor(m) == \E c \in Callbacks : Of(c) = m /\ push[c] = "accepted"

\* A mirror and a legacy provider message are created delivered; every other
\* status "delivered" is the report of a callback.
Reported(m) == message[m].by = None \/ job[message[m].by].kind = "v3"

\* What is recorded, told to HighLevel and answered of a delivery is true: a sent
\* row, a reported delivery and an answer "processed" or "sent" all mean that LINE
\* (or, of a provider-first run, HighLevel) accepted the message, and the row and
\* the status never contradict each other (processProviderCallback,
\* processGhlWorkflowSendLine).
OutcomesTrue ==
  /\ \A m \in Messages :
       /\ row[m].delivery = "sent" => AcceptedFor(m)
       /\ Reported(m) /\ message[m].status = "delivered" => AcceptedFor(m)
       /\ row[m].delivery = "sent" => message[m].status # "failed"
       /\ row[m].delivery = "failed" /\ Reported(m) => message[m].status # "delivered"
  /\ \A c \in Callbacks :
       at[c] = "processed" => row[Of(c)].delivery = callback[c].outcome
                              \/ callback[c].outcome = "failed"
  /\ \A r \in Runs :
       /\ at[r] = "sent" /\ job[r].kind \notin ProviderFirst => push[r] = "accepted"
       /\ at[r] = "sent" /\ job[r].kind \in ProviderFirst => create[r] = "created"
  /\ workflowRow = "sent" => \E r \in Runs : job[r].kind = "text" /\ push[r] = "accepted"

\* A callback that has read the mirror row's absence and may yet push.
PastLookUp == {"select", "claim", "push", "finalize", "status"}
Settled(m) ==
  /\ row[m].mirror
  /\ \A c \in Callbacks : Of(c) = m => at[c] \notin PastLookUp

\* Once the mirror row of a text is stored and no callback of the mirror is under
\* way, none ever gets under way again: the echo reaches LINE only if its callback
\* overtook the row (findWorkflowOutboundMirrorMessageEventForTenantIds).
EchoSettled == [][\A m \in Messages : Settled(m) => Settled(m)']_vars

\* What a callback submitted, and what is recorded of a message; a failed row
\* leaves open whether LINE has it.
Attempt(c) == [of |-> IF Pushed(c) THEN Of(c) ELSE None, fate |-> push[c]]

Recorded(m) ==
  CASE row[m].delivery = "sent" -> "sent"
    [] row[m].delivery = "failed" -> "unknown"
    [] OTHER -> "none"

\* What HighLevel was told of it: by its status, or by the answer to its callback.
ToldSent(m) ==
  \/ Reported(m) /\ message[m].status = "delivered"
  \/ \E c \in Callbacks : Of(c) = m /\ at[c] = "processed" /\ callback[c].outcome = "sent"

Told(m) ==
  (IF ToldSent(m) THEN {"sent"} ELSE {})
  \cup (IF message[m].status = "failed" THEN {"failed"} ELSE {})

Delivery ==
  INSTANCE MessageDelivery WITH
    Handlers <- Callbacks,
    attempt <- [c \in Callbacks |-> Attempt(c)],
    record <- [m \in Messages |-> Recorded(m)],
    told <- [m \in Messages |-> Told(m)]

\* Rows, claims, late writes, two lifecycles and dying handlers together are the
\* delivery of a message: one submission, an outcome that is recorded once, and
\* reports that agree with it (processProviderCallback).
DeliversTruthfully == Delivery!Spec
=============================================================================
