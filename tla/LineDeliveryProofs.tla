-------------------------- MODULE LineDeliveryProofs --------------------------
(***************************************************************************)
(* For any number of runs, callbacks and messages: what goes through the   *)
(* conversation provider is pushed to LINE by one handler, a callback that *)
(* names no provider pushes only what a run created, what is recorded and  *)
(* reported is true, and a stored mirror settles its echo.                 *)
(*                                                                         *)
(* The argument: a callback holds a delivery from the insert of its row    *)
(* on; the row never goes away, so nobody else's insert succeeds, whether  *)
(* the holder goes on, fails or dies and whatever late write lands.  That  *)
(* two deliveries of one origin are one delivery follows from a run having *)
(* one message in HighLevel at most.  A write of an outcome, carried out   *)
(* or still to come, is the holder's, so two of them cannot disagree.      *)
(***************************************************************************)
EXTENDS LineDelivery, TLAPS

\* A callback that has claimed the delivery of its message.
Holds(c) ==
  at[c] \in {"push", "finalize", "status"} \/ Pushed(c) \/ callback[c].outcome # "none"

\* A message a run created through the provider.
Vouched(m) ==
  /\ message[m].by \in Runs
  /\ job[message[m].by].kind \in ProviderFirst

\* What a callback came to about m.
Concluded(m, outcome) == \E c \in Callbacks : Of(c) = m /\ callback[c].outcome = outcome

TextPushedBy(r) == job[r].kind = "text" /\ push[r] = "accepted"

RunAgrees(r) ==
  /\ at[r] = "idle" => push[r] = "none" /\ create[r] = "none" /\ job[r].kind = "none"
  /\ at[r] = "push" \/ Pushed(r) => job[r].kind \in {"text", "files"}
  /\ at[r] \in {"log_sent", "log_failed"} => job[r].kind = "text"
  /\ at[r] \in {"create", "save"} \/ create[r] # "none" =>
       job[r].kind \in {"v3", "legacy", "text"}
  /\ at[r] = "save" /\ job[r].id # None => message[job[r].id].by = r
  /\ at[r] \in {"log_sent", "create", "save", "sent"} /\ job[r].kind \notin ProviderFirst =>
       push[r] = "accepted"
  /\ at[r] \in {"save", "sent"} /\ job[r].kind \in ProviderFirst => create[r] = "created"

\* One message of a run at most.
OneMessage ==
  /\ \A m \in Messages : message[m].by # None => create[message[m].by] = "created"
  /\ \A m, n \in Messages :
       message[m].by # None /\ message[m].by = message[n].by => m = n

CallbackAgrees(c) ==
  /\ at[c] # "idle" => Of(c) \in Messages /\ message[Of(c)].status # "none"
  /\ at[c] \in {"idle", "lookup", "select", "claim"} => ~ Holds(c)
  /\ Holds(c) => row[Of(c)].delivery # "none"
  /\ at[c] = "push" => callback[c].outcome = "none"
  /\ at[c] \in {"finalize", "status", "processed"} =>
       callback[c].outcome # "none" /\ callback[c].answer # "none"
  /\ callback[c].outcome = "sent" => push[c] = "accepted"
  /\ \/ at[c] = "processed"
     \/ at[c] = "status" /\ callback[c].answer = "processed"
     => row[Of(c)].delivery = callback[c].outcome \/ callback[c].outcome = "failed"

OneHolder ==
  \A c, d \in Callbacks : Holds(c) /\ Holds(d) /\ Of(c) = Of(d) => c = d

\* Evidence that a message was created through the provider is never false: not
\* the row of its dispatch, not one that may still be stored, and not the
\* decision of a callback that relied on it.
Evidence ==
  /\ \A m \in Messages : row[m].dispatch => Vouched(m)
  /\ \A w \in late : w.op = "dispatch" => Vouched(w.on)
  /\ \A c \in Callbacks :
       callback[c].life = "v3" /\ callback[c].provider # "match" =>
         at[c] # "idle" /\ Vouched(Of(c))

\* Nor is a write of an outcome ever false, carried out or still to come.
TrueWrite(w) ==
  /\ w.op \in {"sent", "set_delivered"} => Concluded(w.on, "sent")
  /\ w.op \in {"failed", "set_failed"} => Concluded(w.on, "failed")
  /\ w.op = "log_sent" => \E r \in Runs : TextPushedBy(r)

TrueRecords ==
  /\ \A m \in Messages :
       /\ row[m].delivery = "sent" => Concluded(m, "sent")
       /\ row[m].delivery = "failed" => Concluded(m, "failed")
       /\ message[m].status = "delivered" /\ Reported(m) => Concluded(m, "sent")
       /\ message[m].status = "failed" => Concluded(m, "failed")
  /\ workflowRow = "sent" => \E r \in Runs : TextPushedBy(r)
  /\ \A w \in late : TrueWrite(w)

LineInv ==
  /\ TypeOK
  /\ \A r \in Runs : RunAgrees(r)
  /\ OneMessage
  /\ \A c \in Callbacks : CallbackAgrees(c)
  /\ OneHolder
  /\ Evidence
  /\ TrueRecords

-----------------------------------------------------------------------------
(* What a write does *)

\* A write changes the rows and the message it is about, and nothing it has
\* settled before: a delivery row stays, a message keeps its creator, and only a
\* dispatch write makes a dispatch row.
LEMMA WriteEffect ==
  ASSUME TypeOK, NEW w \in Writes, Apply(w)
  PROVE  /\ row' \in [Messages -> [delivery : {"none", "received", "sent", "failed"},
                                   dispatch : BOOLEAN, mirror : BOOLEAN]]
         /\ message' \in [Messages -> [by : Runs \cup {None},
                                       status : {"none", "pending", "delivered", "failed"}]]
         /\ workflowRow' \in {"none", "sent", "failed"}
         /\ \A m \in Messages : message'[m].by = message[m].by
         /\ \A m \in Messages : message[m].status # "none" => message'[m].status # "none"
         /\ \A m \in Messages : row[m].delivery # "none" => row'[m].delivery # "none"
         /\ \A m \in Messages :
              row[m].delivery \in {"sent", "failed"} => row'[m].delivery = row[m].delivery
         /\ \A m \in Messages : row'[m].dispatch => row[m].dispatch \/ (w.op = "dispatch" /\ w.on = m)
         /\ w.op = "claim" => row'[w.on].delivery # "none"
<1>1. w.on = None \/ w.on \in Messages
  BY DEF Writes
<1>2. w.on = None => w.op \notin {"claim", "dispatch"}
  BY ActorsAssumption DEF Writes
<1>3. workflowRow' \in {"none", "sent", "failed"}
  BY DEF Apply, WorkflowRowAfter, TypeOK
<1>4. CASE w.on = None
  BY <1>2, <1>3, <1>4 DEF Apply, TypeOK
<1>5. CASE w.on # None /\ w.on \in Messages
  <2> DEFINE m == w.on
  <2>1. row[m].dispatch \in BOOLEAN /\ row[m].mirror \in BOOLEAN
        /\ row[m].delivery \in {"none", "received", "sent", "failed"}
    BY <1>5 DEF TypeOK
  <2>2. DeliveryAfter(w) \in {"none", "received", "sent", "failed"}
        /\ (row[m].delivery # "none" => DeliveryAfter(w) # "none")
        /\ (row[m].delivery \in {"sent", "failed"} => DeliveryAfter(w) = row[m].delivery)
        /\ (w.op = "claim" => DeliveryAfter(w) # "none")
    BY <2>1 DEF DeliveryAfter, Claimable
  <2>3. StatusAfter(w) \in {"none", "pending", "delivered", "failed"}
        /\ (message[m].status # "none" => StatusAfter(w) # "none")
    BY <1>5 DEF StatusAfter, TypeOK
  <2>4. RowAfter(w) \in [delivery : {"none", "received", "sent", "failed"},
                         dispatch : BOOLEAN, mirror : BOOLEAN]
        /\ RowAfter(w).delivery = DeliveryAfter(w)
        /\ (RowAfter(w).dispatch => row[m].dispatch \/ w.op = "dispatch")
    BY <2>1, <2>2 DEF RowAfter
  <2>5. row' = [row EXCEPT ![m] = RowAfter(w)]
    BY <1>5 DEF Apply
  <2>6. message' = [message EXCEPT ![m] = [by |-> message[m].by, status |-> StatusAfter(w)]]
    BY <1>5 DEF Apply
  <2>7. message[m].by \in Runs \cup {None}
    BY <1>5 DEF TypeOK
  <2>8. row' \in [Messages -> [delivery : {"none", "received", "sent", "failed"},
                               dispatch : BOOLEAN, mirror : BOOLEAN]]
    BY <2>4, <2>5 DEF TypeOK
  <2>9. message' \in [Messages -> [by : Runs \cup {None},
                                   status : {"none", "pending", "delivered", "failed"}]]
    BY <2>3, <2>6, <2>7 DEF TypeOK
  <2>10. \A n \in Messages : n # m => row'[n] = row[n] /\ message'[n] = message[n]
    BY <2>5, <2>6 DEF TypeOK
  <2>11. row'[m] = RowAfter(w) /\ message'[m] = [by |-> message[m].by, status |-> StatusAfter(w)]
    BY <1>5, <2>5, <2>6 DEF TypeOK
  <2> QED
    BY <1>3, <2>2, <2>3, <2>4, <2>8, <2>9, <2>10, <2>11
<1> QED
  BY <1>1, <1>4, <1>5

-----------------------------------------------------------------------------
(* Types *)

AtType(f) ==
  /\ f \in [Actors -> RunPlaces \cup RunAnswers \cup CallbackPlaces \cup CallbackAnswers]
  /\ \A r \in Runs : f[r] \in RunPlaces \cup RunAnswers
  /\ \A c \in Callbacks : f[c] \in CallbackPlaces \cup CallbackAnswers

\* A handler of either kind goes to a place of its kind.
LEMMA GoesToType ==
  ASSUME TypeOK, NEW a \in Actors, NEW place, GoTo(a, place),
         \/ a \in Runs /\ place \in RunPlaces \cup RunAnswers
         \/ a \in Callbacks /\ place \in CallbackPlaces \cup CallbackAnswers
  PROVE  AtType(at')
<1>1. Runs \cap Callbacks = {}
  BY ActorsAssumption
<1>2. AtType(at)
  BY DEF AtType, TypeOK
<1>3. at' = [at EXCEPT ![a] = place]
  BY DEF GoTo
<1>4. place \in RunPlaces \cup RunAnswers \cup CallbackPlaces \cup CallbackAnswers
  OBVIOUS
<1>5. at' \in [Actors -> RunPlaces \cup RunAnswers \cup CallbackPlaces \cup CallbackAnswers]
  BY <1>2, <1>3, <1>4 DEF AtType
<1>6. \A b \in Actors : at'[b] = IF b = a THEN place ELSE at[b]
  BY <1>2, <1>3 DEF AtType
<1>7. QED
  BY <1>1, <1>2, <1>5, <1>6 DEF AtType, Actors

StoredType ==
  /\ message \in [Messages -> [by : Runs \cup {None},
                               status : {"none", "pending", "delivered", "failed"}]]
  /\ row \in [Messages -> [delivery : {"none", "received", "sent", "failed"},
                           dispatch : BOOLEAN, mirror : BOOLEAN]]
  /\ workflowRow \in {"none", "sent", "failed"}
  /\ late \subseteq Writes

JobType == job \in [Runs -> [kind : Kinds \cup {"none"}, id : Messages \cup {None}]]
CallbackType ==
  callback \in [Callbacks -> [message : Messages \cup {None},
                              provider : {"none", "match", "absent", "other"},
                              life : ProviderFirst \cup {"none"},
                              outcome : {"none", "sent", "failed"},
                              answer : {"none", "processed", "error"}]]
PushType == push \in [Actors -> {"none", "submitted", "accepted", "refused"}]
CreateType == create \in [Runs -> {"none", "submitted", "created", "refused"}]

LEMMA TypeParts ==
  TypeOK <=> StoredType /\ AtType(at) /\ JobType /\ CallbackType /\ PushType /\ CreateType
BY DEF TypeOK, StoredType, AtType, JobType, CallbackType, PushType, CreateType

\* A write that succeeds, errs or is carried out late keeps what is stored typed.
LEMMA WriteType ==
  ASSUME TypeOK, NEW w \in Writes, NEW a, NEW place,
         Succeeds(a, w, place) \/ Errs(a, w, place)
  PROVE  StoredType' /\ GoTo(a, place)
<1>1. CASE Succeeds(a, w, place)
  BY <1>1, WriteEffect DEF Succeeds, StoredType, TypeOK
<1>2. CASE Errs(a, w, place)
  BY <1>2 DEF Errs, StoredType, TypeOK
<1>3. QED
  BY <1>1, <1>2

LEMMA SaveTyped ==
  ASSUME TypeOK, NEW r \in Runs, NEW op \in {"dispatch", "mirror"}, NEW unsaved \in RunAnswers,
         Save(r, op, unsaved)
  PROVE  TypeOK'
<1> DEFINE w == [op |-> op, on |-> job[r].id]
<1>1. JobType' /\ CallbackType' /\ PushType' /\ CreateType'
  BY TypeParts DEF Save, JobType, CallbackType, PushType, CreateType
<1>2. r \in Actors /\ "sent" \in RunAnswers
  BY DEF Actors, RunAnswers
<1>3. StoredType' /\ \E place \in RunAnswers : GoTo(r, place)
  <2>1. CASE job[r].id = None
    BY <1>2, <2>1, TypeParts DEF Save, stored, StoredType
  <2>2. CASE job[r].id # None
    <3>1. job[r].id \in Messages
      BY <2>2 DEF TypeOK
    <3>2. w \in Writes
      BY <3>1 DEF Writes, MessageWrites
    <3>3. Succeeds(r, w, "sent") \/ Errs(r, w, unsaved)
      BY <2>2 DEF Save
    <3>4. QED
      BY <1>2, <3>2, <3>3, WriteType
  <2>3. QED
    BY <2>1, <2>2
<1>4. AtType(at')
  BY <1>2, <1>3, GoesToType
<1>5. QED
  BY <1>1, <1>3, <1>4, TypeParts DEF TypeOK, StoredType, AtType, JobType, CallbackType, PushType, CreateType

LEMMA RunTyped ==
  ASSUME TypeOK, NEW r \in Runs, RunStep(r)
  PROVE  TypeOK'
<1> USE DEF StoredType, JobType, CallbackType, PushType, CreateType
<1>1. r \in Actors
  BY DEF Actors
<1>2. StoredType /\ AtType(at) /\ JobType /\ CallbackType /\ PushType /\ CreateType
  BY TypeParts
<1>3. SUFFICES StoredType' /\ AtType(at') /\ JobType' /\ CallbackType' /\ PushType' /\ CreateType'
  BY DEF TypeOK, AtType
<1>4. CASE RefuseRun(r)
  <2>1. AtType(at')
    BY <1>1, <1>4, GoesToType DEF RefuseRun, RunAnswers
  <2>2. QED
    BY <1>2, <1>4, <2>1 DEF RefuseRun, stored
<1>5. CASE StartRun(r)
  <2>1. PICK kind \in Kinds :
          /\ job' = [job EXCEPT ![r] = [kind |-> kind, id |-> None]]
          /\ GoTo(r, IF kind \in ProviderFirst THEN "create" ELSE "push")
    BY <1>5 DEF StartRun
  <2>2. AtType(at')
    BY <1>1, <2>1, GoesToType DEF RunPlaces
  <2>3. QED
    BY <1>2, <1>5, <2>1, <2>2 DEF StartRun, stored
<1>6. CASE RefuseText(r)
  <2>1. AtType(at')
    BY <1>1, <1>6, GoesToType DEF RefuseText, RunPlaces
  <2>2. QED
    BY <1>2, <1>6, <2>1 DEF RefuseText, stored, Kinds
<1>7. CASE TextPushed(r) \/ TextPushFails(r) \/ FilesPushed(r) \/ FilesPushFails(r)
  <2>1. AtType(at')
    BY <1>1, <1>7, GoesToType
    DEF TextPushed, TextPushFails, FilesPushed, FilesPushFails, RunPlaces, RunAnswers
  <2>2. QED
    BY <1>2, <1>7, <2>1 DEF TextPushed, TextPushFails, FilesPushed, FilesPushFails, stored
<1>8. CASE LogSent(r) \/ LogFailed(r)
  <2>1. [op |-> "log_sent", on |-> None] \in Writes /\ [op |-> "log_failed", on |-> None] \in Writes
    BY DEF Writes
  <2>2. StoredType' /\ \E place \in RunPlaces \cup RunAnswers : GoTo(r, place)
    BY <1>8, <2>1, WriteType DEF LogSent, LogFailed, RunPlaces, RunAnswers
  <2>3. AtType(at')
    BY <1>1, <2>2, GoesToType
  <2>4. QED
    BY <1>2, <1>8, <2>2, <2>3 DEF LogSent, LogFailed
<1>9. CASE SubmitMessage(r)
  BY <1>2, <1>9 DEF SubmitMessage, stored
<1>10. CASE MessageCreated(r)
  <2>1. AtType(at')
    BY <1>1, <1>10, GoesToType DEF MessageCreated, RunPlaces
  <2>2. JobType'
    <3>1. PICK id \in Messages \cup {None} : job' = [job EXCEPT ![r] = [kind |-> job[r].kind, id |-> id]]
      BY <1>10 DEF MessageCreated
    <3>2. job[r].kind \in Kinds \cup {"none"}
      BY <1>2
    <3>3. QED
      BY <1>2, <3>1, <3>2
  <2>3. QED
    BY <1>2, <1>10, <2>1, <2>2 DEF MessageCreated, stored
<1>11. CASE CreateFails(r)
  <2>1. AtType(at')
    BY <1>1, <1>11, GoesToType DEF CreateFails, RunAnswers
  <2>2. QED
    BY <1>2, <1>11, <2>1 DEF CreateFails, stored
<1>12. CASE SaveDispatch(r) \/ SaveLegacyDispatch(r) \/ SaveMirror(r)
  BY <1>12, SaveTyped, TypeParts DEF SaveDispatch, SaveLegacyDispatch, SaveMirror, RunAnswers, AtType, TypeOK
<1>13. QED
  BY <1>4, <1>5, <1>6, <1>7, <1>8, <1>9, <1>10, <1>11, <1>12 DEF RunStep

LEMMA ConcludeTyped ==
  ASSUME TypeOK, NEW c \in Callbacks, NEW outcome \in {"sent", "failed"},
         NEW answer \in {"processed", "error"}, Conclude(c, outcome, answer)
  PROVE  CallbackType' /\ AtType(at')
<1>1. c \in Actors
  BY DEF Actors
<1>2. AtType(at')
  BY <1>1, GoesToType DEF Conclude, CallbackPlaces
<1>3. callback' = [callback EXCEPT ![c] =
        [message |-> callback[c].message, provider |-> callback[c].provider,
         life |-> callback[c].life, outcome |-> outcome, answer |-> answer]]
  BY DEF Conclude
<1>4. QED
  BY <1>2, <1>3, TypeParts DEF CallbackType

LEMMA CallbackTyped ==
  ASSUME TypeOK, NEW c \in Callbacks, CallbackAgrees(c), CallbackStep(c)
  PROVE  TypeOK'
<1> USE DEF StoredType, JobType, CallbackType, PushType, CreateType
<1>1. c \in Actors
  BY DEF Actors
<1>2. StoredType /\ AtType(at) /\ JobType /\ CallbackType /\ PushType /\ CreateType
  BY TypeParts
<1>3. SUFFICES StoredType' /\ AtType(at') /\ JobType' /\ CallbackType' /\ PushType' /\ CreateType'
  BY DEF TypeOK, AtType
<1>4. CASE RefuseCallback(c) \/ LookUp(c)
  <2>1. AtType(at')
    BY <1>1, <1>4, GoesToType DEF RefuseCallback, LookUp, CallbackPlaces, CallbackAnswers
  <2>2. QED
    BY <1>2, <1>4, <2>1 DEF RefuseCallback, LookUp, stored
<1>5. CASE Select(c)
  <2>1. AtType(at')
    BY <1>1, <1>5, GoesToType DEF Select, CallbackPlaces
  <2>2. PICK life \in ProviderFirst : callback' = [callback EXCEPT ![c] =
          [message |-> callback[c].message, provider |-> callback[c].provider, life |-> life,
           outcome |-> "none", answer |-> "none"]]
    BY <1>5 DEF Select
  <2>3. CallbackType'
    BY <1>2, <2>2
  <2>4. QED
    BY <1>2, <1>5, <2>1, <2>3 DEF Select, stored
<1>6. CASE Claim(c)
  <2> DEFINE w == [op |-> "claim", on |-> callback[c].message]
  <2>1. w \in Writes
    BY <1>6 DEF Claim, CallbackAgrees, Of, Writes, MessageWrites
  <2>2. \E place \in CallbackPlaces \cup CallbackAnswers :
          Succeeds(c, w, place) \/ Errs(c, w, place)
    BY <1>6 DEF Claim, CallbackPlaces, CallbackAnswers
  <2>3. StoredType' /\ AtType(at')
    BY <1>1, <2>1, <2>2, WriteType, GoesToType
  <2>4. QED
    BY <1>2, <1>6, <2>3 DEF Claim
<1>7. CASE Undeliverable(c) \/ CallbackPushed(c) \/ CallbackPushFails(c)
  <2>1. \E outcome \in {"sent", "failed"}, answer \in {"processed", "error"} :
          Conclude(c, outcome, answer)
    BY <1>7 DEF Undeliverable, CallbackPushed, CallbackPushFails
  <2>2. CallbackType' /\ AtType(at')
    BY <2>1, ConcludeTyped
  <2>3. QED
    BY <1>2, <2>1, <2>2 DEF Conclude, stored
<1>8. CASE FinalizeV3(c) \/ FinalizeLegacy(c)
  <2>1. /\ callback[c].message \in Messages
        /\ callback[c].outcome \in {"sent", "failed"}
        /\ callback[c].answer \in CallbackAnswers
    BY <1>2, <1>8 DEF FinalizeV3, FinalizeLegacy, CallbackAgrees, Of, CallbackAnswers
  <2>2. Outcome(c) \in Writes
    BY <2>1 DEF Outcome, Writes, MessageWrites
  <2>3. \E place \in CallbackPlaces \cup CallbackAnswers :
          Succeeds(c, Outcome(c), place) \/ Errs(c, Outcome(c), place)
    BY <1>8, <2>1 DEF FinalizeV3, FinalizeLegacy, CallbackPlaces, CallbackAnswers
  <2>4. StoredType' /\ AtType(at')
    BY <1>1, <2>2, <2>3, WriteType, GoesToType
  <2>5. CallbackType'
    <3>1. CASE callback' = callback
      BY <1>2, <3>1
    <3>2. CASE callback' # callback
      <4> DEFINE answer == IF callback[c].outcome = "sent" THEN "error" ELSE callback[c].answer
      <4>1. answer \in {"none", "processed", "error"}
        BY <1>2
      <4>2. callback' = [callback EXCEPT ![c] =
              [message |-> callback[c].message, provider |-> callback[c].provider,
               life |-> callback[c].life, outcome |-> callback[c].outcome, answer |-> answer]]
        BY <1>8, <3>2 DEF FinalizeV3, FinalizeLegacy
      <4>3. QED
        BY <1>2, <4>1, <4>2
    <3>3. QED
      BY <3>1, <3>2
  <2>6. QED
    BY <1>2, <1>8, <2>4, <2>5 DEF FinalizeV3, FinalizeLegacy
<1>9. CASE UpdateStatus(c)
  <2> DEFINE w == [op |-> IF callback[c].outcome = "sent" THEN "set_delivered" ELSE "set_failed",
                   on |-> callback[c].message]
  <2>1. w \in Writes
    BY <1>9 DEF UpdateStatus, CallbackAgrees, Of, Writes, MessageWrites
  <2>2. callback[c].answer \in CallbackAnswers
    BY <1>2, <1>9 DEF UpdateStatus, CallbackAgrees, CallbackAnswers
  <2>3. \E place \in CallbackAnswers : Succeeds(c, w, place) \/ Errs(c, w, place)
    BY <1>9, <2>2 DEF UpdateStatus
  <2>4. StoredType' /\ AtType(at')
    BY <1>1, <2>1, <2>3, WriteType, GoesToType
  <2>5. QED
    BY <1>2, <1>9, <2>4 DEF UpdateStatus
<1>10. QED
  BY <1>4, <1>5, <1>6, <1>7, <1>8, <1>9 DEF CallbackStep

\* Every other step keeps the types too.
LEMMA OtherTyped ==
  ASSUME TypeOK,
         \/ \E r \in Runs : HighLevelCreates(r) \/ HighLevelRefuses(r)
         \/ \E c \in Callbacks : HighLevelCallsBack(c)
         \/ \E a \in Actors : Submit(a) \/ LineHandles(a) \/ Die(a)
         \/ \E m \in Messages : AgentSends(m)
         \/ \E w \in late : LandLate(w)
  PROVE  TypeOK'
<1> USE DEF StoredType, JobType, CallbackType, PushType, CreateType
<1>1. StoredType /\ AtType(at) /\ JobType /\ CallbackType /\ PushType /\ CreateType
  BY TypeParts
<1>2. SUFFICES StoredType' /\ AtType(at') /\ JobType' /\ CallbackType' /\ PushType' /\ CreateType'
  BY DEF TypeOK, AtType
<1>3. CASE \E r \in Runs : HighLevelCreates(r)
  <2>1. PICK r \in Runs, m \in Messages :
          /\ message' = [message EXCEPT ![m] = [by |-> r, status |-> FirstStatus(job[r].kind)]]
          /\ create' = [create EXCEPT ![r] = "created"]
          /\ UNCHANGED <<row, workflowRow, late, at, job, callback, push>>
    BY <1>3 DEF HighLevelCreates
  <2>2. FirstStatus(job[r].kind) \in {"pending", "delivered"}
    BY DEF FirstStatus
  <2>3. QED
    BY <1>1, <2>1, <2>2
<1>4. CASE \E r \in Runs : HighLevelRefuses(r)
  BY <1>1, <1>4 DEF HighLevelRefuses, stored
<1>5. CASE \E c \in Callbacks : HighLevelCallsBack(c)
  <2>1. PICK c \in Callbacks, m \in Messages, provider \in {"match", "absent", "other"} :
          callback' = [callback EXCEPT ![c] =
            [message |-> m, provider |-> provider, life |-> "none",
             outcome |-> "none", answer |-> "none"]]
          /\ GoTo(c, "lookup") /\ UNCHANGED <<stored, job, push, create>>
    BY <1>5 DEF HighLevelCallsBack
  <2>2. AtType(at')
    BY <2>1, GoesToType DEF CallbackPlaces, Actors
  <2>3. QED
    BY <1>1, <2>1, <2>2 DEF stored
<1>6. CASE \E a \in Actors : Submit(a) \/ LineHandles(a)
  BY <1>1, <1>6 DEF Submit, LineHandles, stored
<1>7. CASE \E a \in Actors : Die(a)
  <2>1. PICK a \in Actors : Die(a)
    BY <1>7
  <2>2. AtType(at')
    BY <2>1, GoesToType DEF Die, RunAnswers, CallbackAnswers, Actors
  <2>3. QED
    BY <1>1, <2>1, <2>2 DEF Die, stored
<1>8. CASE \E m \in Messages : AgentSends(m)
  BY <1>1, <1>8 DEF AgentSends
<1>9. CASE \E w \in late : LandLate(w)
  <2>1. PICK w \in Writes : Apply(w) /\ LandLate(w)
    BY <1>1, <1>9 DEF LandLate
  <2>2. StoredType'
    BY <1>1, <2>1, WriteEffect DEF LandLate
  <2>3. QED
    BY <1>1, <2>1, <2>2 DEF LandLate
<1>10. QED
  BY <1>3, <1>4, <1>5, <1>6, <1>7, <1>8, <1>9

-----------------------------------------------------------------------------
(* What no step undoes, and who is disturbed by a step *)

\* A run never changes what it has chosen.
KindsStay == \A r \in Runs : job[r].kind # "none" => job'[r].kind = job[r].kind

Grows ==
  /\ \A m \in Messages : message[m].by # None => message'[m].by = message[m].by
  /\ \A m \in Messages : message[m].status # "none" => message'[m].status # "none"
  /\ \A m \in Messages : row[m].delivery # "none" => row'[m].delivery # "none"
  /\ \A m \in Messages :
       row[m].delivery \in {"sent", "failed"} => row'[m].delivery = row[m].delivery
  /\ KindsStay
  /\ \A r \in Runs : create[r] = "created" => create'[r] = "created"
  /\ \A a \in Actors : push[a] = "accepted" => push'[a] = "accepted"
  /\ \A c \in Callbacks : callback[c].outcome # "none" =>
       callback'[c].outcome = callback[c].outcome /\ callback'[c].message = callback[c].message

\* The handlers outside A do not notice the step.
Elsewhere(A) ==
  /\ \A a \in Actors \ A : at'[a] = at[a] /\ push'[a] = push[a]
  /\ \A r \in Runs \ A : job'[r] = job[r] /\ create'[r] = create[r]
  /\ \A c \in Callbacks \ A : callback'[c] = callback[c]

LEMMA VouchedStays ==
  ASSUME LineInv, Grows, NEW m \in Messages, Vouched(m)
  PROVE  Vouched(m)'
<1>1. message[m].by \in Runs /\ message[m].by # None
  BY ActorsAssumption DEF Vouched
<1>2. job[message[m].by].kind # "none"
  BY DEF Vouched, ProviderFirst
<1>3. message'[m].by = message[m].by /\ job'[message[m].by].kind = job[message[m].by].kind
  BY <1>1, <1>2 DEF Grows, KindsStay
<1>4. QED
  BY <1>3 DEF Vouched

LEMMA ConcludedStays ==
  ASSUME Grows, NEW m, NEW outcome \in {"sent", "failed"}, Concluded(m, outcome)
  PROVE  Concluded(m, outcome)'
<1>1. PICK c \in Callbacks : Of(c) = m /\ callback[c].outcome = outcome
  BY DEF Concluded
<1>2. callback'[c].outcome = outcome /\ callback'[c].message = m
  BY <1>1 DEF Grows, KindsStay, Of
<1>3. QED
  BY <1>2 DEF Concluded, Of

LEMMA TextPushedStays ==
  ASSUME Grows, NEW r \in Runs, TextPushedBy(r)
  PROVE  TextPushedBy(r)'
BY DEF Grows, KindsStay, TextPushedBy, Actors

LEMMA TrueWriteStays ==
  ASSUME Grows, NEW w, TrueWrite(w)
  PROVE  TrueWrite(w)'
BY ConcludedStays, TextPushedStays DEF TrueWrite

\* Nobody becomes the creator of a message that exists.
LEMMA OneMessageStays ==
  ASSUME LineInv, Grows, \A m \in Messages : message'[m].by = message[m].by
  PROVE  OneMessage'
<1>1. \A m \in Messages : message[m].by \in Runs \cup {None}
  BY DEF LineInv, TypeOK
<1>2. OneMessage
  BY DEF LineInv
<1>3. QED
  BY <1>1, <1>2 DEF OneMessage, Grows, KindsStay

LEMMA RunStays ==
  ASSUME LineInv, Grows, NEW A, Elsewhere(A), NEW r \in Runs \ A
  PROVE  RunAgrees(r)'
<1>1. r \in Actors \ A /\ r # None
  BY ActorsAssumption DEF Actors
<1>2. at'[r] = at[r] /\ push'[r] = push[r] /\ job'[r] = job[r] /\ create'[r] = create[r]
  BY <1>1 DEF Elsewhere
<1>3. job[r].id \in Messages \cup {None}
  BY DEF LineInv, TypeOK
<1>4. RunAgrees(r)
  BY DEF LineInv
<1>5. at[r] = "save" /\ job[r].id # None => message'[job[r].id].by = r
  BY <1>1, <1>3, <1>4 DEF RunAgrees, Grows, KindsStay
<1>6. QED
  BY <1>2, <1>4, <1>5 DEF RunAgrees, Pushed

LEMMA CallbackStays ==
  ASSUME LineInv, Grows, NEW A, Elsewhere(A), NEW c \in Callbacks \ A
  PROVE  CallbackAgrees(c)' /\ (Holds(c)' <=> Holds(c)) /\ callback'[c] = callback[c] /\ at'[c] = at[c]
<1>1. c \in Actors \ A
  BY DEF Actors
<1>2. at'[c] = at[c] /\ push'[c] = push[c] /\ callback'[c] = callback[c]
  BY <1>1 DEF Elsewhere
<1>3. CallbackAgrees(c)
  BY DEF LineInv
<1>4. Of(c)' = Of(c) /\ (Holds(c)' <=> Holds(c))
  BY <1>2 DEF Of, Holds, Pushed
<1>5. Holds(c) => at[c] # "idle"
  BY <1>3 DEF CallbackAgrees
<1>6. /\ at[c] # "idle" => message'[Of(c)].status # "none"
      /\ Holds(c) => row'[Of(c)].delivery # "none"
      /\ Of(c) \in Messages /\ row[Of(c)].delivery \in {"sent", "failed"} =>
           row'[Of(c)].delivery = row[Of(c)].delivery
  BY <1>3, <1>5 DEF CallbackAgrees, Grows, KindsStay
<1>7. callback[c].outcome \in {"none", "sent", "failed"}
  BY DEF LineInv, TypeOK
<1>8. CallbackAgrees(c)'
  BY <1>2, <1>3, <1>4, <1>6, <1>7 DEF CallbackAgrees
<1>9. QED
  BY <1>2, <1>4, <1>8

\* What is stored is true after the step.
RecordsTrue ==
  /\ \A m \in Messages : row[m].dispatch => Vouched(m)
  /\ \A w \in late : w.op = "dispatch" => Vouched(w.on)
  /\ TrueRecords

Relied(c) ==
  callback[c].life = "v3" /\ callback[c].provider # "match" =>
    at[c] # "idle" /\ Vouched(Of(c))

\* A step of the handlers A preserves the invariant if they agree with what it
\* leaves, and take hold of a delivery only if they are alone and nobody has it.
LEMMA HandlersKeep ==
  ASSUME LineInv, TypeOK', Grows, OneMessage', RecordsTrue', NEW A, Elsewhere(A),
         \A r \in Runs : r \in A => RunAgrees(r)',
         \A c \in Callbacks : c \in A => CallbackAgrees(c)' /\ Relied(c)',
         \A c \in Callbacks : c \in A /\ Holds(c)' =>
           \/ Holds(c) /\ callback'[c].message = Of(c)
           \/ A = {c} /\ callback'[c].message = Of(c) /\ row[Of(c)].delivery = "none"
  PROVE  LineInv'
<1>1. \A r \in Runs : RunAgrees(r)'
  BY RunStays
<1>2. \A c \in Callbacks : CallbackAgrees(c)'
  BY CallbackStays
<1>3. OneHolder'
  <2>1. SUFFICES ASSUME NEW c \in Callbacks, NEW d \in Callbacks,
                        Holds(c)', Holds(d)', Of(c)' = Of(d)'
                 PROVE  c = d
    BY DEF OneHolder
  <2>2. Of(c)' = Of(c) /\ Of(d)' = Of(d)
    BY <2>1, CallbackStays DEF Of
  <2>3. OneHolder
    BY DEF LineInv
  <2>4. CASE Holds(c) /\ Holds(d)
    BY <2>1, <2>2, <2>3, <2>4 DEF OneHolder
  <2>5. CASE ~ Holds(c)
    <3>1. A = {c} /\ row[Of(c)].delivery = "none"
      BY <2>1, <2>5, CallbackStays
    <3>2. CASE d # c
      <4>1. Holds(d)
        BY <2>1, <3>1, <3>2, CallbackStays
      <4>2. row[Of(d)].delivery # "none"
        BY <4>1 DEF LineInv, CallbackAgrees
      <4>3. QED
        BY <2>1, <2>2, <3>1, <4>2
    <3>3. QED
      BY <3>2
  <2>6. CASE ~ Holds(d)
    <3>1. A = {d} /\ row[Of(d)].delivery = "none"
      BY <2>1, <2>6, CallbackStays
    <3>2. CASE d # c
      <4>1. Holds(c)
        BY <2>1, <3>1, <3>2, CallbackStays
      <4>2. row[Of(c)].delivery # "none"
        BY <4>1 DEF LineInv, CallbackAgrees
      <4>3. QED
        BY <2>1, <2>2, <3>1, <4>2
    <3>3. QED
      BY <3>2
  <2>7. QED
    BY <2>4, <2>5, <2>6
<1>4. \A c \in Callbacks : Relied(c)'
  <2>1. SUFFICES ASSUME NEW c \in Callbacks, c \notin A
                 PROVE  Relied(c)'
    OBVIOUS
  <2>2. callback'[c] = callback[c] /\ at'[c] = at[c]
    BY <2>1, CallbackStays
  <2>3. Relied(c)
    BY DEF LineInv, Evidence, Relied
  <2>4. at[c] # "idle" => Of(c) \in Messages
    BY DEF LineInv, CallbackAgrees
  <2>5. at[c] # "idle" /\ Vouched(Of(c)) => Vouched(Of(c))'
    <3>1. SUFFICES ASSUME at[c] # "idle", Vouched(Of(c)) PROVE Vouched(Of(c))'
      OBVIOUS
    <3>2. PICK m \in Messages : m = Of(c)
      BY <2>4, <3>1
    <3>3. Vouched(m)'
      BY <3>1, <3>2, VouchedStays
    <3>4. Of(c)' = m
      BY <2>2, <3>2 DEF Of
    <3>5. QED
      BY <3>3, <3>4 DEF Vouched
  <2>6. QED
    BY <2>2, <2>3, <2>5 DEF Relied
<1>5. Evidence'
  BY <1>4 DEF RecordsTrue, Evidence, Relied
<1>6. QED
  BY <1>1, <1>2, <1>3, <1>5 DEF LineInv, RecordsTrue

\* An outcome is recorded or reported by the write that says so.
LEMMA WriteOutcome ==
  ASSUME TypeOK, NEW w \in Writes, Apply(w), NEW m \in Messages
  PROVE  /\ row'[m].delivery = "sent" => row[m].delivery = "sent" \/ (w.op = "sent" /\ w.on = m)
         /\ row'[m].delivery = "failed" => row[m].delivery = "failed" \/ (w.op = "failed" /\ w.on = m)
         /\ message'[m].status = "delivered" =>
              message[m].status = "delivered" \/ (w.op = "set_delivered" /\ w.on = m)
         /\ message'[m].status = "failed" =>
              message[m].status = "failed" \/ (w.op = "set_failed" /\ w.on = m)
         /\ workflowRow' = "sent" => workflowRow = "sent" \/ w.op = "log_sent"
<1>1. workflowRow' = "sent" => workflowRow = "sent" \/ w.op = "log_sent"
  BY DEF Apply, WorkflowRowAfter
<1>2. CASE w.on = None
  BY <1>1, <1>2 DEF Apply
<1>3. CASE w.on # None
  <2>1. row' = [row EXCEPT ![w.on] = RowAfter(w)]
    BY <1>3 DEF Apply
  <2>2. message' = [message EXCEPT ![w.on] = [by |-> message[w.on].by, status |-> StatusAfter(w)]]
    BY <1>3 DEF Apply
  <2>3. CASE w.on = m
    <3>1. row'[m].delivery = DeliveryAfter(w) /\ message'[m].status = StatusAfter(w)
      BY <2>1, <2>2, <2>3 DEF RowAfter, TypeOK
    <3>2. DeliveryAfter(w) \in {"received", row[m].delivery} \/ (w.op \in {"sent", "failed"} /\ DeliveryAfter(w) = w.op)
      BY <2>3 DEF DeliveryAfter
    <3>3. \/ StatusAfter(w) = message[m].status
          \/ w.op = "set_delivered" /\ StatusAfter(w) = "delivered"
          \/ w.op = "set_failed" /\ StatusAfter(w) = "failed"
      BY <2>3 DEF StatusAfter
    <3>4. QED
      BY <1>1, <2>3, <3>1, <3>2, <3>3
  <2>4. CASE w.on # m
    <3>1. row'[m] = row[m] /\ message'[m] = message[m]
      BY <2>1, <2>2, <2>4 DEF TypeOK
    <3>2. QED
      BY <1>1, <3>1
  <2>5. QED
    BY <2>3, <2>4
<1>4. QED
  BY <1>2, <1>3

LEMMA ReportedStays ==
  ASSUME LineInv, KindsStay, NEW m \in Messages, message'[m].by = message[m].by
  PROVE  Reported(m)' <=> Reported(m)
<1>1. message[m].by \in Runs \cup {None}
  BY DEF LineInv, TypeOK
<1>2. CASE message[m].by \in Runs
  <2>1. create[message[m].by] = "created"
    BY <1>2, ActorsAssumption DEF LineInv, OneMessage
  <2>2. job[message[m].by].kind # "none"
    BY <1>2, <2>1 DEF LineInv, RunAgrees
  <2>3. job'[message[m].by].kind = job[message[m].by].kind
    BY <1>2, <2>2 DEF KindsStay
  <2>4. QED
    BY <2>3 DEF Reported
<1>3. QED
  BY <1>1, <1>2 DEF Reported

LEMMA LateStaysTrue ==
  ASSUME LineInv, Grows, NEW w \in late
  PROVE  TrueWrite(w)' /\ (w.op = "dispatch" => Vouched(w.on)')
<1>1. TrueWrite(w)'
  BY TrueWriteStays DEF LineInv, TrueRecords
<1>2. ASSUME w.op = "dispatch" PROVE Vouched(w.on)'
  <2>1. PICK m \in Messages : m = w.on /\ Vouched(m)
    BY <1>2 DEF LineInv, Evidence, TypeOK, Writes
  <2>2. Vouched(m)'
    BY <2>1, VouchedStays
  <2>3. QED
    BY <2>1, <2>2 DEF Vouched
<1>3. QED
  BY <1>1, <1>2

\* A step that writes nothing leaves what is stored true.
LEMMA UnwrittenTrue ==
  ASSUME LineInv, Grows, UNCHANGED stored
  PROVE  RecordsTrue' /\ OneMessage'
<1>1. row' = row /\ message' = message /\ workflowRow' = workflowRow /\ late' = late
  BY DEF stored
<1>2. ASSUME NEW m \in Messages, row[m].dispatch PROVE Vouched(m)'
  BY <1>2, VouchedStays DEF LineInv, Evidence
<1>3. \A w \in late : TrueWrite(w)' /\ (w.op = "dispatch" => Vouched(w.on)')
  BY LateStaysTrue
<1>4. ASSUME NEW m \in Messages
      PROVE  /\ row[m].delivery = "sent" => Concluded(m, "sent")'
             /\ row[m].delivery = "failed" => Concluded(m, "failed")'
             /\ message[m].status = "delivered" /\ Reported(m) => Concluded(m, "sent")'
             /\ message[m].status = "failed" => Concluded(m, "failed")'
  BY ConcludedStays DEF LineInv, TrueRecords
<1>5. ASSUME NEW m \in Messages, Reported(m)' PROVE Reported(m)
  BY <1>1, <1>5, ReportedStays DEF Grows
<1>6. workflowRow = "sent" => \E r \in Runs : TextPushedBy(r)'
  BY TextPushedStays DEF LineInv, TrueRecords
<1>7. TrueRecords'
  BY <1>1, <1>3, <1>4, <1>5, <1>6 DEF TrueRecords
<1>8. OneMessage'
  BY <1>1, OneMessageStays
<1>9. QED
  BY <1>1, <1>2, <1>3, <1>7, <1>8 DEF RecordsTrue

\* A true write, carried out or left for later, leaves what is stored true.
LEMMA WrittenTrue ==
  ASSUME LineInv, Grows, NEW w \in Writes, TrueWrite(w), w.op = "dispatch" => Vouched(w.on),
         \/ Apply(w) /\ late' \subseteq late
         \/ UNCHANGED <<row, message, workflowRow>> /\ late' = late \cup {w}
  PROVE  RecordsTrue' /\ OneMessage'
<1>1. TrueWrite(w)'
  BY TrueWriteStays
<1>2. ASSUME w.op = "dispatch" PROVE w.on \in Messages /\ Vouched(w.on)'
  <2>1. PICK m \in Messages : m = w.on
    BY <1>2, ActorsAssumption DEF Writes
  <2>2. Vouched(m)'
    BY <1>2, <2>1, VouchedStays
  <2>3. QED
    BY <2>1, <2>2 DEF Vouched
<1>3. \A v \in late' : TrueWrite(v)' /\ (v.op = "dispatch" => Vouched(v.on)')
  BY <1>1, <1>2, LateStaysTrue
<1>4. TypeOK
  BY DEF LineInv
<1>5. \A m \in Messages : message'[m].by = message[m].by
  BY <1>4, WriteEffect
<1>6. OneMessage'
  BY <1>5, OneMessageStays
<1>7. \A m \in Messages : row'[m].dispatch => row[m].dispatch \/ (w.op = "dispatch" /\ w.on = m)
  BY <1>4, WriteEffect
<1>8. ASSUME NEW m \in Messages, row'[m].dispatch PROVE Vouched(m)'
  <2>1. CASE row[m].dispatch
    BY <2>1, VouchedStays DEF LineInv, Evidence
  <2>2. CASE w.op = "dispatch" /\ w.on = m
    BY <2>2, <1>2 DEF Vouched
  <2>3. QED
    BY <1>7, <1>8, <2>1, <2>2
<1>9. ASSUME NEW m \in Messages
      PROVE  /\ row[m].delivery = "sent" => Concluded(m, "sent")'
             /\ row[m].delivery = "failed" => Concluded(m, "failed")'
             /\ message[m].status = "delivered" /\ Reported(m) => Concluded(m, "sent")'
             /\ message[m].status = "failed" => Concluded(m, "failed")'
  BY ConcludedStays DEF LineInv, TrueRecords
<1>10. ASSUME NEW m \in Messages
       PROVE  /\ row'[m].delivery = "sent" => row[m].delivery = "sent" \/ (w.op = "sent" /\ w.on = m)
              /\ row'[m].delivery = "failed" => row[m].delivery = "failed" \/ (w.op = "failed" /\ w.on = m)
              /\ message'[m].status = "delivered" =>
                   message[m].status = "delivered" \/ (w.op = "set_delivered" /\ w.on = m)
              /\ message'[m].status = "failed" =>
                   message[m].status = "failed" \/ (w.op = "set_failed" /\ w.on = m)
              /\ workflowRow' = "sent" => workflowRow = "sent" \/ w.op = "log_sent"
  BY <1>4, WriteOutcome
<1>11. ASSUME NEW m \in Messages
       PROVE  /\ w.op \in {"sent", "set_delivered"} /\ w.on = m => Concluded(m, "sent")'
              /\ w.op \in {"failed", "set_failed"} /\ w.on = m => Concluded(m, "failed")'
  BY ConcludedStays DEF TrueWrite
<1>12. workflowRow = "sent" \/ w.op = "log_sent" => \E r \in Runs : TextPushedBy(r)'
  BY TextPushedStays DEF LineInv, TrueRecords, TrueWrite
<1>13. workflowRow' = "sent" => workflowRow = "sent" \/ w.op = "log_sent"
  BY <1>4 DEF Apply, WorkflowRowAfter
<1>14. ASSUME NEW m \in Messages
       PROVE  /\ row'[m].delivery = "sent" => Concluded(m, "sent")'
              /\ row'[m].delivery = "failed" => Concluded(m, "failed")'
              /\ message'[m].status = "delivered" /\ Reported(m)' => Concluded(m, "sent")'
              /\ message'[m].status = "failed" => Concluded(m, "failed")'
  BY <1>5, <1>9, <1>10, <1>11, ReportedStays DEF Grows
<1>15. TrueRecords'
  BY <1>3, <1>12, <1>13, <1>14 DEF TrueRecords
<1>16. QED
  BY <1>3, <1>6, <1>8, <1>15 DEF RecordsTrue

-----------------------------------------------------------------------------
(* The steps of a run *)

LEMMA RunKeeps ==
  ASSUME LineInv, TypeOK', Grows, OneMessage', RecordsTrue', NEW r \in Runs, Elsewhere({r}),
         RunAgrees(r)'
  PROVE  LineInv'
<1>1. \A c \in Callbacks : c \notin {r}
  BY ActorsAssumption
<1>2. QED
  BY <1>1, HandlersKeep

\* A step that writes nothing and changes only what is r's own.
LEMMA RunMoves ==
  ASSUME LineInv, TypeOK', NEW r \in Runs, UNCHANGED <<stored, callback, push>>,
         \A a \in Actors : a # r => at'[a] = at[a],
         \A q \in Runs : q # r => job'[q] = job[q] /\ create'[q] = create[q],
         job[r].kind # "none" => job'[r].kind = job[r].kind,
         create[r] = "created" => create'[r] = "created",
         RunAgrees(r)'
  PROVE  LineInv'
<1>1. Grows
  BY DEF Grows, KindsStay, stored
<1>2. Elsewhere({r})
  BY DEF Elsewhere
<1>3. QED
  BY <1>1, <1>2, UnwrittenTrue, RunKeeps

\* A write of r that changes nothing else but its place.
LEMMA RunWrites ==
  ASSUME LineInv, TypeOK', NEW r \in Runs, NEW w \in Writes, NEW place,
         Succeeds(r, w, place) \/ Errs(r, w, place),
         UNCHANGED <<job, callback, push, create>>,
         TrueWrite(w), w.op = "dispatch" => Vouched(w.on),
         RunAgrees(r)'
  PROVE  LineInv'
<1>1. TypeOK
  BY DEF LineInv
<1>2. \/ Apply(w) /\ late' \subseteq late
      \/ UNCHANGED <<row, message, workflowRow>> /\ late' = late \cup {w}
  BY DEF Succeeds, Errs
<1>3. Grows
  <2>1. \A m \in Messages :
          /\ message'[m].by = message[m].by
          /\ message[m].status # "none" => message'[m].status # "none"
          /\ row[m].delivery # "none" => row'[m].delivery # "none"
          /\ row[m].delivery \in {"sent", "failed"} => row'[m].delivery = row[m].delivery
    BY <1>1, <1>2, WriteEffect
  <2>2. QED
    BY <2>1 DEF Grows, KindsStay
<1>4. Elsewhere({r})
  BY <1>1 DEF Elsewhere, Succeeds, Errs, GoTo, TypeOK
<1>5. RecordsTrue' /\ OneMessage'
  BY <1>2, <1>3, WrittenTrue
<1>6. QED
  BY <1>3, <1>4, <1>5, RunKeeps

LEMMA SaveKeeps ==
  ASSUME LineInv, TypeOK', NEW r \in Runs, NEW op \in {"dispatch", "mirror"},
         NEW unsaved \in {"sent", "failed"}, Save(r, op, unsaved),
         op = "dispatch" => job[r].kind \in ProviderFirst
  PROVE  LineInv'
<1>1. TypeOK /\ RunAgrees(r)
  BY DEF LineInv
<1>2. r \in Actors /\ at[r] = "save"
  BY DEF Actors, Save
<1>3. ASSUME NEW place \in {"sent", "failed"}, GoTo(r, place),
             \A m \in Messages : message'[m].by = message[m].by
      PROVE  RunAgrees(r)'
  <2>1. at'[r] = place
    BY <1>1, <1>2, <1>3 DEF GoTo, TypeOK
  <2>2. job' = job /\ push' = push /\ create' = create
    BY DEF Save
  <2>3. QED
    BY <1>1, <1>2, <2>1, <2>2 DEF RunAgrees, Pushed
<1>4. CASE job[r].id = None
  <2>1. PICK place \in {"sent", "failed"} :
          GoTo(r, place) /\ UNCHANGED <<stored, job, callback, push, create>>
    BY <1>4 DEF Save
  <2>2. RunAgrees(r)'
    BY <2>1, <1>3 DEF stored
  <2>3. \A a \in Actors : a # r => at'[a] = at[a]
    BY <1>1, <2>1 DEF GoTo, TypeOK
  <2>4. QED
    BY <2>1, <2>2, <2>3, RunMoves
<1>5. CASE job[r].id # None
  <2> DEFINE w == [op |-> op, on |-> job[r].id]
  <2>1. job[r].id \in Messages
    BY <1>1, <1>5 DEF TypeOK
  <2>2. w \in Writes
    BY <2>1 DEF Writes, MessageWrites
  <2>3. PICK place \in {"sent", "failed"} :
          Succeeds(r, w, place) \/ Errs(r, w, place)
    BY <1>5 DEF Save
  <2>4. TrueWrite(w)
    BY DEF TrueWrite
  <2>5. message[job[r].id].by = r
    BY <1>1, <1>2, <1>5 DEF RunAgrees
  <2>6. w.op = "dispatch" => Vouched(w.on)
    BY <2>5 DEF Vouched
  <2>7. \A m \in Messages : message'[m].by = message[m].by
    BY <1>1, <2>2, <2>3, WriteEffect DEF Succeeds, Errs
  <2>8. RunAgrees(r)'
    BY <1>3, <2>3, <2>7 DEF Succeeds, Errs
  <2>9. UNCHANGED <<job, callback, push, create>>
    BY DEF Save
  <2> HIDE DEF w
  <2>10. QED
    BY <2>2, <2>3, <2>4, <2>6, <2>8, <2>9, RunWrites
<1>6. QED
  BY <1>4, <1>5

LEMMA RunStepKeeps ==
  ASSUME LineInv, NEW r \in Runs, RunStep(r)
  PROVE  LineInv'
<1>1. TypeOK /\ RunAgrees(r) /\ r \in Actors
  BY DEF LineInv, Actors
<1>2. TypeOK'
  BY <1>1, RunTyped
<1>3. ASSUME NEW place, GoTo(r, place)
      PROVE  at'[r] = place /\ \A a \in Actors : a # r => at'[a] = at[a]
  BY <1>1, <1>3 DEF GoTo, TypeOK
<1>4. CASE RefuseRun(r)
  <2>1. PICK place \in {"failed", "skipped", "error"} : GoTo(r, place)
    BY <1>4 DEF RefuseRun
  <2>2. RunAgrees(r)'
    BY <1>1, <1>3, <1>4, <2>1 DEF RefuseRun, RunAgrees, Pushed
  <2>3. QED
    BY <1>2, <1>3, <1>4, <2>1, <2>2, RunMoves DEF RefuseRun
<1>5. CASE StartRun(r)
  <2>1. PICK kind \in Kinds :
          /\ job' = [job EXCEPT ![r] = [kind |-> kind, id |-> None]]
          /\ GoTo(r, IF kind \in ProviderFirst THEN "create" ELSE "push")
    BY <1>5 DEF StartRun
  <2>2. job'[r] = [kind |-> kind, id |-> None] /\ \A q \in Runs : q # r => job'[q] = job[q]
    BY <1>1, <2>1 DEF TypeOK
  <2>3. at[r] = "idle" /\ job[r].kind = "none" /\ UNCHANGED <<stored, callback, push, create>>
    BY <1>1, <1>5 DEF StartRun, RunAgrees
  <2>4. at'[r] = IF kind \in ProviderFirst THEN "create" ELSE "push"
    BY <1>3, <2>1
  <2>5. RunAgrees(r)'
    BY <1>1, <2>2, <2>3, <2>4 DEF RunAgrees, Pushed, Kinds, ProviderFirst
  <2>6. QED
    BY <1>2, <1>3, <2>1, <2>2, <2>3, <2>5, RunMoves
<1>6. CASE RefuseText(r)
  <2>1. job'[r] = [kind |-> "text", id |-> None] /\ \A q \in Runs : q # r => job'[q] = job[q]
    BY <1>1, <1>6 DEF TypeOK, RefuseText
  <2>2. at[r] = "idle" /\ job[r].kind = "none" /\ UNCHANGED <<stored, callback, push, create>>
    BY <1>1, <1>6 DEF RefuseText, RunAgrees
  <2>3. GoTo(r, "log_failed") /\ at'[r] = "log_failed"
    BY <1>3, <1>6 DEF RefuseText
  <2>4. RunAgrees(r)'
    BY <1>1, <2>1, <2>2, <2>3 DEF RunAgrees, Pushed
  <2>5. QED
    BY <1>2, <1>3, <2>1, <2>2, <2>3, <2>4, RunMoves
<1>7. CASE TextPushed(r) \/ TextPushFails(r) \/ FilesPushed(r) \/ FilesPushFails(r)
  <2>1. at[r] = "push" /\ UNCHANGED <<stored, job, callback, push, create>>
    BY <1>7 DEF TextPushed, TextPushFails, FilesPushed, FilesPushFails, Answered, PushFails
  <2>2. \/ GoTo(r, "log_sent") /\ job[r].kind = "text" /\ push[r] = "accepted"
        \/ GoTo(r, "log_failed") /\ job[r].kind = "text"
        \/ GoTo(r, "sent") /\ job[r].kind = "files" /\ push[r] = "accepted"
        \/ GoTo(r, "failed")
    BY <1>7 DEF TextPushed, TextPushFails, FilesPushed, FilesPushFails, Answered
  <2>3. RunAgrees(r)'
    BY <1>1, <1>3, <2>1, <2>2 DEF RunAgrees, Pushed, ProviderFirst
  <2>4. \A a \in Actors : a # r => at'[a] = at[a]
    BY <1>3, <2>2
  <2>5. QED
    BY <1>2, <2>1, <2>3, <2>4, RunMoves
<1>8. CASE LogSent(r)
  <2> DEFINE w == [op |-> "log_sent", on |-> None]
  <2>1. PICK place \in {"create", "sent", "log_failed"} :
          Succeeds(r, w, place) \/ Errs(r, w, place)
    BY <1>8 DEF LogSent
  <2>2. at[r] = "log_sent" /\ job[r].kind = "text" /\ push[r] = "accepted"
    BY <1>1, <1>8 DEF LogSent, RunAgrees, ProviderFirst
  <2>3. w \in Writes /\ TrueWrite(w)
    BY <2>2 DEF Writes, TrueWrite, TextPushedBy
  <2>4. at'[r] = place /\ UNCHANGED <<job, callback, push, create>>
    BY <1>3, <1>8, <2>1 DEF LogSent, Succeeds, Errs
  <2>5. RunAgrees(r)'
    BY <1>1, <2>2, <2>4 DEF RunAgrees, Pushed, ProviderFirst
  <2>6. w.op # "dispatch"
    OBVIOUS
  <2> HIDE DEF w
  <2>7. QED
    BY <1>2, <2>1, <2>3, <2>4, <2>5, <2>6, RunWrites
<1>9. CASE LogFailed(r)
  <2> DEFINE w == [op |-> "log_failed", on |-> None]
  <2>1. PICK place \in {"failed", "error"} : Succeeds(r, w, place) \/ Errs(r, w, place)
    BY <1>9 DEF LogFailed
  <2>2. w \in Writes /\ TrueWrite(w) /\ w.op # "dispatch"
    BY DEF Writes, TrueWrite
  <2>3. at'[r] = place /\ at[r] = "log_failed" /\ UNCHANGED <<job, callback, push, create>>
    BY <1>3, <1>9, <2>1 DEF LogFailed, Succeeds, Errs
  <2>4. RunAgrees(r)'
    BY <1>1, <2>3 DEF RunAgrees, Pushed
  <2> HIDE DEF w
  <2>5. QED
    BY <1>2, <2>1, <2>2, <2>3, <2>4, RunWrites
<1>10. CASE SubmitMessage(r)
  <2>1. at[r] = "create" /\ create[r] = "none" /\ UNCHANGED <<stored, at, job, callback, push>>
    BY <1>10 DEF SubmitMessage
  <2>2. create'[r] = "submitted" /\ \A q \in Runs : q # r => create'[q] = create[q]
    BY <1>1, <1>10 DEF SubmitMessage, TypeOK
  <2>3. RunAgrees(r)'
    BY <1>1, <2>1, <2>2 DEF RunAgrees, Pushed
  <2>4. QED
    BY <1>2, <2>1, <2>2, <2>3, RunMoves
<1>11. CASE MessageCreated(r)
  <2>1. PICK id \in {m \in Messages : message[m].by = r} \cup {None} :
          job' = [job EXCEPT ![r] = [kind |-> job[r].kind, id |-> id]]
    BY <1>11 DEF MessageCreated
  <2>2. job'[r] = [kind |-> job[r].kind, id |-> id] /\ \A q \in Runs : q # r => job'[q] = job[q]
    BY <1>1, <2>1 DEF TypeOK
  <2>3. /\ at[r] = "create" /\ create[r] = "created" /\ at'[r] = "save"
        /\ UNCHANGED <<stored, callback, push, create>>
    BY <1>3, <1>11 DEF MessageCreated
  <2>4. message' = message
    BY <2>3 DEF stored
  <2>5. RunAgrees(r)'
    BY <1>1, <2>1, <2>2, <2>3, <2>4 DEF RunAgrees, Pushed
  <2>6. \A a \in Actors : a # r => at'[a] = at[a]
    BY <1>3, <1>11 DEF MessageCreated
  <2>7. QED
    BY <1>2, <2>2, <2>3, <2>5, <2>6, RunMoves
<1>12. CASE CreateFails(r)
  <2>1. at[r] = "create" /\ UNCHANGED <<stored, job, callback, push, create>>
    BY <1>12 DEF CreateFails
  <2>2. at'[r] = IF job[r].kind = "text" THEN "sent" ELSE "failed"
    BY <1>3, <1>12 DEF CreateFails
  <2>3. RunAgrees(r)'
    BY <1>1, <2>1, <2>2 DEF RunAgrees, Pushed, ProviderFirst
  <2>4. \A a \in Actors : a # r => at'[a] = at[a]
    BY <1>3, <1>12 DEF CreateFails
  <2>5. QED
    BY <1>2, <2>1, <2>3, <2>4, RunMoves
<1>13. CASE SaveDispatch(r) \/ SaveLegacyDispatch(r) \/ SaveMirror(r)
  BY <1>2, <1>13, SaveKeeps DEF SaveDispatch, SaveLegacyDispatch, SaveMirror, ProviderFirst
<1>14. QED
  BY <1>4, <1>5, <1>6, <1>7, <1>8, <1>9, <1>10, <1>11, <1>12, <1>13 DEF RunStep

-----------------------------------------------------------------------------
(* The steps of a callback *)

LEMMA CallbackKeeps ==
  ASSUME LineInv, TypeOK', Grows, OneMessage', RecordsTrue', NEW c \in Callbacks,
         Elsewhere({c}), CallbackAgrees(c)', Relied(c)',
         Holds(c)' => /\ callback'[c].message = Of(c)
                      /\ Holds(c) \/ row[Of(c)].delivery = "none"
  PROVE  LineInv'
<1>1. \A r \in Runs : r \notin {c}
  BY ActorsAssumption
<1>2. QED
  BY <1>1, HandlersKeep

\* A step that writes nothing and changes only what is c's own.
LEMMA CallbackMoves ==
  ASSUME LineInv, TypeOK', NEW c \in Callbacks, UNCHANGED <<stored, job, push, create>>,
         \A a \in Actors : a # c => at'[a] = at[a],
         \A d \in Callbacks : d # c => callback'[d] = callback[d],
         callback[c].outcome # "none" =>
           callback'[c].outcome = callback[c].outcome /\ callback'[c].message = Of(c),
         CallbackAgrees(c)', Relied(c)',
         Holds(c)' => Holds(c) /\ callback'[c].message = Of(c)
  PROVE  LineInv'
<1>1. Grows
  BY DEF Grows, KindsStay, stored, Of
<1>2. Elsewhere({c})
  BY DEF Elsewhere
<1>3. QED
  BY <1>1, <1>2, UnwrittenTrue, CallbackKeeps

\* What c was asked, and what it has concluded, stay as they were.
SameCase(c) ==
  /\ callback'[c].message = callback[c].message
  /\ callback'[c].provider = callback[c].provider
  /\ callback'[c].life = callback[c].life
  /\ callback'[c].outcome = callback[c].outcome

\* A write of c.
LEMMA CallbackWrites ==
  ASSUME LineInv, TypeOK', NEW c \in Callbacks, NEW w \in Writes, NEW place,
         Succeeds(c, w, place) \/ Errs(c, w, place), place # "idle", at[c] # "idle",
         UNCHANGED <<job, push, create>>, TrueWrite(w), w.op # "dispatch",
         SameCase(c), \A d \in Callbacks : d # c => callback'[d] = callback[d],
         CallbackAgrees(c)',
         Holds(c)' => Holds(c) \/ row[Of(c)].delivery = "none"
  PROVE  LineInv'
<1>1. TypeOK /\ c \in Actors
  BY DEF LineInv, Actors
<1>2. \/ Apply(w) /\ late' \subseteq late
      \/ UNCHANGED <<row, message, workflowRow>> /\ late' = late \cup {w}
  BY DEF Succeeds, Errs
<1>3. Grows
  <2>1. \A m \in Messages :
          /\ message'[m].by = message[m].by
          /\ message[m].status # "none" => message'[m].status # "none"
          /\ row[m].delivery # "none" => row'[m].delivery # "none"
          /\ row[m].delivery \in {"sent", "failed"} => row'[m].delivery = row[m].delivery
    BY <1>1, <1>2, WriteEffect
  <2>2. \A d \in Callbacks :
          callback'[d].outcome = callback[d].outcome /\ callback'[d].message = callback[d].message
    BY DEF SameCase
  <2>3. QED
    BY <2>1, <2>2 DEF Grows, KindsStay
<1>4. GoTo(c, place)
  BY DEF Succeeds, Errs
<1>5. at'[c] = place /\ \A a \in Actors : a # c => at'[a] = at[a]
  BY <1>1, <1>4 DEF GoTo, TypeOK
<1>6. Elsewhere({c})
  BY <1>5 DEF Elsewhere
<1>7. RecordsTrue' /\ OneMessage'
  BY <1>2, <1>3, WrittenTrue
<1>8. Relied(c)'
  <2>1. Relied(c) /\ Of(c) \in Messages
    BY DEF LineInv, Evidence, Relied, CallbackAgrees
  <2>2. Vouched(Of(c)) => Vouched(Of(c))'
    <3>1. PICK m \in Messages : m = Of(c)
      BY <2>1
    <3>2. Of(c)' = m
      BY <3>1 DEF SameCase, Of
    <3>3. Vouched(m) => Vouched(m)'
      BY <1>3, VouchedStays
    <3>4. QED
      BY <3>1, <3>2, <3>3 DEF Vouched
  <2>3. QED
    BY <1>5, <2>1, <2>2 DEF Relied, SameCase
<1>9. callback'[c].message = Of(c)
  BY DEF SameCase, Of
<1>10. QED
  BY <1>3, <1>6, <1>7, <1>8, <1>9, CallbackKeeps

\* No other callback can have closed the row otherwise, so finalizing stores "sent".
LEMMA FinalizeStores ==
  ASSUME LineInv, NEW c \in Callbacks, at[c] = "finalize", callback[c].outcome = "sent",
         Apply(Outcome(c))
  PROVE  row'[Of(c)].delivery = "sent"
<1> DEFINE m == Of(c)
           w == Outcome(c)
<1>1. TypeOK /\ CallbackAgrees(c) /\ Holds(c)
  BY DEF LineInv, Holds
<1>2. m \in Messages /\ row[m].delivery # "none" /\ m # None
  BY <1>1, ActorsAssumption DEF CallbackAgrees
<1>3. w.op = "sent" /\ w.on = m
  BY DEF Outcome, Of
<1>4. row[m].delivery # "failed"
  <2>1. SUFFICES ASSUME row[m].delivery = "failed" PROVE FALSE
    OBVIOUS
  <2>2. PICK d \in Callbacks : Of(d) = m /\ callback[d].outcome = "failed"
    BY <1>2, <2>1 DEF LineInv, TrueRecords, Concluded
  <2>3. Holds(d)
    BY <2>2 DEF Holds
  <2>4. c = d
    BY <1>1, <2>2, <2>3 DEF LineInv, OneHolder
  <2>5. QED
    BY <2>2, <2>4
<1>5. row[m].delivery \in {"received", "sent"}
  BY <1>1, <1>2, <1>4 DEF TypeOK
<1>6. DeliveryAfter(w) = "sent"
  BY <1>3, <1>5 DEF DeliveryAfter
<1>7. row' = [row EXCEPT ![m] = RowAfter(w)]
  BY <1>2, <1>3 DEF Apply
<1>8. QED
  BY <1>1, <1>2, <1>6, <1>7 DEF TypeOK, RowAfter

LEMMA ConcludeKeeps ==
  ASSUME LineInv, TypeOK', NEW c \in Callbacks, NEW outcome \in {"sent", "failed"},
         NEW answer \in {"processed", "error"}, Conclude(c, outcome, answer),
         at[c] = "push", outcome = "sent" => push[c] = "accepted"
  PROVE  LineInv'
<1>1. TypeOK /\ CallbackAgrees(c) /\ Relied(c) /\ Holds(c) /\ c \in Actors
  BY DEF LineInv, Evidence, Relied, Holds, Actors
<1>2. UNCHANGED <<stored, job, push, create>> /\ GoTo(c, "finalize")
  BY DEF Conclude
<1>3. at'[c] = "finalize" /\ \A a \in Actors : a # c => at'[a] = at[a]
  BY <1>1, <1>2 DEF GoTo, TypeOK
<1>4. callback' = [callback EXCEPT ![c] =
        [message |-> callback[c].message, provider |-> callback[c].provider,
         life |-> callback[c].life, outcome |-> outcome, answer |-> answer]]
  BY DEF Conclude
<1>5. /\ callback'[c].message = Of(c)
      /\ callback'[c].provider = callback[c].provider
      /\ callback'[c].life = callback[c].life
      /\ callback'[c].outcome = outcome
      /\ callback'[c].answer = answer
  BY <1>1, <1>4 DEF TypeOK, Of
<1>6. \A d \in Callbacks : d # c => callback'[d] = callback[d]
  BY <1>1, <1>4 DEF TypeOK
<1>7. callback[c].outcome = "none"
  BY <1>1 DEF CallbackAgrees
<1>8. Of(c)' = Of(c) /\ row' = row /\ message' = message /\ push' = push /\ job' = job
  BY <1>2, <1>5 DEF Of, stored
<1>9. CallbackAgrees(c)'
  BY <1>1, <1>3, <1>5, <1>8 DEF CallbackAgrees
<1>10. Relied(c)'
  BY <1>1, <1>3, <1>5, <1>8 DEF Relied, Vouched
<1>11. QED
  BY <1>1, <1>2, <1>3, <1>5, <1>6, <1>7, <1>9, <1>10, CallbackMoves

LEMMA FinalizeKeeps ==
  ASSUME LineInv, TypeOK', NEW c \in Callbacks, FinalizeV3(c) \/ FinalizeLegacy(c)
  PROVE  LineInv'
<1>1. TypeOK /\ CallbackAgrees(c) /\ Holds(c) /\ c \in Actors /\ at[c] = "finalize"
  BY DEF LineInv, Holds, Actors, FinalizeV3, FinalizeLegacy
<1>2. /\ callback[c].message \in Messages
      /\ callback[c].outcome \in {"sent", "failed"}
      /\ callback[c].answer \in {"processed", "error"}
  BY <1>1 DEF CallbackAgrees, Of, TypeOK
<1>3. Outcome(c) \in Writes /\ Outcome(c).op # "dispatch"
  BY <1>2 DEF Outcome, Writes, MessageWrites
<1>4. TrueWrite(Outcome(c))
  BY <1>2 DEF TrueWrite, Outcome, Concluded, Of
<1>5. /\ SameCase(c)
      /\ \A d \in Callbacks : d # c => callback'[d] = callback[d]
      /\ callback'[c].answer \in {callback[c].answer, "error"}
      /\ Errs(c, Outcome(c), "status") /\ callback[c].outcome = "sent" =>
           callback' = callback \/ callback'[c].answer = "error"
  <2>1. CASE callback' = callback
    BY <2>1 DEF SameCase
  <2>2. CASE callback' # callback
    <3> DEFINE answer == IF callback[c].outcome = "sent" THEN "error" ELSE callback[c].answer
    <3>1. callback' = [callback EXCEPT ![c] =
            [message |-> callback[c].message, provider |-> callback[c].provider,
             life |-> callback[c].life, outcome |-> callback[c].outcome, answer |-> answer]]
      BY <2>2 DEF FinalizeV3, FinalizeLegacy
    <3>2. callback'[c] =
            [message |-> callback[c].message, provider |-> callback[c].provider,
             life |-> callback[c].life, outcome |-> callback[c].outcome, answer |-> answer]
      BY <1>1, <3>1 DEF TypeOK
    <3>3. \A d \in Callbacks : d # c => callback'[d] = callback[d]
      BY <1>1, <3>1 DEF TypeOK
    <3>4. QED
      BY <3>2, <3>3 DEF SameCase
  <2>3. QED
    BY <2>1, <2>2
<1>6. PICK place \in {"status", callback[c].answer, "error"} :
        /\ \/ Succeeds(c, Outcome(c), place)
           \/ Errs(c, Outcome(c), place)
        /\ \/ Apply(Outcome(c))
           \/ place = "error"
           \/ place = "status" /\ (callback[c].outcome = "sent" => callback'[c].answer = "error")
  <2>1. CASE FinalizeV3(c)
    <3>1. Succeeds(c, Outcome(c), "status") => Apply(Outcome(c))
      BY DEF Succeeds
    <3>2. \/ Succeeds(c, Outcome(c), "status")
          \/ /\ Errs(c, Outcome(c), "status")
             /\ callback' = [callback EXCEPT ![c] =
                  [message |-> callback[c].message, provider |-> callback[c].provider,
                   life |-> callback[c].life, outcome |-> callback[c].outcome,
                   answer |-> IF callback[c].outcome = "sent" THEN "error" ELSE callback[c].answer]]
      BY <2>1 DEF FinalizeV3
    <3>3. CASE Succeeds(c, Outcome(c), "status")
      BY <3>1, <3>3
    <3>4. CASE /\ Errs(c, Outcome(c), "status")
               /\ callback' = [callback EXCEPT ![c] =
                    [message |-> callback[c].message, provider |-> callback[c].provider,
                     life |-> callback[c].life, outcome |-> callback[c].outcome,
                     answer |-> IF callback[c].outcome = "sent" THEN "error" ELSE callback[c].answer]]
      <4>1. callback[c].outcome = "sent" => callback'[c].answer = "error"
        BY <1>1, <3>4 DEF TypeOK
      <4>2. QED
        BY <3>4, <4>1
    <3>5. QED
      BY <3>2, <3>3, <3>4
  <2>2. CASE FinalizeLegacy(c)
    BY <2>2 DEF FinalizeLegacy, Succeeds
  <2>3. QED
    BY <2>1, <2>2
<1>7. at'[c] = place
  BY <1>1, <1>6 DEF Succeeds, Errs, GoTo, TypeOK
<1>8. callback[c].outcome = "sent" /\ Apply(Outcome(c)) => row'[Of(c)].delivery = "sent"
  BY <1>1, FinalizeStores
<1>9. row'[Of(c)].delivery # "none" /\ message'[Of(c)].status # "none"
  BY <1>1, <1>2, <1>3, <1>6, WriteEffect DEF CallbackAgrees, Of, Succeeds, Errs
<1>10. UNCHANGED <<job, push, create>>
  BY DEF FinalizeV3, FinalizeLegacy
<1>11. CallbackAgrees(c)'
  BY <1>1, <1>2, <1>5, <1>6, <1>7, <1>8, <1>9, <1>10 DEF CallbackAgrees, Of, SameCase
<1>12. place # "idle"
  BY <1>2, <1>6
<1>13. QED
  BY <1>1, <1>3, <1>4, <1>5, <1>6, <1>10, <1>11, <1>12, CallbackWrites

LEMMA CallbackStepKeeps ==
  ASSUME LineInv, NEW c \in Callbacks, CallbackStep(c)
  PROVE  LineInv'
<1>1. TypeOK /\ CallbackAgrees(c) /\ Relied(c) /\ c \in Actors
  BY DEF LineInv, Evidence, Relied, Actors
<1>2. TypeOK'
  BY <1>1, CallbackTyped
<1>3. ASSUME NEW place, GoTo(c, place)
      PROVE  at'[c] = place /\ \A a \in Actors : a # c => at'[a] = at[a]
  BY <1>1, <1>3 DEF GoTo, TypeOK
<1>4. CASE RefuseCallback(c) \/ LookUp(c)
  <2>1. at[c] \in {"lookup", "select"} /\ UNCHANGED <<stored, job, callback, push, create>>
    BY <1>4 DEF RefuseCallback, LookUp
  <2>2. PICK place \in {"skipped", "error", "select"} : GoTo(c, place)
    BY <1>4 DEF RefuseCallback, LookUp
  <2>3. at'[c] = place /\ \A a \in Actors : a # c => at'[a] = at[a]
    BY <1>3, <2>2
  <2>4. ~ Holds(c) /\ ~ Holds(c)' /\ Of(c)' = Of(c)
    BY <1>1, <2>1, <2>3 DEF CallbackAgrees, Holds, Pushed, Of
  <2>5. CallbackAgrees(c)'
    BY <1>1, <2>1, <2>3, <2>4 DEF CallbackAgrees, stored
  <2>6. Relied(c)'
    BY <1>1, <2>1, <2>3, <2>4 DEF Relied, Vouched, stored
  <2>7. QED
    BY <1>2, <2>1, <2>3, <2>4, <2>5, <2>6, CallbackMoves DEF Of
<1>5. CASE Select(c)
  <2>1. PICK life \in ProviderFirst :
          /\ life = "v3" => Verified(c)
          /\ callback' = [callback EXCEPT ![c] =
               [message |-> callback[c].message, provider |-> callback[c].provider, life |-> life,
                outcome |-> "none", answer |-> "none"]]
    BY <1>5 DEF Select
  <2>2. /\ callback'[c] =
             [message |-> callback[c].message, provider |-> callback[c].provider, life |-> life,
              outcome |-> "none", answer |-> "none"]
        /\ \A d \in Callbacks : d # c => callback'[d] = callback[d]
    BY <1>1, <2>1 DEF TypeOK
  <2>3. /\ at[c] = "select" /\ at'[c] = "claim" /\ \A a \in Actors : a # c => at'[a] = at[a]
        /\ UNCHANGED <<stored, job, push, create>>
    BY <1>3, <1>5 DEF Select
  <2>4. Of(c)' = Of(c) /\ row' = row /\ message' = message /\ push' = push /\ job' = job
    BY <2>2, <2>3 DEF Of, stored
  <2>5. ~ Holds(c) /\ callback[c].outcome = "none"
    BY <1>1, <2>3 DEF CallbackAgrees, Holds
  <2>6. ~ Holds(c)'
    BY <2>2, <2>3, <2>4, <2>5 DEF Holds, Pushed
  <2>7. CallbackAgrees(c)'
    BY <1>1, <2>2, <2>3, <2>4, <2>6 DEF CallbackAgrees
  <2>8. row[Of(c)].dispatch => Vouched(Of(c))
    BY <1>1, <2>3 DEF CallbackAgrees, LineInv, Evidence
  <2>9. life = "v3" /\ callback[c].provider # "match" => Vouched(Of(c))
    BY <2>1, <2>8 DEF Verified, Of
  <2>10. Relied(c)'
    BY <2>2, <2>3, <2>4, <2>9 DEF Relied, Vouched
  <2>11. QED
    BY <1>2, <2>2, <2>3, <2>5, <2>6, <2>7, <2>10, CallbackMoves
<1>6. CASE Claim(c)
  <2> DEFINE w == [op |-> "claim", on |-> Of(c)]
  <2>1. /\ at[c] = "claim" /\ Of(c) \in Messages /\ message[Of(c)].status # "none"
        /\ ~ Holds(c) /\ UNCHANGED <<job, callback, push, create>>
    BY <1>1, <1>6 DEF Claim, CallbackAgrees
  <2>2. PICK place \in {"push", "skipped", "error"} :
          /\ Succeeds(c, w, place) \/ Errs(c, w, place)
          /\ place = "push" => Succeeds(c, w, place) /\ Claimable(Of(c))
    BY <1>6 DEF Claim, Of
  <2>3. w \in Writes /\ TrueWrite(w) /\ w.op = "claim"
    BY <2>1 DEF Writes, MessageWrites, TrueWrite
  <2>4. at'[c] = place
    BY <1>3, <2>2 DEF Succeeds, Errs
  <2>5. /\ message'[Of(c)].status # "none"
        /\ place = "push" => row'[Of(c)].delivery # "none"
    BY <1>1, <2>1, <2>2, <2>3, WriteEffect DEF Succeeds, Errs
  <2>6. Of(c)' = Of(c) /\ (Holds(c)' => place = "push")
    BY <2>1, <2>2, <2>4 DEF Of, Holds, Pushed
  <2>7. CallbackAgrees(c)'
    BY <2>1, <2>2, <2>4, <2>5, <2>6 DEF CallbackAgrees, Holds, Pushed
  <2>8. Holds(c)' => row[Of(c)].delivery = "none"
    BY <2>2, <2>6 DEF Claimable
  <2>9. SameCase(c)
    BY <2>1 DEF SameCase
  <2> HIDE DEF w
  <2>10. QED
    BY <1>2, <2>1, <2>2, <2>3, <2>7, <2>8, <2>9, CallbackWrites
<1>7. CASE Undeliverable(c) \/ CallbackPushed(c) \/ CallbackPushFails(c)
  <2>1. at[c] = "push"
    BY <1>7 DEF Undeliverable, CallbackPushed, CallbackPushFails, Answered, PushFails
  <2>2. PICK outcome \in {"sent", "failed"}, answer \in {"processed", "error"} :
          Conclude(c, outcome, answer) /\ (outcome = "sent" => push[c] = "accepted")
    BY <1>7 DEF Undeliverable, CallbackPushed, CallbackPushFails, Answered
  <2>3. QED
    BY <1>2, <2>1, <2>2, ConcludeKeeps
<1>8. CASE FinalizeV3(c) \/ FinalizeLegacy(c)
  BY <1>2, <1>8, FinalizeKeeps
<1>9. CASE UpdateStatus(c)
  <2> DEFINE w == [op |-> IF callback[c].outcome = "sent" THEN "set_delivered" ELSE "set_failed",
                   on |-> Of(c)]
             place == callback[c].answer
  <2>1. /\ at[c] = "status" /\ Holds(c) /\ Of(c) \in Messages
        /\ UNCHANGED <<job, callback, push, create>>
        /\ Succeeds(c, w, place) \/ Errs(c, w, place)
    BY <1>1, <1>9 DEF UpdateStatus, CallbackAgrees, Holds, Of
  <2>2. callback[c].outcome \in {"sent", "failed"} /\ place \in {"processed", "error"}
    BY <1>1, <2>1 DEF CallbackAgrees, TypeOK
  <2>3. w \in Writes /\ w.op # "dispatch"
    BY <2>1 DEF Writes, MessageWrites
  <2>4. TrueWrite(w)
    BY <2>2 DEF TrueWrite, Concluded
  <2>5. at'[c] = place
    BY <1>3, <2>1 DEF Succeeds, Errs
  <2>6. /\ message'[Of(c)].status # "none"
        /\ row'[Of(c)].delivery # "none"
        /\ row[Of(c)].delivery \in {"sent", "failed"} => row'[Of(c)].delivery = row[Of(c)].delivery
    BY <1>1, <2>1, <2>3, WriteEffect DEF Succeeds, Errs, CallbackAgrees
  <2>7. Of(c)' = Of(c) /\ callback' = callback /\ push' = push
    BY <2>1 DEF Of
  <2>8. CallbackAgrees(c)'
    BY <1>1, <2>1, <2>2, <2>5, <2>6, <2>7 DEF CallbackAgrees
  <2>9. SameCase(c) /\ place # "idle"
    BY <2>2, <2>7 DEF SameCase
  <2> HIDE DEF w, place
  <2>10. QED
    BY <1>2, <2>1, <2>3, <2>4, <2>7, <2>8, <2>9, CallbackWrites
<1>10. QED
  BY <1>4, <1>5, <1>6, <1>7, <1>8, <1>9 DEF CallbackStep

-----------------------------------------------------------------------------
(* Every other step *)

\* Nothing stored changes, and nobody's place or memory.
LEMMA PushKeeps ==
  ASSUME LineInv, NEW a \in Actors, Submit(a) \/ LineHandles(a)
  PROVE  LineInv'
<1>1. TypeOK
  BY DEF LineInv
<1>2. TypeOK'
  BY <1>1, OtherTyped
<1>3. UNCHANGED <<stored, at, job, callback, create>>
  BY DEF Submit, LineHandles
<1>4. \/ at[a] = "push" /\ push[a] = "none" /\ push' = [push EXCEPT ![a] = "submitted"]
      \/ /\ push[a] = "submitted"
         /\ \E result \in {"accepted", "refused"} : push' = [push EXCEPT ![a] = result]
  BY DEF Submit, LineHandles
<1>5. /\ at[a] = "push" \/ Pushed(a)
      /\ push[a] # "accepted" /\ push'[a] # "none"
      /\ \A b \in Actors : b # a => push'[b] = push[b]
  BY <1>1, <1>4 DEF Pushed, TypeOK
<1>6. Grows
  BY <1>3, <1>5 DEF Grows, KindsStay, stored
<1>7. Elsewhere({a})
  BY <1>3, <1>5 DEF Elsewhere
<1>8. CASE a \in Runs
  <2>1. RunAgrees(a)
    BY <1>8 DEF LineInv
  <2>2. at'[a] = at[a] /\ job'[a] = job[a] /\ create'[a] = create[a] /\ message' = message
    BY <1>3 DEF stored
  <2>3. RunAgrees(a)'
    BY <1>5, <2>1, <2>2 DEF RunAgrees, Pushed
  <2>4. QED
    BY <1>2, <1>3, <1>6, <1>7, <1>8, <2>3, RunKeeps, UnwrittenTrue
<1>9. CASE a \in Callbacks
  <2>1. CallbackAgrees(a) /\ Relied(a) /\ Holds(a)
    BY <1>5, <1>9 DEF LineInv, Evidence, Relied, Holds
  <2>2. /\ at' = at /\ callback' = callback /\ message' = message /\ row' = row /\ job' = job
        /\ Of(a)' = Of(a)
    BY <1>3 DEF stored, Of
  <2>3. callback[a].outcome # "sent"
    BY <1>5, <2>1 DEF CallbackAgrees
  <2>4. CallbackAgrees(a)'
    BY <1>5, <2>1, <2>2, <2>3 DEF CallbackAgrees, Holds
  <2>5. Relied(a)'
    BY <2>1, <2>2 DEF Relied, Vouched
  <2>6. callback'[a].message = Of(a)
    BY <2>2 DEF Of
  <2>7. QED
    BY <1>2, <1>3, <1>6, <1>7, <1>9, <2>1, <2>4, <2>5, <2>6, CallbackKeeps, UnwrittenTrue
<1>10. QED
  BY <1>8, <1>9 DEF Actors

LEMMA DieKeeps ==
  ASSUME LineInv, NEW a \in Actors, Die(a)
  PROVE  LineInv'
<1>1. TypeOK
  BY DEF LineInv
<1>2. TypeOK'
  BY <1>1, OtherTyped
<1>3. UNCHANGED <<stored, job, callback, push, create>> /\ at[a] # "idle"
  BY DEF Die
<1>4. at'[a] = "dead" /\ \A b \in Actors : b # a => at'[b] = at[b]
  BY <1>1 DEF Die, GoTo, TypeOK
<1>5. CASE a \in Runs
  <2>1. RunAgrees(a)
    BY <1>5 DEF LineInv
  <2>2. RunAgrees(a)'
    BY <1>3, <1>4, <2>1 DEF RunAgrees, Pushed
  <2>3. QED
    BY <1>2, <1>3, <1>4, <1>5, <2>2, RunMoves
<1>6. CASE a \in Callbacks
  <2>1. CallbackAgrees(a) /\ Relied(a)
    BY <1>6 DEF LineInv, Evidence, Relied
  <2>2. /\ Of(a)' = Of(a) /\ callback'[a].message = Of(a)
        /\ (Holds(a)' => Holds(a))
    BY <1>3, <1>4 DEF Of, Holds, Pushed
  <2>3. CallbackAgrees(a)'
    BY <1>3, <1>4, <2>1, <2>2 DEF CallbackAgrees, stored
  <2>4. Relied(a)'
    BY <1>3, <1>4, <2>1, <2>2 DEF Relied, Vouched, stored
  <2>5. QED
    BY <1>2, <1>3, <1>4, <1>6, <2>2, <2>3, <2>4, CallbackMoves
<1>7. QED
  BY <1>5, <1>6 DEF Actors

LEMMA CallsBackKeeps ==
  ASSUME LineInv, NEW c \in Callbacks, HighLevelCallsBack(c)
  PROVE  LineInv'
<1>1. TypeOK /\ CallbackAgrees(c) /\ c \in Actors /\ at[c] = "idle"
  BY DEF LineInv, Actors, HighLevelCallsBack
<1>2. TypeOK'
  BY <1>1, OtherTyped
<1>3. PICK m \in Messages, provider \in {"match", "absent", "other"} :
        /\ message[m].status # "none"
        /\ callback' = [callback EXCEPT ![c] =
             [message |-> m, provider |-> provider, life |-> "none",
              outcome |-> "none", answer |-> "none"]]
  BY DEF HighLevelCallsBack
<1>4. GoTo(c, "lookup") /\ UNCHANGED <<stored, job, push, create>>
  BY DEF HighLevelCallsBack
<1>5. at'[c] = "lookup" /\ \A a \in Actors : a # c => at'[a] = at[a]
  BY <1>1, <1>4 DEF GoTo, TypeOK
<1>6. /\ callback'[c] = [message |-> m, provider |-> provider, life |-> "none",
                         outcome |-> "none", answer |-> "none"]
      /\ \A d \in Callbacks : d # c => callback'[d] = callback[d]
  BY <1>1, <1>3 DEF TypeOK
<1>7. ~ Holds(c) /\ ~ Holds(c)' /\ callback[c].outcome = "none"
  BY <1>1, <1>4, <1>5, <1>6 DEF CallbackAgrees, Holds, Pushed
<1>8. Of(c)' = m /\ message' = message
  BY <1>4, <1>6 DEF Of, stored
<1>9. CallbackAgrees(c)'
  BY <1>3, <1>5, <1>6, <1>7, <1>8 DEF CallbackAgrees
<1>10. Relied(c)'
  BY <1>6 DEF Relied
<1>11. QED
  BY <1>2, <1>4, <1>5, <1>6, <1>7, <1>9, <1>10, CallbackMoves

LEMMA LandLateKeeps ==
  ASSUME LineInv, NEW w \in late, LandLate(w)
  PROVE  LineInv'
<1>1. TypeOK
  BY DEF LineInv
<1>2. TypeOK'
  BY <1>1, OtherTyped
<1>3. w \in Writes /\ TrueWrite(w) /\ (w.op = "dispatch" => Vouched(w.on))
  BY <1>1 DEF TypeOK, LineInv, TrueRecords, Evidence
<1>4. Apply(w) /\ late' \subseteq late /\ UNCHANGED <<at, job, callback, push, create>>
  BY DEF LandLate
<1>5. Grows
  <2>1. \A m \in Messages :
          /\ message'[m].by = message[m].by
          /\ message[m].status # "none" => message'[m].status # "none"
          /\ row[m].delivery # "none" => row'[m].delivery # "none"
          /\ row[m].delivery \in {"sent", "failed"} => row'[m].delivery = row[m].delivery
    BY <1>1, <1>3, <1>4, WriteEffect
  <2>2. QED
    BY <1>4, <2>1 DEF Grows, KindsStay
<1>6. Elsewhere({})
  BY <1>4 DEF Elsewhere
<1>7. RecordsTrue' /\ OneMessage'
  BY <1>3, <1>4, <1>5, WrittenTrue
<1>8. QED
  BY <1>2, <1>5, <1>6, <1>7, HandlersKeep

LEMMA RefusesKeeps ==
  ASSUME LineInv, NEW r \in Runs, HighLevelRefuses(r)
  PROVE  LineInv'
<1>1. TypeOK /\ RunAgrees(r)
  BY DEF LineInv
<1>2. TypeOK'
  BY <1>1, OtherTyped
<1>3. create[r] = "submitted" /\ UNCHANGED <<stored, at, job, callback, push>>
  BY DEF HighLevelRefuses
<1>4. create'[r] = "refused" /\ \A q \in Runs : q # r => create'[q] = create[q]
  BY <1>1 DEF HighLevelRefuses, TypeOK
<1>5. at[r] \in {"save", "sent"} => job[r].kind \notin ProviderFirst
  BY <1>1, <1>3 DEF RunAgrees
<1>6. RunAgrees(r)'
  BY <1>1, <1>3, <1>4, <1>5 DEF RunAgrees, Pushed, stored
<1>7. QED
  BY <1>2, <1>3, <1>4, <1>6, RunMoves

\* A new message of anyone is pending, or delivered and not reported.
LEMMA MessageKeeps ==
  ASSUME LineInv, TypeOK', NEW m \in Messages, NEW by, NEW status,
         message[m] = NoMessage, message'[m] = [by |-> by, status |-> status],
         \A n \in Messages : n # m => message'[n] = message[n],
         status \in {"pending", "delivered"}, status = "delivered" => ~ Reported(m)',
         UNCHANGED <<row, workflowRow, late, at, job, callback, push>>,
         \A r \in Runs : create[r] = "created" => create'[r] = "created"
  PROVE  Grows /\ RecordsTrue'
<1>1. Grows
  <2>1. message[m].by = None /\ message[m].status = "none"
    BY DEF NoMessage
  <2>2. \A n \in Messages : /\ message[n].by # None => message'[n].by = message[n].by
                            /\ message[n].status # "none" => message'[n].status # "none"
    BY <2>1
  <2>3. QED
    BY <2>2 DEF Grows, KindsStay
<1>2. \A n \in Messages : row[n].dispatch => Vouched(n)'
  BY <1>1, VouchedStays DEF LineInv, Evidence
<1>3. \A w \in late : TrueWrite(w)' /\ (w.op = "dispatch" => Vouched(w.on)')
  BY <1>1, LateStaysTrue
<1>4. ASSUME NEW n \in Messages
      PROVE  /\ row[n].delivery = "sent" => Concluded(n, "sent")'
             /\ row[n].delivery = "failed" => Concluded(n, "failed")'
             /\ message[n].status = "delivered" /\ Reported(n) => Concluded(n, "sent")'
             /\ message[n].status = "failed" => Concluded(n, "failed")'
  BY <1>1, ConcludedStays DEF LineInv, TrueRecords
<1>5. ASSUME NEW n \in Messages
      PROVE  /\ message'[n].status = "delivered" /\ Reported(n)' => Concluded(n, "sent")'
             /\ message'[n].status = "failed" => Concluded(n, "failed")'
  <2>1. CASE n = m
    BY <2>1
  <2>2. CASE n # m
    <3>1. message'[n] = message[n]
      BY <2>2
    <3>2. Reported(n)' => Reported(n)
      BY <1>1, <3>1, ReportedStays DEF Grows
    <3>3. QED
      BY <1>4, <3>1, <3>2
  <2>3. QED
    BY <2>1, <2>2
<1>6. workflowRow = "sent" => \E r \in Runs : TextPushedBy(r)'
  BY <1>1, TextPushedStays DEF LineInv, TrueRecords
<1>7. TrueRecords'
  BY <1>3, <1>4, <1>5, <1>6 DEF TrueRecords
<1>8. QED
  BY <1>1, <1>2, <1>3, <1>7 DEF RecordsTrue

LEMMA AgentSendsKeeps ==
  ASSUME LineInv, NEW m \in Messages, AgentSends(m)
  PROVE  LineInv'
<1>1. TypeOK
  BY DEF LineInv
<1>2. TypeOK'
  BY <1>1, OtherTyped
<1>3. /\ message[m] = NoMessage
      /\ message' = [message EXCEPT ![m] = [by |-> None, status |-> "pending"]]
      /\ UNCHANGED <<row, workflowRow, late, at, job, callback, push, create>>
  BY DEF AgentSends
<1>4. /\ message'[m] = [by |-> None, status |-> "pending"]
      /\ \A n \in Messages : n # m => message'[n] = message[n]
  BY <1>1, <1>3 DEF TypeOK
<1>5. Grows /\ RecordsTrue'
  BY <1>2, <1>3, <1>4, MessageKeeps
<1>6. \A n \in Messages : message'[n].by = message[n].by
  BY <1>3, <1>4 DEF NoMessage
<1>7. OneMessage'
  BY <1>5, <1>6, OneMessageStays
<1>8. Elsewhere({})
  BY <1>3 DEF Elsewhere
<1>9. QED
  BY <1>2, <1>5, <1>7, <1>8, HandlersKeep

LEMMA CreatesKeeps ==
  ASSUME LineInv, NEW r \in Runs, HighLevelCreates(r)
  PROVE  LineInv'
<1>1. TypeOK /\ RunAgrees(r) /\ OneMessage /\ r # None
  BY ActorsAssumption DEF LineInv
<1>2. TypeOK'
  BY <1>1, OtherTyped
<1>3. PICK m \in Messages :
        /\ message[m] = NoMessage
        /\ message' = [message EXCEPT ![m] = [by |-> r, status |-> FirstStatus(job[r].kind)]]
  BY DEF HighLevelCreates
<1>4. /\ create[r] = "submitted" /\ create' = [create EXCEPT ![r] = "created"]
      /\ UNCHANGED <<row, workflowRow, late, at, job, callback, push>>
  BY DEF HighLevelCreates
<1>5. create'[r] = "created" /\ \A q \in Runs : q # r => create'[q] = create[q]
  BY <1>1, <1>4 DEF TypeOK
<1>6. /\ message'[m] = [by |-> r, status |-> FirstStatus(job[r].kind)]
      /\ \A n \in Messages : n # m => message'[n] = message[n]
  BY <1>1, <1>3 DEF TypeOK
<1>7. /\ FirstStatus(job[r].kind) \in {"pending", "delivered"}
      /\ FirstStatus(job[r].kind) = "delivered" => job[r].kind # "v3"
  BY DEF FirstStatus
<1>8. FirstStatus(job[r].kind) = "delivered" => ~ Reported(m)'
  BY <1>1, <1>4, <1>6, <1>7 DEF Reported
<1>9. Grows /\ RecordsTrue'
  BY <1>2, <1>3, <1>4, <1>5, <1>6, <1>7, <1>8, MessageKeeps
<1>10. OneMessage'
  <2>1. \A n \in Messages : message[n].by # r
    BY <1>1, <1>4 DEF OneMessage
  <2>2. \A n \in Messages : n # m => message'[n].by = message[n].by /\ message'[n].by # r
    BY <1>6, <2>1
  <2>3. message'[m].by = r
    BY <1>6
  <2>4. \A n \in Messages : message[n].by # None => create'[message[n].by] = "created"
    BY <1>1, <1>4, <1>5 DEF OneMessage, TypeOK
  <2>5. \A n \in Messages : message'[n].by # None => create'[message'[n].by] = "created"
    BY <1>5, <2>2, <2>3, <2>4
  <2>6. \A n, k \in Messages :
          message'[n].by # None /\ message'[n].by = message'[k].by => n = k
    BY <1>1, <2>2, <2>3 DEF OneMessage
  <2>7. QED
    BY <2>5, <2>6 DEF OneMessage
<1>11. Elsewhere({r})
  BY <1>4, <1>5 DEF Elsewhere
<1>12. RunAgrees(r)'
  <2>1. job[r].id \in Messages \cup {None}
    BY <1>1 DEF TypeOK
  <2>2. at[r] = "save" /\ job[r].id # None => message'[job[r].id].by = r
    BY <1>1, <1>6, <2>1 DEF RunAgrees
  <2>3. QED
    BY <1>1, <1>4, <1>5, <2>2 DEF RunAgrees, Pushed
<1>13. QED
  BY <1>2, <1>9, <1>10, <1>11, <1>12, RunKeeps

-----------------------------------------------------------------------------
(* The theorems *)

LEMMA LineInit == Init => LineInv
<1> SUFFICES ASSUME Init PROVE LineInv
  OBVIOUS
<1>1. /\ message = [m \in Messages |-> NoMessage]
      /\ row = [m \in Messages |-> NoRows]
      /\ workflowRow = "none"
      /\ at = [a \in Actors |-> "idle"]
      /\ job = [r \in Runs |-> NoJob]
      /\ callback = [c \in Callbacks |-> NoCallback]
      /\ push = [a \in Actors |-> "none"]
      /\ create = [r \in Runs |-> "none"]
      /\ late = {}
  BY DEF Init
<1>2. TypeOK
  <2>1. StoredType
    BY <1>1 DEF StoredType, NoMessage, NoRows
  <2>2. AtType(at) /\ PushType
    BY <1>1 DEF AtType, PushType, RunPlaces, CallbackPlaces, Actors
  <2>3. JobType /\ CreateType
    BY <1>1 DEF JobType, CreateType, NoJob
  <2>4. CallbackType
    BY <1>1 DEF CallbackType, NoCallback
  <2>5. QED
    BY <2>1, <2>2, <2>3, <2>4, TypeParts
<1>3. \A r \in Runs : at[r] = "idle" /\ push[r] = "none" /\ create[r] = "none" /\ job[r].kind = "none"
  BY <1>1 DEF Actors, NoJob
<1>4. \A c \in Callbacks :
        /\ at[c] = "idle" /\ push[c] = "none"
        /\ callback[c].outcome = "none" /\ callback[c].life = "none"
  BY <1>1 DEF Actors, NoCallback
<1>5. \A m \in Messages :
        /\ message[m].by = None /\ message[m].status = "none"
        /\ row[m].delivery = "none" /\ ~ row[m].dispatch
  BY <1>1 DEF NoMessage, NoRows
<1>6. \A r \in Runs : RunAgrees(r)
  BY <1>3 DEF RunAgrees, Pushed
<1>7. \A c \in Callbacks : ~ Holds(c)
  BY <1>4 DEF Holds, Pushed
<1>8. \A c \in Callbacks : CallbackAgrees(c)
  BY <1>4, <1>7 DEF CallbackAgrees
<1>9. OneMessage /\ OneHolder
  BY <1>5, <1>7 DEF OneMessage, OneHolder
<1>10. Evidence
  BY <1>1, <1>4, <1>5 DEF Evidence
<1>11. TrueRecords
  BY <1>1, <1>5 DEF TrueRecords
<1>12. QED
  BY <1>2, <1>6, <1>8, <1>9, <1>10, <1>11 DEF LineInv

LEMMA LineNext == LineInv /\ [Next]_vars => LineInv'
<1> SUFFICES ASSUME LineInv, [Next]_vars PROVE LineInv'
  OBVIOUS
<1>1. CASE \E r \in Runs : RunStep(r) \/ HighLevelCreates(r) \/ HighLevelRefuses(r)
  BY <1>1, RunStepKeeps, CreatesKeeps, RefusesKeeps
<1>2. CASE \E c \in Callbacks : HighLevelCallsBack(c) \/ CallbackStep(c)
  BY <1>2, CallsBackKeeps, CallbackStepKeeps
<1>3. CASE \E a \in Actors : Submit(a) \/ LineHandles(a) \/ Die(a)
  BY <1>3, PushKeeps, DieKeeps
<1>4. CASE \E m \in Messages : AgentSends(m)
  BY <1>4, AgentSendsKeeps
<1>5. CASE \E w \in late : LandLate(w)
  BY <1>5, LandLateKeeps
<1>6. CASE UNCHANGED vars
  <2>1. /\ message' = message /\ row' = row /\ workflowRow' = workflowRow /\ at' = at
        /\ job' = job /\ callback' = callback /\ push' = push /\ create' = create /\ late' = late
    BY <1>6 DEF vars
  <2>2. TypeOK'
    BY <2>1 DEF LineInv, TypeOK
  <2>3. Grows /\ Elsewhere({}) /\ UNCHANGED stored
    BY <2>1 DEF Grows, KindsStay, Elsewhere, stored
  <2>4. QED
    BY <2>2, <2>3, UnwrittenTrue, HandlersKeep
<1>7. QED
  BY <1>1, <1>2, <1>3, <1>4, <1>5, <1>6 DEF Next

\* The inductive invariant: the holder of a delivery is alone, and what is stored,
\* still to be stored or relied upon is true.
THEOREM LineInvariant == Spec => []LineInv
BY LineInit, LineNext, PTL DEF Spec

\* Every variable keeps its type: no handler reaches a place of the other kind, and
\* message_events (repository.ts) only gets the rows its constraint admits.
THEOREM TypeCorrect == Spec => []TypeOK
<1>1. LineInv => TypeOK
  BY DEF LineInv
<1>2. QED
  BY <1>1, LineInvariant, PTL

LEMMA HeldMessage ==
  ASSUME LineInv, NEW c \in Callbacks, Pushed(c)
  PROVE  Of(c) \in Messages /\ Holds(c) /\ at[c] # "idle" /\ message[Of(c)].by \in Runs \cup {None}
BY DEF LineInv, CallbackAgrees, Holds, TypeOK

\* What a run or an agent sends through HighLevel is pushed by one handler, for any
\* number of callbacks of any lifecycle (claimGhlOutboundProviderDelivery).
THEOREM DeliveredOnce == Spec => []OneDelivery
<1>1. ASSUME LineInv PROVE OneDelivery
  <2>1. ASSUME NEW c \in Callbacks, NEW d \in Callbacks, Pushed(c), Pushed(d),
               Origin(Of(c)) = Origin(Of(d))
        PROVE  c = d
    <3>1. Of(c) \in Messages /\ Of(d) \in Messages /\ Holds(c) /\ Holds(d)
      BY <1>1, <2>1, HeldMessage
    <3>2. message[Of(c)].by \in Runs \cup {None} /\ message[Of(d)].by \in Runs \cup {None}
      BY <1>1, <2>1, HeldMessage
    <3>3. Of(c) = Of(d)
      BY <1>1, <2>1, <3>1, <3>2, ActorsAssumption DEF LineInv, OneMessage, Origin
    <3>4. QED
      BY <1>1, <3>1, <3>3 DEF LineInv, OneHolder
  <2>2. ASSUME NEW c \in Callbacks, NEW r \in Runs, Pushed(c), Pushed(r), Origin(Of(c)) = r
        PROVE  job[r].kind = "text"
    <3>1. Of(c) \in Messages
      BY <1>1, <2>2, HeldMessage
    <3>2. message[Of(c)].by = r
      BY <2>2, <3>1, ActorsAssumption DEF Origin
    <3>3. create[r] = "created"
      BY <1>1, <3>1, <3>2, ActorsAssumption DEF LineInv, OneMessage
    <3>4. job[r].kind \in {"v3", "legacy", "text"} /\ job[r].kind \in {"text", "files"}
      BY <1>1, <2>2, <3>3 DEF LineInv, RunAgrees
    <3>5. QED
      BY <3>4
  <2>3. QED
    BY <2>1, <2>2 DEF OneDelivery
<1>2. QED
  BY <1>1, LineInvariant, PTL

\* A v3 callback that names no provider pushes only what a run has created
\* through the provider (processProviderCallback).
THEOREM VerifiedOnly == Spec => []OnlyVerified
<1>1. ASSUME LineInv PROVE OnlyVerified
  <2>1. SUFFICES ASSUME NEW c \in Callbacks, Pushed(c), callback[c].life = "v3",
                        callback[c].provider # "match"
                 PROVE  \E r \in Runs : Origin(Of(c)) = r /\ job[r].kind \in ProviderFirst
    BY DEF OnlyVerified
  <2>2. Vouched(Of(c))
    BY <1>1, <2>1 DEF LineInv, Evidence
  <2>3. QED
    BY <2>2, ActorsAssumption DEF Vouched, Origin
<1>2. QED
  BY <1>1, LineInvariant, PTL

LEMMA ConcludedSent ==
  ASSUME LineInv, NEW m \in Messages, Concluded(m, "sent")
  PROVE  AcceptedFor(m) /\ ~ Concluded(m, "failed")
<1>1. PICK c \in Callbacks : Of(c) = m /\ callback[c].outcome = "sent"
  BY DEF Concluded
<1>2. push[c] = "accepted" /\ Holds(c)
  BY <1>1 DEF LineInv, CallbackAgrees, Holds
<1>3. ASSUME NEW d \in Callbacks, Of(d) = m, callback[d].outcome = "failed" PROVE FALSE
  <2>1. Holds(d)
    BY <1>3 DEF Holds
  <2>2. c = d
    BY <1>1, <1>2, <1>3, <2>1 DEF LineInv, OneHolder
  <2>3. QED
    BY <1>1, <1>3, <2>2
<1>4. QED
  BY <1>1, <1>2, <1>3 DEF AcceptedFor, Concluded

\* What is recorded, reported and answered of a delivery is true and not
\* contradictory (processProviderCallback, processGhlWorkflowSendLine).
THEOREM OutcomesAreTrue == Spec => []OutcomesTrue
<1>1. ASSUME LineInv PROVE OutcomesTrue
  <2>1. ASSUME NEW m \in Messages
        PROVE  /\ row[m].delivery = "sent" => AcceptedFor(m)
               /\ Reported(m) /\ message[m].status = "delivered" => AcceptedFor(m)
               /\ row[m].delivery = "sent" => message[m].status # "failed"
               /\ row[m].delivery = "failed" /\ Reported(m) => message[m].status # "delivered"
    BY <1>1, ConcludedSent DEF LineInv, TrueRecords
  <2>2. ASSUME NEW c \in Callbacks, at[c] = "processed"
        PROVE  row[Of(c)].delivery = callback[c].outcome \/ callback[c].outcome = "failed"
    BY <1>1, <2>2 DEF LineInv, CallbackAgrees
  <2>3. ASSUME NEW r \in Runs, at[r] = "sent"
        PROVE  /\ job[r].kind \notin ProviderFirst => push[r] = "accepted"
               /\ job[r].kind \in ProviderFirst => create[r] = "created"
    BY <1>1, <2>3 DEF LineInv, RunAgrees
  <2>4. workflowRow = "sent" => \E r \in Runs : job[r].kind = "text" /\ push[r] = "accepted"
    BY <1>1 DEF LineInv, TrueRecords, TextPushedBy
  <2>5. QED
    BY <2>1, <2>2, <2>3, <2>4 DEF OutcomesTrue
<1>2. QED
  BY <1>1, LineInvariant, PTL

-----------------------------------------------------------------------------
(* The echo of a mirror *)

\* No write removes a mirror row.
LEMMA MirrorStays ==
  ASSUME TypeOK, NEW m \in Messages, row[m].mirror, NEW w, Apply(w)
  PROVE  row'[m].mirror
<1>1. CASE w.on = None
  BY <1>1 DEF Apply
<1>2. CASE w.on # None
  <2>1. row' = [row EXCEPT ![w.on] = RowAfter(w)]
    BY <1>2 DEF Apply
  <2>2. CASE w.on = m
    <3>1. row'[m] = RowAfter(w)
      BY <2>1, <2>2 DEF TypeOK
    <3>2. RowAfter(w).mirror = (row[w.on].mirror \/ w.op = "mirror")
      BY DEF RowAfter
    <3>3. QED
      BY <2>2, <3>1, <3>2
  <2>3. CASE w.on # m
    BY <2>1, <2>3 DEF TypeOK
  <2>4. QED
    BY <2>2, <2>3
<1>3. QED
  BY <1>1, <1>2

\* A callback gets past its lookup only by finding no mirror row.
Stays(c) ==
  \/ at'[c] = "lookup"
  \/ /\ callback'[c].message = callback[c].message
     /\ at'[c] \in PastLookUp =>
          at[c] \in PastLookUp \/ (at[c] = "lookup" /\ ~ row[Of(c)].mirror)

\* The rows change by a write or not at all.
RowsWritten == row' = row \/ \E w : Apply(w)

LEMMA EchoRun ==
  ASSUME TypeOK, NEW r \in Runs, RunStep(r) \/ HighLevelCreates(r) \/ HighLevelRefuses(r)
  PROVE  RowsWritten /\ \A c \in Callbacks : Stays(c)
<1>1. callback' = callback
  BY DEF RunStep, RefuseRun, StartRun, RefuseText, TextPushed, TextPushFails, FilesPushed,
     FilesPushFails, LogSent, LogFailed, SubmitMessage, MessageCreated, CreateFails,
     SaveDispatch, SaveLegacyDispatch, SaveMirror, Save, HighLevelCreates, HighLevelRefuses
<1>2. at' = at \/ \E place : GoTo(r, place)
  BY DEF RunStep, RefuseRun, StartRun, RefuseText, TextPushed, TextPushFails, FilesPushed,
     FilesPushFails, LogSent, LogFailed, SubmitMessage, MessageCreated, CreateFails,
     SaveDispatch, SaveLegacyDispatch, SaveMirror, Save, HighLevelCreates, HighLevelRefuses,
     Succeeds, Errs
<1>3. RowsWritten
  BY DEF RunStep, RefuseRun, StartRun, RefuseText, TextPushed, TextPushFails, FilesPushed,
     FilesPushFails, LogSent, LogFailed, SubmitMessage, MessageCreated, CreateFails,
     SaveDispatch, SaveLegacyDispatch, SaveMirror, Save, HighLevelCreates, HighLevelRefuses,
     Succeeds, Errs, stored, RowsWritten
<1>4. \A c \in Callbacks : c # r /\ c \in Actors
  BY ActorsAssumption DEF Actors
<1>5. \A c \in Callbacks : at'[c] = at[c]
  BY <1>2, <1>4 DEF GoTo, TypeOK
<1>6. QED
  BY <1>1, <1>3, <1>5 DEF Stays

LEMMA EchoCallback ==
  ASSUME TypeOK, NEW c \in Callbacks, HighLevelCallsBack(c) \/ CallbackStep(c)
  PROVE  RowsWritten /\ \A d \in Callbacks : Stays(d)
<1> USE DEF HighLevelCallsBack, CallbackStep, RefuseCallback, LookUp, Select, Claim, Undeliverable,
     CallbackPushed, CallbackPushFails, Conclude, FinalizeV3, FinalizeLegacy, UpdateStatus,
     Succeeds, Errs
<1>1. RowsWritten
  BY DEF stored, RowsWritten
<1>2. PICK place : GoTo(c, place)
  OBVIOUS
<1>3. c \in Actors
  BY DEF Actors
<1>4. at'[c] = place /\ \A d \in Callbacks : d # c => at'[d] = at[d]
  BY <1>2, <1>3 DEF GoTo, TypeOK, Actors
<1>5. \A d \in Callbacks : d # c => callback'[d] = callback[d]
  BY DEF TypeOK
<1>6. CASE HighLevelCallsBack(c)
  BY <1>1, <1>3, <1>4, <1>5, <1>6 DEF GoTo, TypeOK, Stays
<1>7. CASE CallbackStep(c)
  <2>1. callback'[c].message = callback[c].message
    BY <1>7 DEF TypeOK
  <2>2. at[c] \in {"lookup"} \cup PastLookUp
    BY <1>7 DEF PastLookUp, Answered, PushFails
  <2>3. at[c] = "lookup" => place \in {"skipped", "error"} \/ ~ row[Of(c)].mirror
    BY <1>3, <1>4, <1>7 DEF GoTo, TypeOK, Of, Answered, PushFails
  <2>4. QED
    BY <1>1, <1>4, <1>5, <2>1, <2>2, <2>3 DEF Stays, PastLookUp
<1>8. QED
  BY <1>6, <1>7

LEMMA EchoOther ==
  ASSUME TypeOK,
         \/ \E a \in Actors : Submit(a) \/ LineHandles(a) \/ Die(a)
         \/ \E m \in Messages : AgentSends(m)
         \/ \E w \in late : LandLate(w)
         \/ UNCHANGED vars
  PROVE  RowsWritten /\ \A c \in Callbacks : Stays(c)
<1>1. RowsWritten
  BY DEF RowsWritten, Submit, LineHandles, Die, AgentSends, LandLate, stored, vars
<1>2. callback' = callback
  BY DEF Submit, LineHandles, Die, AgentSends, LandLate, vars
<1>3. at' = at \/ \E a \in Actors : GoTo(a, "dead")
  BY DEF Submit, LineHandles, Die, AgentSends, LandLate, vars
<1>4. \A c \in Callbacks : at'[c] \in {at[c], "dead"}
  BY <1>3 DEF GoTo, TypeOK, Actors
<1>5. QED
  BY <1>1, <1>2, <1>4 DEF Stays, PastLookUp

\* Once its mirror row is stored and its callbacks are over, a text is not pushed
\* by a later callback
\* (findWorkflowOutboundMirrorMessageEventForTenantIds).
THEOREM EchoIsSettled == Spec => EchoSettled
<1>1. ASSUME TypeOK, [Next]_vars PROVE \A m \in Messages : Settled(m) => Settled(m)'
  <2>1. RowsWritten /\ \A c \in Callbacks : Stays(c)
    BY <1>1, EchoRun, EchoCallback, EchoOther DEF Next
  <2>2. SUFFICES ASSUME NEW m \in Messages, Settled(m) PROVE Settled(m)'
    OBVIOUS
  <2>3. row'[m].mirror
    BY <1>1, <2>1, <2>2, MirrorStays DEF RowsWritten, Settled
  <2>4. ASSUME NEW c \in Callbacks, callback'[c].message = m PROVE at'[c] \notin PastLookUp
    <3>1. Stays(c)
      BY <2>1
    <3>2. CASE at'[c] = "lookup"
      BY <3>2 DEF PastLookUp
    <3>3. CASE callback[c].message = m
      BY <2>2, <2>4, <3>1, <3>2, <3>3 DEF Stays, Settled, Of
    <3>4. QED
      BY <2>4, <3>1, <3>2, <3>3 DEF Stays
  <2>5. QED
    BY <2>3, <2>4 DEF Settled, Of
<1>2. QED
  BY <1>1, TypeCorrect, PTL DEF Spec, EchoSettled

-----------------------------------------------------------------------------
(* The handlers deliver their messages as MessageDelivery promises *)

\* What is recorded of every message, and told to HighLevel, agrees with what
\* LINE did.
LEMMA TellsTheTruth == LineInv => \A m \in Messages : Delivery!Truthful(m, Recorded(m), Told(m))
<1> SUFFICES ASSUME LineInv, NEW m \in Messages
             PROVE  Delivery!Truthful(m, Recorded(m), Told(m))
  OBVIOUS
<1>1. /\ "sent" \in Told(m) <=> ToldSent(m)
      /\ "failed" \in Told(m) <=> message[m].status = "failed"
  BY DEF Told
<1>2. /\ Recorded(m) = "sent" <=> row[m].delivery = "sent"
      /\ Recorded(m) # "failed"
      /\ Recorded(m) \in {"none", "sent"} \/ row[m].delivery = "failed"
  BY DEF Recorded
<1>3. row[m].delivery = "sent" \/ ToldSent(m) => Concluded(m, "sent")
  BY DEF LineInv, TrueRecords, ToldSent, Concluded
<1>4. row[m].delivery = "failed" \/ message[m].status = "failed" => Concluded(m, "failed")
  BY DEF LineInv, TrueRecords
<1>5. ASSUME Concluded(m, "sent")
      PROVE  \E c \in Callbacks : [d \in Callbacks |-> Attempt(d)][c] = [of |-> m, fate |-> "accepted"]
  <2>1. PICK c \in Callbacks : Of(c) = m /\ push[c] = "accepted"
    BY <1>5, ConcludedSent DEF AcceptedFor
  <2>2. Attempt(c) = [of |-> m, fate |-> "accepted"]
    BY <2>1 DEF Attempt, Pushed
  <2>3. QED
    BY <2>2
<1>6. Concluded(m, "sent") => ~ Concluded(m, "failed")
  BY ConcludedSent
<1>7. QED
  BY <1>1, <1>2, <1>3, <1>4, <1>5, <1>6 DEF Delivery!Truthful

LEMMA TruthNext ==
  LineInv' => (\A m \in Messages : Delivery!Truthful(m, Recorded(m), Told(m)))'
BY TellsTheTruth, PTL

\* A step that touches one message and no attempt concludes it.
LEMMA Concludes ==
  ASSUME LineInv', NEW m \in Messages,
         \A c \in Callbacks : Attempt(c)' = Attempt(c),
         \A n \in Messages \ {m} : Recorded(n)' = Recorded(n) /\ Told(n)' = Told(n),
         Recorded(m) \in {"none", Recorded(m)'}, Told(m) \subseteq Told(m)'
  PROVE  Delivery!Conclude(m)
<1>1. Delivery!Truthful(m, Recorded(m), Told(m))'
  BY TruthNext
<1>2. Delivery!Truthful(m, Recorded(m)', Told(m)')
  <2>1. [c \in Callbacks |-> Attempt(c)]' = [c \in Callbacks |-> Attempt(c)]
    OBVIOUS
  <2>2. QED
    BY <1>1, <2>1 DEF Delivery!Truthful
<1>3. /\ Recorded(m)' \in {"none", "sent", "failed", "unknown"}
      /\ Told(m)' \in SUBSET {"sent", "failed"}
  BY DEF Recorded, Told
<1>4. [n \in Messages |-> Recorded(n)]' = [[n \in Messages |-> Recorded(n)] EXCEPT ![m] = Recorded(m)']
  OBVIOUS
<1>5. [n \in Messages |-> Told(n)]' = [[n \in Messages |-> Told(n)] EXCEPT ![m] = Told(m)']
  OBVIOUS
<1>6. UNCHANGED [c \in Callbacks |-> Attempt(c)]
  OBVIOUS
<1>7. QED
  BY <1>2, <1>3, <1>4, <1>5, <1>6 DEF Delivery!Conclude

\* A step that touches none stutters.
LEMMA Stutters ==
  ASSUME \A c \in Callbacks : Attempt(c)' = Attempt(c),
         \A m \in Messages : Recorded(m)' = Recorded(m) /\ Told(m)' = Told(m)
  PROVE  UNCHANGED Delivery!vars
<1>1. [c \in Callbacks |-> Attempt(c)]' = [c \in Callbacks |-> Attempt(c)]
  OBVIOUS
<1>2. [m \in Messages |-> Recorded(m)]' = [m \in Messages |-> Recorded(m)]
  OBVIOUS
<1>3. [m \in Messages |-> Told(m)]' = [m \in Messages |-> Told(m)]
  OBVIOUS
<1>4. QED
  BY <1>1, <1>2, <1>3 DEF Delivery!vars

\* Nobody answers HighLevel.
Quiet ==
  \A c \in Callbacks :
    /\ at'[c] = "processed" <=> at[c] = "processed"
    /\ at[c] = "processed" => callback'[c] = callback[c]

LEMMA QuietStep ==
  ASSUME LineInv, KindsStay, Quiet, \A c \in Callbacks : Attempt(c)' = Attempt(c),
         \A m \in Messages : Recorded(m)' = Recorded(m) /\ message'[m] = message[m]
  PROVE  UNCHANGED Delivery!vars
<1>1. ASSUME NEW m \in Messages
      PROVE  Told(m)' = Told(m)
  <2>1. Reported(m)' <=> Reported(m)
    BY ReportedStays
  <2>2. ToldSent(m)' <=> ToldSent(m)
    BY <2>1 DEF ToldSent, Quiet, Of
  <2>3. QED
    BY <2>2 DEF Told
<1>2. QED
  BY <1>1, Stutters

\* A write settles what it is about, and only an outcome or a status is told.
LEMMA WriteRecords ==
  ASSUME TypeOK, NEW w \in Writes, Apply(w), NEW m \in Messages
  PROVE  /\ m # w.on => Recorded(m)' = Recorded(m) /\ message'[m] = message[m]
         /\ Recorded(m) \in {"none", Recorded(m)'}
         /\ message'[m].by = message[m].by
         /\ w.op \notin {"sent", "failed"} => Recorded(m)' = Recorded(m)
         /\ w.op \notin {"set_delivered", "set_failed"} => message'[m] = message[m]
         /\ w.op # "set_failed" /\ message[m].status = "delivered" => message'[m].status = "delivered"
         /\ w.op # "set_delivered" /\ message[m].status = "failed" => message'[m].status = "failed"
<1>1. CASE w.on # m
  <2>1. row'[m] = row[m] /\ message'[m] = message[m]
    BY <1>1 DEF Apply, TypeOK
  <2>2. QED
    BY <1>1, <2>1 DEF Recorded
<1>2. CASE w.on = m
  <2>1. m # None
    BY ActorsAssumption
  <2>2. /\ row' = [row EXCEPT ![m] = RowAfter(w)]
        /\ message' = [message EXCEPT ![m] = [by |-> message[m].by, status |-> StatusAfter(w)]]
    BY <1>2, <2>1 DEF Apply
  <2>3. row'[m].delivery = DeliveryAfter(w)
    BY <2>2 DEF RowAfter, TypeOK
  <2>4. message'[m] = [by |-> message[m].by, status |-> StatusAfter(w)]
    BY <2>2 DEF TypeOK
  <2>5. message[m] = [by |-> message[m].by, status |-> message[m].status]
    BY DEF TypeOK
  <2>6. \/ DeliveryAfter(w) = row[m].delivery
        \/ DeliveryAfter(w) = "received" /\ row[m].delivery = "none"
        \/ w.op \in {"sent", "failed"} /\ row[m].delivery = "received"
    BY <1>2 DEF DeliveryAfter, Claimable
  <2>7. /\ Recorded(m) \in {"none", Recorded(m)'}
        /\ w.op \notin {"sent", "failed"} => Recorded(m)' = Recorded(m)
    BY <2>3, <2>6 DEF Recorded
  <2>8. /\ w.op \notin {"set_delivered", "set_failed"} => StatusAfter(w) = message[m].status
        /\ w.op = "set_delivered" => StatusAfter(w) = "delivered"
        /\ w.op = "set_failed" => StatusAfter(w) = "failed"
    BY <1>2 DEF StatusAfter
  <2>9. QED
    BY <1>2, <2>4, <2>5, <2>7, <2>8
<1>3. QED
  BY <1>1, <1>2

\* A write of neither, stored or not, is not noticed.
LEMMA SilentWrite ==
  ASSUME TypeOK, NEW w \in Writes, w.op \notin {"sent", "failed", "set_delivered", "set_failed"},
         NEW a, NEW place, Succeeds(a, w, place) \/ Errs(a, w, place)
  PROVE  \A m \in Messages : Recorded(m)' = Recorded(m) /\ message'[m] = message[m]
<1>1. CASE Succeeds(a, w, place)
  BY <1>1, WriteRecords DEF Succeeds
<1>2. CASE Errs(a, w, place)
  BY <1>2 DEF Errs, Recorded
<1>3. QED
  BY <1>1, <1>2

\* The answers that come now are about m.
Answering(m) ==
  \A c \in Callbacks :
    /\ callback'[c].message = callback[c].message
    /\ callback'[c].outcome = callback[c].outcome
    /\ at[c] = "processed" => at'[c] = "processed"
    /\ at'[c] = "processed" => at[c] = "processed" \/ Of(c) = m

\* What is recorded of m, reported or answered now concludes it.
LEMMA CaseConcludes ==
  ASSUME LineInv, LineInv', NEW m \in Messages, UNCHANGED <<job, push>>, Answering(m),
         \A n \in Messages \ {m} : Recorded(n)' = Recorded(n) /\ message'[n] = message[n],
         Recorded(m) \in {"none", Recorded(m)'}, message'[m].by = message[m].by,
         message[m].status = "failed" => message'[m].status = "failed",
         Reported(m) /\ message[m].status = "delivered" => message'[m].status = "delivered"
  PROVE  Delivery!Conclude(m)
<1>1. \A c \in Callbacks : Attempt(c)' = Attempt(c)
  BY DEF Attempt, Answering, Pushed, Of
<1>2. ASSUME NEW n \in Messages
      PROVE  Reported(n)' <=> Reported(n)
  BY <1>2, ReportedStays DEF KindsStay
<1>3. ASSUME NEW n \in Messages \ {m}
      PROVE  Told(n)' = Told(n)
  <2>1. ToldSent(n)' <=> ToldSent(n)
    BY <1>2, <1>3 DEF ToldSent, Answering, Of
  <2>2. QED
    BY <1>3, <2>1 DEF Told
<1>4. Told(m) \subseteq Told(m)'
  <2>1. ToldSent(m) => ToldSent(m)'
    BY <1>2 DEF ToldSent, Answering, Of
  <2>2. QED
    BY <2>1 DEF Told
<1>5. QED
  BY <1>1, <1>3, <1>4, Concludes

LEMMA WriteConcludes ==
  ASSUME LineInv, LineInv', NEW w \in Writes, w.on \in Messages, Apply(w), TrueWrite(w),
         UNCHANGED <<job, push>>, Answering(w.on)
  PROVE  Delivery!Conclude(w.on)
<1> DEFINE m == w.on
<1>1. TypeOK /\ m \in Messages
  BY DEF LineInv
<1>2. message[m].status = "failed" => w.op # "set_delivered"
  BY <1>1, ConcludedSent DEF TrueWrite, LineInv, TrueRecords
<1>3. Reported(m) /\ message[m].status = "delivered" => w.op # "set_failed"
  BY <1>1, ConcludedSent DEF TrueWrite, LineInv, TrueRecords
<1>4. \A n \in Messages \ {m} : Recorded(n)' = Recorded(n) /\ message'[n] = message[n]
  BY <1>1, WriteRecords
<1>5. /\ Recorded(m) \in {"none", Recorded(m)'} /\ message'[m].by = message[m].by
      /\ message[m].status = "failed" => message'[m].status = "failed"
      /\ Reported(m) /\ message[m].status = "delivered" => message'[m].status = "delivered"
  BY <1>1, <1>2, <1>3, WriteRecords
<1> HIDE DEF m
<1>6. QED
  BY <1>1, <1>4, <1>5, CaseConcludes DEF m

\* The runs are no handlers of the delivery.
LEMMA RunMaps ==
  ASSUME LineInv, NEW r \in Runs, RunStep(r)
  PROVE  UNCHANGED Delivery!vars
<1>1. TypeOK /\ RunAgrees(r) /\ r \notin Callbacks
  BY ActorsAssumption DEF LineInv
<1>2. UNCHANGED <<callback, push>>
  BY DEF RunStep, RefuseRun, StartRun, RefuseText, TextPushed, TextPushFails, FilesPushed,
     FilesPushFails, LogSent, LogFailed, SubmitMessage, MessageCreated, CreateFails,
     SaveDispatch, SaveLegacyDispatch, SaveMirror, Save
<1>3. at' = at \/ \E place : GoTo(r, place)
  BY DEF RunStep, RefuseRun, StartRun, RefuseText, TextPushed, TextPushFails, FilesPushed,
     FilesPushFails, LogSent, LogFailed, SubmitMessage, MessageCreated, CreateFails,
     SaveDispatch, SaveLegacyDispatch, SaveMirror, Save, Succeeds, Errs
<1>4. \A c \in Callbacks : at'[c] = at[c]
  BY <1>1, <1>3 DEF GoTo, TypeOK, Actors
<1>5. KindsStay
  <2>1. CASE job' = job
    BY <2>1 DEF KindsStay
  <2>2. CASE StartRun(r) \/ RefuseText(r)
    <3>1. job[r].kind = "none" /\ \E j : job' = [job EXCEPT ![r] = j]
      BY <1>1, <2>2 DEF StartRun, RefuseText, RunAgrees
    <3>2. QED
      BY <1>1, <3>1 DEF KindsStay, TypeOK
  <2>3. CASE MessageCreated(r)
    <3>1. PICK id : job' = [job EXCEPT ![r] = [kind |-> job[r].kind, id |-> id]]
      BY <2>3 DEF MessageCreated
    <3>2. QED
      BY <1>1, <3>1 DEF KindsStay, TypeOK
  <2>4. QED
    BY <2>1, <2>2, <2>3 DEF RunStep, RefuseRun, TextPushed, TextPushFails, FilesPushed,
       FilesPushFails, LogSent, LogFailed, SubmitMessage, CreateFails,
       SaveDispatch, SaveLegacyDispatch, SaveMirror, Save
<1>6. ASSUME NEW op \in {"dispatch", "mirror"}, NEW unsaved, Save(r, op, unsaved)
      PROVE  \A m \in Messages : Recorded(m)' = Recorded(m) /\ message'[m] = message[m]
  <2> DEFINE w == [op |-> op, on |-> job[r].id]
  <2>1. CASE job[r].id = None
    BY <1>6, <2>1 DEF Save, stored, Recorded
  <2>2. CASE job[r].id # None
    <3>1. w \in Writes /\ w.op \notin {"sent", "failed", "set_delivered", "set_failed"}
      BY <1>1, <2>2 DEF TypeOK, Writes, MessageWrites
    <3>2. \E place : Succeeds(r, w, place) \/ Errs(r, w, place)
      BY <1>6, <2>2 DEF Save
    <3>3. QED
      BY <1>1, <3>1, <3>2, SilentWrite
  <2>3. QED
    BY <2>1, <2>2
<1>7. ASSUME NEW op \in {"log_sent", "log_failed"}, NEW place,
             LET w == [op |-> op, on |-> None] IN Succeeds(r, w, place) \/ Errs(r, w, place)
      PROVE  \A m \in Messages : Recorded(m)' = Recorded(m) /\ message'[m] = message[m]
  <2> DEFINE w == [op |-> op, on |-> None]
  <2>1. w \in Writes /\ w.op \notin {"sent", "failed", "set_delivered", "set_failed"}
    BY DEF Writes
  <2>2. Succeeds(r, w, place) \/ Errs(r, w, place)
    BY <1>7
  <2> HIDE DEF w
  <2>3. QED
    BY <1>1, <2>1, <2>2, SilentWrite
<1>8. \A m \in Messages : Recorded(m)' = Recorded(m) /\ message'[m] = message[m]
  <2>1. CASE UNCHANGED stored
    BY <2>1 DEF stored, Recorded
  <2>2. CASE LogSent(r)
    BY <1>7, <2>2 DEF LogSent
  <2>3. CASE LogFailed(r)
    BY <1>7, <2>3 DEF LogFailed
  <2>4. CASE SaveDispatch(r) \/ SaveLegacyDispatch(r) \/ SaveMirror(r)
    BY <1>6, <2>4 DEF SaveDispatch, SaveLegacyDispatch, SaveMirror
  <2>5. QED
    BY <2>1, <2>2, <2>3, <2>4 DEF RunStep, RefuseRun, StartRun, RefuseText, TextPushed,
       TextPushFails, FilesPushed, FilesPushFails, SubmitMessage, MessageCreated, CreateFails
<1>9. Quiet /\ \A c \in Callbacks : Attempt(c)' = Attempt(c)
  BY <1>2, <1>4 DEF Quiet, Attempt, Pushed, Of
<1>10. QED
  BY <1>5, <1>8, <1>9, QuietStep

\* Neither is a message that appears in HighLevel told of yet.
LEMMA CreationMaps ==
  ASSUME LineInv, NEW m \in Messages, NEW created, message[m] = NoMessage,
         message' = [message EXCEPT ![m] = created],
         \/ created.status = "pending"
         \/ created.status = "delivered" /\ created.by # None /\ job[created.by].kind # "v3",
         UNCHANGED <<row, at, job, callback, push>>
  PROVE  UNCHANGED Delivery!vars
<1>1. /\ message'[m] = created
      /\ \A n \in Messages \ {m} : message'[n] = message[n]
  BY DEF LineInv, TypeOK
<1>2. ~ (message[m].status = "delivered") /\ ~ (message[m].status = "failed")
  BY DEF NoMessage
<1>3. ~ (Reported(m)' /\ message'[m].status = "delivered") /\ message'[m].status # "failed"
  BY <1>1 DEF Reported
<1>4. \A n \in Messages : Told(n)' = Told(n)
  <2>1. Told(m)' = Told(m)
    BY <1>2, <1>3 DEF Told, ToldSent, Of
  <2>2. ASSUME NEW n \in Messages \ {m}
        PROVE  Told(n)' = Told(n)
    BY <1>1, <2>2 DEF Told, ToldSent, Reported, Of
  <2>3. QED
    BY <2>1, <2>2
<1>5. \A n \in Messages : Recorded(n)' = Recorded(n)
  BY DEF Recorded
<1>6. \A c \in Callbacks : Attempt(c)' = Attempt(c)
  BY DEF Attempt, Pushed, Of
<1>7. QED
  BY <1>4, <1>5, <1>6, Stutters

\* A callback that answers nothing is not noticed.
LEMMA CallbackQuiet ==
  ASSUME LineInv, NEW c \in Callbacks, NEW place, GoTo(c, place), place # "processed",
         at[c] # "processed", UNCHANGED <<job, push>>,
         \A d \in Callbacks \ {c} : callback'[d] = callback[d],
         Pushed(c) => callback'[c].message = callback[c].message,
         \A m \in Messages : Recorded(m)' = Recorded(m) /\ message'[m] = message[m]
  PROVE  UNCHANGED Delivery!vars
<1>1. at'[c] = place /\ \A d \in Callbacks \ {c} : at'[d] = at[d]
  BY DEF GoTo, LineInv, TypeOK, Actors
<1>2. Quiet
  BY <1>1 DEF Quiet
<1>3. \A d \in Callbacks : Attempt(d)' = Attempt(d)
  BY DEF Attempt, Pushed, Of
<1>4. KindsStay
  BY DEF KindsStay
<1>5. QED
  BY <1>2, <1>3, <1>4, QuietStep

LEMMA CallbackMaps ==
  ASSUME LineInv, LineInv', NEW c \in Callbacks, CallbackStep(c)
  PROVE  [Delivery!Next]_(Delivery!vars)
<1> DEFINE m == Of(c)
<1>1. TypeOK /\ CallbackAgrees(c)
  BY DEF LineInv
<1>2. at[c] # "processed" /\ m \in Messages
  BY <1>1 DEF CallbackStep, RefuseCallback, LookUp, Select, Claim, Undeliverable, CallbackPushed,
     CallbackPushFails, FinalizeV3, FinalizeLegacy, UpdateStatus, CallbackAgrees, Answered, PushFails
<1>3. ASSUME UNCHANGED stored
      PROVE  \A n \in Messages : Recorded(n)' = Recorded(n) /\ message'[n] = message[n]
  BY <1>3 DEF stored, Recorded
<1>4. ASSUME Delivery!Conclude(m)
      PROVE  [Delivery!Next]_(Delivery!vars)
  BY <1>2, <1>4 DEF Delivery!Next
<1> HIDE DEF m
<1>5. CASE RefuseCallback(c)
  <2>1. PICK answer \in {"skipped", "error"} : GoTo(c, answer)
    BY <1>5 DEF RefuseCallback
  <2>2. UNCHANGED <<stored, job, callback, push>>
    BY <1>5 DEF RefuseCallback
  <2>3. QED
    BY <1>2, <1>3, <2>1, <2>2, CallbackQuiet
<1>6. CASE LookUp(c)
  BY <1>2, <1>3, <1>6, CallbackQuiet DEF LookUp
<1>7. CASE Select(c)
  <2>1. /\ GoTo(c, "claim") /\ UNCHANGED <<stored, job, push>>
        /\ callback'[c].message = callback[c].message
        /\ \A d \in Callbacks \ {c} : callback'[d] = callback[d]
    BY <1>1, <1>7 DEF Select, TypeOK
  <2>2. QED
    BY <1>2, <1>3, <2>1, CallbackQuiet
<1>8. CASE Claim(c)
  <2> DEFINE w == [op |-> "claim", on |-> callback[c].message]
  <2>1. w \in Writes
    BY <1>2 DEF m, Of, Writes, MessageWrites
  <2>2. PICK place \in {"push", "skipped", "error"} : Succeeds(c, w, place) \/ Errs(c, w, place)
    BY <1>8 DEF Claim
  <2>3. w.op \notin {"sent", "failed", "set_delivered", "set_failed"}
    OBVIOUS
  <2> HIDE DEF w
  <2>4. \A n \in Messages : Recorded(n)' = Recorded(n) /\ message'[n] = message[n]
    BY <1>1, <2>1, <2>2, <2>3, SilentWrite
  <2>5. GoTo(c, place) /\ UNCHANGED <<job, callback, push>>
    BY <1>8, <2>2 DEF Claim, Succeeds, Errs
  <2>6. QED
    BY <1>2, <2>4, <2>5, CallbackQuiet
<1>9. CASE Undeliverable(c) \/ CallbackPushed(c) \/ CallbackPushFails(c)
  <2>1. PICK outcome, answer : Conclude(c, outcome, answer)
    BY <1>9 DEF Undeliverable, CallbackPushed, CallbackPushFails
  <2>2. /\ GoTo(c, "finalize") /\ UNCHANGED <<stored, job, push>>
        /\ callback'[c].message = callback[c].message
        /\ \A d \in Callbacks \ {c} : callback'[d] = callback[d]
    BY <1>1, <2>1 DEF Conclude, TypeOK
  <2>3. QED
    BY <1>2, <1>3, <2>2, CallbackQuiet
<1>10. ASSUME NEW w \in Writes, w.on = m, TrueWrite(w), NEW place, Succeeds(c, w, place),
              UNCHANGED <<job, callback, push>>
       PROVE  Delivery!Conclude(m)
  <2>1. at'[c] = place /\ \A d \in Callbacks \ {c} : at'[d] = at[d]
    BY <1>1, <1>10 DEF Succeeds, GoTo, TypeOK, Actors
  <2>2. Answering(m)
    BY <1>2, <1>10, <2>1 DEF Answering, m
  <2>3. QED
    BY <1>2, <1>10, <2>2, WriteConcludes DEF Succeeds
<1>11. ASSUME at[c] = "finalize"
       PROVE  Outcome(c) \in Writes /\ Outcome(c).on = m /\ TrueWrite(Outcome(c))
  <2>1. callback[c].outcome \in {"sent", "failed"}
    BY <1>1, <1>11 DEF CallbackAgrees, TypeOK
  <2>2. Concluded(m, callback[c].outcome)
    BY DEF Concluded, m
  <2>3. QED
    BY <1>2, <2>1, <2>2 DEF Outcome, Writes, MessageWrites, TrueWrite, m, Of
<1>12. ASSUME NEW w, NEW place, Errs(c, w, place), UNCHANGED <<job, push>>
       PROVE  \A n \in Messages : Recorded(n)' = Recorded(n) /\ message'[n] = message[n]
  BY <1>12 DEF Errs, Recorded
<1>13. CASE FinalizeV3(c)
  <2>1. CASE Succeeds(c, Outcome(c), "status") /\ UNCHANGED callback
    BY <1>4, <1>10, <1>11, <1>13, <2>1 DEF FinalizeV3
  <2>2. CASE ~ (Succeeds(c, Outcome(c), "status") /\ UNCHANGED callback)
    <3>1. /\ Errs(c, Outcome(c), "status") /\ GoTo(c, "status") /\ UNCHANGED <<job, push>>
          /\ callback'[c].message = callback[c].message
          /\ \A d \in Callbacks \ {c} : callback'[d] = callback[d]
      BY <1>1, <1>13, <2>2 DEF FinalizeV3, Errs, TypeOK
    <3>2. QED
      BY <1>2, <1>12, <3>1, CallbackQuiet
  <2>3. QED
    BY <2>1, <2>2
<1>14. CASE FinalizeLegacy(c)
  <2>1. at[c] = "finalize" /\ UNCHANGED <<job, callback, push>>
    BY <1>14 DEF FinalizeLegacy
  <2>2. CASE Succeeds(c, Outcome(c), callback[c].answer)
    BY <1>4, <1>10, <1>11, <2>1, <2>2
  <2>3. CASE Errs(c, Outcome(c), "error")
    <3>1. GoTo(c, "error")
      BY <2>3 DEF Errs
    <3>2. QED
      BY <1>2, <1>12, <2>1, <2>3, <3>1, CallbackQuiet
  <2>4. QED
    BY <1>14, <2>2, <2>3 DEF FinalizeLegacy
<1>15. CASE UpdateStatus(c)
  <2> DEFINE w == [op |-> IF callback[c].outcome = "sent" THEN "set_delivered" ELSE "set_failed",
                   on |-> callback[c].message]
             place == callback[c].answer
  <2>1. at[c] = "status" /\ UNCHANGED <<job, callback, push>>
    BY <1>15 DEF UpdateStatus
  <2>2. w \in Writes /\ w.on = m
    BY <1>2 DEF Writes, MessageWrites, m, Of
  <2>3. TrueWrite(w)
    <3>1. callback[c].outcome \in {"sent", "failed"} /\ Concluded(m, callback[c].outcome)
      BY <1>1, <2>1 DEF CallbackAgrees, TypeOK, Concluded, m
    <3>2. QED
      BY <3>1 DEF TrueWrite, m, Of
  <2>4. Succeeds(c, w, place) \/ Errs(c, w, place)
    BY <1>15 DEF UpdateStatus
  <2> HIDE DEF w, place
  <2>5. CASE Succeeds(c, w, place)
    BY <1>4, <1>10, <2>1, <2>2, <2>3, <2>5
  <2>6. CASE Errs(c, w, place)
    <3>1. at'[c] = place /\ \A d \in Callbacks \ {c} : at'[d] = at[d]
      BY <1>1, <2>6 DEF Errs, GoTo, TypeOK, Actors
    <3>2. Answering(m)
      BY <1>2, <2>1, <3>1 DEF Answering, m
    <3>3. UNCHANGED <<row, message>>
      BY <2>6 DEF Errs
    <3>4. \A n \in Messages : Recorded(n)' = Recorded(n) /\ message'[n] = message[n]
      BY <3>3 DEF Recorded
    <3>5. Delivery!Conclude(m)
      BY <1>2, <2>1, <3>2, <3>4, CaseConcludes
    <3>6. QED
      BY <1>4, <3>5
  <2>7. QED
    BY <2>4, <2>5, <2>6
<1>16. QED
  BY <1>5, <1>6, <1>7, <1>8, <1>9, <1>13, <1>14, <1>15 DEF CallbackStep

\* A push is submitted for a message nobody has submitted or concluded.
LEMMA SubmitMaps ==
  ASSUME LineInv, NEW c \in Callbacks, Submit(c)
  PROVE  Of(c) \in Messages /\ Delivery!Submit(c, Of(c))
<1> DEFINE m == Of(c)
<1>1. /\ at[c] = "push" /\ push[c] = "none"
      /\ push' = [push EXCEPT ![c] = "submitted"]
      /\ UNCHANGED <<message, row, at, job, callback>>
  BY DEF Submit, stored
<1>2. m \in Messages /\ Holds(c) /\ callback[c].outcome = "none" /\ m # None
  BY <1>1, ActorsAssumption DEF LineInv, CallbackAgrees, Holds
<1>3. ASSUME NEW d \in Callbacks, Of(d) = m, Holds(d)
      PROVE  d = c
  BY <1>2, <1>3 DEF LineInv, OneHolder
<1>4. ~ Concluded(m, "sent") /\ ~ Concluded(m, "failed")
  BY <1>2, <1>3 DEF Concluded, Holds
<1>5. Recorded(m) = "none"
  BY <1>2, <1>4 DEF LineInv, TrueRecords, Recorded
<1>6. Told(m) = {}
  BY <1>2, <1>4 DEF LineInv, TrueRecords, Told, ToldSent, Concluded
<1>7. \A d \in Callbacks : Attempt(d).of # m
  BY <1>1, <1>2, <1>3 DEF Attempt, Holds, Pushed
<1>8. Attempt(c) = Delivery!NoAttempt
  BY <1>1 DEF Attempt, Pushed, Delivery!NoAttempt
<1>9. [d \in Callbacks |-> Attempt(d)]' =
        [[d \in Callbacks |-> Attempt(d)] EXCEPT ![c] = [of |-> m, fate |-> "submitted"]]
  <2>1. push'[c] = "submitted" /\ \A d \in Callbacks \ {c} : push'[d] = push[d]
    BY <1>1 DEF LineInv, TypeOK, Actors
  <2>2. Attempt(c)' = [of |-> m, fate |-> "submitted"]
    BY <1>1, <2>1 DEF Attempt, Pushed, Of
  <2>3. \A d \in Callbacks \ {c} : Attempt(d)' = Attempt(d)
    BY <1>1, <2>1 DEF Attempt, Pushed, Of
  <2>4. QED
    BY <2>2, <2>3
<1> HIDE DEF m
<1>10. /\ [n \in Messages |-> Recorded(n)]' = [n \in Messages |-> Recorded(n)]
       /\ [n \in Messages |-> Told(n)]' = [n \in Messages |-> Told(n)]
  BY <1>1 DEF Recorded, Told, ToldSent, Reported, Of
<1>11. QED
  BY <1>2, <1>5, <1>6, <1>7, <1>8, <1>9, <1>10 DEF m, Delivery!Submit

\* LINE decides.
LEMMA LineMaps ==
  ASSUME LineInv, NEW c \in Callbacks, LineHandles(c)
  PROVE  Delivery!ProviderDecides(c)
<1>1. PICK fate \in {"accepted", "refused"} : push' = [push EXCEPT ![c] = fate]
  BY DEF LineHandles
<1>2. push[c] = "submitted" /\ UNCHANGED <<message, row, at, job, callback>>
  BY DEF LineHandles, stored
<1>3. push'[c] = fate /\ \A d \in Callbacks \ {c} : push'[d] = push[d]
  BY <1>1 DEF LineInv, TypeOK, Actors
<1>4. Attempt(c) = [of |-> Of(c), fate |-> "submitted"]
  BY <1>2 DEF Attempt, Pushed
<1>5. Attempt(c)' = [of |-> Of(c), fate |-> fate]
  BY <1>2, <1>3 DEF Attempt, Pushed, Of
<1>6. \A d \in Callbacks \ {c} : Attempt(d)' = Attempt(d)
  BY <1>2, <1>3 DEF Attempt, Pushed, Of
<1>7. [d \in Callbacks |-> Attempt(d)]' = [[d \in Callbacks |-> Attempt(d)] EXCEPT ![c].fate = fate]
  <2>1. [Attempt(c) EXCEPT !.fate = fate] = Attempt(c)'
    BY <1>4, <1>5
  <2>2. [d \in Callbacks |-> Attempt(d)]' =
          [[d \in Callbacks |-> Attempt(d)] EXCEPT ![c] = Attempt(c)']
    BY <1>6
  <2>3. [d \in Callbacks |-> Attempt(d)][c] = Attempt(c)
    OBVIOUS
  <2>4. QED
    BY <2>1, <2>2, <2>3, Zenon
<1>8. /\ [n \in Messages |-> Recorded(n)]' = [n \in Messages |-> Recorded(n)]
      /\ [n \in Messages |-> Told(n)]' = [n \in Messages |-> Told(n)]
  BY <1>2 DEF Recorded, Told, ToldSent, Reported, Of
<1>9. [d \in Callbacks |-> Attempt(d)][c].fate = "submitted"
  BY <1>4
<1>10. QED
  BY <1>7, <1>8, <1>9, Zenon DEF Delivery!ProviderDecides

\* Every step is a step of the delivery, or none.
LEMMA NextMaps ==
  ASSUME LineInv, LineInv', [Next]_vars
  PROVE  [Delivery!Next]_(Delivery!vars)
<1>1. TypeOK
  BY DEF LineInv
<1>2. ASSUME UNCHANGED <<message, row, job, callback, push>>,
             \A c \in Callbacks : at'[c] = "processed" <=> at[c] = "processed"
      PROVE  UNCHANGED Delivery!vars
  BY <1>2, QuietStep DEF Quiet, KindsStay, Attempt, Pushed, Of, Recorded
<1>3. ASSUME NEW r \in Runs, RunStep(r) \/ HighLevelCreates(r) \/ HighLevelRefuses(r)
      PROVE  UNCHANGED Delivery!vars
  <2>1. CASE HighLevelCreates(r)
    <3>1. PICK m \in Messages :
            /\ message[m] = NoMessage
            /\ message' = [message EXCEPT ![m] = [by |-> r, status |-> FirstStatus(job[r].kind)]]
      BY <2>1 DEF HighLevelCreates
    <3>2. UNCHANGED <<row, at, job, callback, push>>
      BY <2>1 DEF HighLevelCreates
    <3>3. \/ FirstStatus(job[r].kind) = "pending"
          \/ FirstStatus(job[r].kind) = "delivered" /\ job[r].kind # "v3"
      BY DEF FirstStatus
    <3>4. QED
      BY <3>1, <3>2, <3>3, CreationMaps, ActorsAssumption
  <2>2. CASE HighLevelRefuses(r)
    BY <1>2, <2>2 DEF HighLevelRefuses, stored
  <2>3. QED
    BY <1>3, <2>1, <2>2, RunMaps
<1>4. ASSUME NEW c \in Callbacks, HighLevelCallsBack(c)
      PROVE  UNCHANGED Delivery!vars
  <2>1. /\ at[c] = "idle" /\ GoTo(c, "lookup") /\ UNCHANGED <<message, row, job, push>>
        /\ \A d \in Callbacks \ {c} : callback'[d] = callback[d]
    BY <1>1, <1>4 DEF HighLevelCallsBack, stored, TypeOK
  <2>2. ~ Pushed(c)
    BY <2>1 DEF LineInv, CallbackAgrees, Holds
  <2>3. QED
    BY <2>1, <2>2, CallbackQuiet DEF Recorded
<1>5. ASSUME NEW a \in Actors, Submit(a) \/ LineHandles(a)
      PROVE  [Delivery!Next]_(Delivery!vars)
  <2>1. CASE a \in Callbacks
    BY <1>5, <2>1, SubmitMaps, LineMaps DEF Delivery!Next
  <2>2. CASE a \in Runs
    <3>1. UNCHANGED <<message, row, at, job, callback>> /\ \E p : push' = [push EXCEPT ![a] = p]
      BY <1>5 DEF Submit, LineHandles, stored
    <3>2. \A c \in Callbacks : push'[c] = push[c]
      BY <1>1, <2>2, <3>1, ActorsAssumption DEF TypeOK, Actors
    <3>3. QED
      BY <3>1, <3>2, QuietStep DEF Quiet, KindsStay, Attempt, Pushed, Of, Recorded
  <2>3. QED
    BY <2>1, <2>2 DEF Actors
<1>6. ASSUME NEW a \in Actors, Die(a)
      PROVE  UNCHANGED Delivery!vars
  <2>1. at[a] # "processed" /\ GoTo(a, "dead") /\ UNCHANGED <<message, row, job, callback, push>>
    BY <1>6 DEF Die, stored, RunPlaces, CallbackPlaces
  <2>2. \A c \in Callbacks : at'[c] = "processed" <=> at[c] = "processed"
    BY <1>1, <2>1 DEF GoTo, TypeOK, Actors
  <2>3. QED
    BY <1>2, <2>1, <2>2
<1>7. ASSUME NEW m \in Messages, AgentSends(m)
      PROVE  UNCHANGED Delivery!vars
  BY <1>7, CreationMaps DEF AgentSends
<1>8. ASSUME NEW w \in late, LandLate(w)
      PROVE  [Delivery!Next]_(Delivery!vars)
  <2>1. w \in Writes /\ TrueWrite(w)
    BY <1>1 DEF TypeOK, LineInv, TrueRecords
  <2>2. Apply(w) /\ UNCHANGED <<at, job, callback, push>>
    BY <1>8 DEF LandLate
  <2>3. CASE w.on = None
    BY <1>2, <2>2, <2>3 DEF Apply
  <2>4. CASE w.on \in Messages
    <3>1. Answering(w.on)
      BY <2>2 DEF Answering
    <3>2. Delivery!Conclude(w.on)
      BY <2>1, <2>2, <2>4, <3>1, WriteConcludes
    <3>3. QED
      BY <2>4, <3>2 DEF Delivery!Next
  <2>5. QED
    BY <2>1, <2>3, <2>4 DEF Writes
<1>9. CASE UNCHANGED vars
  BY <1>2, <1>9 DEF vars
<1>10. CASE \E r \in Runs : RunStep(r) \/ HighLevelCreates(r) \/ HighLevelRefuses(r)
  BY <1>3, <1>10
<1>11. CASE \E c \in Callbacks : HighLevelCallsBack(c) \/ CallbackStep(c)
  BY <1>4, <1>11, CallbackMaps
<1>12. CASE \E a \in Actors : Submit(a) \/ LineHandles(a) \/ Die(a)
  BY <1>5, <1>6, <1>12
<1>13. CASE \E m \in Messages : AgentSends(m)
  BY <1>7, <1>13
<1>14. CASE \E w \in late : LandLate(w)
  BY <1>8, <1>14
<1>15. QED
  BY <1>9, <1>10, <1>11, <1>12, <1>13, <1>14 DEF Next

LEMMA InitMaps == Init => Delivery!Init
<1> SUFFICES ASSUME Init
             PROVE  Delivery!Init
  OBVIOUS
<1>1. \A c \in Callbacks : Attempt(c) = Delivery!NoAttempt
  BY DEF Init, Attempt, Pushed, Actors, Delivery!NoAttempt
<1>2. \A m \in Messages : Recorded(m) = "none"
  BY DEF Init, Recorded, NoRows
<1>3. \A m \in Messages : Told(m) = {}
  BY DEF Init, Told, ToldSent, NoMessage, Actors
<1>4. QED
  BY <1>1, <1>2, <1>3 DEF Delivery!Init

\* The handlers implement MessageDelivery: whatever dies, errs or lands late, in
\* either lifecycle, a message is pushed once, its outcome is recorded once and for
\* all, and neither its status nor an answer contradicts it or what LINE did
\* (processProviderCallback).
THEOREM LineDelivers == Spec => DeliversTruthfully
<1>1. LineInv /\ LineInv' /\ [Next]_vars => [Delivery!Next]_(Delivery!vars)
  BY NextMaps
<1>2. Spec => Delivery!Init /\ [][Delivery!Next]_(Delivery!vars)
  BY <1>1, InitMaps, LineInvariant, PTL DEF Spec
<1> QED
  BY <1>2 DEF DeliversTruthfully, Delivery!Spec
=============================================================================
