----------------------------- MODULE LineInbound ------------------------------
(***************************************************************************)
(* Messages on their way from LINE to HighLevel.                           *)
(*                                                                         *)
(* LINE delivers a batch of webhook events; the route answers at once and  *)
(* handles the events one after the other in the background.  An event is  *)
(* entered in webhook_events, its sender's row of line_profiles is looked  *)
(* up, a contact is created in HighLevel and linked to the row when there  *)
(* is none or HighLevel no longer has it, the text is sent to the contact, *)
(* and the attempt is entered in message_events.                           *)
(*                                                                         *)
(* LINE may deliver an event again, in another batch, while it is still    *)
(* being handled: the code recognises the event and handles it once more.  *)
(* Contacts are deleted in HighLevel and mappings overridden by operators  *)
(* at any moment.  A request whose caller sees an error may still be       *)
(* carried out later: it stays in late.  A handler that dies takes no      *)
(* further step; nothing obliges a handler to take one.                    *)
(***************************************************************************)
EXTENDS Naturals, Sequences, FiniteSets

CONSTANTS
  Deliveries,   \* requests of the LINE webhook
  Events,       \* LINE webhook events
  Users,        \* LINE users
  Contacts,     \* ids of HighLevel contacts
  Assignments,  \* the users and kinds the events may have
  Traffic,      \* which events the deliveries may carry together
  MaxLate,      \* bound on the requests that are late at a time
  MaxOverrides, \* bound on the operators' interventions
  None

Kinds == {"text", "media", "other", "anonymous"}

ASSUME TrafficAssumption == Traffic \subseteq [Deliveries -> Seq(Events)]
ASSUME AssignmentAssumption == Assignments \subseteq [Events -> [user : Users, kind : Kinds]]
ASSUME NoneAssumption == None \notin Contacts
ASSUME BoundAssumption == MaxLate \in Nat /\ MaxOverrides \in Nat

VARIABLES
  event,     \* of each event: its user and what it is
  webhook,   \* webhook_events: whether the event is stored, and processed
  row,       \* message_events: the recorded outcome of the event's message
  profile,   \* line_profiles: of each user the contact and the conversation
  contact,   \* the contacts of HighLevel
  linked,    \* <<user, contact>>: for whom a contact was made or attached
  inbox,     \* the messages HighLevel has accepted: of which handling, to whom
  at,        \* where the handler of each delivery is
  batch,     \* the events of each delivery
  answers,   \* what the handling of each event of a delivery has returned
  record,    \* the contact and conversation the handler works with
  verdict,   \* what the handling will return once it has left its finally
  recovered, \* whether the handling has replaced a stale contact
  late,      \* requests whose caller has gone on with an error
  overrides  \* how often operators have intervened

world == <<event, webhook, row, profile, contact, linked, inbox, late, overrides>>
handler == <<at, batch, answers, record, verdict, recovered>>
vars == <<world, handler>>

Places ==
  {"idle", "save_event", "save_unresolved", "profile", "save_skipped",
   "create", "link", "clear", "send", "link_conversation",
   "save_success", "save_failed", "mark", "done"}

NoMapping == [contact |-> None, conversation |-> None]
NoProfile == [stored |-> FALSE, contact |-> None, conversation |-> None]
MappingOf(p) == [contact |-> p.contact, conversation |-> p.conversation]

Init ==
  /\ event \in Assignments
  /\ webhook = [e \in Events |-> "none"]
  /\ row = [e \in Events |-> "none"]
  /\ profile = [u \in Users |-> NoProfile]
  /\ contact = [c \in Contacts |-> "none"]
  /\ linked = {} /\ inbox = {} /\ late = {}
  /\ overrides = 0
  /\ at = [d \in Deliveries |-> "idle"]
  /\ batch = [d \in Deliveries |-> <<>>]
  /\ answers = [d \in Deliveries |-> <<>>]
  /\ record = [d \in Deliveries |-> NoMapping]
  /\ verdict = [d \in Deliveries |-> "none"]
  /\ recovered = [d \in Deliveries |-> FALSE]

\* A handling is the n-th of a delivery; the one under way has no answer yet.
Event(h) == batch[h[1]][h[2]]
User(h) == event[Event(h)].user
Handling(d) == <<d, Len(answers[d]) + 1>>
Kind(d) == event[Event(Handling(d))].kind

-----------------------------------------------------------------------------
(* Requests that change what others see *)

Recorded == {"success", "failed", "skipped"}
Ops == {"store", "processed", "upsert", "link", "clear", "link_conversation", "send"} \cup Recorded

Request(d, op, c) == [op |-> op, by |-> Handling(d), contact |-> c]

\* The event's row: a known event is not stored again, and never looked at.
WebhookAfter(w) ==
  LET now == webhook[Event(w.by)] IN
  IF w.op = "store" /\ now = "none" THEN "stored"
  ELSE IF w.op = "processed" /\ now # "none" THEN "processed" ELSE now

\* saveMessageEvent takes 23505 for success: the first outcome stays.
RowAfter(w) ==
  LET now == row[Event(w.by)] IN IF w.op \in Recorded /\ now = "none" THEN w.op ELSE now

ProfileAfter(w) ==
  LET now == profile[User(w.by)] IN
  [stored |-> now.stored \/ w.op = "upsert",
   contact |-> IF w.op = "clear" THEN None ELSE IF w.op = "link" THEN w.contact ELSE now.contact,
   conversation |-> IF w.op = "clear" THEN None
                    ELSE IF w.op = "link_conversation" THEN w.contact ELSE now.conversation]

\* HighLevel accepts a message for a contact it has.
Accepts(w) == w.op = "send" /\ contact[w.contact] = "live"

\* Mutant: the update of the mapping does not name its user.
Apply_EveryUser(w) ==
  /\ webhook' = [webhook EXCEPT ![Event(w.by)] = WebhookAfter(w)]
  /\ row' = [row EXCEPT ![Event(w.by)] = RowAfter(w)]
  /\ profile' = [u \in Users |-> ProfileAfter(w)]
  /\ inbox' = IF Accepts(w) THEN inbox \cup {[by |-> w.by, to |-> w.contact]} ELSE inbox
  /\ UNCHANGED <<event, contact, linked, overrides>>

Apply(w) ==
  /\ webhook' = [webhook EXCEPT ![Event(w.by)] = WebhookAfter(w)]
  /\ row' = [row EXCEPT ![Event(w.by)] = RowAfter(w)]
  /\ profile' = [profile EXCEPT ![User(w.by)] = ProfileAfter(w)]
  /\ inbox' = IF Accepts(w) THEN inbox \cup {[by |-> w.by, to |-> w.contact]} ELSE inbox
  /\ UNCHANGED <<event, contact, linked, overrides>>

Succeeds(w) == Apply(w) /\ UNCHANGED late

\* The caller sees an error: w is carried out later, or never.
Errs(w) ==
  /\ late' = IF Cardinality(late) < MaxLate THEN late \cup {w} ELSE late
  /\ UNCHANGED <<event, webhook, row, profile, contact, linked, inbox, overrides>>

Land(w) == Apply(w) /\ late' = late \ {w} /\ UNCHANGED handler

-----------------------------------------------------------------------------
(* The handler's course *)

GoTo(d, place) ==
  at' = [at EXCEPT ![d] = place] /\ UNCHANGED <<batch, answers, record, verdict, recovered>>

Forget(d) ==
  /\ record' = [record EXCEPT ![d] = NoMapping]
  /\ recovered' = [recovered EXCEPT ![d] = FALSE]

\* Return or throw v: the finally block marks the event first.
Conclude(d, v) ==
  /\ at' = [at EXCEPT ![d] = "mark"]
  /\ verdict' = [verdict EXCEPT ![d] = v]
  /\ Forget(d)
  /\ UNCHANGED <<batch, answers>>

\* Mutant: an error ends the whole batch.
Proceeds_Throws(d, answer) == answer # "error" /\ Len(answers[d]) + 1 < Len(batch[d])

\* The loop catches what a handling throws and goes on with the next event.
Proceeds(d, answer) == Len(answers[d]) + 1 < Len(batch[d])

Leave(d, answer) ==
  /\ answers' = [answers EXCEPT ![d] = Append(@, answer)]
  /\ at' = [at EXCEPT ![d] = IF Proceeds(d, answer) THEN "save_event" ELSE "done"]
  /\ verdict' = [verdict EXCEPT ![d] = "none"]
  /\ Forget(d)
  /\ UNCHANGED batch

Holds(d, place, mapping) ==
  /\ at' = [at EXCEPT ![d] = place]
  /\ record' = [record EXCEPT ![d] = mapping]
  /\ UNCHANGED <<batch, answers, verdict, recovered>>

\* The profile row as an update returns it.
Rereads(d, place) == Holds(d, place, MappingOf(profile'[User(Handling(d))]))

\* To a place from which the mapping is not read any more.
Ends(d, place) ==
  /\ at' = [at EXCEPT ![d] = place]
  /\ Forget(d)
  /\ UNCHANGED <<batch, answers, verdict>>

Fails(d) == Ends(d, "save_failed")

\* LINE delivers a batch to a channel that is connected, under a valid signature.
Receive(d) ==
  /\ at[d] = "idle"
  /\ \E t \in Traffic :
       /\ t[d] # <<>> /\ \A g \in Deliveries : batch[g] \in {<<>>, t[g]}
       /\ batch' = [batch EXCEPT ![d] = t[d]]
  /\ at' = [at EXCEPT ![d] = "save_event"]
  /\ UNCHANGED <<world, answers, record, verdict, recovered>>

\* Anything else is answered with an error and changes nothing.
Refuse(d) == at[d] = "idle" /\ GoTo(d, "done") /\ UNCHANGED world

\* What comes of an event once it is stored.  The default tenant cannot be read; or
\* the tenant's HighLevel configuration is missing or cannot be read, and nothing
\* is sent anywhere; or the event is of a kind.
Sort(d) ==
  \/ Conclude(d, "error")
  \/ GoTo(d, "save_unresolved")
  \/ Kind(d) = "anonymous" /\ Conclude(d, "skipped")
  \/ Kind(d) = "other" /\ GoTo(d, "save_skipped")
  \/ Kind(d) \in {"text", "media"} /\ GoTo(d, "profile")

\* An event that cannot be stored is given up, and not marked.
StoreEvent(d) ==
  /\ at[d] = "save_event"
  /\ LET w == Request(d, "store", None) IN
     \/ Succeeds(w) /\ Sort(d)
     \/ Errs(w) /\ Leave(d, "error")

\* That the failure could not be recorded is only logged.
SaveUnresolved(d) ==
  /\ at[d] = "save_unresolved"
  /\ LET w == Request(d, "failed", None) IN Succeeds(w) \/ Errs(w)
  /\ Conclude(d, "failed")

SaveSkipped(d) ==
  /\ at[d] = "save_skipped"
  /\ LET w == Request(d, "skipped", None) IN
     \/ Succeeds(w) /\ Conclude(d, "skipped")
     \/ Errs(w) /\ Conclude(d, "error")

-----------------------------------------------------------------------------
(* The contact *)

\* LINE does not tell the profile: the message is lost without a record.
ProfileUnknown(d) == at[d] = "profile" /\ Conclude(d, "error") /\ UNCHANGED world

UpsertProfile(d) ==
  /\ at[d] = "profile"
  /\ LET w == Request(d, "upsert", None) IN
     \/ /\ Succeeds(w)
        /\ IF Kind(d) = "media" THEN GoTo(d, "save_skipped")
           ELSE IF profile[User(w.by)].contact = None THEN GoTo(d, "create")
           ELSE Rereads(d, "send")
     \/ Errs(w) /\ Conclude(d, "error")

\* HighLevel has made a contact; the handler may not learn of it.
CreateContact(d) ==
  /\ at[d] = "create"
  /\ \E c \in Contacts :
       /\ contact[c] = "none"
       /\ contact' = [contact EXCEPT ![c] = "live"]
       /\ linked' = linked \cup {<<User(Handling(d)), c>>}
       /\ Holds(d, "link", [NoMapping EXCEPT !.contact = c]) \/ Fails(d)
  /\ UNCHANGED <<event, webhook, row, profile, inbox, late, overrides>>

CreateFails(d) == at[d] = "create" /\ Fails(d) /\ UNCHANGED world

\* The tags of a new contact are best effort: whatever comes of them, go on.
LinkContact(d) ==
  /\ at[d] = "link"
  /\ LET w == Request(d, "link", record[d].contact) IN
     \/ Succeeds(w) /\ Rereads(d, "send")
     \/ Errs(w) /\ Fails(d)

\* HighLevel no longer has the contact, and says so for the first time: when it is
\* to set the tags of an existing contact or when it is sent the message.  Other
\* errors about the tags are only warnings.
Stale(d) == contact[record[d].contact] = "gone" /\ ~ recovered[d]

FindStale(d) ==
  /\ at[d] = "send"
  /\ Stale(d)
  /\ at' = [at EXCEPT ![d] = "clear"]
  /\ recovered' = [recovered EXCEPT ![d] = TRUE]
  /\ UNCHANGED <<world, batch, answers, record, verdict>>

ClearMapping(d) ==
  /\ at[d] = "clear"
  /\ LET w == Request(d, "clear", None) IN
     \/ Succeeds(w) /\ GoTo(d, "create")
     \/ Errs(w) /\ Fails(d)

-----------------------------------------------------------------------------
(* The message *)

\* The answer may name the contact's conversation; one not known is linked next.
Send(d) ==
  /\ at[d] = "send"
  /\ LET w == Request(d, "send", record[d].contact) IN
     /\ Accepts(w) /\ Succeeds(w)
     /\ \/ record[d].conversation # w.contact /\ GoTo(d, "link_conversation")
        \/ Ends(d, "save_success")

\* Mutant: every error is taken for a contact that is gone.
SendFails_TriesAgain(d) ==
  /\ at[d] = "send"
  /\ LET w == Request(d, "send", record[d].contact) IN
     Succeeds(w) \/ Errs(w) \/ UNCHANGED world
  /\ IF recovered[d] THEN Fails(d)
     ELSE /\ at' = [at EXCEPT ![d] = "clear"]
          /\ recovered' = [recovered EXCEPT ![d] = TRUE]
          /\ UNCHANGED <<batch, answers, record, verdict>>

\* HighLevel refuses the message, or its answer does not arrive: HighLevel may
\* have the message, or get it later.
SendFails(d) ==
  /\ at[d] = "send"
  /\ LET w == Request(d, "send", record[d].contact) IN
     Succeeds(w) \/ Errs(w) \/ UNCHANGED world
  /\ Fails(d)

LinkConversation(d) ==
  /\ at[d] = "link_conversation"
  /\ LET w == Request(d, "link_conversation", record[d].contact) IN
     \/ Succeeds(w) /\ Ends(d, "save_success")
     \/ Errs(w) /\ Fails(d)

\* An error is the message's failure, though HighLevel has accepted it.
SaveSuccess(d) ==
  /\ at[d] = "save_success"
  /\ LET w == Request(d, "success", None) IN
     \/ Succeeds(w) /\ Conclude(d, "processed")
     \/ Errs(w) /\ Fails(d)

SaveFailed(d) ==
  /\ at[d] = "save_failed"
  /\ LET w == Request(d, "failed", None) IN
     \/ Succeeds(w) /\ Conclude(d, "failed")
     \/ Errs(w) /\ Conclude(d, "error")

Mark(d) ==
  /\ at[d] = "mark"
  /\ LET w == Request(d, "processed", None) IN
     \/ Succeeds(w) /\ Leave(d, verdict[d])
     \/ Errs(w) /\ Leave(d, "error")

-----------------------------------------------------------------------------
(* Others *)

\* Somebody deletes a contact in HighLevel.
DeleteContact(c) ==
  /\ contact[c] = "live"
  /\ contact' = [contact EXCEPT ![c] = "gone"]
  /\ UNCHANGED <<event, webhook, row, profile, linked, inbox, late, overrides, handler>>

\* An operator attaches a user to a contact or to a contact's conversation.
Override(u) ==
  /\ profile[u].stored /\ overrides < MaxOverrides
  /\ overrides' = overrides + 1
  /\ \E c \in {k \in Contacts : contact[k] # "none"} :
       \/ /\ profile' = [profile EXCEPT ![u] =
               [stored |-> TRUE, contact |-> c, conversation |-> @.conversation]]
          /\ linked' = linked \cup {<<u, c>>}
       \/ /\ profile' = [profile EXCEPT ![u] =
               [stored |-> TRUE, contact |-> @.contact, conversation |-> c]]
          /\ UNCHANGED linked
  /\ UNCHANGED <<event, webhook, row, contact, inbox, late, handler>>

Handle(d) ==
  \/ Receive(d) \/ Refuse(d) \/ StoreEvent(d)
  \/ SaveUnresolved(d) \/ SaveSkipped(d) \/ ProfileUnknown(d) \/ UpsertProfile(d)
  \/ CreateContact(d) \/ CreateFails(d) \/ LinkContact(d)
  \/ FindStale(d) \/ ClearMapping(d) \/ Send(d) \/ SendFails(d) \/ LinkConversation(d)
  \/ SaveSuccess(d) \/ SaveFailed(d) \/ Mark(d)

Next ==
  \/ \E d \in Deliveries : Handle(d)
  \/ \E c \in Contacts : DeleteContact(c)
  \/ \E u \in Users : Override(u)
  \/ \E w \in late : Land(w)

Spec == Init /\ [][Next]_vars

-----------------------------------------------------------------------------
(* Properties *)

\* Every variable has its type; in particular every place of a handler is one
\* with a way on, and every recorded outcome one the check constraint admits.
TypeOK ==
  /\ event \in [Events -> [user : Users, kind : Kinds]]
  /\ webhook \in [Events -> {"none", "stored", "processed"}]
  /\ row \in [Events -> {"none"} \cup Recorded]
  /\ profile \in [Users -> [stored : BOOLEAN, contact : Contacts \cup {None},
                            conversation : Contacts \cup {None}]]
  /\ contact \in [Contacts -> {"none", "live", "gone"}]
  /\ linked \subseteq Users \X Contacts
  /\ inbox \subseteq [by : Deliveries \X Nat, to : Contacts]
  /\ at \in [Deliveries -> Places]
  /\ batch \in [Deliveries -> Seq(Events)]
  /\ answers \in [Deliveries -> Seq({"processed", "skipped", "failed", "error"})]
  /\ record \in [Deliveries -> [contact : Contacts \cup {None},
                                conversation : Contacts \cup {None}]]
  /\ verdict \in [Deliveries -> {"none", "processed", "skipped", "failed", "error"}]
  /\ recovered \in [Deliveries -> BOOLEAN]
  /\ overrides \in 0 .. MaxOverrides
  /\ late \subseteq [op : Ops, by : Deliveries \X Nat, contact : Contacts \cup {None}]

\* One handling of an event puts at most one message into HighLevel, although it
\* may send twice: it sends again only what HighLevel has refused for good, so
\* no first message can still arrive beside the second.
OneMessagePerHandling ==
  LET possible == inbox \cup {[by |-> w.by, to |-> w.contact] : w \in {v \in late : v.op = "send"}}
  IN  \A x, y \in possible : x.by = y.by => x = y

\* HighLevel has only texts, each at a contact that was made for its sender or
\* attached to him; and message_events calls only those synced that it has.
InboxTrue ==
  /\ \A x \in inbox :
       event[Event(x.by)].kind = "text" /\ <<User(x.by), x.to>> \in linked
  /\ \A e \in Events :
       /\ row[e] = "success" => \E x \in inbox : Event(x.by) = e
       /\ row[e] = "skipped" => event[e].kind # "text"

\* No event of a batch is passed over because another fails.  When the batch is
\* done, an event whose handling did not throw is marked; one answered processed
\* is in HighLevel through this very handling, and has a row in message_events.
BatchHandled ==
  \A d \in Deliveries :
    at[d] = "done" =>
      /\ Len(answers[d]) = Len(batch[d])
      /\ \A n \in 1 .. Len(batch[d]) :
           /\ answers[d][n] # "error" => webhook[batch[d][n]] = "processed"
           /\ answers[d][n] = "processed" =>
                /\ \E x \in inbox : x.by = <<d, n>>
                /\ row[batch[d][n]] # "none"
=============================================================================
