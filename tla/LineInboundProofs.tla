------------------------- MODULE LineInboundProofs -------------------------
(***************************************************************************)
(* Proofs about LineInbound for any number of deliveries, events, users,   *)
(* contacts and late requests.  What is in the database and in HighLevel   *)
(* only grows in what matters: an event stays stored and processed, a row  *)
(* keeps its first outcome, a message stays accepted.  So a request can be *)
(* judged when it is made, by Fits, and lands late as it would have landed *)
(* then; and a handler can be judged by its own state and that growth.     *)
(***************************************************************************)
EXTENDS LineInbound, TLAPS

Answers == {"processed", "skipped", "failed", "error"}
Active == Places \ {"idle", "done"}
AfterSend == {"link_conversation", "save_success", "save_failed", "mark"}

WorldTypes ==
  /\ event \in [Events -> [user : Users, kind : Kinds]]
  /\ webhook \in [Events -> {"none", "stored", "processed"}]
  /\ row \in [Events -> {"none"} \cup Recorded]
  /\ profile \in [Users -> [stored : BOOLEAN, contact : Contacts \cup {None},
                            conversation : Contacts \cup {None}]]
  /\ contact \in [Contacts -> {"none", "live", "gone"}]
  /\ linked \subseteq Users \X Contacts
  /\ inbox \subseteq [by : Deliveries \X Nat, to : Contacts]
  /\ overrides \in 0 .. MaxOverrides
  /\ late \subseteq [op : Ops, by : Deliveries \X Nat, contact : Contacts \cup {None}]

HandlerTypes ==
  /\ at \in [Deliveries -> Places]
  /\ batch \in [Deliveries -> Seq(Events)]
  /\ answers \in [Deliveries -> Seq(Answers)]
  /\ record \in [Deliveries -> [contact : Contacts \cup {None},
                                conversation : Contacts \cup {None}]]
  /\ verdict \in [Deliveries -> {"none"} \cup Answers]
  /\ recovered \in [Deliveries -> BOOLEAN]

-----------------------------------------------------------------------------
(* The invariant *)

\* A handling is of an event of its delivery's batch.
OfBatch(h) == h \in Deliveries \X Nat /\ h[2] \in 1 .. Len(batch[h[1]])

\* What a request rests on; nothing takes it away again.
Fits(w) ==
  /\ w \in [op : Ops, by : Deliveries \X Nat, contact : Contacts \cup {None}]
  /\ OfBatch(w.by)
  /\ w.op \in {"link", "send", "link_conversation"} => w.contact \in Contacts
  /\ w.op \in {"link", "send"} => <<User(w.by), w.contact>> \in linked
  /\ w.op = "send" => event[Event(w.by)].kind = "text"
  /\ w.op = "success" => \E x \in inbox : Event(x.by) = Event(w.by)
  /\ w.op = "skipped" => event[Event(w.by)].kind # "text"

LateFits == \A w \in late : Fits(w)

InboxFits ==
  \A x \in inbox :
    OfBatch(x.by) /\ event[Event(x.by)].kind = "text" /\ <<User(x.by), x.to>> \in linked

ProfileFits == \A u \in Users : profile[u].contact # None => <<u, profile[u].contact>> \in linked

RowFits ==
  \A e \in Events :
    /\ row[e] = "success" => \E x \in inbox : Event(x.by) = e
    /\ row[e] = "skipped" => event[e].kind # "text"

WorldFits == LateFits /\ InboxFits /\ ProfileFits /\ RowFits

\* HighLevel has accepted the handling's message.
Arrived(h) == \E x \in inbox : x.by = h

\* The messages HighLevel has or may still get.
Message(w) == [by |-> w.by, to |-> w.contact]
Out == inbox \cup {Message(w) : w \in {v \in late : v.op = "send"}}

\* Nothing is out for a handling that has yet to send.
SentBehind ==
  \A d \in Deliveries : \A n \in Nat : \A x \in Out :
    x.by = <<d, n>> =>
      n <= Len(answers[d]) \/ (n = Len(answers[d]) + 1 /\ at[d] \in AfterSend)

\* What a handler's place says of the event it handles.
HandlingFits(d) ==
  /\ at[d] # "save_event" => webhook[Event(Handling(d))] # "none"
  /\ at[d] \in {"create", "link", "clear", "send", "link_conversation", "save_success"}
       => Kind(d) = "text"
  /\ at[d] = "save_skipped" => Kind(d) # "text"
  /\ at[d] = "profile" => Kind(d) \in {"text", "media"}
  /\ at[d] \in {"link", "send", "link_conversation"}
       => record[d].contact \in Contacts
  /\ at[d] \in {"link", "send"} => <<User(Handling(d)), record[d].contact>> \in linked
  /\ at[d] \in {"link_conversation", "save_success"} => Arrived(Handling(d))
  /\ at[d] = "mark" => verdict[d] \in Answers
  /\ at[d] = "mark" /\ verdict[d] = "processed"
       => Arrived(Handling(d)) /\ row[Event(Handling(d))] # "none"

\* What an answer says of the event that was handled.
AnswerFits(d, n) ==
  /\ answers[d][n] # "error" => webhook[batch[d][n]] = "processed"
  /\ answers[d][n] = "processed" => Arrived(<<d, n>>) /\ row[batch[d][n]] # "none"

HandlerFits(d) ==
  /\ at[d] = "idle" => batch[d] = <<>> /\ answers[d] = <<>>
  /\ at[d] = "done" => Len(answers[d]) = Len(batch[d])
  /\ at[d] \in Active => Len(answers[d]) < Len(batch[d]) /\ HandlingFits(d)
  /\ \A n \in 1 .. Len(answers[d]) : AnswerFits(d, n)
  /\ Len(answers[d]) <= Len(batch[d])

HandlersFit == \A d \in Deliveries : HandlerFits(d)

InboundInv ==
  WorldTypes /\ HandlerTypes /\ WorldFits /\ SentBehind /\ HandlersFit /\ OneMessagePerHandling

-----------------------------------------------------------------------------
(* Growth *)

\* What no step takes back.
Grows ==
  /\ event' = event /\ linked \subseteq linked' /\ inbox \subseteq inbox'
  /\ \A e \in Events :
       /\ webhook[e] # "none" => webhook'[e] # "none"
       /\ webhook[e] = "processed" => webhook'[e] = "processed"
       /\ row[e] # "none" => row'[e] # "none"
  /\ \A g \in Deliveries : batch[g] # <<>> => batch'[g] = batch[g]

\* What a request does when it lands, or may do later.
Touches(w) ==
  /\ Grows
  /\ late' \subseteq late \cup {w}
  /\ \A x \in inbox' \ inbox : w.op = "send" /\ x = Message(w)
  /\ \A u \in Users :
       \/ profile'[u].contact \in {None, profile[u].contact}
       \/ w.op = "link" /\ u = User(w.by) /\ profile'[u].contact = w.contact
  /\ \A e \in Events :
       row'[e] = row[e] \/ (e = Event(w.by) /\ row'[e] = w.op)

Keeps(q) ==
  /\ at'[q] = at[q] /\ batch'[q] = batch[q] /\ answers'[q] = answers[q]
  /\ record'[q] = record[q] /\ verdict'[q] = verdict[q] /\ recovered'[q] = recovered[q]

\* A handling of a batch is of a stored event's user.
LEMMA EventOf ==
  ASSUME WorldTypes, HandlerTypes, NEW h, OfBatch(h)
  PROVE  Event(h) \in Events /\ User(h) \in Users /\ batch[h[1]] # <<>>
  BY DEF WorldTypes, HandlerTypes, OfBatch, Event, User

\* A request that lands does what it does to its own event and user.
LEMMA ApplyTouches ==
  ASSUME WorldTypes, HandlerTypes, NEW w, Fits(w), Apply(w), late' \subseteq late \cup {w},
         \A g \in Deliveries : batch[g] # <<>> => batch'[g] = batch[g]
  PROVE  Touches(w)
<1>1. Event(w.by) \in Events /\ User(w.by) \in Users
  BY EventOf DEF Fits
<1>2. /\ event' = event /\ linked' = linked /\ inbox \subseteq inbox'
      /\ \A x \in inbox' \ inbox : w.op = "send" /\ x = [by |-> w.by, to |-> w.contact]
  BY DEF Apply, Accepts
<1>3. \A e \in Events :
        /\ webhook[e] # "none" => webhook'[e] # "none"
        /\ webhook[e] = "processed" => webhook'[e] = "processed"
  BY <1>1 DEF Apply, WebhookAfter, WorldTypes
<1>4. \A e \in Events :
        /\ row[e] # "none" => row'[e] # "none"
        /\ row'[e] = row[e] \/ (e = Event(w.by) /\ row'[e] = w.op)
  BY <1>1 DEF Apply, RowAfter, WorldTypes
<1>5. \A u \in Users :
        \/ profile'[u].contact \in {None, profile[u].contact}
        \/ w.op = "link" /\ u = User(w.by) /\ profile'[u].contact = w.contact
  BY <1>1 DEF Apply, ProfileAfter, WorldTypes
<1>6. QED
  BY <1>2, <1>3, <1>4, <1>5 DEF Touches, Grows, Message

\* And keeps the types.
LEMMA ApplyTypes ==
  ASSUME WorldTypes, HandlerTypes, NEW w, Fits(w), Apply(w), late' \subseteq late \cup {w}
  PROVE  WorldTypes'
<1>1. Event(w.by) \in Events /\ User(w.by) \in Users
  BY EventOf DEF Fits
<1>2. webhook' \in [Events -> {"none", "stored", "processed"}]
  BY <1>1 DEF Apply, WebhookAfter, WorldTypes
<1>3. row' \in [Events -> {"none"} \cup Recorded]
  BY <1>1 DEF Apply, RowAfter, WorldTypes
<1>4. profile' \in [Users -> [stored : BOOLEAN, contact : Contacts \cup {None},
                              conversation : Contacts \cup {None}]]
  <2>1. ProfileAfter(w) \in [stored : BOOLEAN, contact : Contacts \cup {None},
                             conversation : Contacts \cup {None}]
    BY <1>1 DEF ProfileAfter, Fits, WorldTypes
  <2>2. profile' = [profile EXCEPT ![User(w.by)] = ProfileAfter(w)]
    BY DEF Apply
  <2>3. QED
    BY <1>1, <2>1, <2>2 DEF WorldTypes
<1>5. inbox' \subseteq [by : Deliveries \X Nat, to : Contacts]
  BY DEF Apply, Accepts, Fits, WorldTypes
<1>6. late' \subseteq [op : Ops, by : Deliveries \X Nat, contact : Contacts \cup {None}]
  BY DEF Fits, WorldTypes
<1>7. UNCHANGED <<event, contact, linked, overrides>>
  BY DEF Apply
<1>8. QED
  BY <1>2, <1>3, <1>4, <1>5, <1>6, <1>7 DEF WorldTypes

\* A request that fits goes on fitting.
LEMMA FitsStays ==
  ASSUME WorldTypes, HandlerTypes, InboxFits, Grows, NEW w, Fits(w)
  PROVE  Fits(w)'
<1>1. /\ batch'[w.by[1]] = batch[w.by[1]]
      /\ \A x \in inbox : batch'[x.by[1]] = batch[x.by[1]]
  BY EventOf DEF Fits, InboxFits, OfBatch, Grows
<1>2. QED
  BY <1>1 DEF Fits, OfBatch, Event, User, Grows

\* A request that fits leaves everything fitting, now or when it lands.
LEMMA TouchesFits ==
  ASSUME WorldTypes, HandlerTypes, WorldFits, NEW w, Fits(w), Touches(w)
  PROVE  WorldFits'
<1>1. LateFits'
  <2>1. \A v \in late' : Fits(v)
    BY DEF WorldFits, LateFits, Touches
  <2>2. ASSUME NEW v \in late'
        PROVE  Fits(v)'
    BY <2>1, <2>2, FitsStays DEF WorldFits, Touches
  <2>3. QED
    BY <2>2 DEF LateFits
<1>2. \A h : OfBatch(h) => OfBatch(h)' /\ Event(h)' = Event(h) /\ User(h)' = User(h)
  <2>1. ASSUME NEW h, OfBatch(h)
        PROVE  batch'[h[1]] = batch[h[1]] /\ event' = event
    BY <2>1, EventOf DEF OfBatch, Touches, Grows
  <2>2. QED
    BY <2>1 DEF OfBatch, Event, User
<1>3. InboxFits'
  <2>1. \A x \in inbox' : OfBatch(x.by) /\ event[Event(x.by)].kind = "text"
                          /\ <<User(x.by), x.to>> \in linked
    BY DEF WorldFits, InboxFits, Touches, Fits, Message
  <2>2. QED
    BY <1>2, <2>1 DEF InboxFits, Touches, Grows
<1>4. ProfileFits'
  BY DEF WorldFits, ProfileFits, Touches, Grows, Fits
<1>5. RowFits'
  <2>1. \A x \in inbox : x \in inbox' /\ Event(x.by)' = Event(x.by)
    BY <1>2 DEF WorldFits, InboxFits, Touches, Grows
  <2>2. ASSUME NEW e \in Events, row'[e] = "success"
        PROVE  (\E x \in inbox : Event(x.by) = e)'
    <3>1. \E x \in inbox : Event(x.by) = e
      BY <2>2 DEF WorldFits, RowFits, Touches, Fits
    <3>2. QED
      BY <2>1, <3>1
  <2>3. ASSUME NEW e \in Events, row'[e] = "skipped"
        PROVE  event'[e].kind # "text"
    BY <2>3 DEF WorldFits, RowFits, Touches, Grows, Fits
  <2>4. QED
    BY <2>2, <2>3 DEF RowFits
<1>6. QED
  BY <1>1, <1>3, <1>4, <1>5 DEF WorldFits

\* A handler that rests goes on fitting.
LEMMA HandlerStays ==
  ASSUME WorldTypes, HandlerTypes, Grows, NEW q \in Deliveries, HandlerFits(q), Keeps(q)
  PROVE  HandlerFits(q)'
<1>1. \A n \in Nat : Arrived(<<q, n>>) => Arrived(<<q, n>>)'
  BY DEF Arrived, Grows
<1>2. \A n \in 1 .. Len(answers[q]) : AnswerFits(q, n)'
  <2>1. \A n \in 1 .. Len(answers[q]) : batch[q][n] \in Events /\ n \in Nat
    BY DEF HandlerTypes, HandlerFits
  <2>2. QED
    BY <1>1, <2>1 DEF HandlerFits, AnswerFits, Keeps, Grows
<1>3. at[q] \in Active => HandlingFits(q)'
  <2>1. Handling(q)' = Handling(q) /\ Event(Handling(q))' = Event(Handling(q))
        /\ User(Handling(q))' = User(Handling(q)) /\ Kind(q)' = Kind(q)
    BY DEF Handling, Event, User, Kind, Keeps, Grows
  <2>2. Arrived(Handling(q)) => Arrived(Handling(q))'
    BY <2>1 DEF Arrived, Grows
  <2>3. at[q] \in Active => Event(Handling(q)) \in Events
    BY DEF HandlerTypes, HandlerFits, Event, Handling
  <2>4. QED
    BY <2>1, <2>2, <2>3 DEF HandlerFits, HandlingFits, Keeps, Grows
<1>4. QED
  BY <1>2, <1>3 DEF HandlerFits, Keeps

-----------------------------------------------------------------------------
(* A handler's step *)

\* A handler's answers grow, or it stays behind its message.
Forward(d) ==
  \/ Len(answers'[d]) = Len(answers[d]) + 1
  \/ Len(answers'[d]) = Len(answers[d]) /\ (at[d] \in AfterSend => at'[d] \in AfterSend)

\* A step of one handler that leaves it fitting, and every other alone.
Moved(d) ==
  /\ HandlerTypes' /\ HandlerFits(d)' /\ Forward(d)
  /\ \A g \in Deliveries \ {d} : Keeps(g)

\* What a request under way does, whether its caller sees an error or not.
LEMMA Requested ==
  ASSUME InboundInv, NEW w, Fits(w), Succeeds(w) \/ Errs(w) \/ UNCHANGED world,
         \A g \in Deliveries : batch[g] # <<>> => batch'[g] = batch[g]
  PROVE  /\ Touches(w) /\ WorldTypes'
         /\ Out' \subseteq Out \cup (IF w.op = "send" THEN {Message(w)} ELSE {})
<1>1. late' \subseteq late \cup {w}
  BY DEF Succeeds, Errs, world
<1>2. CASE Apply(w)
  BY <1>1, <1>2, ApplyTouches, ApplyTypes DEF InboundInv, Touches, Out
<1>3. CASE UNCHANGED <<event, webhook, row, profile, contact, linked, inbox, overrides>>
  <2>1. WorldTypes'
    BY <1>1, <1>3 DEF InboundInv, WorldTypes, Fits
  <2>2. Touches(w)
    BY <1>1, <1>3 DEF Touches, Grows
  <2>3. QED
    BY <1>1, <1>3, <2>1, <2>2 DEF Out
<1>4. QED
  BY <1>2, <1>3 DEF Succeeds, Errs, world

\* What an answered request has done.
LEMMA Landed ==
  ASSUME InboundInv, NEW w, Fits(w), Succeeds(w)
  PROVE  /\ w.op = "store" => webhook'[Event(w.by)] # "none"
         /\ w.op = "processed" /\ webhook[Event(w.by)] # "none"
              => webhook'[Event(w.by)] = "processed"
         /\ w.op \in Recorded => row'[Event(w.by)] # "none"
         /\ Accepts(w) => Message(w) \in inbox'
         /\ w.op = "link" => profile'[User(w.by)].contact = w.contact
         /\ w.op = "upsert" => profile'[User(w.by)].contact = profile[User(w.by)].contact
<1>1. Event(w.by) \in Events /\ User(w.by) \in Users
  BY EventOf DEF InboundInv, Fits
<1>2. QED
  BY <1>1 DEF InboundInv, WorldTypes, Succeeds, Apply, WebhookAfter, RowAfter, ProfileAfter,
     Recorded, Message

\* The invariant after a step of one handler.
LEMMA HandlerStep ==
  ASSUME InboundInv, NEW d \in Deliveries, NEW w, Fits(w), Touches(w), WorldTypes', Moved(d),
         \/ Out' \subseteq Out
         \/ /\ at[d] = "send" /\ at'[d] \in AfterSend /\ w.by = Handling(d)
            /\ Len(answers'[d]) = Len(answers[d]) /\ Out' \subseteq Out \cup {Message(w)}
  PROVE  InboundInv'
<1>1. WorldFits'
  BY TouchesFits DEF InboundInv
<1>2. HandlersFit'
  BY HandlerStays DEF InboundInv, HandlersFit, Moved, Touches
<1>3. SentBehind'
  <2>1. ASSUME NEW g \in Deliveries, NEW n \in Nat, NEW x \in Out', x.by = <<g, n>>
        PROVE  n <= Len(answers'[g]) \/ (n = Len(answers'[g]) + 1 /\ at'[g] \in AfterSend)
    <3>1. Len(answers[d]) \in Nat
      BY DEF InboundInv, HandlerTypes
    <3>2. CASE x \in Out
      BY <2>1, <3>1, <3>2 DEF InboundInv, SentBehind, Moved, Forward, Keeps
    <3>3. CASE x \notin Out
      BY <2>1, <3>1, <3>3 DEF Message, Handling
    <3>4. QED
      BY <3>2, <3>3
  <2>2. QED
    BY <2>1 DEF SentBehind
<1>4. OneMessagePerHandling'
  <2>1. \A x, y \in Out : x.by = y.by => x = y
    BY DEF InboundInv, OneMessagePerHandling, Out, Message
  <2>2. \A x, y \in Out' : x.by = y.by => x = y
    <3>1. CASE Out' \subseteq Out
      BY <2>1, <3>1
    <3>2. CASE at[d] = "send" /\ w.by = Handling(d) /\ Out' \subseteq Out \cup {Message(w)}
      <4>1. Len(answers[d]) \in Nat
        BY DEF InboundInv, HandlerTypes
      <4>2. \A x \in Out : x.by # Handling(d)
        BY <3>2, <4>1 DEF InboundInv, SentBehind, Handling, AfterSend
      <4>3. QED
        BY <2>1, <3>2, <4>2 DEF Message
    <3>3. QED
      BY <3>1, <3>2
  <2>3. QED
    BY <2>2 DEF OneMessagePerHandling, Out, Message
<1>5. QED
  BY <1>1, <1>2, <1>3, <1>4 DEF InboundInv, Moved

-----------------------------------------------------------------------------
(* Where a handler goes *)

\* A handler on its way has an event of its batch in hand.
LEMMA InHand ==
  ASSUME InboundInv, NEW d \in Deliveries, at[d] \in Active
  PROVE  /\ OfBatch(Handling(d)) /\ Handling(d)[1] = d
         /\ Event(Handling(d)) \in Events /\ User(Handling(d)) \in Users
         /\ Handling(d) = <<d, Len(answers[d]) + 1>> /\ Len(answers[d]) \in Nat
         /\ Event(Handling(d)) = batch[d][Len(answers[d]) + 1]
         /\ User(Handling(d)) = event[Event(Handling(d))].user
         /\ HandlingFits(d)
<1>1. Len(answers[d]) \in Nat /\ Len(batch[d]) \in Nat
  BY DEF InboundInv, HandlerTypes
<1>2. Len(answers[d]) < Len(batch[d]) /\ HandlingFits(d)
  BY DEF InboundInv, HandlersFit, HandlerFits
<1>3. OfBatch(Handling(d))
  BY <1>1, <1>2 DEF OfBatch, Handling
<1>4. QED
  BY <1>1, <1>2, <1>3, EventOf DEF InboundInv, Handling, Event, User

\* Every request of a handler fits when it is made.
LEMMA RequestFits ==
  ASSUME InboundInv, NEW d \in Deliveries, at[d] \in Active, NEW op, NEW c,
         \/ op \in {"store", "failed", "processed", "upsert", "clear"} /\ c = None
         \/ op = "skipped" /\ c = None /\ at[d] = "save_skipped"
         \/ op = "success" /\ c = None /\ at[d] = "save_success"
         \/ op \in {"link", "send"} /\ at[d] = op /\ c = record[d].contact
         \/ op = "link_conversation" /\ at[d] = op /\ c = record[d].contact
  PROVE  Fits(Request(d, op, c))
<1>1. op \in Ops /\ c \in Contacts \cup {None}
  <2>1. HandlingFits(d)
    BY InHand
  <2>2. QED
    BY <2>1 DEF Ops, Recorded, HandlingFits
<1>2. OfBatch(Handling(d)) /\ Handling(d) \in Deliveries \X Nat
  BY InHand DEF OfBatch
<1>3. QED
  BY <1>1, <1>2, InHand DEF Fits, Request, HandlingFits, Kind, Arrived

\* To another place, with a mapping.
Course(d, place, m, b) ==
  /\ at' = [at EXCEPT ![d] = place]
  /\ record' = [record EXCEPT ![d] = m]
  /\ recovered' = [recovered EXCEPT ![d] = b]
  /\ UNCHANGED <<batch, answers, verdict>>

\* What a place asks for.
Reaches(d, place, m) ==
  /\ webhook'[Event(Handling(d))] # "none"
  /\ place \in {"create", "link", "clear", "send", "link_conversation", "save_success"}
       => Kind(d) = "text"
  /\ place = "save_skipped" => Kind(d) # "text"
  /\ place = "profile" => Kind(d) \in {"text", "media"}
  /\ place \in {"link", "send", "link_conversation"} => m.contact \in Contacts
  /\ place \in {"link", "send"} => <<User(Handling(d)), m.contact>> \in linked'
  /\ place \in {"link_conversation", "save_success"} => \E x \in inbox' : x.by = Handling(d)

\* What the handling of an event has answered before stays true.
LEMMA AnswersStay ==
  ASSUME InboundInv, Grows, NEW d \in Deliveries, at[d] \in Active,
         batch' = batch, HandlerTypes', answers'[d] = answers[d]
  PROVE  \A n \in 1 .. Len(answers[d]) : AnswerFits(d, n)'
<1>1. \A n \in 1 .. Len(answers[d]) : batch[d][n] \in Events /\ AnswerFits(d, n)
  BY DEF InboundInv, HandlerTypes, HandlersFit, HandlerFits
<1>2. \A n \in 1 .. Len(answers[d]) : Arrived(<<d, n>>) => Arrived(<<d, n>>)'
  BY DEF Arrived, Grows
<1>3. QED
  BY <1>1, <1>2 DEF AnswerFits, Grows

\* A handler goes to a place that has what it asks for.
LEMMA MovesOn ==
  ASSUME InboundInv, Grows, NEW d \in Deliveries, at[d] \in Active,
         NEW place \in Active \ {"save_event", "mark"},
         NEW m \in [contact : Contacts \cup {None}, conversation : Contacts \cup {None}],
         NEW b \in BOOLEAN, Course(d, place, m, b), Reaches(d, place, m),
         at[d] \in AfterSend => place \in AfterSend
  PROVE  Moved(d)
<1>1. HandlerTypes' /\ \A g \in Deliveries \ {d} : Keeps(g)
  BY DEF InboundInv, HandlerTypes, Course, Keeps, Active
<1>2. at'[d] = place /\ record'[d] = m /\ batch' = batch /\ answers' = answers
  BY DEF InboundInv, HandlerTypes, Course
<1>3. HandlingFits(d)'
  <2>1. Handling(d)' = Handling(d) /\ Event(Handling(d))' = Event(Handling(d))
        /\ User(Handling(d))' = User(Handling(d)) /\ Kind(d)' = Kind(d)
    BY <1>2 DEF Handling, Event, User, Kind, Grows
  <2>2. QED
    BY <1>2, <2>1 DEF HandlingFits, Reaches, Arrived
<1>4. HandlerFits(d)'
  <2>1. Len(answers[d]) < Len(batch[d]) /\ Len(answers[d]) \in Nat /\ Len(batch[d]) \in Nat
    BY DEF InboundInv, HandlersFit, HandlerFits, HandlerTypes
  <2>2. QED
    BY <1>1, <1>2, <1>3, <2>1, AnswersStay DEF HandlerFits, Active
<1>5. QED
  BY <1>1, <1>2, <1>4 DEF Moved, Forward

\* GoTo, Ends and Holds are such courses.
LEMMA Courses ==
  ASSUME InboundInv, NEW d \in Deliveries, NEW place
  PROVE  /\ GoTo(d, place) => Course(d, place, record[d], recovered[d])
         /\ Ends(d, place) => Course(d, place, NoMapping, FALSE)
         /\ \A m : Holds(d, place, m) => Course(d, place, m, recovered[d])
         /\ record[d] \in [contact : Contacts \cup {None}, conversation : Contacts \cup {None}]
         /\ NoMapping \in [contact : Contacts \cup {None}, conversation : Contacts \cup {None}]
         /\ recovered[d] \in BOOLEAN
  BY DEF InboundInv, HandlerTypes, GoTo, Ends, Holds, Forget, Course, NoMapping

\* A handling is concluded once its event is stored.
LEMMA Concludes ==
  ASSUME InboundInv, Grows, NEW d \in Deliveries, at[d] \in Active, NEW v \in Answers,
         Conclude(d, v), webhook'[Event(Handling(d))] # "none",
         v = "processed" => /\ \E x \in inbox' : x.by = Handling(d)
                            /\ row'[Event(Handling(d))] # "none"
  PROVE  Moved(d)
<1>1. HandlerTypes' /\ \A g \in Deliveries \ {d} : Keeps(g)
  BY DEF InboundInv, HandlerTypes, Conclude, Forget, Keeps, NoMapping, Places
<1>2. at'[d] = "mark" /\ verdict'[d] = v /\ batch' = batch /\ answers' = answers
  BY DEF InboundInv, HandlerTypes, Conclude
<1>3. HandlingFits(d)'
  <2>1. Handling(d)' = Handling(d) /\ Event(Handling(d))' = Event(Handling(d))
    BY <1>2 DEF Handling, Event
  <2>2. QED
    BY <1>2, <2>1 DEF HandlingFits, Arrived
<1>4. HandlerFits(d)'
  <2>1. Len(answers[d]) < Len(batch[d]) /\ Len(answers[d]) \in Nat /\ Len(batch[d]) \in Nat
    BY DEF InboundInv, HandlersFit, HandlerFits, HandlerTypes
  <2>2. QED
    BY <1>1, <1>2, <1>3, <2>1, AnswersStay DEF HandlerFits, Active, Places
<1>5. QED
  BY <1>1, <1>2, <1>4 DEF Moved, Forward, AfterSend

\* A handler leaves an event with an answer that is true of it.
LEMMA LeavesEvent ==
  ASSUME InboundInv, Grows, NEW d \in Deliveries, at[d] \in Active, NEW v \in Answers,
         Leave(d, v),
         v # "error" => webhook'[Event(Handling(d))] = "processed",
         v = "processed" => /\ \E x \in inbox' : x.by = Handling(d)
                            /\ row'[Event(Handling(d))] # "none"
  PROVE  Moved(d)
<1>1. HandlerTypes' /\ \A g \in Deliveries \ {d} : Keeps(g)
  BY DEF InboundInv, HandlerTypes, Leave, Forget, Keeps, NoMapping, Places
<1>2. /\ batch' = batch /\ answers'[d] = Append(answers[d], v)
      /\ at'[d] = IF Len(answers[d]) + 1 < Len(batch[d]) THEN "save_event" ELSE "done"
  BY DEF InboundInv, HandlerTypes, Leave, Proceeds
<1>3. Len(answers[d]) < Len(batch[d]) /\ Len(answers[d]) \in Nat /\ Len(batch[d]) \in Nat
  BY DEF InboundInv, HandlersFit, HandlerFits, HandlerTypes
<1>4. /\ Len(answers'[d]) = Len(answers[d]) + 1
      /\ \A n \in 1 .. Len(answers[d]) : answers'[d][n] = answers[d][n]
      /\ answers'[d][Len(answers[d]) + 1] = v
  BY <1>2, <1>3 DEF InboundInv, HandlerTypes
<1>5. \A n \in 1 .. Len(answers'[d]) : AnswerFits(d, n)'
  <2>1. \A n \in 1 .. Len(answers[d]) : batch[d][n] \in Events /\ AnswerFits(d, n)
    BY DEF InboundInv, HandlerTypes, HandlersFit, HandlerFits
  <2>2. ASSUME NEW n \in 1 .. Len(answers[d])
        PROVE  AnswerFits(d, n)'
    BY <1>2, <1>4, <2>1, <2>2 DEF AnswerFits, Grows, Arrived
  <2>3. ASSUME NEW n, n = Len(answers[d]) + 1
        PROVE  AnswerFits(d, n)'
    <3>1. batch'[d][n] = Event(Handling(d)) /\ <<d, n>> = Handling(d) /\ answers'[d][n] = v
      BY <1>2, <1>4, <2>3, InHand
    <3>2. QED
      BY <3>1 DEF AnswerFits, Arrived
  <2>4. QED
    BY <1>3, <1>4, <2>2, <2>3
<1>6. HandlerFits(d)'
  BY <1>2, <1>3, <1>4, <1>5 DEF HandlerFits, HandlingFits, Active
<1>7. QED
  BY <1>1, <1>4, <1>6 DEF Moved, Forward

-----------------------------------------------------------------------------
(* The handlers' actions *)

\* What every request of a handler leaves.
LEMMA Asks ==
  ASSUME InboundInv, NEW d \in Deliveries, at[d] \in Active, NEW op, NEW c,
         NEW w, w = Request(d, op, c), Fits(w),
         Succeeds(w) \/ Errs(w) \/ UNCHANGED world, batch' = batch
  PROVE  /\ w.op = op /\ w.by = Handling(d) /\ w.contact = c
         /\ Touches(w) /\ Grows /\ WorldTypes'
         /\ op # "send" => Out' \subseteq Out
         /\ op = "send" => Out' \subseteq Out \cup {Message(w)}
         /\ at[d] # "save_event" => webhook'[Event(Handling(d))] # "none"
<1>1. w.op = op /\ w.by = Handling(d) /\ w.contact = c
  BY DEF Request
<1>2. /\ Touches(w) /\ WorldTypes'
      /\ Out' \subseteq Out \cup (IF w.op = "send" THEN {Message(w)} ELSE {})
  BY Requested
<1>3. at[d] # "save_event" => webhook[Event(Handling(d))] # "none"
  BY InHand DEF HandlingFits
<1>4. QED
  BY <1>1, <1>2, <1>3, InHand DEF Touches, Grows

\* StoreEvent keeps the invariant.
LEMMA StoreEventStep ==
  ASSUME InboundInv, NEW d \in Deliveries, StoreEvent(d)
  PROVE  InboundInv'
<1>1. at[d] \in Active /\ at[d] = "save_event" /\ batch' = batch
  BY DEF StoreEvent, Active, Places, Sort, Conclude, GoTo, Leave
<1>2. PICK w : w = Request(d, "store", None)
  OBVIOUS
<1>3. Fits(w)
  BY <1>1, <1>2, RequestFits
<1>4. (Succeeds(w) /\ Sort(d)) \/ (Errs(w) /\ Leave(d, "error"))
  BY <1>2 DEF StoreEvent
<1>5. Touches(w) /\ Grows /\ WorldTypes' /\ Out' \subseteq Out
  BY <1>1, <1>2, <1>3, <1>4, Asks
<1>6. CASE Errs(w) /\ Leave(d, "error")
  BY <1>1, <1>3, <1>5, <1>6, LeavesEvent, HandlerStep DEF Answers
<1>7. CASE Succeeds(w) /\ Sort(d)
  <2>1. webhook'[Event(Handling(d))] # "none"
    BY <1>2, <1>3, <1>7, Landed DEF Request
  <2>2. CASE Conclude(d, "error") \/ Conclude(d, "skipped")
    BY <1>1, <1>3, <1>5, <2>1, <2>2, Concludes, HandlerStep DEF Answers
  <2>3. ASSUME NEW place \in {"save_unresolved", "save_skipped", "profile"}, GoTo(d, place),
               place = "save_skipped" => Kind(d) # "text",
               place = "profile" => Kind(d) \in {"text", "media"}
        PROVE  InboundInv'
    <3>1. Course(d, place, record[d], recovered[d]) /\ Reaches(d, place, record[d])
      BY <2>1, <2>3, Courses DEF Reaches
    <3>2. Moved(d)
      BY <1>1, <1>5, <2>3, <3>1, Courses, MovesOn DEF Active, Places, AfterSend
    <3>3. QED
      BY <1>3, <1>5, <3>2, HandlerStep
  <2>4. QED
    BY <1>7, <2>2, <2>3 DEF Sort
<1>8. QED
  BY <1>4, <1>6, <1>7

\* So do the steps that conclude a handling that has no text to send.
LEMMA ConcludingStep ==
  ASSUME InboundInv, NEW d \in Deliveries,
         SaveUnresolved(d) \/ SaveSkipped(d) \/ ProfileUnknown(d)
  PROVE  InboundInv'
<1>1. at[d] \in Active \ {"save_event"} /\ batch' = batch
  BY DEF SaveUnresolved, SaveSkipped, ProfileUnknown, Active, Places, Conclude
<1>2. PICK op : op = IF at[d] = "save_skipped" THEN "skipped" ELSE "failed"
  OBVIOUS
<1>3. PICK w : w = Request(d, op, None)
  OBVIOUS
<1>4. Fits(w)
  BY <1>1, <1>2, <1>3, RequestFits
<1>5. /\ Succeeds(w) \/ Errs(w) \/ UNCHANGED world
      /\ Conclude(d, "failed") \/ Conclude(d, "skipped") \/ Conclude(d, "error")
  BY <1>2, <1>3 DEF SaveUnresolved, SaveSkipped, ProfileUnknown
<1>6. /\ Touches(w) /\ Grows /\ WorldTypes' /\ Out' \subseteq Out
      /\ webhook'[Event(Handling(d))] # "none"
  BY <1>1, <1>2, <1>3, <1>4, <1>5, Asks
<1>7. Moved(d)
  BY <1>1, <1>5, <1>6, Concludes DEF Answers
<1>8. QED
  BY <1>4, <1>6, <1>7, HandlerStep

\* A contact that is in a row is linked to the row's user.
LEMMA LinkedInRow ==
  ASSUME InboundInv, NEW w, Fits(w), Touches(w), WorldTypes', NEW u \in Users
  PROVE  profile'[u].contact # None => <<u, profile'[u].contact>> \in linked'
  BY TouchesFits DEF InboundInv, WorldFits, ProfileFits

\* UpsertProfile keeps the invariant.
LEMMA UpsertStep ==
  ASSUME InboundInv, NEW d \in Deliveries, UpsertProfile(d)
  PROVE  InboundInv'
<1>1. at[d] \in Active /\ at[d] = "profile" /\ batch' = batch
  BY DEF UpsertProfile, Active, Places, Conclude, GoTo, Rereads, Holds
<1>2. PICK w : w = Request(d, "upsert", None)
  OBVIOUS
<1>3. Fits(w)
  BY <1>1, <1>2, RequestFits
<1>4. \/ /\ Succeeds(w)
         /\ \/ Kind(d) = "media" /\ GoTo(d, "save_skipped")
            \/ Kind(d) # "media" /\ GoTo(d, "create")
            \/ Kind(d) # "media" /\ profile[User(Handling(d))].contact # None /\ Rereads(d, "send")
      \/ Errs(w) /\ Conclude(d, "error")
  BY <1>2 DEF UpsertProfile, Request
<1>5. /\ Touches(w) /\ Grows /\ WorldTypes' /\ Out' \subseteq Out
      /\ webhook'[Event(Handling(d))] # "none" /\ w.by = Handling(d) /\ w.op = "upsert"
  BY <1>1, <1>2, <1>3, <1>4, Asks
<1>6. Kind(d) \in {"text", "media"} /\ User(Handling(d)) \in Users
  BY <1>1, InHand DEF HandlingFits
<1>7. CASE Conclude(d, "error")
  BY <1>1, <1>3, <1>5, <1>7, Concludes, HandlerStep DEF Answers
<1>8. ASSUME NEW place \in {"save_skipped", "create"}, GoTo(d, place),
             place = "save_skipped" <=> Kind(d) = "media"
      PROVE  InboundInv'
  <2>1. Course(d, place, record[d], recovered[d]) /\ Reaches(d, place, record[d])
    BY <1>5, <1>6, <1>8, Courses DEF Reaches
  <2>2. Moved(d)
    BY <1>1, <1>5, <1>8, <2>1, Courses, MovesOn DEF Active, Places, AfterSend
  <2>3. QED
    BY <1>3, <1>5, <2>2, HandlerStep
<1>9. CASE Succeeds(w) /\ Kind(d) # "media" /\ profile[User(Handling(d))].contact # None
           /\ Rereads(d, "send")
  <2>1. PICK m : m = MappingOf(profile'[User(Handling(d))])
    OBVIOUS
  <2>2. /\ m \in [contact : Contacts \cup {None}, conversation : Contacts \cup {None}]
        /\ m.contact = profile'[User(Handling(d))].contact
    BY <1>5, <1>6, <2>1 DEF MappingOf, WorldTypes
  <2>3. m.contact # None
    BY <1>3, <1>5, <1>9, <2>2, Landed
  <2>4. <<User(Handling(d)), m.contact>> \in linked'
    BY <1>3, <1>5, <1>6, <2>2, <2>3, LinkedInRow
  <2>5. Holds(d, "send", m)
    BY <1>9, <2>1 DEF Rereads
  <2>6. Course(d, "send", m, recovered[d]) /\ Reaches(d, "send", m)
    BY <1>5, <1>6, <1>9, <2>2, <2>3, <2>4, <2>5, Courses DEF Reaches
  <2>7. Moved(d)
    BY <1>1, <1>5, <2>2, <2>6, Courses, MovesOn DEF Active, Places, AfterSend
  <2>8. QED
    BY <1>3, <1>5, <2>7, HandlerStep
<1>10. QED
  BY <1>4, <1>7, <1>8, <1>9

\* So does making a contact, whether the handler learns of it or not.
LEMMA CreateStep ==
  ASSUME InboundInv, NEW d \in Deliveries, CreateContact(d)
  PROVE  InboundInv'
<1>1. at[d] \in Active /\ at[d] = "create" /\ batch' = batch
  BY DEF CreateContact, Active, Places, Fails, Ends, Holds
<1>2. PICK c \in Contacts :
        /\ contact' = [contact EXCEPT ![c] = "live"]
        /\ linked' = linked \cup {<<User(Handling(d)), c>>}
        /\ Holds(d, "link", [NoMapping EXCEPT !.contact = c]) \/ Fails(d)
  BY DEF CreateContact
<1>3. UNCHANGED <<event, webhook, row, profile, inbox, late, overrides>>
  BY DEF CreateContact
<1>4. PICK w : w = Request(d, "failed", None)
  OBVIOUS
<1>5. Fits(w)
  BY <1>1, <1>4, RequestFits
<1>6. Touches(w) /\ Grows /\ Out' \subseteq Out
  BY <1>1, <1>2, <1>3 DEF Touches, Grows, Out
<1>7. WorldTypes'
  BY <1>1, <1>2, <1>3, InHand DEF InboundInv, WorldTypes
<1>8. Kind(d) = "text" /\ webhook'[Event(Handling(d))] # "none"
  BY <1>1, <1>3, InHand DEF HandlingFits
<1>9. CASE Fails(d)
  <2>1. Course(d, "save_failed", NoMapping, FALSE) /\ Reaches(d, "save_failed", NoMapping)
    BY <1>8, <1>9, Courses DEF Fails, Reaches
  <2>2. Moved(d)
    BY <1>1, <1>6, <2>1, Courses, MovesOn DEF Active, Places, AfterSend
  <2>3. QED
    BY <1>5, <1>6, <1>7, <2>2, HandlerStep
<1>10. CASE Holds(d, "link", [NoMapping EXCEPT !.contact = c])
  <2>1. PICK m : m = [NoMapping EXCEPT !.contact = c]
    OBVIOUS
  <2>2. /\ m \in [contact : Contacts \cup {None}, conversation : Contacts \cup {None}]
        /\ m.contact = c
    BY <2>1 DEF NoMapping
  <2>3. Course(d, "link", m, recovered[d]) /\ Reaches(d, "link", m)
    BY <1>2, <1>8, <1>10, <2>1, <2>2, Courses DEF Reaches
  <2>4. Moved(d)
    BY <1>1, <1>6, <2>2, <2>3, Courses, MovesOn DEF Active, Places, AfterSend
  <2>5. QED
    BY <1>5, <1>6, <1>7, <2>4, HandlerStep
<1>11. QED
  BY <1>2, <1>9, <1>10

\* A handler that fails keeps the invariant.
LEMMA FailingStep ==
  ASSUME InboundInv, NEW d \in Deliveries, at[d] \in Active \ {"save_event", "mark"},
         NEW w, Fits(w), Touches(w), WorldTypes', Fails(d),
         \/ Out' \subseteq Out
         \/ at[d] = "send" /\ w.by = Handling(d) /\ Out' \subseteq Out \cup {Message(w)}
  PROVE  InboundInv'
<1>1. webhook'[Event(Handling(d))] # "none"
  BY InHand DEF HandlingFits, Touches, Grows
<1>2. Course(d, "save_failed", NoMapping, FALSE) /\ Reaches(d, "save_failed", NoMapping)
  BY <1>1, Courses DEF Fails, Reaches
<1>3. Moved(d)
  BY <1>2, Courses, MovesOn DEF Active, Places, AfterSend, Touches
<1>4. at'[d] \in AfterSend /\ Len(answers'[d]) = Len(answers[d])
  BY <1>2 DEF Course, InboundInv, HandlerTypes, AfterSend
<1>5. QED
  BY <1>3, <1>4, HandlerStep

\* CreateFails keeps the invariant.
LEMMA CreateFailsStep ==
  ASSUME InboundInv, NEW d \in Deliveries, CreateFails(d)
  PROVE  InboundInv'
<1>1. at[d] \in Active \ {"save_event", "mark"} /\ batch' = batch
  BY DEF CreateFails, Active, Places, Fails, Ends
<1>2. PICK w : w = Request(d, "failed", None)
  OBVIOUS
<1>3. Fits(w)
  BY <1>1, <1>2, RequestFits
<1>4. Touches(w) /\ WorldTypes' /\ Out' \subseteq Out
  BY <1>1, <1>2, <1>3, Asks DEF CreateFails
<1>5. QED
  BY <1>1, <1>3, <1>4, FailingStep DEF CreateFails

\* LinkContact keeps the invariant.
LEMMA LinkStep ==
  ASSUME InboundInv, NEW d \in Deliveries, LinkContact(d)
  PROVE  InboundInv'
<1>1. at[d] \in Active /\ at[d] = "link" /\ batch' = batch
  BY DEF LinkContact, Active, Places, Rereads, Holds, Fails, Ends
<1>2. PICK w : w = Request(d, "link", record[d].contact)
  OBVIOUS
<1>3. Fits(w)
  BY <1>1, <1>2, RequestFits
<1>4. (Succeeds(w) /\ Rereads(d, "send")) \/ (Errs(w) /\ Fails(d))
  BY <1>2 DEF LinkContact
<1>5. /\ Touches(w) /\ Grows /\ WorldTypes' /\ Out' \subseteq Out
      /\ webhook'[Event(Handling(d))] # "none" /\ w.by = Handling(d) /\ w.op = "link"
      /\ w.contact = record[d].contact
  BY <1>1, <1>2, <1>3, <1>4, Asks
<1>6. CASE Errs(w) /\ Fails(d)
  BY <1>1, <1>3, <1>5, <1>6, FailingStep
<1>7. CASE Succeeds(w) /\ Rereads(d, "send")
  <2>1. PICK m : m = MappingOf(profile'[User(Handling(d))])
    OBVIOUS
  <2>2. /\ Kind(d) = "text" /\ record[d].contact \in Contacts /\ User(Handling(d)) \in Users
        /\ <<User(Handling(d)), record[d].contact>> \in linked
    BY <1>1, InHand DEF HandlingFits
  <2>3. m \in [contact : Contacts \cup {None}, conversation : Contacts \cup {None}]
    BY <1>5, <2>1, <2>2 DEF MappingOf, WorldTypes
  <2>4. m.contact = record[d].contact
    BY <1>3, <1>5, <1>7, <2>1, Landed DEF MappingOf
  <2>5. Holds(d, "send", m)
    BY <1>7, <2>1 DEF Rereads
  <2>6. Course(d, "send", m, recovered[d])
    BY <2>5, Courses
  <2>7. Reaches(d, "send", m)
    BY <1>5, <2>2, <2>4 DEF Reaches, Grows
  <2>8. Moved(d)
    BY <1>1, <1>5, <2>3, <2>6, <2>7, Courses, MovesOn DEF Active, Places, AfterSend
  <2>9. QED
    BY <1>3, <1>5, <2>8, HandlerStep
<1>8. QED
  BY <1>4, <1>6, <1>7

\* FindStale keeps the invariant.
LEMMA FindStaleStep ==
  ASSUME InboundInv, NEW d \in Deliveries, FindStale(d)
  PROVE  InboundInv'
<1>1. at[d] \in Active /\ at[d] = "send" /\ batch' = batch /\ UNCHANGED world
  BY DEF FindStale, Active, Places
<1>2. PICK w : w = Request(d, "failed", None)
  OBVIOUS
<1>3. Fits(w)
  BY <1>1, <1>2, RequestFits
<1>4. /\ Touches(w) /\ Grows /\ WorldTypes' /\ Out' \subseteq Out
      /\ webhook'[Event(Handling(d))] # "none"
  BY <1>1, <1>2, <1>3, Asks
<1>5. Course(d, "clear", record[d], TRUE)
  BY DEF FindStale, Course, InboundInv, HandlerTypes
<1>6. Reaches(d, "clear", record[d])
  BY <1>1, <1>4, InHand DEF Reaches, HandlingFits
<1>7. Moved(d)
  BY <1>1, <1>4, <1>5, <1>6, Courses, MovesOn DEF Active, Places, AfterSend
<1>8. QED
  BY <1>3, <1>4, <1>7, HandlerStep

\* ClearMapping keeps the invariant.
LEMMA ClearStep ==
  ASSUME InboundInv, NEW d \in Deliveries, ClearMapping(d)
  PROVE  InboundInv'
<1>1. at[d] \in Active /\ at[d] = "clear" /\ batch' = batch
  BY DEF ClearMapping, Active, Places, GoTo, Fails, Ends
<1>2. PICK w : w = Request(d, "clear", None)
  OBVIOUS
<1>3. Fits(w)
  BY <1>1, <1>2, RequestFits
<1>4. (Succeeds(w) /\ GoTo(d, "create")) \/ (Errs(w) /\ Fails(d))
  BY <1>2 DEF ClearMapping
<1>5. /\ Touches(w) /\ Grows /\ WorldTypes' /\ Out' \subseteq Out
      /\ webhook'[Event(Handling(d))] # "none"
  BY <1>1, <1>2, <1>3, <1>4, Asks
<1>6. CASE Errs(w) /\ Fails(d)
  BY <1>1, <1>3, <1>5, <1>6, FailingStep
<1>7. CASE GoTo(d, "create")
  <2>1. Course(d, "create", record[d], recovered[d]) /\ Reaches(d, "create", record[d])
    BY <1>1, <1>5, <1>7, Courses, InHand DEF Reaches, HandlingFits
  <2>2. Moved(d)
    BY <1>1, <1>5, <2>1, Courses, MovesOn DEF Active, Places, AfterSend
  <2>3. QED
    BY <1>3, <1>5, <2>2, HandlerStep
<1>8. QED
  BY <1>4, <1>6, <1>7

\* Send keeps the invariant: nothing is out for the handling yet.
LEMMA SendStep ==
  ASSUME InboundInv, NEW d \in Deliveries, Send(d)
  PROVE  InboundInv'
<1>1. at[d] \in Active /\ at[d] = "send" /\ batch' = batch
  BY DEF Send, Active, Places, GoTo, Ends
<1>2. PICK w : w = Request(d, "send", record[d].contact)
  OBVIOUS
<1>3. Fits(w)
  BY <1>1, <1>2, RequestFits
<1>4. Accepts(w) /\ Succeeds(w) /\ (GoTo(d, "link_conversation") \/ Ends(d, "save_success"))
  BY <1>2 DEF Send
<1>5. /\ Touches(w) /\ Grows /\ WorldTypes' /\ Out' \subseteq Out \cup {Message(w)}
      /\ webhook'[Event(Handling(d))] # "none" /\ w.by = Handling(d)
  BY <1>1, <1>2, <1>3, <1>4, Asks
<1>6. \E x \in inbox' : x.by = Handling(d)
  BY <1>3, <1>4, <1>5, Landed DEF Message
<1>7. Kind(d) = "text" /\ record[d].contact \in Contacts
  BY <1>1, InHand DEF HandlingFits
<1>8. CASE GoTo(d, "link_conversation")
  <2>1. /\ Course(d, "link_conversation", record[d], recovered[d])
        /\ Reaches(d, "link_conversation", record[d])
    BY <1>5, <1>6, <1>7, <1>8, Courses DEF Reaches
  <2>2. Moved(d)
    BY <1>1, <1>5, <2>1, Courses, MovesOn DEF Active, Places, AfterSend
  <2>3. at'[d] \in AfterSend /\ Len(answers'[d]) = Len(answers[d])
    BY <2>1 DEF Course, InboundInv, HandlerTypes, AfterSend
  <2>4. QED
    BY <1>1, <1>3, <1>5, <2>2, <2>3, HandlerStep
<1>9. CASE Ends(d, "save_success")
  <2>1. Course(d, "save_success", NoMapping, FALSE) /\ Reaches(d, "save_success", NoMapping)
    BY <1>5, <1>6, <1>7, <1>9, Courses DEF Reaches
  <2>2. Moved(d)
    BY <1>1, <1>5, <2>1, Courses, MovesOn DEF Active, Places, AfterSend
  <2>3. at'[d] \in AfterSend /\ Len(answers'[d]) = Len(answers[d])
    BY <2>1 DEF Course, InboundInv, HandlerTypes, AfterSend
  <2>4. QED
    BY <1>1, <1>3, <1>5, <2>2, <2>3, HandlerStep
<1>10. QED
  BY <1>4, <1>8, <1>9

\* SendFails keeps the invariant, whatever comes of the message.
LEMMA SendFailsStep ==
  ASSUME InboundInv, NEW d \in Deliveries, SendFails(d)
  PROVE  InboundInv'
<1>1. at[d] \in Active \ {"save_event", "mark"} /\ at[d] = "send" /\ batch' = batch
  BY DEF SendFails, Active, Places, Fails, Ends
<1>2. PICK w : w = Request(d, "send", record[d].contact)
  OBVIOUS
<1>3. Fits(w)
  BY <1>1, <1>2, RequestFits
<1>4. (Succeeds(w) \/ Errs(w) \/ UNCHANGED world) /\ Fails(d)
  BY <1>2 DEF SendFails
<1>5. Touches(w) /\ WorldTypes' /\ Out' \subseteq Out \cup {Message(w)} /\ w.by = Handling(d)
  BY <1>1, <1>2, <1>3, <1>4, Asks
<1>6. QED
  BY <1>1, <1>3, <1>4, <1>5, FailingStep

\* LinkConversation and SaveSuccess keep the invariant.
LEMMA AcceptedStep ==
  ASSUME InboundInv, NEW d \in Deliveries, LinkConversation(d) \/ SaveSuccess(d)
  PROVE  InboundInv'
<1>1. /\ at[d] \in Active \ {"save_event", "mark"} /\ batch' = batch
      /\ at[d] \in {"link_conversation", "save_success"}
  BY DEF LinkConversation, SaveSuccess, Active, Places, Fails, Ends, Conclude
<1>2. Kind(d) = "text" /\ Arrived(Handling(d))
  BY <1>1, InHand DEF HandlingFits
<1>3. PICK op, c :
        /\ at[d] = "link_conversation" => op = "link_conversation" /\ c = record[d].contact
        /\ at[d] = "save_success" => op = "success" /\ c = None
  BY <1>1
<1>4. PICK w : w = Request(d, op, c)
  OBVIOUS
<1>5. Fits(w)
  BY <1>1, <1>3, <1>4, RequestFits
<1>6. \/ at[d] = "link_conversation" /\ Succeeds(w) /\ Ends(d, "save_success")
      \/ at[d] = "save_success" /\ Succeeds(w) /\ Conclude(d, "processed")
      \/ Errs(w) /\ Fails(d)
  BY <1>3, <1>4 DEF LinkConversation, SaveSuccess
<1>7. /\ Touches(w) /\ Grows /\ WorldTypes' /\ Out' \subseteq Out /\ w.by = Handling(d)
      /\ webhook'[Event(Handling(d))] # "none" /\ w.op = op
  BY <1>1, <1>3, <1>4, <1>5, <1>6, Asks
<1>8. \E x \in inbox' : x.by = Handling(d)
  BY <1>2, <1>7 DEF Arrived, Grows
<1>9. CASE Errs(w) /\ Fails(d)
  BY <1>1, <1>5, <1>7, <1>9, FailingStep
<1>10. CASE Ends(d, "save_success")
  <2>1. Course(d, "save_success", NoMapping, FALSE) /\ Reaches(d, "save_success", NoMapping)
    BY <1>2, <1>7, <1>8, <1>10, Courses DEF Reaches
  <2>2. Moved(d)
    BY <1>1, <1>7, <2>1, Courses, MovesOn DEF Active, Places, AfterSend
  <2>3. QED
    BY <1>5, <1>7, <2>2, HandlerStep
<1>11. CASE at[d] = "save_success" /\ Succeeds(w) /\ Conclude(d, "processed")
  <2>1. row'[Event(Handling(d))] # "none"
    BY <1>3, <1>5, <1>7, <1>11, Landed DEF Recorded
  <2>2. Moved(d)
    BY <1>1, <1>7, <1>8, <1>11, <2>1, Concludes DEF Answers
  <2>3. QED
    BY <1>5, <1>7, <2>2, HandlerStep
<1>12. QED
  BY <1>6, <1>9, <1>10, <1>11

\* SaveFailed keeps the invariant.
LEMMA SaveFailedStep ==
  ASSUME InboundInv, NEW d \in Deliveries, SaveFailed(d)
  PROVE  InboundInv'
<1>1. at[d] \in Active \ {"save_event"} /\ batch' = batch
  BY DEF SaveFailed, Active, Places, Conclude
<1>2. PICK w : w = Request(d, "failed", None)
  OBVIOUS
<1>3. Fits(w)
  BY <1>1, <1>2, RequestFits
<1>4. (Succeeds(w) \/ Errs(w)) /\ (Conclude(d, "failed") \/ Conclude(d, "error"))
  BY <1>2 DEF SaveFailed
<1>5. /\ Touches(w) /\ Grows /\ WorldTypes' /\ Out' \subseteq Out
      /\ webhook'[Event(Handling(d))] # "none"
  BY <1>1, <1>2, <1>3, <1>4, Asks
<1>6. Moved(d)
  BY <1>1, <1>4, <1>5, Concludes DEF Answers
<1>7. QED
  BY <1>3, <1>5, <1>6, HandlerStep

\* Mark keeps the invariant: the answer it gives is true by now.
LEMMA MarkStep ==
  ASSUME InboundInv, NEW d \in Deliveries, Mark(d)
  PROVE  InboundInv'
<1>1. at[d] \in Active /\ at[d] = "mark" /\ batch' = batch
  BY DEF Mark, Active, Places, Leave
<1>2. PICK w : w = Request(d, "processed", None)
  OBVIOUS
<1>3. Fits(w)
  BY <1>1, <1>2, RequestFits
<1>4. (Succeeds(w) /\ Leave(d, verdict[d])) \/ (Errs(w) /\ Leave(d, "error"))
  BY <1>2 DEF Mark
<1>5. /\ Touches(w) /\ Grows /\ WorldTypes' /\ Out' \subseteq Out
      /\ w.by = Handling(d) /\ w.op = "processed"
  BY <1>1, <1>2, <1>3, <1>4, Asks
<1>6. CASE Errs(w) /\ Leave(d, "error")
  BY <1>1, <1>3, <1>5, <1>6, LeavesEvent, HandlerStep DEF Answers
<1>7. CASE Succeeds(w) /\ Leave(d, verdict[d])
  <2>1. /\ webhook[Event(Handling(d))] # "none" /\ verdict[d] \in Answers
        /\ verdict[d] = "processed" => Arrived(Handling(d)) /\ row[Event(Handling(d))] # "none"
        /\ Event(Handling(d)) \in Events
    BY <1>1, InHand DEF HandlingFits
  <2>2. webhook'[Event(Handling(d))] = "processed"
    BY <1>3, <1>5, <1>7, <2>1, Landed
  <2>3. Moved(d)
    BY <1>1, <1>5, <1>7, <2>1, <2>2, LeavesEvent DEF Arrived, Grows
  <2>4. QED
    BY <1>3, <1>5, <2>3, HandlerStep
<1>8. QED
  BY <1>4, <1>6, <1>7

-----------------------------------------------------------------------------
(* Everything else, and the theorems *)

\* A step that moves no handler keeps the invariant, if what it leaves fits.
LEMMA RestingStep ==
  ASSUME InboundInv, Grows, WorldTypes', WorldFits', UNCHANGED handler, Out' \subseteq Out
  PROVE  InboundInv'
<1>1. HandlerTypes' /\ SentBehind'
  BY DEF InboundInv, HandlerTypes, SentBehind, handler
<1>2. HandlersFit'
  BY HandlerStays DEF InboundInv, HandlersFit, Keeps, handler
<1>3. OneMessagePerHandling'
  <2>1. \A x, y \in Out : x.by = y.by => x = y
    BY DEF InboundInv, OneMessagePerHandling, Out, Message
  <2>2. QED
    BY <2>1 DEF OneMessagePerHandling, Out, Message
<1>4. QED
  BY <1>1, <1>2, <1>3 DEF InboundInv

\* A delivery that is received has a batch ahead of it.
LEMMA ReceiveStep ==
  ASSUME InboundInv, NEW d \in Deliveries, Receive(d) \/ Refuse(d)
  PROVE  InboundInv'
<1>1. at[d] = "idle" /\ batch[d] = <<>> /\ answers[d] = <<>>
  BY DEF InboundInv, HandlersFit, HandlerFits, Receive, Refuse
<1>2. /\ UNCHANGED world /\ UNCHANGED <<answers, record, verdict, recovered>>
      /\ \A g \in Deliveries : g # d => batch'[g] = batch[g] /\ at'[g] = at[g]
      /\ \/ at'[d] = "save_event" /\ batch'[d] # <<>>
         \/ at'[d] = "done" /\ batch'[d] = <<>>
      /\ at' \in [Deliveries -> Places] /\ batch' \in [Deliveries -> Seq(Events)]
  <2>1. CASE Receive(d)
    BY <1>1, <2>1, TrafficAssumption DEF Receive, InboundInv, HandlerTypes, Places
  <2>2. CASE Refuse(d)
    BY <1>1, <2>2 DEF Refuse, GoTo, InboundInv, HandlerTypes, Places
  <2>3. QED
    BY <2>1, <2>2
<1>3. HandlerTypes' /\ WorldTypes'
  BY <1>2 DEF InboundInv, HandlerTypes, WorldTypes, world
<1>4. Grows
  BY <1>1, <1>2 DEF Grows, world
<1>5. WorldFits'
  <2>1. LateFits'
    BY <1>2, <1>4, FitsStays DEF InboundInv, WorldFits, LateFits, world
  <2>2. \A x \in inbox : batch'[x.by[1]] = batch[x.by[1]]
    BY <1>4, EventOf DEF InboundInv, WorldFits, InboxFits, Grows, OfBatch
  <2>3. InboxFits' /\ RowFits'
    <3>1. \A x \in inbox : /\ OfBatch(x.by) => OfBatch(x.by)'
                           /\ Event(x.by)' = Event(x.by) /\ User(x.by)' = User(x.by)
      BY <1>2, <2>2 DEF OfBatch, Event, User, world
    <3>2. QED
      BY <1>2, <3>1 DEF InboundInv, WorldFits, InboxFits, RowFits, world
  <2>4. ProfileFits'
    BY <1>2 DEF InboundInv, WorldFits, ProfileFits, world
  <2>5. QED
    BY <2>1, <2>3, <2>4 DEF WorldFits
<1>6. HandlersFit'
  <2>1. ASSUME NEW g \in Deliveries, g # d
        PROVE  HandlerFits(g)'
    BY <1>2, <1>4, <2>1, HandlerStays DEF InboundInv, HandlersFit, Keeps
  <2>2. HandlerFits(d)'
    <3>1. Len(batch'[d]) \in Nat /\ (batch'[d] # <<>> => Len(batch'[d]) > 0)
      BY <1>2
    <3>2. QED
      BY <1>1, <1>2, <3>1 DEF HandlerFits, HandlingFits, Active, Places
  <2>3. QED
    BY <2>1, <2>2 DEF HandlersFit
<1>7. SentBehind' /\ OneMessagePerHandling'
  <2>1. OneMessagePerHandling'
    BY <1>2 DEF InboundInv, OneMessagePerHandling, world
  <2>2. SentBehind'
    BY <1>1, <1>2 DEF InboundInv, SentBehind, Out, Message, world, AfterSend
  <2>3. QED
    BY <2>1, <2>2
<1>8. QED
  BY <1>3, <1>5, <1>6, <1>7 DEF InboundInv

\* A late request lands as it would have landed in time.
LEMMA LandStep ==
  ASSUME InboundInv, NEW w \in late, Land(w)
  PROVE  InboundInv'
<1>1. Fits(w) /\ Apply(w) /\ late' = late \ {w} /\ UNCHANGED handler
  BY DEF Land, InboundInv, WorldFits, LateFits
<1>2. Touches(w) /\ WorldTypes'
  BY <1>1, ApplyTouches, ApplyTypes DEF InboundInv, handler
<1>3. WorldFits' /\ Grows
  BY <1>1, <1>2, TouchesFits DEF InboundInv, Touches
<1>4. Out' \subseteq Out
  BY <1>1, <1>2 DEF Out, Touches
<1>5. QED
  BY <1>1, <1>2, <1>3, <1>4, RestingStep

\* What others do in HighLevel and to a mapping keeps the invariant.
LEMMA OthersStep ==
  ASSUME InboundInv, (\E c \in Contacts : DeleteContact(c)) \/ (\E u \in Users : Override(u))
  PROVE  InboundInv'
<1>1. /\ UNCHANGED <<event, webhook, row, inbox, late, handler>> /\ linked \subseteq linked'
      /\ \A u \in Users : \/ profile'[u].contact = profile[u].contact
                          \/ <<u, profile'[u].contact>> \in linked'
  <2>1. CASE \E c \in Contacts : DeleteContact(c)
    BY <2>1 DEF DeleteContact
  <2>2. ASSUME NEW u \in Users, NEW c \in Contacts, Override(u),
               \/ /\ profile' = [profile EXCEPT ![u] =
                       [stored |-> TRUE, contact |-> c, conversation |-> @.conversation]]
                  /\ linked' = linked \cup {<<u, c>>}
               \/ /\ profile' = [profile EXCEPT ![u] =
                       [stored |-> TRUE, contact |-> @.contact, conversation |-> c]]
                  /\ linked' = linked
        PROVE  \A v \in Users : \/ profile'[v].contact = profile[v].contact
                                \/ <<v, profile'[v].contact>> \in linked'
    BY <2>2 DEF InboundInv, WorldTypes
  <2>3. QED
    BY <2>1, <2>2 DEF Override
<1>2. WorldTypes'
  <2>1. CASE \E c \in Contacts : DeleteContact(c)
    BY <2>1 DEF DeleteContact, InboundInv, WorldTypes
  <2>2. ASSUME NEW u \in Users, Override(u)
        PROVE  WorldTypes'
    <3>1. overrides' \in 0 .. MaxOverrides
      BY <2>2, BoundAssumption DEF Override, InboundInv, WorldTypes
    <3>2. /\ profile' \in [Users -> [stored : BOOLEAN, contact : Contacts \cup {None},
                                     conversation : Contacts \cup {None}]]
          /\ linked' \subseteq Users \X Contacts
      <4>1. /\ profile[u].contact \in Contacts \cup {None}
            /\ profile[u].conversation \in Contacts \cup {None}
        BY DEF InboundInv, WorldTypes
      <4>2. \E m \in [stored : BOOLEAN, contact : Contacts \cup {None},
                      conversation : Contacts \cup {None}] :
              profile' = [profile EXCEPT ![u] = m]
        BY <2>2, <4>1 DEF Override
      <4>3. linked' \subseteq Users \X Contacts
        BY <2>2 DEF Override, InboundInv, WorldTypes
      <4>4. QED
        BY <4>2, <4>3 DEF InboundInv, WorldTypes
    <3>3. UNCHANGED <<event, webhook, row, contact, inbox, late>>
      BY <2>2 DEF Override
    <3>4. QED
      BY <3>1, <3>2, <3>3 DEF InboundInv, WorldTypes
  <2>3. QED
    BY <2>1, <2>2
<1>3. Grows
  BY <1>1 DEF Grows, handler
<1>4. WorldFits'
  <2>1. LateFits'
    BY <1>1, <1>3, FitsStays DEF InboundInv, WorldFits, LateFits
  <2>2. InboxFits' /\ RowFits'
    BY <1>1 DEF InboundInv, WorldFits, InboxFits, RowFits, OfBatch, Event, User, handler
  <2>3. ProfileFits'
    BY <1>1 DEF InboundInv, WorldFits, ProfileFits
  <2>4. QED
    BY <2>1, <2>2, <2>3 DEF WorldFits
<1>5. Out' \subseteq Out
  BY <1>1 DEF Out
<1>6. QED
  BY <1>1, <1>2, <1>3, <1>4, <1>5, RestingStep

\* Every step keeps the invariant.
LEMMA InboundStep ==
  ASSUME InboundInv, Next
  PROVE  InboundInv'
<1>1. ASSUME NEW d \in Deliveries, Handle(d)
      PROVE  InboundInv'
  BY <1>1, ReceiveStep, StoreEventStep, ConcludingStep, UpsertStep, CreateStep, CreateFailsStep,
     LinkStep, FindStaleStep, ClearStep, SendStep, SendFailsStep, AcceptedStep, SaveFailedStep,
     MarkStep DEF Handle
<1>2. QED
  BY <1>1, LandStep, OthersStep DEF Next

\* What the handlers know and what is out for them, for any number of both.
THEOREM InboundInvariant == Spec => []InboundInv
<1>1. ASSUME Init
      PROVE  InboundInv
  <2>1. WorldTypes
    BY <1>1, AssignmentAssumption, BoundAssumption DEF Init, WorldTypes, NoProfile
  <2>2. HandlerTypes
    BY <1>1 DEF Init, HandlerTypes, NoMapping, Places
  <2>3. WorldFits
    BY <1>1 DEF Init, WorldFits, LateFits, InboxFits, ProfileFits, RowFits, NoProfile
  <2>4. SentBehind /\ OneMessagePerHandling
    BY <1>1 DEF Init, SentBehind, OneMessagePerHandling, Out, Message
  <2>5. HandlersFit
    BY <1>1 DEF Init, HandlersFit, HandlerFits, Active
  <2>6. QED
    BY <2>1, <2>2, <2>3, <2>4, <2>5 DEF InboundInv
<1>2. ASSUME InboundInv, UNCHANGED vars
      PROVE  InboundInv'
  <2>1. Grows /\ WorldTypes' /\ Out' \subseteq Out /\ UNCHANGED handler
    BY <1>2 DEF vars, world, handler, Grows, InboundInv, WorldTypes, Out
  <2>2. WorldFits'
    BY <1>2 DEF vars, world, handler, InboundInv, WorldFits, LateFits, InboxFits, ProfileFits,
       RowFits, Fits, OfBatch, Event, User
  <2>3. QED
    BY <1>2, <2>1, <2>2, RestingStep
<1>3. QED
  BY <1>1, <1>2, InboundStep, PTL DEF Spec

\* Every variable keeps to its type; a handler has a way on from every place.
THEOREM TypeCorrect == Spec => []TypeOK
<1>1. InboundInv => TypeOK
  BY DEF InboundInv, WorldTypes, HandlerTypes, TypeOK, Answers
<1>2. QED
  BY <1>1, InboundInvariant, PTL

\* One handling puts one message into HighLevel at most, now and later.
THEOREM SentOnce == Spec => []OneMessagePerHandling
<1>1. InboundInv => OneMessagePerHandling
  BY DEF InboundInv
<1>2. QED
  BY <1>1, InboundInvariant, PTL

\* What HighLevel has is a text of its contact's user, and only what it has is
\* recorded as synced.
THEOREM InboxIsTrue == Spec => []InboxTrue
<1>1. InboundInv => InboxTrue
  BY DEF InboundInv, WorldFits, InboxFits, RowFits, InboxTrue
<1>2. QED
  BY <1>1, InboundInvariant, PTL

\* A batch ends with a true answer for each of its events.
THEOREM BatchesAreHandled == Spec => []BatchHandled
<1>1. ASSUME InboundInv
      PROVE  BatchHandled
  <2>1. ASSUME NEW d \in Deliveries, at[d] = "done"
        PROVE  /\ Len(answers[d]) = Len(batch[d])
               /\ \A n \in 1 .. Len(answers[d]) : AnswerFits(d, n)
    BY <1>1, <2>1 DEF InboundInv, HandlersFit, HandlerFits
  <2>2. QED
    BY <2>1 DEF BatchHandled, AnswerFits, Arrived
<1>2. QED
  BY <1>1, InboundInvariant, PTL
=============================================================================
