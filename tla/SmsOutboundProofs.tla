-------------------------- MODULE SmsOutboundProofs --------------------------
(***************************************************************************)
(* Proofs about SmsOutbound for any number of callbacks, messages and      *)
(* authorizations.  The properties are not inductive: they need that one   *)
(* callback owns a message's operation from its claim on, and what the     *)
(* database holds at each place of the owner, late calls included.         *)
(***************************************************************************)
EXTENDS SmsOutbound, TLAPS

Gone == {"idle", "refused"}
Awaiting == {"claiming", "marking", "consuming", "excusing", "recording"}
Owning == {"marking", "consuming", "excusing", "starting", "sending", "recording",
           "accepted", "failed_unstarted"}
BeforeSubmission == {"idle", "refused", "claiming", "marking", "consuming", "excusing",
                     "starting", "duplicate", "failed_unclaimed", "failed_unstarted"}

Started(c) == Row(c) = [mode |-> req[c].mode, state |-> "processing", started |-> TRUE]
Closed(c) == Row(c) = [mode |-> req[c].mode, state |-> "definitive_failed", started |-> FALSE]

\* What may be recorded about the SMS of c.
Truth(c, outcome) ==
  /\ outcome \in Final
  /\ outcome = "accepted" => sms[c] = "accepted"
  /\ outcome = "definitive_failed" => sms[c] \in {"none", "rejected"}

\* A handler that has received its callback knows what it was asked, and
\* awaits the call of its place.
Places ==
  \A c \in Callbacks :
    /\ at[c] \notin Gone => /\ req[c].message \in Messages
                            /\ req[c].mode \in Modes
                            /\ req[c].authorization \in Authorizations
    /\ at[c] \in Awaiting <=> call[c].result # "none"
    /\ at[c] = "claiming" => call[c].kind = "claim"
    /\ at[c] = "marking" => call[c].kind = "mark" /\ req[c].mode = "mock"
    /\ at[c] = "consuming" => call[c].kind = "consume" /\ req[c].mode = "controlled_live"
    /\ at[c] = "excusing" => call[c].kind = "before_send" /\ req[c].mode = "controlled_live"
    /\ at[c] = "recording" => call[c].kind = "after_send"

\* A late call belongs to a handler that has gone on: to the end, or from
\* the consumption to the closing of the operation.
LateCalls ==
  \A q \in late :
    /\ at[q.caller] \in {"excusing", "failed_unclaimed", "failed_unstarted", "unfinalized", "dead"}
    /\ at[q.caller] = "excusing" => q.kind = "consume"
    /\ q.kind = "claim" => at[q.caller] \in {"failed_unclaimed", "dead"}
    /\ q.kind = "mark" => req[q.caller].mode = "mock"
    /\ q.kind \in {"consume", "before_send"} => req[q.caller].mode = "controlled_live"
    /\ q.kind \in {"claim", "mark", "consume", "before_send"} => sms[q.caller] = "none"
    /\ q.kind = "after_send" => Truth(q.caller, q.outcome)

\* c has the operation of its message, or has left something to do about it.
Owns(c) ==
  \/ sms[c] # "none"
  \/ at[c] \in Owning
  \/ at[c] = "claiming" /\ call[c].result = "true"
  \/ \E q \in late : q.caller = c /\ q.kind # "claim"

Ownership ==
  \A c \in Callbacks : Owns(c) =>
    /\ Row(c).mode = req[c].mode
    /\ \A d \in Callbacks : Owns(d) /\ req[d].message = req[c].message => c = d

\* What the place of c says about its row.
RowAt(c) ==
  /\ at[c] = "claiming" /\ call[c].result = "true" => Unstarted(c, req[c].mode)
  /\ at[c] \in {"marking", "consuming"} =>
       IF call[c].result = "true" THEN Started(c) ELSE Unstarted(c, req[c].mode)
  /\ at[c] \in {"starting", "sending"} => Started(c)
  /\ at[c] = "recording" /\ call[c].result = "sent" => Started(c)
  /\ at[c] = "recording" /\ call[c].result = "true" => Row(c).state = call[c].outcome
  /\ at[c] = "excusing" /\ call[c].result = "true" => Closed(c)
  /\ at[c] = "failed_unstarted" => Closed(c)
  /\ at[c] = "accepted" => Row(c).state = "accepted"
  /\ sms[c] # "none" => Row(c).started

\* What it says about its SMS.
SmsAt(c) ==
  /\ at[c] \in BeforeSubmission => sms[c] = "none"
  /\ at[c] = "recording" => Truth(c, call[c].outcome)
  /\ at[c] = "accepted" => sms[c] = "accepted"

Progress == \A c \in Callbacks : RowAt(c) /\ SmsAt(c)

Bindings ==
  \A m \in Messages :
    IF op[m].mode = "controlled_live" /\ op[m].started
    THEN \E a \in Authorizations : ConsumedBy(m) = {a} /\ auth[a].fits
    ELSE ConsumedBy(m) = {}

Outcomes ==
  \A m \in Messages :
    /\ op[m].state = "accepted" =>
         \E c \in Callbacks : req[c].message = m /\ sms[c] = "accepted"
    /\ op[m].state = "definitive_failed" =>
         \A c \in Callbacks : req[c].message = m => sms[c] \in {"none", "rejected"}

SmsInv == TypeOK /\ Places /\ LateCalls /\ Ownership /\ Progress /\ Bindings /\ Outcomes

-----------------------------------------------------------------------------
(* What a call does when it executes *)

\* What is known of a call while it may execute.
Issued(q) ==
  /\ q \in Calls
  /\ req[q.caller].message \in Messages
  /\ req[q.caller].mode \in Modes
  /\ req[q.caller].authorization \in Authorizations
  /\ q.kind = "mark" => req[q.caller].mode = "mock"
  /\ q.kind \in {"consume", "before_send"} => req[q.caller].mode = "controlled_live"
  /\ q.kind \in {"claim", "mark", "consume", "before_send"} => sms[q.caller] = "none"
  /\ q.kind = "after_send" => Truth(q.caller, q.outcome)
  /\ q.kind # "claim" => Owns(q.caller)

\* A call that is awaited and has not executed is one.
LEMMA PendingIsIssued ==
  ASSUME SmsInv, NEW c \in Callbacks, call[c].result = "sent"
  PROVE  Issued(Pending(c))
<1>1. at[c] \in Awaiting
  BY DEF SmsInv, Places
<1>2. /\ Pending(c).caller = c
      /\ Pending(c).kind = call[c].kind
      /\ Pending(c).outcome = call[c].outcome
  BY DEF Pending
<1>3. Pending(c) \in Calls
  BY <1>1 DEF Pending, Calls, SmsInv, TypeOK, Places, Awaiting
<1>4. QED
  BY <1>1, <1>2, <1>3 DEF Issued, SmsInv, Places, Progress, SmsAt, Awaiting, Gone, Owns, Owning,
     BeforeSubmission, Kinds

\* So is a late one.
LEMMA LateIsIssued ==
  ASSUME SmsInv, NEW q \in late
  PROVE  Issued(q)
<1>1. q \in Calls /\ q.caller \in Callbacks
  BY DEF SmsInv, TypeOK, Calls
<1>2. at[q.caller] \notin Gone
  BY DEF SmsInv, LateCalls, Gone
<1>3. QED
  BY <1>1, <1>2 DEF Issued, SmsInv, Places, LateCalls, Owns

\* What a matching call finds in the row of its message, and what it leaves.
Stepped(q, old, new) ==
  LET row(state, started) == [mode |-> req[q.caller].mode, state |-> state, started |-> started] IN
  \/ q.kind = "claim" /\ old = NoRow /\ new = row("processing", FALSE)
  \/ /\ q.kind \in {"mark", "consume"}
     /\ old = row("processing", FALSE)
     /\ new = row("processing", TRUE)
  \/ /\ q.kind = "before_send"
     /\ old = row("processing", FALSE)
     /\ new = row("definitive_failed", FALSE)
  \/ /\ q.kind = "after_send"
     /\ old = row("processing", TRUE)
     /\ new = row(q.outcome, TRUE)

\* A call changes at most the row of its message.
LEMMA RowStep ==
  ASSUME SmsInv, NEW q, Issued(q), Run(q), NEW m \in Messages
  PROVE  \/ op'[m] = op[m] /\ (m = req[q.caller].message => ~Matches(q))
         \/ m = req[q.caller].message /\ Matches(q) /\ Stepped(q, op[m], op'[m])
<1>0. op = [n \in Messages |-> op[n]]
  BY DEF SmsInv, TypeOK
<1>1. CASE ~Matches(q)
  BY <1>1 DEF Run
<1>2. CASE Matches(q) /\ m # req[q.caller].message
  BY <1>2, <1>0 DEF Run
<1>3. CASE Matches(q) /\ m = req[q.caller].message
  <2>1. op'[m] = Written(q)
    BY <1>3, <1>0 DEF Run
  <2>2. q.kind \in Kinds
    BY DEF Issued, Calls
  <2>3. CASE q.kind = "claim"
    <3>1. op[m] = NoRow
      BY <1>3, <2>3 DEF Matches, ClaimMatches, Row
    <3>2. (q.kind \in {"mark", "consume", "after_send"}) = FALSE
      BY <2>3
    <3>3. QED
      BY <1>3, <2>1, <2>3, <3>1, <3>2 DEF Written, Stepped
  <2>4. CASE q.kind \in {"mark", "consume"}
    <3>1. op[m] = [mode |-> req[q.caller].mode, state |-> "processing", started |-> FALSE]
      BY <1>3, <2>4 DEF Matches, MarkMatches, ConsumeMatches, Unstarted, Row, Issued
    <3>2. QED
      BY <1>3, <2>1, <2>4, <3>1 DEF Written, Stepped
  <2>5. CASE q.kind = "before_send"
    <3>1. op[m] = [mode |-> req[q.caller].mode, state |-> "processing", started |-> FALSE]
      BY <1>3, <2>5 DEF Matches, BeforeSendMatches, Unstarted, Row, Issued
    <3>2. (q.kind \in {"mark", "consume", "after_send"}) = FALSE
      BY <2>5
    <3>3. QED
      BY <1>3, <2>1, <2>5, <3>1, <3>2 DEF Written, Stepped
  <2>6. CASE q.kind = "after_send"
    <3>1. op[m] = [mode |-> req[q.caller].mode, state |-> "processing", started |-> TRUE]
      BY <1>3, <2>6 DEF Matches, AfterSendMatches, Row
    <3>2. QED
      BY <1>3, <2>1, <2>6, <3>1 DEF Written, Stepped
  <2>7. QED
    BY <2>2, <2>3, <2>4, <2>5, <2>6 DEF Kinds
<1>4. QED
  BY <1>1, <1>2, <1>3

\* A finalized row stays as it is, a started send stays started, and a row
\* never loses its mode.
LEMMA RowsAdvance ==
  ASSUME SmsInv, NEW q, Issued(q), Run(q), NEW m \in Messages
  PROVE  /\ op[m].state \notin {"absent", "processing"} => op'[m] = op[m]
         /\ op[m].started => op'[m].started
         /\ op[m].mode # "none" => op'[m].mode = op[m].mode
         /\ op'[m] \in [mode : Modes \cup {"none"}, started : BOOLEAN,
                        state : Final \cup {"absent", "processing"}]
<1>1. op[m] \in [mode : Modes \cup {"none"}, started : BOOLEAN,
                 state : Final \cup {"absent", "processing"}]
  BY DEF SmsInv, TypeOK
<1>2. op'[m] = op[m] \/ Stepped(q, op[m], op'[m])
  BY RowStep
<1>3. CASE Stepped(q, op[m], op'[m])
  <2> DEFINE mode == req[q.caller].mode
  <2>1. mode \in Modes
    BY DEF Issued
  <2>2. CASE q.kind = "claim"
    <3>1. op[m] = NoRow /\ op'[m] = [mode |-> mode, state |-> "processing", started |-> FALSE]
      BY <1>3, <2>2 DEF Stepped
    <3>2. QED
      BY <2>1, <3>1 DEF NoRow
  <2>3. CASE q.kind \in {"mark", "consume"}
    <3>1. /\ op[m] = [mode |-> mode, state |-> "processing", started |-> FALSE]
          /\ op'[m] = [mode |-> mode, state |-> "processing", started |-> TRUE]
      BY <1>3, <2>3 DEF Stepped
    <3>2. QED
      BY <2>1, <3>1
  <2>4. CASE q.kind = "before_send"
    <3>1. /\ op[m] = [mode |-> mode, state |-> "processing", started |-> FALSE]
          /\ op'[m] = [mode |-> mode, state |-> "definitive_failed", started |-> FALSE]
      BY <1>3, <2>4 DEF Stepped
    <3>2. QED
      BY <2>1, <3>1 DEF Final
  <2>5. CASE q.kind = "after_send"
    <3>1. /\ op[m] = [mode |-> mode, state |-> "processing", started |-> TRUE]
          /\ op'[m] = [mode |-> mode, state |-> q.outcome, started |-> TRUE]
      BY <1>3, <2>5 DEF Stepped
    <3>2. q.outcome \in Final
      BY <2>5 DEF Issued, Truth
    <3>3. QED
      BY <2>1, <3>1, <3>2
  <2>6. QED
    BY <2>2, <2>3, <2>4, <2>5 DEF Issued, Calls, Kinds
<1>4. QED
  BY <1>1, <1>2, <1>3

\* Nobody else's call changes the row of an owner.
LEMMA OwnersUndisturbed ==
  ASSUME SmsInv, NEW q, Issued(q), Run(q), NEW d \in Callbacks, Owns(d),
         d # q.caller, req[d].message \in Messages
  PROVE  op'[req[d].message] = op[req[d].message]
<1>1. q.caller \in Callbacks
  BY DEF Issued, Calls
<1>2. Row(d).mode = req[d].mode
  BY DEF SmsInv, Ownership
<1>3. at[d] \notin Gone
  <2>1. CASE sms[d] # "none"
    BY <2>1 DEF SmsInv, Progress, SmsAt, BeforeSubmission, Gone
  <2>2. CASE \E r \in late : r.caller = d
    BY <2>2 DEF SmsInv, LateCalls, Gone
  <2>3. QED
    BY <2>1, <2>2 DEF Owns, Owning, Gone
<1>4. op[req[d].message] # NoRow
  BY <1>2, <1>3 DEF SmsInv, Places, Modes, NoRow, Row
<1>5. CASE q.kind = "claim"
  BY <1>4, <1>5, RowStep DEF Stepped
<1>6. CASE q.kind # "claim"
  <2>1. req[d].message # req[q.caller].message
    BY <1>1, <1>6 DEF SmsInv, Ownership, Issued
  <2>2. QED
    BY <2>1, RowStep
<1>7. QED
  BY <1>5, <1>6

\* The authorizations keep their types and the bindings stay exact.
LEMMA CallsBind ==
  ASSUME SmsInv, NEW q, Issued(q), Run(q)
  PROVE  /\ op' \in [Messages -> [mode : Modes \cup {"none"}, started : BOOLEAN,
                                  state : Final \cup {"absent", "processing"}]]
         /\ auth' \in [Authorizations -> [state : {"created", "armed", "consumed", "revoked"},
                                          fits : BOOLEAN, by : Messages \cup {None}]]
         /\ Bindings'
<1> DEFINE c == q.caller
           a == req[c].authorization
           bound == [state |-> "consumed", fits |-> TRUE, by |-> req[c].message]
<1>1. /\ c \in Callbacks /\ a \in Authorizations
      /\ req[c].message \in Messages /\ req[c].mode \in Modes
  BY DEF Issued, Calls
<1>2. op' \in [Messages -> [mode : Modes \cup {"none"}, started : BOOLEAN,
                            state : Final \cup {"absent", "processing"}]]
  <2>1. \A m \in Messages : op'[m] \in [mode : Modes \cup {"none"}, started : BOOLEAN,
                                        state : Final \cup {"absent", "processing"}]
    BY RowsAdvance
  <2>2. op' = [m \in Messages |-> op'[m]]
    BY DEF Run, SmsInv, TypeOK
  <2>3. QED
    BY <2>1, <2>2
<1>3. bound \in [state : {"created", "armed", "consumed", "revoked"},
                 fits : BOOLEAN, by : Messages \cup {None}]
  BY <1>1
<1>4. CASE Matches(q) /\ q.kind = "consume"
  <2>1. auth' = [auth EXCEPT ![a] = bound]
    BY <1>4 DEF Run
  <2>2. /\ auth[a].state = "armed"
        /\ op[req[c].message] = [mode |-> "controlled_live", state |-> "processing", started |-> FALSE]
    BY <1>4 DEF Matches, ConsumeMatches, Armed, Unstarted, Row
  <2>3. op'[req[c].message] = [mode |-> "controlled_live", state |-> "processing", started |-> TRUE]
    BY <1>1, <1>4, RowStep DEF Stepped, Issued
  <2>4. \A x \in Authorizations : auth'[x] = IF x = a THEN bound ELSE auth[x]
    BY <1>1, <2>1 DEF SmsInv, TypeOK
  <2>5. ASSUME NEW m \in Messages, m # req[c].message
        PROVE  /\ op'[m] = op[m]
               /\ ConsumedBy(m)' = ConsumedBy(m)
               /\ \A x \in ConsumedBy(m) : auth'[x] = auth[x]
    <3>1. op'[m] = op[m]
      BY <2>5, RowStep
    <3>2. \A x \in Authorizations : x \in ConsumedBy(m) => x # a
      BY <2>2 DEF ConsumedBy
    <3>3. \A x \in Authorizations : x \in ConsumedBy(m)' <=> x \in ConsumedBy(m)
      BY <2>4, <2>5, <3>2 DEF ConsumedBy
    <3>4. QED
      BY <2>4, <3>1, <3>2, <3>3 DEF ConsumedBy
  <2>6. ASSUME NEW m \in Messages, m = req[c].message
        PROVE  ConsumedBy(m)' = {a} /\ auth'[a].fits
    <3>1. ConsumedBy(m) = {}
      BY <2>2, <2>6 DEF SmsInv, Bindings
    <3>2. \A x \in Authorizations : (auth'[x].state = "consumed" /\ auth'[x].by = m) <=> x = a
      BY <1>1, <2>4, <2>6, <3>1 DEF ConsumedBy
    <3>3. ConsumedBy(m)' = {x \in Authorizations : auth'[x].state = "consumed" /\ auth'[x].by = m}
      BY DEF ConsumedBy
    <3>4. QED
      BY <1>1, <2>4, <3>2, <3>3
  <2>7. Bindings'
    <3>1. ASSUME NEW m \in Messages
          PROVE  (IF op'[m].mode = "controlled_live" /\ op'[m].started
                  THEN \E x \in Authorizations : ConsumedBy(m)' = {x} /\ auth'[x].fits
                  ELSE ConsumedBy(m)' = {})
      <4>1. CASE m = req[c].message
        BY <1>1, <2>3, <2>6, <4>1
      <4>2. CASE m # req[c].message
        BY <2>5, <4>2 DEF SmsInv, Bindings, ConsumedBy
      <4>3. QED
        BY <4>1, <4>2
    <3>2. QED
      BY <3>1 DEF Bindings
  <2>8. auth' \in [Authorizations -> [state : {"created", "armed", "consumed", "revoked"},
                                      fits : BOOLEAN, by : Messages \cup {None}]]
    BY <1>1, <1>3, <2>1 DEF SmsInv, TypeOK
  <2>9. QED
    BY <1>2, <2>7, <2>8
<1>5. CASE ~(Matches(q) /\ q.kind = "consume")
  <2>1. auth' = auth
    BY <1>5 DEF Run
  <2>2. ASSUME NEW m \in Messages
        PROVE  op'[m] = op[m]
               \/ (op'[m].mode = "controlled_live" /\ op'[m].started)
                  = (op[m].mode = "controlled_live" /\ op[m].started)
    <3>1. CASE Stepped(q, op[m], op'[m])
      BY <1>1, <1>5, <3>1, RowStep DEF Stepped, Issued, NoRow
    <3>2. QED
      BY <3>1, RowStep
  <2>3. \A m \in Messages : ConsumedBy(m)' = ConsumedBy(m)
    BY <2>1 DEF ConsumedBy
  <2>4. QED
    BY <1>2, <2>1, <2>2, <2>3 DEF SmsInv, Bindings, TypeOK
<1>6. QED
  BY <1>4, <1>5

\* What is recorded stays true.
LEMMA CallsAreTrue ==
  ASSUME SmsInv, NEW q, Issued(q), Run(q), UNCHANGED <<req, sms>>
  PROVE  Outcomes'
<1>1. ASSUME NEW m \in Messages
      PROVE  /\ op'[m].state = "accepted" =>
                  \E c \in Callbacks : req[c].message = m /\ sms[c] = "accepted"
             /\ op'[m].state = "definitive_failed" =>
                  \A c \in Callbacks : req[c].message = m => sms[c] \in {"none", "rejected"}
  <2>1. q.caller \in Callbacks
    BY DEF Issued, Calls
  <2>2. CASE op'[m] = op[m]
    BY <2>2 DEF SmsInv, Outcomes
  <2>3. CASE m = req[q.caller].message /\ Matches(q) /\ Stepped(q, op[m], op'[m])
    <3>1. CASE q.kind \in {"claim", "mark", "consume"}
      BY <2>3, <3>1 DEF Stepped
    <3>2. CASE q.kind = "before_send"
      <4>1. ~op[m].started
        BY <2>3, <3>2 DEF Stepped
      <4>2. \A c \in Callbacks : req[c].message = m => sms[c] = "none"
        BY <4>1 DEF SmsInv, Progress, RowAt, Row
      <4>3. op'[m].state = "definitive_failed"
        BY <2>3, <3>2 DEF Stepped
      <4>4. QED
        BY <4>2, <4>3
    <3>3. CASE q.kind = "after_send"
      <4>1. op'[m].state = q.outcome /\ Truth(q.caller, q.outcome)
        BY <2>3, <3>3 DEF Stepped, Issued
      <4>2. \A c \in Callbacks : req[c].message = m /\ sms[c] # "none" => c = q.caller
        BY <2>1, <2>3, <3>3 DEF SmsInv, Ownership, Owns, Issued
      <4>3. QED
        BY <2>1, <2>3, <4>1, <4>2 DEF Truth
    <3>4. QED
      BY <3>1, <3>2, <3>3 DEF Issued, Calls, Kinds
  <2>4. QED
    BY <2>2, <2>3, RowStep
<1>2. QED
  BY <1>1 DEF Outcomes

-----------------------------------------------------------------------------
(* Every action preserves the invariant *)

\* Owners have received a callback.
LEMMA OwnersAreAsked ==
  ASSUME SmsInv, NEW c \in Callbacks, Owns(c)
  PROVE  /\ at[c] \notin Gone
         /\ req[c].message \in Messages
         /\ req[c].mode \in Modes
         /\ Row(c) # NoRow
<1>1. at[c] \notin Gone
  <2>1. CASE sms[c] # "none"
    BY <2>1 DEF SmsInv, Progress, SmsAt, BeforeSubmission, Gone
  <2>2. CASE \E q \in late : q.caller = c
    BY <2>2 DEF SmsInv, LateCalls, Gone
  <2>3. QED
    BY <2>1, <2>2 DEF Owns, Owning, Gone
<1>2. req[c].message \in Messages /\ req[c].mode \in Modes
  BY <1>1 DEF SmsInv, Places
<1>3. Row(c).mode = req[c].mode
  BY DEF SmsInv, Ownership
<1>4. QED
  BY <1>1, <1>2, <1>3 DEF Modes, NoRow

\* Nothing changes for a callback whose own state and, if it owns one, whose
\* row stay as they are.
LEMMA Undisturbed ==
  ASSUME SmsInv, NEW d \in Callbacks,
         at'[d] = at[d], call'[d] = call[d], req'[d] = req[d], sms'[d] = sms[d],
         Owns(d) => op'[req[d].message] = op[req[d].message]
  PROVE  RowAt(d)' /\ SmsAt(d)'
<1>1. RowAt(d) /\ SmsAt(d)
  BY DEF SmsInv, Progress
<1>2. CASE Owns(d)
  <2>1. Row(d)' = Row(d)
    BY <1>2 DEF Row
  <2>2. QED
    BY <1>1, <2>1 DEF RowAt, SmsAt, Truth, Unstarted, Started, Closed
<1>3. CASE ~Owns(d)
  <2>1. /\ sms[d] = "none" /\ at[d] \notin Owning
        /\ ~(at[d] = "claiming" /\ call[d].result = "true")
    BY <1>3 DEF Owns
  <2>2. QED
    BY <1>1, <2>1 DEF RowAt, SmsAt, Truth, Owning, Unstarted, Started, Closed
<1>4. QED
  BY <1>2, <1>3

\* The awaited call of c executes.
LEMMA ExecuteStep ==
  ASSUME SmsInv, NEW c \in Callbacks, Execute(c)
  PROVE  SmsInv'
<1> DEFINE q == Pending(c)
<1>1. /\ Issued(q) /\ Run(q)
      /\ q.caller = c /\ q.kind = call[c].kind /\ q.outcome = call[c].outcome
  BY PendingIsIssued DEF Execute, Pending
<1>2. at' = at /\ req' = req /\ late' = late /\ sms' = sms /\ call[c].result = "sent"
  BY DEF Execute
<1>3. at[c] \in Awaiting /\ req[c].message \in Messages /\ req[c].mode \in Modes
  BY <1>1, <1>2 DEF SmsInv, Places, Issued
<1>4. /\ call'[c].kind = call[c].kind
      /\ call'[c].outcome = call[c].outcome
      /\ call'[c].result \in {"true", "raised", "false"}
      /\ call'[c].result = "true" <=> Matches(q)
      /\ \A d \in Callbacks \ {c} : call'[d] = call[d]
  BY DEF Execute, Result, SmsInv, TypeOK
<1>5. TypeOK' /\ Bindings' /\ Outcomes'
  <2>1. call' \in [Callbacks -> [kind : Kinds \cup {"none"}, outcome : Final \cup {"none"},
                                 result : {"none", "sent", "true", "false", "raised"}]]
    <3>1. Result(q) \in {"none", "sent", "true", "false", "raised"}
      BY DEF Result
    <3>2. QED
      BY <3>1 DEF Execute, SmsInv, TypeOK
  <2>2. QED
    BY <1>1, <1>2, <2>1, CallsBind, CallsAreTrue DEF SmsInv, TypeOK
<1>6. Places'
  BY <1>2, <1>4 DEF SmsInv, Places, Awaiting
<1>7. LateCalls'
  BY <1>2 DEF SmsInv, LateCalls, Truth
<1>8. \A d \in Callbacks : Owns(d)' => Owns(d) \/ (d = c /\ at[c] = "claiming" /\ Matches(q))
  BY <1>2, <1>4 DEF Owns
<1>9. CASE at[c] = "claiming" /\ Matches(q)
  <2>1. q.kind = "claim"
    BY <1>1, <1>9 DEF SmsInv, Places
  <2>2. Row(c) = NoRow /\ op'[req[c].message] =
          [mode |-> req[c].mode, state |-> "processing", started |-> FALSE]
    BY <1>1, <1>3, <1>9, <2>1, RowStep DEF Stepped, Row
  <2>3. \A d \in Callbacks : Owns(d) => req[d].message # req[c].message
    BY <2>2, OwnersAreAsked DEF Row
  <2>4. \A d \in Callbacks : Owns(d) => op'[req[d].message] = op[req[d].message]
    BY <1>1, <1>3, <2>3, RowStep, OwnersAreAsked
  <2>5. Ownership'
    BY <1>2, <1>8, <2>2, <2>3, <2>4 DEF SmsInv, Ownership, Row
  <2>6. Progress'
    <3>1. ASSUME NEW d \in Callbacks, d # c
          PROVE  RowAt(d)' /\ SmsAt(d)'
      BY <1>2, <1>4, <2>4, <3>1, Undisturbed
    <3>2. RowAt(c)'
      <4>1. Unstarted(c, req[c].mode)'
        BY <1>2, <2>2 DEF Unstarted, Row
      <4>2. sms[c] = "none"
        BY <1>9 DEF SmsInv, Progress, SmsAt, BeforeSubmission
      <4>3. QED
        BY <1>2, <1>9, <4>1, <4>2 DEF RowAt
    <3>3. SmsAt(c)'
      BY <1>2, <1>4, <1>9 DEF SmsInv, Progress, SmsAt
    <3>4. QED
      BY <3>1, <3>2, <3>3 DEF Progress
  <2>7. QED
    BY <1>5, <1>6, <1>7, <2>5, <2>6 DEF SmsInv
<1>10. CASE ~(at[c] = "claiming" /\ Matches(q))
  <2>1. \A d \in Callbacks : Owns(d)' => Owns(d)
    BY <1>8, <1>10
  <2>2. \A d \in Callbacks \ {c} : Owns(d) => op'[req[d].message] = op[req[d].message]
    BY <1>1, OwnersUndisturbed, OwnersAreAsked
  <2>3. Ownership'
    BY <1>1, <1>2, <2>1, RowsAdvance, OwnersAreAsked DEF SmsInv, Ownership, Row, Modes
  <2>4. Progress'
    <3>1. ASSUME NEW d \in Callbacks, d # c
          PROVE  RowAt(d)' /\ SmsAt(d)'
      BY <1>2, <1>4, <2>2, <3>1, Undisturbed
    <3>2. RowAt(c)'
      <4>1. CASE Matches(q)
        <5>1. Stepped(q, op[req[c].message], op'[req[c].message])
          BY <1>1, <1>3, <4>1, RowStep
        <5>2. CASE at[c] \in {"marking", "consuming"}
          <6>1. q.kind \in {"mark", "consume"} /\ sms[c] = "none"
            BY <1>1, <5>2 DEF SmsInv, Places, Progress, SmsAt, BeforeSubmission
          <6>2. Started(c)'
            BY <1>1, <1>2, <5>1, <6>1 DEF Stepped, Started, Row
          <6>3. QED
            BY <1>2, <1>4, <4>1, <5>2, <6>1, <6>2 DEF RowAt
        <5>3. CASE at[c] = "excusing"
          <6>1. q.kind = "before_send" /\ sms[c] = "none"
            BY <1>1, <5>3 DEF SmsInv, Places, Progress, SmsAt, BeforeSubmission
          <6>2. Closed(c)'
            BY <1>1, <1>2, <5>1, <6>1 DEF Stepped, Closed, Row
          <6>3. QED
            BY <1>2, <5>3, <6>1, <6>2 DEF RowAt
        <5>4. CASE at[c] = "recording"
          <6>1. q.kind = "after_send"
            BY <1>1, <5>4 DEF SmsInv, Places
          <6>2. Row(c)' = [mode |-> req[c].mode, state |-> call[c].outcome, started |-> TRUE]
            BY <1>1, <1>2, <5>1, <6>1 DEF Stepped, Row
          <6>3. QED
            BY <1>2, <1>4, <5>4, <6>2 DEF RowAt
        <5>5. QED
          BY <1>3, <1>10, <4>1, <5>2, <5>3, <5>4 DEF Awaiting
      <4>2. CASE ~Matches(q)
        <5>1. Row(c)' = Row(c)
          BY <1>1, <1>2, <1>3, <4>2, RowStep DEF Row
        <5>2. call'[c].result \notin {"true", "sent"}
          BY <1>4, <4>2
        <5>3. RowAt(c)
          BY DEF SmsInv, Progress
        <5>4. QED
          BY <1>2, <1>3, <5>1, <5>2, <5>3 DEF RowAt, Awaiting, Unstarted
      <4>3. QED
        BY <4>1, <4>2
    <3>3. SmsAt(c)'
      BY <1>2, <1>4 DEF SmsInv, Progress, SmsAt, Truth
    <3>4. QED
      BY <3>1, <3>2, <3>3 DEF Progress
  <2>5. QED
    BY <1>5, <1>6, <1>7, <2>3, <2>4 DEF SmsInv
<1>11. QED
  BY <1>9, <1>10

\* A call nobody waits for executes.
LEMMA ExecuteLateStep ==
  ASSUME SmsInv, NEW q \in late, ExecuteLate(q)
  PROVE  SmsInv'
<1> DEFINE c == q.caller
<1>1. Issued(q) /\ Run(q) /\ c \in Callbacks
  BY LateIsIssued DEF ExecuteLate, Issued, Calls
<1>2. at' = at /\ req' = req /\ call' = call /\ sms' = sms /\ late' = late \ {q}
  BY DEF ExecuteLate
<1>3. TypeOK' /\ Bindings' /\ Outcomes'
  BY <1>1, <1>2, CallsBind, CallsAreTrue DEF SmsInv, TypeOK
<1>4. Places' /\ LateCalls'
  BY <1>2 DEF SmsInv, Places, LateCalls, Truth
<1>5. \A d \in Callbacks : Owns(d)' => Owns(d)
  BY <1>2 DEF Owns
<1>6. Ownership'
  BY <1>1, <1>2, <1>5, RowsAdvance, OwnersAreAsked DEF SmsInv, Ownership, Row, Modes
<1>7. Progress'
  <2>1. ASSUME NEW d \in Callbacks, d # c
        PROVE  RowAt(d)' /\ SmsAt(d)'
    <3>1. Owns(d) => op'[req[d].message] = op[req[d].message]
      BY <1>1, <2>1, OwnersUndisturbed, OwnersAreAsked
    <3>2. QED
      BY <1>2, <3>1, Undisturbed
  <2>2. at[c] \in {"excusing", "failed_unclaimed", "failed_unstarted", "unfinalized", "dead"}
    BY DEF SmsInv, LateCalls
  <2>3. RowAt(c) /\ SmsAt(c)
    BY <1>1 DEF SmsInv, Progress
  <2>4. req[c].message \in Messages
    BY <1>1 DEF Issued
  <2>5. Closed(c) => Closed(c)'
    BY <1>1, <1>2, <2>4, RowsAdvance DEF Closed, Row
  <2>6. Row(c).started => Row(c)'.started
    BY <1>1, <1>2, <2>4, RowsAdvance DEF Row
  <2>7. RowAt(c)' /\ SmsAt(c)'
    BY <1>2, <2>2, <2>3, <2>5, <2>6 DEF RowAt, SmsAt
  <2>8. QED
    BY <2>1, <2>7 DEF Progress
<1>8. QED
  BY <1>3, <1>4, <1>6, <1>7 DEF SmsInv

\* A handler goes to another place, with or without a call, and perhaps
\* leaves the call it awaited behind.
LEMMA MovesOn ==
  ASSUME SmsInv, NEW c \in Callbacks, NEW place, NEW k,
         GoTo(c, place), call' = [call EXCEPT ![c] = k],
         UNCHANGED <<op, auth, req, sms>>,
         late \subseteq late',
         \A q \in late' \ late : call[c].result = "sent" /\ q = Pending(c),
         TypeOK',
         place # "claiming",
         at[c] \in Gone => place \in Gone,
         place \in Awaiting <=> k.result # "none",
         place = "marking" => k.kind = "mark" /\ req[c].mode = "mock",
         place = "consuming" => k.kind = "consume" /\ req[c].mode = "controlled_live",
         place = "excusing" => k.kind = "before_send" /\ req[c].mode = "controlled_live",
         place = "recording" => k.kind = "after_send",
         place \in Owning => Owns(c),
         \A q \in late' : q.caller = c =>
           /\ place \in {"excusing", "failed_unclaimed", "failed_unstarted", "unfinalized", "dead"}
           /\ place = "excusing" => q.kind = "consume"
           /\ q.kind = "claim" => place \in {"failed_unclaimed", "dead"},
         RowAt(c)', SmsAt(c)'
  PROVE  SmsInv'
<1>1. /\ at'[c] = place /\ call'[c] = k
      /\ \A d \in Callbacks \ {c} : at'[d] = at[d] /\ call'[d] = call[d]
  BY DEF GoTo, SmsInv, TypeOK
<1>2. Bindings' /\ Outcomes'
  BY DEF SmsInv, Bindings, Outcomes, ConsumedBy
<1>3. Places'
  BY <1>1 DEF SmsInv, Places, Gone
<1>4. \A q \in late' \ late : Issued(q) /\ q.caller = c
  BY PendingIsIssued DEF Pending
<1>5. LateCalls'
  <2>1. ASSUME NEW q \in late'
        PROVE  q.caller \in Callbacks
    BY <1>4, <2>1 DEF SmsInv, TypeOK, Calls
  <2>2. QED
    BY <1>1, <1>4, <2>1 DEF SmsInv, LateCalls, Issued, Truth
<1>6. \A d \in Callbacks : Owns(d)' => Owns(d)
  BY <1>1, <1>4 DEF Owns, Issued
<1>7. Ownership'
  BY <1>6 DEF SmsInv, Ownership, Row
<1>8. Progress'
  BY <1>1, Undisturbed DEF Progress
<1>9. QED
  BY <1>2, <1>3, <1>5, <1>7, <1>8 DEF SmsInv

PlaceNames == Answers \cup
  {"idle", "claiming", "marking", "consuming", "excusing", "starting", "sending", "recording"}
CallStates == [kind : Kinds \cup {"none"}, outcome : Final \cup {"none"},
               result : {"none", "sent", "true", "false", "raised"}]

\* Such a step keeps the types.
LEMMA MovesOnType ==
  ASSUME SmsInv, NEW c \in Callbacks, NEW place \in PlaceNames, NEW k \in CallStates,
         GoTo(c, place), call' = [call EXCEPT ![c] = k],
         UNCHANGED <<op, auth, req, sms>>,
         \A q \in late' \ late : call[c].result = "sent" /\ q = Pending(c)
  PROVE  TypeOK'
<1>1. \A q \in late' : q \in Calls
  BY PendingIsIssued DEF SmsInv, TypeOK, Issued
<1>2. at' \in [Callbacks -> PlaceNames]
  BY DEF GoTo, SmsInv, TypeOK, PlaceNames
<1>3. call' \in [Callbacks -> CallStates]
  BY DEF SmsInv, TypeOK, CallStates
<1>4. QED
  BY <1>1, <1>2, <1>3 DEF SmsInv, TypeOK, PlaceNames, CallStates

\* The answer a handler goes on with, and what it leaves behind.
Settled(c, answer) ==
  \/ answer = call[c].result /\ answer \notin {"none", "sent"} /\ late' = late
  \/ /\ answer = "error"
     /\ call[c].result # "none"
     /\ late' = late \cup (IF call[c].result = "sent" THEN {Pending(c)} ELSE {})

\* A handler goes on with the answer of its call, or with an error.
LEMMA GoesOn ==
  ASSUME SmsInv, NEW c \in Callbacks, NEW answer, Settled(c, answer), GoOn(c, answer),
         UNCHANGED <<op, auth, req, sms>>
  PROVE  SmsInv'
<1>1. /\ call[c] \in CallStates
      /\ RowAt(c) /\ SmsAt(c)
      /\ req[c].mode \in Modes
      /\ call' = [call EXCEPT ![c] = call'[c]]
  <2>1. at[c] \notin Gone
    BY DEF GoOn, Gone
  <2>2. call' = [call EXCEPT ![c] = call'[c]]
    BY DEF GoOn, AfterClaim, AskToSend, AfterMark, AfterConsume, AfterExcuse, AfterRecord,
       Ask, Leave, SmsInv, TypeOK
  <2>3. QED
    BY <2>1, <2>2 DEF SmsInv, TypeOK, Places, Progress, CallStates
<1>2. /\ late \subseteq late'
      /\ \A q \in late' \ late : call[c].result = "sent" /\ q = Pending(c)
  BY DEF Settled
<1>3. \A q \in late' : q.caller = c => q \in late \/ q.kind = call[c].kind
  BY <1>2 DEF Pending
<1>4. NoCall \in CallStates /\ \A kind \in Kinds, outcome \in Final \cup {"none"} :
        [kind |-> kind, outcome |-> outcome, result |-> "sent"] \in CallStates
  BY DEF NoCall, CallStates
<1>5. CASE at[c] = "claiming"
  <2>1. AfterClaim(c, answer) /\ call[c].kind = "claim" /\ sms[c] = "none"
    BY <1>1, <1>5 DEF GoOn, SmsInv, Places, SmsAt, BeforeSubmission
  <2>2. \A q \in late' : q.caller = c => q.kind = "claim" /\ answer = "error"
    BY <1>2, <1>3, <1>5, <2>1 DEF SmsInv, LateCalls, Settled
  <2>3. CASE answer = "true"
    <3> DEFINE place == IF req[c].mode = "mock" THEN "marking" ELSE "consuming"
               k == [kind |-> IF req[c].mode = "mock" THEN "mark" ELSE "consume",
                     outcome |-> "none", result |-> "sent"]
    <3>1. GoTo(c, place) /\ call' = [call EXCEPT ![c] = k]
      BY <2>1, <2>3 DEF AfterClaim, AskToSend, Ask
    <3>2. at'[c] = place /\ call'[c] = k
      BY <3>1 DEF GoTo, SmsInv, TypeOK
    <3>3. call[c].result = "true" /\ Owns(c) /\ Unstarted(c, req[c].mode)
      BY <1>1, <1>5, <2>3 DEF Settled, Owns, RowAt
    <3>4. RowAt(c)' /\ SmsAt(c)'
      BY <2>1, <3>2, <3>3 DEF RowAt, SmsAt, Unstarted, Row
    <3>5. place \in PlaceNames /\ k \in CallStates
      BY <1>4 DEF PlaceNames, Kinds
    <3>6. TypeOK'
      BY <1>2, <3>1, <3>5, MovesOnType
    <3>7. place \in {"marking", "consuming"} /\ k.result = "sent"
      OBVIOUS
    <3>8. /\ place = "marking" => k.kind = "mark" /\ req[c].mode = "mock"
          /\ place = "consuming" => k.kind = "consume" /\ req[c].mode = "controlled_live"
      BY <1>1 DEF Modes
    <3> HIDE DEF place, k
    <3>9. QED
      BY <1>2, <1>5, <2>2, <2>3, <3>1, <3>3, <3>4, <3>6, <3>7, <3>8, MovesOn DEF Gone, Awaiting
  <2>4. CASE answer # "true"
    <3> DEFINE place == IF answer = "false" THEN "duplicate" ELSE "failed_unclaimed"
    <3>1. GoTo(c, place) /\ call' = [call EXCEPT ![c] = NoCall]
      BY <2>1, <2>4 DEF AfterClaim, Leave
    <3>2. at'[c] = place /\ call'[c] = NoCall
      BY <3>1 DEF GoTo, SmsInv, TypeOK
    <3>3. place \in {"duplicate", "failed_unclaimed"} /\ (answer = "error" => place = "failed_unclaimed")
      OBVIOUS
    <3> HIDE DEF place
    <3>4. RowAt(c)' /\ SmsAt(c)'
      BY <2>1, <3>2, <3>3 DEF RowAt, SmsAt
    <3>5. TypeOK'
      <4>1. place \in PlaceNames
        BY <3>3 DEF PlaceNames, Answers
      <4>2. QED
        BY <1>2, <1>4, <3>1, <4>1, MovesOnType
    <3>6. QED
      BY <1>2, <1>5, <2>2, <3>1, <3>3, <3>4, <3>5, MovesOn DEF Gone, Awaiting, Owning, NoCall
  <2>5. QED
    BY <2>3, <2>4
<1>6. CASE at[c] = "marking"
  <2> DEFINE place == IF answer = "true" THEN "starting" ELSE "unfinalized"
  <2>1. /\ GoTo(c, place) /\ call' = [call EXCEPT ![c] = NoCall]
        /\ call[c].kind = "mark" /\ sms[c] = "none"
    BY <1>1, <1>6 DEF GoOn, AfterMark, Leave, SmsInv, Places, SmsAt, BeforeSubmission
  <2>2. \A q \in late' : q.caller = c => q.kind = "mark" /\ answer = "error"
    BY <1>2, <1>3, <1>6, <2>1 DEF SmsInv, LateCalls, Settled
  <2>3. at'[c] = place /\ call'[c] = NoCall
    BY <2>1 DEF GoTo, SmsInv, TypeOK
  <2>4. /\ place \in {"starting", "unfinalized"}
        /\ place = "starting" => answer = "true"
        /\ answer = "error" => place = "unfinalized"
    OBVIOUS
  <2> HIDE DEF place
  <2>5. place = "starting" => Started(c)
    BY <1>1, <1>6, <2>4 DEF Settled, RowAt
  <2>6. RowAt(c)' /\ SmsAt(c)'
    BY <2>1, <2>3, <2>4, <2>5 DEF RowAt, SmsAt, Started, Row
  <2>7. TypeOK'
    <3>1. place \in PlaceNames
      BY <2>4 DEF PlaceNames, Answers
    <3>2. QED
      BY <1>2, <1>4, <2>1, <3>1, MovesOnType
  <2>8. QED
    BY <1>2, <1>6, <2>1, <2>2, <2>4, <2>6, <2>7, MovesOn DEF Gone, Awaiting, Owning, Owns, NoCall
<1>7. CASE at[c] = "consuming"
  <2>1. /\ AfterConsume(c, answer) /\ call[c].kind = "consume" /\ sms[c] = "none"
        /\ req[c].mode = "controlled_live"
    BY <1>1, <1>7 DEF GoOn, SmsInv, Places, SmsAt, BeforeSubmission
  <2>2. \A q \in late' : q.caller = c => q.kind = "consume" /\ answer = "error"
    BY <1>2, <1>3, <1>7, <2>1 DEF SmsInv, LateCalls, Settled
  <2>3. CASE answer = "true"
    <3>1. GoTo(c, "starting") /\ call' = [call EXCEPT ![c] = NoCall]
      BY <2>1, <2>3 DEF AfterConsume, Leave
    <3>2. at'[c] = "starting" /\ call'[c] = NoCall
      BY <3>1 DEF GoTo, SmsInv, TypeOK
    <3>3. RowAt(c)' /\ SmsAt(c)'
      BY <1>1, <1>7, <2>1, <2>3, <3>2 DEF RowAt, SmsAt, Started, Row, Settled
    <3>4. TypeOK'
      BY <1>2, <1>4, <3>1, MovesOnType DEF PlaceNames
    <3>5. QED
      BY <1>2, <1>7, <2>2, <2>3, <3>1, <3>3, <3>4, MovesOn DEF Gone, Awaiting, Owning, Owns, NoCall
  <2>4. CASE answer # "true"
    <3> DEFINE k == [kind |-> "before_send", outcome |-> "none", result |-> "sent"]
    <3>1. GoTo(c, "excusing") /\ call' = [call EXCEPT ![c] = k]
      BY <2>1, <2>4 DEF AfterConsume, Ask
    <3>2. at'[c] = "excusing" /\ call'[c] = k
      BY <3>1 DEF GoTo, SmsInv, TypeOK
    <3>3. RowAt(c)' /\ SmsAt(c)'
      BY <2>1, <3>2 DEF RowAt, SmsAt
    <3>4. TypeOK'
      BY <1>2, <1>4, <3>1, MovesOnType DEF PlaceNames, Kinds
    <3>5. QED
      BY <1>2, <1>7, <2>1, <2>2, <3>1, <3>3, <3>4, MovesOn DEF Gone, Awaiting, Owning, Owns
  <2>5. QED
    BY <2>3, <2>4
<1>8. CASE at[c] = "excusing"
  <2> DEFINE place == IF answer = "true" THEN "failed_unstarted" ELSE "unfinalized"
  <2>1. /\ GoTo(c, place) /\ call' = [call EXCEPT ![c] = NoCall]
        /\ call[c].kind = "before_send" /\ sms[c] = "none"
    BY <1>1, <1>8 DEF GoOn, AfterExcuse, Leave, SmsInv, Places, SmsAt, BeforeSubmission
  <2>2. \A q \in late' : q.caller = c => q.kind \in {"consume", "before_send"}
    BY <1>2, <1>3, <1>8, <2>1 DEF SmsInv, LateCalls
  <2>3. at'[c] = place /\ call'[c] = NoCall
    BY <2>1 DEF GoTo, SmsInv, TypeOK
  <2>4. /\ place \in {"failed_unstarted", "unfinalized"}
        /\ place = "failed_unstarted" => answer = "true"
    OBVIOUS
  <2> HIDE DEF place
  <2>5. place = "failed_unstarted" => Closed(c)
    BY <1>1, <1>8, <2>4 DEF Settled, RowAt
  <2>6. RowAt(c)' /\ SmsAt(c)'
    BY <2>1, <2>3, <2>4, <2>5 DEF RowAt, SmsAt, Closed, Row
  <2>7. TypeOK'
    <3>1. place \in PlaceNames
      BY <2>4 DEF PlaceNames, Answers
    <3>2. QED
      BY <1>2, <1>4, <2>1, <3>1, MovesOnType
  <2>8. QED
    BY <1>2, <1>8, <2>1, <2>2, <2>4, <2>6, <2>7, MovesOn DEF Gone, Awaiting, Owning, Owns, NoCall
<1>9. CASE at[c] = "recording"
  <2> DEFINE place == IF answer # "true" THEN "unfinalized"
                      ELSE IF call[c].outcome = "accepted" THEN "accepted" ELSE "failed_started"
  <2>1. /\ GoTo(c, place) /\ call' = [call EXCEPT ![c] = NoCall]
        /\ call[c].kind = "after_send"
    BY <1>1, <1>9 DEF GoOn, AfterRecord, Leave, SmsInv, Places
  <2>2. \A q \in late' : q.caller = c => q.kind = "after_send" /\ answer = "error"
    BY <1>2, <1>3, <1>9, <2>1 DEF SmsInv, LateCalls, Settled
  <2>3. at'[c] = place /\ call'[c] = NoCall
    BY <2>1 DEF GoTo, SmsInv, TypeOK
  <2>4. /\ place \in {"unfinalized", "accepted", "failed_started"}
        /\ place = "accepted" => answer = "true" /\ call[c].outcome = "accepted"
        /\ answer = "error" => place = "unfinalized"
    OBVIOUS
  <2> HIDE DEF place
  <2>5. place = "accepted" => Row(c).state = "accepted" /\ sms[c] = "accepted"
    BY <1>1, <1>9, <2>4 DEF Settled, RowAt, SmsAt, Truth
  <2>6. RowAt(c)' /\ SmsAt(c)'
    BY <1>1, <2>3, <2>4, <2>5 DEF RowAt, SmsAt, Row, BeforeSubmission
  <2>7. TypeOK'
    <3>1. place \in PlaceNames
      BY <2>4 DEF PlaceNames, Answers
    <3>2. QED
      BY <1>2, <1>4, <2>1, <3>1, MovesOnType
  <2>8. QED
    BY <1>2, <1>9, <2>1, <2>2, <2>4, <2>6, <2>7, MovesOn DEF Gone, Awaiting, Owning, Owns, NoCall
<1>10. QED
  BY <1>5, <1>6, <1>7, <1>8, <1>9 DEF GoOn

\* A callback arrives.
LEMMA ReceiveStep ==
  ASSUME SmsInv, NEW c \in Callbacks, Receive(c)
  PROVE  SmsInv'
<1>1. PICK m \in Messages, mode \in Modes, a \in Authorizations :
        req' = [req EXCEPT ![c] = [message |-> m, mode |-> mode, authorization |-> a]]
  BY DEF Receive
<1> DEFINE k == [kind |-> "claim", outcome |-> "none", result |-> "sent"]
<1>2. /\ at[c] = "idle" /\ op' = op /\ auth' = auth /\ late' = late /\ sms' = sms
      /\ at' = [at EXCEPT ![c] = "claiming"]
      /\ call' = [call EXCEPT ![c] = k]
  BY DEF Receive, GoTo
<1>3. /\ at'[c] = "claiming" /\ call'[c] = k
      /\ req'[c] = [message |-> m, mode |-> mode, authorization |-> a]
      /\ \A d \in Callbacks \ {c} : at'[d] = at[d] /\ call'[d] = call[d] /\ req'[d] = req[d]
  BY <1>1, <1>2 DEF SmsInv, TypeOK
<1>4. sms[c] = "none" /\ \A q \in late : q.caller \in Callbacks \ {c}
  BY <1>2 DEF SmsInv, Progress, SmsAt, BeforeSubmission, LateCalls, TypeOK, Calls
<1>5. TypeOK'
  <2>1. at' \in [Callbacks -> PlaceNames]
    BY <1>2 DEF SmsInv, TypeOK, PlaceNames
  <2>2. k \in CallStates
    BY DEF CallStates, Kinds
  <2>3. call' \in [Callbacks -> CallStates]
    BY <1>2, <2>2 DEF SmsInv, TypeOK, CallStates
  <2>4. req' \in [Callbacks -> [message : Messages \cup {None}, mode : Modes \cup {"none"},
                                authorization : Authorizations \cup {None}]]
    BY <1>1 DEF SmsInv, TypeOK
  <2>5. QED
    BY <1>2, <2>1, <2>3, <2>4 DEF SmsInv, TypeOK, PlaceNames, CallStates
<1>6. Places'
  BY <1>3 DEF SmsInv, Places, Gone, Awaiting
<1>7. LateCalls'
  BY <1>2, <1>3, <1>4 DEF SmsInv, LateCalls, Truth
<1>8. \A d \in Callbacks : Owns(d)' => Owns(d) /\ d # c
  <2>1. ~Owns(c)'
    BY <1>2, <1>3, <1>4 DEF Owns, Owning
  <2>2. QED
    BY <1>2, <1>3, <2>1 DEF Owns
<1>9. Ownership'
  BY <1>2, <1>3, <1>8 DEF SmsInv, Ownership, Row
<1>10. Progress'
  <2>1. RowAt(c)' /\ SmsAt(c)'
    BY <1>2, <1>3, <1>4 DEF RowAt, SmsAt
  <2>2. \A d \in Callbacks \ {c} : RowAt(d)' /\ SmsAt(d)'
    BY <1>2, <1>3, Undisturbed
  <2>3. QED
    BY <2>1, <2>2 DEF Progress
<1>11. Bindings'
  BY <1>2 DEF SmsInv, Bindings, ConsumedBy
<1>12. Outcomes'
  BY <1>2, <1>3, <1>4 DEF SmsInv, Outcomes
<1>13. QED
  BY <1>5, <1>6, <1>7, <1>9, <1>10, <1>11, <1>12 DEF SmsInv

\* It is refused.
LEMMA RefuseStep ==
  ASSUME SmsInv, NEW c \in Callbacks, Refuse(c)
  PROVE  SmsInv'
<1>1. /\ at[c] = "idle" /\ GoTo(c, "refused") /\ call' = [call EXCEPT ![c] = NoCall]
      /\ UNCHANGED <<op, auth, req, sms>> /\ late' = late
  BY DEF Refuse, Leave
<1>2. at'[c] = "refused" /\ call'[c] = NoCall
  BY <1>1 DEF GoTo, SmsInv, TypeOK
<1>3. sms[c] = "none" /\ \A q \in late : q.caller # c
  BY <1>1 DEF SmsInv, Progress, SmsAt, BeforeSubmission, LateCalls
<1>4. RowAt(c)' /\ SmsAt(c)'
  BY <1>1, <1>2, <1>3 DEF RowAt, SmsAt
<1>5. TypeOK'
  BY <1>1, MovesOnType DEF PlaceNames, Answers, NoCall, CallStates
<1>6. QED
  BY <1>1, <1>3, <1>4, <1>5, MovesOn DEF Gone, Awaiting, Owning, NoCall

\* A started handler asks for its outcome to be recorded.
LEMMA RecordStep ==
  ASSUME SmsInv, NEW c \in Callbacks, NEW outcome, at[c] \in {"starting", "sending"},
         Truth(c, outcome), Record(c, outcome), sms' = sms
  PROVE  SmsInv'
<1> DEFINE k == [kind |-> "after_send", outcome |-> outcome, result |-> "sent"]
<1>1. /\ GoTo(c, "recording") /\ call' = [call EXCEPT ![c] = k]
      /\ UNCHANGED <<op, auth, req, sms>> /\ late' = late
  BY DEF Record, Ask
<1>2. at'[c] = "recording" /\ call'[c] = k
  BY <1>1 DEF GoTo, SmsInv, TypeOK
<1>3. Started(c) /\ \A q \in late : q.caller # c
  BY DEF SmsInv, Progress, RowAt, LateCalls
<1>4. RowAt(c)' /\ SmsAt(c)'
  BY <1>1, <1>2, <1>3 DEF RowAt, SmsAt, Started, Row, Truth, BeforeSubmission
<1>5. TypeOK'
  BY <1>1, MovesOnType DEF PlaceNames, Kinds, CallStates, Truth
<1>6. QED
  BY <1>1, <1>3, <1>4, <1>5, MovesOn DEF Gone, Awaiting, Owning, Owns

\* The process stops.
LEMMA DieStep ==
  ASSUME SmsInv, NEW c \in Callbacks, Die(c)
  PROVE  SmsInv'
<1>1. /\ at[c] \notin Answers \cup {"idle"}
      /\ GoTo(c, "dead") /\ call' = [call EXCEPT ![c] = NoCall]
      /\ UNCHANGED <<op, auth, req, sms>>
      /\ late \subseteq late'
      /\ \A q \in late' \ late : call[c].result = "sent" /\ q = Pending(c)
  BY DEF Die, Leave
<1>2. at'[c] = "dead" /\ call'[c] = NoCall
  BY <1>1 DEF GoTo, SmsInv, TypeOK
<1>3. RowAt(c)' /\ SmsAt(c)'
  BY <1>1, <1>2 DEF SmsInv, Progress, RowAt, SmsAt, Row, BeforeSubmission
<1>4. TypeOK'
  BY <1>1, MovesOnType DEF PlaceNames, Answers, NoCall, CallStates
<1>5. QED
  BY <1>1, <1>3, <1>4, MovesOn DEF Gone, Awaiting, Owning, Answers, NoCall

\* The SMS is submitted.
LEMMA SubmitStep ==
  ASSUME SmsInv, NEW c \in Callbacks, Submit(c)
  PROVE  SmsInv'
<1>1. /\ at[c] = "starting" /\ UNCHANGED <<op, auth, req, call, late>>
      /\ at' = [at EXCEPT ![c] = "sending"] /\ sms' = [sms EXCEPT ![c] = "submitted"]
  BY DEF Submit, GoTo
<1>2. /\ at'[c] = "sending" /\ sms'[c] = "submitted"
      /\ \A d \in Callbacks \ {c} : at'[d] = at[d] /\ sms'[d] = sms[d]
  BY <1>1 DEF SmsInv, TypeOK
<1>3. Started(c) /\ sms[c] = "none" /\ \A q \in late : q.caller \in Callbacks \ {c}
  BY <1>1 DEF SmsInv, Progress, RowAt, SmsAt, BeforeSubmission, LateCalls, TypeOK, Calls
<1>4. TypeOK'
  <2>1. at' \in [Callbacks -> PlaceNames]
    BY <1>1 DEF SmsInv, TypeOK, PlaceNames
  <2>2. QED
    BY <1>1, <2>1 DEF SmsInv, TypeOK, PlaceNames
<1>5. Places' /\ LateCalls' /\ Bindings'
  BY <1>1, <1>2, <1>3
     DEF SmsInv, Places, LateCalls, Bindings, ConsumedBy, Truth, Gone, Awaiting
<1>6. \A d \in Callbacks : Owns(d)' => Owns(d)
  BY <1>1, <1>2 DEF Owns, Owning
<1>7. Ownership'
  BY <1>1, <1>6 DEF SmsInv, Ownership, Row
<1>8. Progress'
  <2>1. RowAt(c)' /\ SmsAt(c)'
    BY <1>1, <1>2, <1>3 DEF RowAt, SmsAt, Started, Row, BeforeSubmission
  <2>2. \A d \in Callbacks \ {c} : RowAt(d)' /\ SmsAt(d)'
    BY <1>1, <1>2, Undisturbed
  <2>3. QED
    BY <2>1, <2>2 DEF Progress
<1>9. Outcomes'
  <2>1. ASSUME NEW m \in Messages, op[m].state = "accepted"
        PROVE  \E d \in Callbacks : req[d].message = m /\ sms'[d] = "accepted"
    BY <1>2, <1>3, <2>1 DEF SmsInv, Outcomes
  <2>2. ASSUME NEW m \in Messages, op[m].state = "definitive_failed",
               NEW d \in Callbacks, req[d].message = m
        PROVE  sms'[d] \in {"none", "rejected"}
    BY <1>2, <1>3, <2>2 DEF SmsInv, Outcomes, Started, Row
  <2>3. QED
    BY <1>1, <2>1, <2>2 DEF Outcomes
<1>10. QED
  BY <1>4, <1>5, <1>7, <1>8, <1>9 DEF SmsInv

\* EVERY8D handles it.
LEMMA ProviderHandlesStep ==
  ASSUME SmsInv, NEW c \in Callbacks, NEW verdict \in {"accepted", "rejected"},
         ProviderHandles(c, verdict)
  PROVE  SmsInv'
<1>1. /\ sms[c] = "submitted" /\ UNCHANGED <<op, auth, at, req, call, late>>
      /\ sms' = [sms EXCEPT ![c] = verdict]
  BY DEF ProviderHandles
<1>2. /\ sms'[c] = verdict
      /\ \A d \in Callbacks \ {c} : sms'[d] = sms[d]
  BY <1>1 DEF SmsInv, TypeOK
<1>3. TypeOK' /\ Places' /\ Bindings'
  BY <1>1 DEF SmsInv, TypeOK, Places, Bindings, ConsumedBy
<1>4. \A outcome : Truth(c, outcome) => Truth(c, outcome)'
  BY <1>1 DEF Truth, Final
<1>5. LateCalls'
  <2>1. ASSUME NEW q \in late
        PROVE  q.caller \in Callbacks
    BY <2>1 DEF SmsInv, TypeOK, Calls
  <2>2. QED
    BY <1>1, <1>2, <1>4, <2>1 DEF SmsInv, LateCalls, Truth
<1>6. \A d \in Callbacks : Owns(d)' => Owns(d)
  BY <1>1, <1>2 DEF Owns
<1>7. Ownership'
  BY <1>1, <1>6 DEF SmsInv, Ownership, Row
<1>8. Progress'
  <2>1. RowAt(c) /\ SmsAt(c)
    BY DEF SmsInv, Progress
  <2>2. RowAt(c)'
    BY <1>1, <2>1 DEF RowAt, Row, Started, Unstarted, Closed
  <2>3. SmsAt(c)'
    BY <1>1, <1>4, <2>1 DEF SmsAt
  <2>4. \A d \in Callbacks \ {c} : RowAt(d)' /\ SmsAt(d)'
    BY <1>1, <1>2, Undisturbed
  <2>5. QED
    BY <2>2, <2>3, <2>4 DEF Progress
<1>9. Outcomes'
  <2>1. ASSUME NEW m \in Messages, op[m].state = "accepted"
        PROVE  \E d \in Callbacks : req[d].message = m /\ sms'[d] = "accepted"
    BY <1>1, <1>2, <2>1 DEF SmsInv, Outcomes
  <2>2. ASSUME NEW m \in Messages, op[m].state = "definitive_failed",
               NEW d \in Callbacks, req[d].message = m
        PROVE  sms'[d] \in {"none", "rejected"}
    BY <1>1, <1>2, <2>2 DEF SmsInv, Outcomes
  <2>3. QED
    BY <1>1, <2>1, <2>2 DEF Outcomes
<1>10. QED
  BY <1>3, <1>5, <1>7, <1>8, <1>9 DEF SmsInv

\* An operator updates an authorization.
LEMMA AdministerStep ==
  ASSUME SmsInv, NEW a \in Authorizations, Administer(a)
  PROVE  SmsInv'
<1>1. UNCHANGED <<op, at, req, call, late, sms>>
  BY DEF Administer
<1>2. PICK new \in [state : {"created", "armed", "revoked"}, fits : BOOLEAN, by : {None}] :
        Protected(auth[a], new) /\ auth' = [auth EXCEPT ![a] = new]
  BY DEF Administer
<1>3. auth[a].state # "consumed" /\ new.state # "consumed"
  BY <1>2 DEF Protected
<1>4. /\ auth'[a] = new
      /\ \A b \in Authorizations \ {a} : auth'[b] = auth[b]
  BY <1>2 DEF SmsInv, TypeOK
<1>5. TypeOK'
  BY <1>1, <1>2 DEF SmsInv, TypeOK
<1>6. ASSUME NEW m \in Messages
      PROVE  /\ ConsumedBy(m)' = ConsumedBy(m)
             /\ \A b \in ConsumedBy(m) : auth'[b] = auth[b]
  BY <1>3, <1>4 DEF ConsumedBy
<1>7. Bindings'
  <2>1. ASSUME NEW m \in Messages
        PROVE  (IF op[m].mode = "controlled_live" /\ op[m].started
                THEN \E x \in Authorizations : ConsumedBy(m)' = {x} /\ auth'[x].fits
                ELSE ConsumedBy(m)' = {})
    BY <1>6 DEF SmsInv, Bindings
  <2>2. QED
    BY <1>1, <2>1 DEF Bindings
<1>8. Places' /\ LateCalls' /\ Ownership' /\ Outcomes'
  BY <1>1 DEF SmsInv, Places, LateCalls, Ownership, Outcomes, Truth, Owns, Row
<1>9. Progress'
  BY <1>1, Undisturbed DEF Progress
<1>10. QED
  BY <1>5, <1>7, <1>8, <1>9 DEF SmsInv

\* The other steps of a handler.
LEMMA HandlerStep ==
  ASSUME SmsInv, NEW c \in Callbacks,
         \/ Answered(c) \/ CallFails(c) \/ ProviderUnavailable(c) \/ ProviderAnswers(c)
         \/ \E outcome \in Final : AuthenticationFails(c, outcome)
  PROVE  SmsInv'
<1>1. at[c] = "starting" => sms[c] = "none"
  BY DEF SmsInv, Progress, SmsAt, BeforeSubmission
<1>2. CASE Answered(c)
  BY <1>2, GoesOn DEF Answered, Settled
<1>3. CASE CallFails(c)
  BY <1>3, GoesOn DEF CallFails, Settled
<1>4. CASE ProviderUnavailable(c)
  <2>1. Truth(c, "definitive_failed")
    BY <1>1, <1>4 DEF ProviderUnavailable, Truth, Final
  <2>2. QED
    BY <1>4, <2>1, RecordStep DEF ProviderUnavailable
<1>5. CASE ProviderAnswers(c)
  <2>1. sms[c] \in {"none", "submitted", "accepted", "rejected"}
    BY DEF SmsInv, TypeOK
  <2>2. Truth(c, Classified("unknown"))
    BY DEF Truth, Final, Classified
  <2>3. sms[c] # "submitted" => Truth(c, Classified(sms[c]))
    BY <2>1 DEF Truth, Final, Classified
  <2>4. QED
    BY <1>5, <2>2, <2>3, RecordStep DEF ProviderAnswers
<1>6. CASE \E outcome \in Final : AuthenticationFails(c, outcome)
  <2>1. PICK outcome \in Final : AuthenticationFails(c, outcome)
    BY <1>6
  <2>2. Truth(c, outcome)
    BY <1>1, <2>1 DEF AuthenticationFails, Truth
  <2>3. QED
    BY <2>1, <2>2, RecordStep DEF AuthenticationFails
<1>7. QED
  BY <1>2, <1>3, <1>4, <1>5, <1>6

\* Every step preserves the invariant.
LEMMA SmsStep ==
  ASSUME SmsInv, [Next]_vars
  PROVE  SmsInv'
<1>1. CASE UNCHANGED vars
  BY <1>1 DEF vars, SmsInv, TypeOK, Places, LateCalls, Ownership, Progress, Bindings, Outcomes,
     ConsumedBy, RowAt, SmsAt, Truth, Owns, Row, Unstarted, Started, Closed
<1>2. CASE \E q \in late : ExecuteLate(q)
  BY <1>2, ExecuteLateStep
<1>3. CASE \E a \in Authorizations : Administer(a)
  BY <1>3, AdministerStep
<1>4. ASSUME NEW c \in Callbacks,
             \/ Receive(c) \/ Refuse(c) \/ Execute(c) \/ Answered(c) \/ CallFails(c)
             \/ ProviderUnavailable(c) \/ Submit(c)
             \/ \E outcome \in Final : AuthenticationFails(c, outcome)
             \/ \E verdict \in {"accepted", "rejected"} : ProviderHandles(c, verdict)
             \/ ProviderAnswers(c) \/ Die(c)
      PROVE  SmsInv'
  BY <1>4, ReceiveStep, RefuseStep, ExecuteStep, HandlerStep, SubmitStep, ProviderHandlesStep, DieStep
<1>5. QED
  BY <1>1, <1>2, <1>3, <1>4 DEF Next

-----------------------------------------------------------------------------
(* The theorems *)

\* One callback owns a message's operation from its claim on, and at each of
\* its places the database holds the row that place relies on, whatever call
\* of a handler that gave up still executes.
THEOREM SmsInvariant == Spec => []SmsInv
<1>1. Init => SmsInv
  <2> SUFFICES ASSUME Init
               PROVE  SmsInv
    OBVIOUS
  <2>1. TypeOK
    BY DEF Init, TypeOK, NoRow, NoRequest, NoCall, Answers
  <2>2. /\ \A m \in Messages : op[m] = NoRow /\ ConsumedBy(m) = {}
        /\ \A c \in Callbacks : at[c] = "idle" /\ call[c].result = "none" /\ sms[c] = "none"
        /\ late = {}
    BY DEF Init, ConsumedBy, NoCall
  <2>3. \A c \in Callbacks : ~Owns(c)
    BY <2>2 DEF Owns, Owning
  <2>4. Places /\ LateCalls /\ Ownership /\ Bindings /\ Outcomes
    BY <2>2, <2>3 DEF Places, LateCalls, Ownership, Bindings, Outcomes, Gone, Awaiting, NoRow
  <2>5. Progress
    BY <2>2 DEF Progress, RowAt, SmsAt
  <2>6. QED
    BY <2>1, <2>4, <2>5 DEF SmsInv
<1>2. SmsInv /\ [Next]_vars => SmsInv'
  BY SmsStep
<1>3. QED
  BY <1>1, <1>2, PTL DEF Spec

\* Every column holds one of its values.
THEOREM TypeCorrect == Spec => []TypeOK
<1>1. SmsInv => TypeOK
  BY DEF SmsInv
<1>2. QED
  BY <1>1, SmsInvariant, PTL

\* No SMS is sent twice for a message, none without a consumed authorization
\* of its own, and none is consumed by an operation that did not start.
THEOREM SendAuthorized == Spec => []SendIsAuthorized
<1>1. SmsInv => SendIsAuthorized
  <2> SUFFICES ASSUME SmsInv
               PROVE  SendIsAuthorized
    OBVIOUS
  <2>1. \A c, d \in Callbacks :
          sms[c] # "none" /\ sms[d] # "none" /\ req[c].message = req[d].message => c = d
    BY DEF SmsInv, Ownership, Owns
  <2>2. \A c \in Callbacks : Live(c) => Row(c).mode = "controlled_live" /\ Row(c).started
    BY DEF SmsInv, Ownership, Owns, Live, Progress, RowAt
  <2>3. QED
    BY <2>1, <2>2 DEF SmsInv, Bindings, SendIsAuthorized
<1>2. QED
  BY <1>1, SmsInvariant, PTL

\* What is recorded about an SMS and answered to its callback is true.
THEOREM OutcomesTrue == Spec => []OutcomeIsTrue
<1>1. SmsInv => OutcomeIsTrue
  <2> SUFFICES ASSUME SmsInv
               PROVE  OutcomeIsTrue
    OBVIOUS
  <2>1. ASSUME NEW c \in Callbacks
        PROVE  /\ at[c] = "accepted" => Row(c).state = "accepted" /\ sms[c] = "accepted"
               /\ at[c] = "failed_unstarted" => Row(c).state = "definitive_failed" /\ ~Row(c).started
    BY DEF SmsInv, Progress, RowAt, SmsAt, Closed
  <2>2. QED
    BY <2>1 DEF SmsInv, Outcomes, OutcomeIsTrue
<1>2. QED
  BY <1>1, SmsInvariant, PTL
-----------------------------------------------------------------------------
(* The operations deliver their messages as MessageDelivery promises *)

Said == {"accepted", "failed_unstarted", "failed_started"}

\* A callback told that a started attempt failed left that outcome recorded.
FailedTold ==
  \A c \in Callbacks : at[c] = "failed_started" => Row(c).state \in {"definitive_failed", "ambiguous"}

\* Only the record of a failure leads there, and a final row stays.
LEMMA FailedToldStep ==
  ASSUME SmsInv, FailedTold, [Next]_vars
  PROVE  FailedTold'
<1>1. ASSUME op' = op, \A d \in Callbacks : at'[d] = "failed_started" =>
                                              at[d] = "failed_started" /\ req'[d] = req[d]
      PROVE  FailedTold'
  BY <1>1 DEF FailedTold, Row
<1>2. ASSUME NEW q, Issued(q), Run(q), at' = at, req' = req
      PROVE  FailedTold'
  <2>1. ASSUME NEW c \in Callbacks, at[c] = "failed_started"
        PROVE  op'[req[c].message].state \in {"definitive_failed", "ambiguous"}
    <3>1. req[c].message \in Messages
      BY <2>1 DEF SmsInv, Places, Gone
    <3>2. op'[req[c].message] = op[req[c].message]
      BY <1>2, <2>1, <3>1, RowsAdvance DEF FailedTold, Row
    <3>3. QED
      BY <2>1, <3>2 DEF FailedTold, Row
  <2>2. QED
    BY <1>2, <2>1 DEF FailedTold, Row
<1>3. ASSUME NEW c \in Callbacks, NEW place, GoTo(c, place), place # "failed_started",
             op' = op, req' = req
      PROVE  FailedTold'
  BY <1>1, <1>3 DEF GoTo, SmsInv, TypeOK
<1>4. ASSUME NEW c \in Callbacks, NEW answer, Settled(c, answer), GoOn(c, answer),
             op' = op, req' = req
      PROVE  FailedTold'
  <2>1. CASE at[c] = "recording" /\ answer = "true"
    <3>1. Row(c).state = call[c].outcome /\ call[c].outcome \in Final
      BY <2>1, <1>4 DEF SmsInv, Progress, RowAt, SmsAt, Truth, Settled
    <3>2. at' = [at EXCEPT ![c] = IF call[c].outcome = "accepted" THEN "accepted" ELSE "failed_started"]
      BY <1>4, <2>1 DEF GoOn, AfterRecord, Leave, GoTo
    <3>3. at'[c] = "failed_started" => Row(c).state \in {"definitive_failed", "ambiguous"}
      BY <3>1, <3>2 DEF SmsInv, TypeOK, Final
    <3>4. \A d \in Callbacks \ {c} : at'[d] = at[d]
      BY <3>2 DEF SmsInv, TypeOK
    <3>5. QED
      BY <1>4, <3>3, <3>4 DEF FailedTold, Row
  <2>2. CASE ~(at[c] = "recording" /\ answer = "true")
    <3>1. \E place : place # "failed_started" /\ GoTo(c, place)
      BY <1>4, <2>2 DEF GoOn, AfterClaim, AskToSend, AfterMark, AfterConsume, AfterExcuse,
         AfterRecord, Ask, Leave
    <3>2. QED
      BY <1>3, <1>4, <3>1
  <2>3. QED
    BY <2>1, <2>2
<1>5. CASE UNCHANGED vars
  BY <1>1, <1>5 DEF vars
<1>6. CASE \E q \in late : ExecuteLate(q)
  BY <1>2, <1>6, LateIsIssued DEF ExecuteLate
<1>7. CASE \E a \in Authorizations : Administer(a)
  BY <1>1, <1>7 DEF Administer
<1>8. ASSUME NEW c \in Callbacks, Receive(c)
      PROVE  FailedTold'
  BY <1>1, <1>8 DEF Receive, GoTo, SmsInv, TypeOK
<1>9. ASSUME NEW c \in Callbacks, Execute(c)
      PROVE  FailedTold'
  BY <1>2, <1>9, PendingIsIssued DEF Execute
<1>10. ASSUME NEW c \in Callbacks, Answered(c) \/ CallFails(c)
       PROVE  FailedTold'
  <2>1. CASE Answered(c)
    BY <1>4, <2>1 DEF Answered, Settled
  <2>2. CASE CallFails(c)
    BY <1>4, <2>2 DEF CallFails, Settled
  <2>3. QED
    BY <1>10, <2>1, <2>2
<1>11. ASSUME NEW c \in Callbacks,
              \/ Refuse(c) \/ ProviderUnavailable(c) \/ Submit(c) \/ ProviderAnswers(c) \/ Die(c)
              \/ \E outcome \in Final : AuthenticationFails(c, outcome)
       PROVE  FailedTold'
  BY <1>3, <1>11 DEF Refuse, ProviderUnavailable, Submit, ProviderAnswers, Die, AuthenticationFails,
     Record, Ask, Leave
<1>12. ASSUME NEW c \in Callbacks, NEW verdict, ProviderHandles(c, verdict)
       PROVE  FailedTold'
  BY <1>1, <1>12 DEF ProviderHandles
<1>13. QED
  BY <1>5, <1>6, <1>7, <1>8, <1>9, <1>10, <1>11, <1>12 DEF Next

LEMMA FailedToldInvariant == Spec => []FailedTold
<1>1. Init => FailedTold
  BY DEF Init, FailedTold
<1>2. SmsInv /\ FailedTold /\ [Next]_vars => FailedTold'
  BY FailedToldStep
<1>3. QED
  BY <1>1, <1>2, SmsInvariant, PTL DEF Spec

\* What is recorded and told of every message agrees with what EVERY8D did.
LEMMA TellsTheTruth ==
  SmsInv /\ FailedTold => \A m \in Messages : Delivery!Truthful(m, Recorded(m), Told(m))
<1> SUFFICES ASSUME SmsInv, FailedTold, NEW m \in Messages
             PROVE  Delivery!Truthful(m, Recorded(m), Told(m))
  OBVIOUS
<1>1. "sent" \in Told(m) <=> Answer(m, {"accepted"})
  BY DEF Told
<1>2. "failed" \in Told(m) <=> Answer(m, {"failed_unstarted", "failed_started"})
  BY DEF Told
<1>3. ASSUME Answer(m, {"accepted"})
      PROVE  op[m].state = "accepted"
  BY <1>3 DEF Answer, SmsInv, Progress, RowAt, Row
<1>4. ASSUME Answer(m, {"failed_unstarted", "failed_started"})
      PROVE  op[m].state \in {"definitive_failed", "ambiguous"}
  <2>1. PICK c \in Callbacks : req[c].message = m /\ at[c] \in {"failed_unstarted", "failed_started"}
    BY <1>4 DEF Answer
  <2>2. at[c] = "failed_unstarted" => Row(c).state = "definitive_failed"
    BY DEF SmsInv, Progress, RowAt, Closed
  <2>3. QED
    BY <2>1, <2>2 DEF FailedTold, Row
<1>5. /\ Recorded(m) = "sent" <=> op[m].state = "accepted"
      /\ Recorded(m) = "failed" <=> op[m].state = "definitive_failed"
  BY DEF Recorded
<1>6. ASSUME op[m].state = "accepted"
      PROVE  \E c \in Callbacks : [d \in Callbacks |-> Attempt(d)][c] = [of |-> m, fate |-> "accepted"]
  <2>1. PICK c \in Callbacks : req[c].message = m /\ sms[c] = "accepted"
    BY <1>6 DEF SmsInv, Outcomes
  <2>2. Attempt(c) = [of |-> m, fate |-> "accepted"]
    BY <2>1 DEF Attempt
  <2>3. QED
    BY <2>2
<1>7. ASSUME op[m].state = "definitive_failed", NEW c \in Callbacks, Attempt(c).of = m
      PROVE  Attempt(c).fate = "refused"
  <2>1. sms[c] # "none" /\ req[c].message = m
    BY <1>7, NoneAssumption DEF Attempt
  <2>2. sms[c] = "rejected"
    BY <1>7, <2>1 DEF SmsInv, Outcomes
  <2>3. QED
    BY <2>2 DEF Attempt
<1>8. QED
  BY <1>1, <1>2, <1>3, <1>4, <1>5, <1>6, <1>7 DEF Delivery!Truthful

LEMMA TruthNext ==
  SmsInv' /\ FailedTold' => (\A m \in Messages : Delivery!Truthful(m, Recorded(m), Told(m)))'
<1>1. SmsInv /\ FailedTold => \A m \in Messages : Delivery!Truthful(m, Recorded(m), Told(m))
  BY TellsTheTruth
<1>2. QED
  BY <1>1, PTL

\* A step that touches one message and no attempt concludes it.
LEMMA Concludes ==
  ASSUME SmsInv', FailedTold', NEW m \in Messages,
         \A c \in Callbacks : Attempt(c)' = Attempt(c),
         \A n \in Messages \ {m} : Recorded(n)' = Recorded(n) /\ Told(n)' = Told(n),
         Recorded(m) \in {"none", Recorded(m)'}, Told(m) \subseteq Told(m)'
  PROVE  Delivery!Conclude(m)
<1>1. Delivery!Truthful(m, Recorded(m), Told(m))'
  BY TruthNext
<1>2. Delivery!Truthful(m, Recorded(m)', Told(m)')
  <2>1. [c \in Callbacks |-> Attempt(c)]' = [c \in Callbacks |-> Attempt(c)]
    OBVIOUS
  <2>2. QED
    BY <1>1, <2>1 DEF Delivery!Truthful
<1>3. /\ Recorded(m)' \in {"none", "sent", "failed", "unknown"}
      /\ Told(m)' \in SUBSET {"sent", "failed"}
  BY DEF Recorded, Told
<1>4. [n \in Messages |-> Recorded(n)]' = [[n \in Messages |-> Recorded(n)] EXCEPT ![m] = Recorded(m)']
  OBVIOUS
<1>5. [n \in Messages |-> Told(n)]' = [[n \in Messages |-> Told(n)] EXCEPT ![m] = Told(m)']
  OBVIOUS
<1>6. UNCHANGED [c \in Callbacks |-> Attempt(c)]
  OBVIOUS
<1>7. QED
  BY <1>2, <1>3, <1>4, <1>5, <1>6 DEF Delivery!Conclude

\* A step that touches none stutters.
LEMMA Stutters ==
  ASSUME \A c \in Callbacks : Attempt(c)' = Attempt(c),
         \A m \in Messages : Recorded(m)' = Recorded(m) /\ Told(m)' = Told(m)
  PROVE  UNCHANGED Delivery!vars
<1>1. [c \in Callbacks |-> Attempt(c)]' = [c \in Callbacks |-> Attempt(c)]
  OBVIOUS
<1>2. [m \in Messages |-> Recorded(m)]' = [m \in Messages |-> Recorded(m)]
  OBVIOUS
<1>3. [m \in Messages |-> Told(m)]' = [m \in Messages |-> Told(m)]
  OBVIOUS
<1>4. QED
  BY <1>1, <1>2, <1>3 DEF Delivery!vars

\* A handler that had said nothing adds what it says now, of its own message.
LEMMA Speaks ==
  ASSUME NEW c \in Callbacks, at[c] \notin Said,
         \A d \in Callbacks \ {c} : at'[d] = at[d] /\ req'[d] = req[d],
         NEW m \in Messages
  PROVE  /\ Told(m) \subseteq Told(m)'
         /\ at'[c] \notin Said \/ req'[c].message # m => Told(m)' = Told(m)
<1>1. ASSUME NEW answers, answers \subseteq Said
      PROVE  Answer(m, answers)' <=>
               Answer(m, answers) \/ (req'[c].message = m /\ at'[c] \in answers)
  BY <1>1 DEF Answer
<1>2. {"accepted"} \subseteq Said /\ {"failed_unstarted", "failed_started"} \subseteq Said
  BY DEF Said
<1>3. /\ Answer(m, {"accepted"})' <=>
           Answer(m, {"accepted"}) \/ (req'[c].message = m /\ at'[c] \in {"accepted"})
      /\ Answer(m, {"failed_unstarted", "failed_started"})' <=>
           \/ Answer(m, {"failed_unstarted", "failed_started"})
           \/ req'[c].message = m /\ at'[c] \in {"failed_unstarted", "failed_started"}
  BY <1>1, <1>2
<1>4. QED
  BY <1>3 DEF Told, Said

\* A database call concludes the message of its caller.
LEMMA CallConcludes ==
  ASSUME SmsInv, SmsInv', FailedTold', NEW q, Issued(q), Run(q), UNCHANGED <<at, req, sms>>
  PROVE  Delivery!Conclude(req[q.caller].message)
<1> DEFINE m == req[q.caller].message
<1>1. m \in Messages
  BY DEF Issued
<1>2. \A c \in Callbacks : Attempt(c)' = Attempt(c)
  BY DEF Attempt
<1>3. \A n \in Messages : Told(n)' = Told(n)
  BY DEF Told, Answer
<1>4. ASSUME NEW n \in Messages \ {m}
      PROVE  Recorded(n)' = Recorded(n)
  BY <1>4, RowStep DEF Recorded
<1>5. Recorded(m) \in {"none", Recorded(m)'}
  <2>1. CASE op[m].state \in {"absent", "processing"}
    BY <2>1 DEF Recorded
  <2>2. CASE op[m].state \notin {"absent", "processing"}
    BY <1>1, <2>2, RowsAdvance DEF Recorded
  <2>3. QED
    BY <2>1, <2>2
<1> HIDE DEF m
<1>6. QED
  BY <1>1, <1>2, <1>3, <1>4, <1>5, Concludes DEF m

\* An answer, or an error, that arrives concludes the message of the handler.
LEMMA AnswerConcludes ==
  ASSUME SmsInv, SmsInv', FailedTold', NEW c \in Callbacks, NEW answer, GoOn(c, answer),
         UNCHANGED <<op, req, sms>>
  PROVE  Delivery!Conclude(req[c].message)
<1>1. at[c] \notin Said /\ req[c].message \in Messages
  BY DEF GoOn, Said, SmsInv, Places, Gone
<1>2. \A d \in Callbacks \ {c} : at'[d] = at[d]
  <2>1. \E place : GoTo(c, place)
    BY DEF GoOn, AfterClaim, AskToSend, AfterMark, AfterConsume, AfterExcuse, AfterRecord, Ask, Leave
  <2>2. QED
    BY <2>1 DEF GoTo, SmsInv, TypeOK
<1>3. \A m \in Messages : /\ Told(m) \subseteq Told(m)'
                          /\ m # req[c].message => Told(m)' = Told(m)
  BY <1>1, <1>2, Speaks
<1>4. \A d \in Callbacks : Attempt(d)' = Attempt(d)
  BY DEF Attempt
<1>5. \A m \in Messages : Recorded(m)' = Recorded(m)
  BY DEF Recorded
<1>6. QED
  BY <1>1, <1>3, <1>4, <1>5, Concludes

\* A handler that goes on in silence stutters.
LEMMA SilentStep ==
  ASSUME SmsInv, NEW c \in Callbacks, at[c] \notin Said, at'[c] \notin Said, op' = op, sms' = sms,
         \A d \in Callbacks \ {c} : at'[d] = at[d] /\ req'[d] = req[d],
         sms[c] = "none" \/ req' = req
  PROVE  UNCHANGED Delivery!vars
<1>1. \A m \in Messages : Recorded(m)' = Recorded(m) /\ Told(m)' = Told(m)
  BY Speaks DEF Recorded
<1>2. \A d \in Callbacks : Attempt(d)' = Attempt(d)
  BY DEF Attempt
<1>3. QED
  BY <1>1, <1>2, Stutters

\* An SMS is submitted for a message nobody has submitted or concluded.
LEMMA SubmitMaps ==
  ASSUME SmsInv, FailedTold, NEW c \in Callbacks, Submit(c)
  PROVE  Delivery!Submit(c, req[c].message)
<1> DEFINE m == req[c].message
<1>1. /\ at[c] = "starting" /\ UNCHANGED <<op, req>>
      /\ at' = [at EXCEPT ![c] = "sending"] /\ sms' = [sms EXCEPT ![c] = "submitted"]
  BY DEF Submit, GoTo
<1>2. /\ at'[c] = "sending" /\ sms'[c] = "submitted"
      /\ \A d \in Callbacks \ {c} : at'[d] = at[d] /\ sms'[d] = sms[d]
  BY <1>1 DEF SmsInv, TypeOK
<1>3. m \in Messages /\ Started(c) /\ sms[c] = "none" /\ Owns(c)
  BY <1>1 DEF SmsInv, Places, Gone, Progress, RowAt, SmsAt, BeforeSubmission, Owns, Owning
<1>4. Recorded(m) = "none"
  BY <1>3 DEF Started, Row, Recorded
<1>5. Told(m) = {}
  <2>1. ASSUME NEW d \in Callbacks, req[d].message = m, at[d] \in Said
        PROVE  FALSE
    <3>1. Row(d).state \in {"accepted", "definitive_failed", "ambiguous"}
      BY <2>1 DEF Said, SmsInv, Progress, RowAt, Closed, FailedTold
    <3>2. Row(d) = Row(c)
      BY <2>1 DEF Row
    <3>3. QED
      BY <1>3, <3>1, <3>2 DEF Started
  <2>2. QED
    BY <2>1 DEF Told, Answer, Said
<1>6. \A d \in Callbacks : Attempt(d).of # m
  BY <1>3, NoneAssumption DEF Attempt, SmsInv, Ownership, Owns
<1>7. Attempt(c) = Delivery!NoAttempt
  BY <1>3 DEF Attempt, Delivery!NoAttempt
<1>8. \A n \in Messages : Recorded(n)' = Recorded(n) /\ Told(n)' = Told(n)
  <2>1. at[c] \notin Said /\ at'[c] \notin Said
    BY <1>1, <1>2 DEF Said
  <2>2. QED
    BY <1>1, <1>2, <2>1, Speaks DEF Recorded
<1>9. [d \in Callbacks |-> Attempt(d)]' =
        [[d \in Callbacks |-> Attempt(d)] EXCEPT ![c] = [of |-> m, fate |-> "submitted"]]
  <2>1. Attempt(c)' = [of |-> m, fate |-> "submitted"]
    BY <1>1, <1>2 DEF Attempt
  <2>2. \A d \in Callbacks \ {c} : Attempt(d)' = Attempt(d)
    BY <1>1, <1>2 DEF Attempt
  <2>3. QED
    BY <2>1, <2>2
<1> HIDE DEF m
<1>10. /\ [n \in Messages |-> Recorded(n)]' = [n \in Messages |-> Recorded(n)]
       /\ [n \in Messages |-> Told(n)]' = [n \in Messages |-> Told(n)]
  BY <1>8
<1>11. QED
  BY <1>3, <1>4, <1>5, <1>6, <1>7, <1>9, <1>10 DEF m, Delivery!Submit

\* EVERY8D decides.
LEMMA ProviderMaps ==
  ASSUME SmsInv, NEW c \in Callbacks, NEW verdict \in {"accepted", "rejected"},
         ProviderHandles(c, verdict)
  PROVE  Delivery!ProviderDecides(c)
<1> DEFINE fate == IF verdict = "rejected" THEN "refused" ELSE "accepted"
<1>1. /\ sms[c] = "submitted" /\ UNCHANGED <<op, at, req>>
      /\ sms' = [sms EXCEPT ![c] = verdict]
  BY DEF ProviderHandles
<1>2. sms'[c] = verdict /\ \A d \in Callbacks \ {c} : sms'[d] = sms[d]
  BY <1>1 DEF SmsInv, TypeOK
<1>3. Attempt(c) = [of |-> req[c].message, fate |-> "submitted"]
  BY <1>1 DEF Attempt
<1>4. Attempt(c)' = [of |-> req[c].message, fate |-> fate]
  BY <1>1, <1>2 DEF Attempt
<1>5. \A d \in Callbacks \ {c} : Attempt(d)' = Attempt(d)
  BY <1>1, <1>2 DEF Attempt
<1>6. fate \in {"accepted", "refused"}
  OBVIOUS
<1> HIDE DEF fate
<1>7. [d \in Callbacks |-> Attempt(d)]' = [[d \in Callbacks |-> Attempt(d)] EXCEPT ![c].fate = fate]
  <2>1. [Attempt(c) EXCEPT !.fate = fate] = Attempt(c)'
    BY <1>3, <1>4
  <2>2. [d \in Callbacks |-> Attempt(d)]' =
          [[d \in Callbacks |-> Attempt(d)] EXCEPT ![c] = Attempt(c)']
    BY <1>5
  <2>3. [d \in Callbacks |-> Attempt(d)][c] = Attempt(c)
    OBVIOUS
  <2>4. QED
    BY <2>1, <2>2, <2>3, Zenon
<1>8. /\ [n \in Messages |-> Recorded(n)]' = [n \in Messages |-> Recorded(n)]
      /\ [n \in Messages |-> Told(n)]' = [n \in Messages |-> Told(n)]
  BY <1>1 DEF Recorded, Told, Answer
<1>9. QED
  <2>1. [d \in Callbacks |-> Attempt(d)][c].fate = "submitted"
    BY <1>3
  <2>2. QED
    BY <1>6, <1>7, <1>8, <2>1, Zenon DEF Delivery!ProviderDecides

\* Every step is a step of the delivery, or none.
LEMMA NextMaps ==
  ASSUME SmsInv, SmsInv', FailedTold, FailedTold', [Next]_vars
  PROVE  [Delivery!Next]_(Delivery!vars)
<1>1. ASSUME NEW m \in Messages, Delivery!Conclude(m)
      PROVE  [Delivery!Next]_(Delivery!vars)
  BY <1>1 DEF Delivery!Next
<1>2. CASE UNCHANGED vars
  <2>1. \A c \in Callbacks : Attempt(c)' = Attempt(c)
    BY <1>2 DEF vars, Attempt
  <2>2. \A m \in Messages : Recorded(m)' = Recorded(m) /\ Told(m)' = Told(m)
    BY <1>2 DEF vars, Recorded, Told, Answer
  <2>3. QED
    BY <2>1, <2>2, Stutters
<1>3. CASE \E q \in late : ExecuteLate(q)
  <2>1. PICK q \in late : ExecuteLate(q)
    BY <1>3
  <2>2. Issued(q)
    BY LateIsIssued
  <2>3. QED
    BY <1>1, <2>1, <2>2, CallConcludes DEF ExecuteLate, Issued
<1>4. CASE \E a \in Authorizations : Administer(a)
  <2>1. UNCHANGED <<op, at, req, sms>>
    BY <1>4 DEF Administer
  <2>2. \A c \in Callbacks : Attempt(c)' = Attempt(c)
    BY <2>1 DEF Attempt
  <2>3. \A m \in Messages : Recorded(m)' = Recorded(m) /\ Told(m)' = Told(m)
    BY <2>1 DEF Recorded, Told, Answer
  <2>4. QED
    BY <2>2, <2>3, Stutters
<1>5. ASSUME NEW c \in Callbacks, Receive(c)
      PROVE  UNCHANGED Delivery!vars
  <2>1. /\ at[c] = "idle" /\ at' = [at EXCEPT ![c] = "claiming"]
        /\ op' = op /\ sms' = sms
        /\ \E r : req' = [req EXCEPT ![c] = r]
    BY <1>5 DEF Receive, GoTo
  <2>2. sms[c] = "none"
    BY <2>1 DEF SmsInv, Progress, SmsAt, BeforeSubmission
  <2>3. at'[c] = "claiming" /\ \A d \in Callbacks \ {c} : at'[d] = at[d] /\ req'[d] = req[d]
    BY <2>1 DEF SmsInv, TypeOK
  <2>4. QED
    BY <2>1, <2>2, <2>3, SilentStep DEF Said
<1>6. ASSUME NEW c \in Callbacks, Execute(c)
      PROVE  [Delivery!Next]_(Delivery!vars)
  <2>1. Issued(Pending(c))
    BY <1>6, PendingIsIssued DEF Execute
  <2>2. QED
    BY <1>1, <1>6, <2>1, CallConcludes DEF Execute, Issued
<1>7. ASSUME NEW c \in Callbacks, Answered(c) \/ CallFails(c)
      PROVE  [Delivery!Next]_(Delivery!vars)
  <2>1. PICK answer : GoOn(c, answer)
    BY <1>7 DEF Answered, CallFails
  <2>2. UNCHANGED <<op, req, sms>>
    BY <1>7 DEF Answered, CallFails
  <2>3. req[c].message \in Messages
    BY <2>1 DEF GoOn, SmsInv, Places, Gone
  <2>4. QED
    BY <1>1, <2>1, <2>2, <2>3, AnswerConcludes
<1>8. ASSUME NEW c \in Callbacks,
             \/ Refuse(c) \/ ProviderUnavailable(c) \/ ProviderAnswers(c) \/ Die(c)
             \/ \E outcome \in Final : AuthenticationFails(c, outcome)
      PROVE  UNCHANGED Delivery!vars
  <2>1. PICK place \in {"refused", "recording", "dead"} : at' = [at EXCEPT ![c] = place]
    BY <1>8 DEF Refuse, ProviderUnavailable, ProviderAnswers, Die, AuthenticationFails,
       Record, Ask, Leave, GoTo
  <2>2. /\ at[c] \notin Said
        /\ UNCHANGED <<op, req, sms>>
    BY <1>8 DEF Refuse, ProviderUnavailable, ProviderAnswers, Die, AuthenticationFails,
       Record, Ask, Leave, Said, Answers
  <2>3. at'[c] \notin Said /\ \A d \in Callbacks \ {c} : at'[d] = at[d]
    BY <2>1 DEF SmsInv, TypeOK, Said
  <2>4. QED
    BY <2>2, <2>3, SilentStep
<1>9. ASSUME NEW c \in Callbacks, Submit(c)
      PROVE  Delivery!Next
  <2>1. req[c].message \in Messages
    BY <1>9 DEF Submit, SmsInv, Places, Gone
  <2>2. QED
    BY <1>9, <2>1, SubmitMaps DEF Delivery!Next
<1>10. ASSUME NEW c \in Callbacks, NEW verdict \in {"accepted", "rejected"},
              ProviderHandles(c, verdict)
       PROVE  Delivery!Next
  BY <1>10, ProviderMaps DEF Delivery!Next
<1>11. QED
  BY <1>2, <1>3, <1>4, <1>5, <1>6, <1>7, <1>8, <1>9, <1>10 DEF Next

LEMMA InitMaps == Init => Delivery!Init
<1> SUFFICES ASSUME Init
             PROVE  Delivery!Init
  OBVIOUS
<1>1. \A c \in Callbacks : Attempt(c) = Delivery!NoAttempt
  BY DEF Init, Attempt, Delivery!NoAttempt
<1>2. \A m \in Messages : Recorded(m) = "none"
  BY DEF Init, Recorded, NoRow
<1>3. \A m \in Messages : Told(m) = {}
  BY DEF Init, Told, Answer
<1>4. QED
  BY <1>1, <1>2, <1>3 DEF Delivery!Init

\* The operations implement MessageDelivery: whatever dies, fails or executes
\* late, a message is submitted once, its outcome is recorded once and for
\* all, and no answer contradicts it or what EVERY8D did.
THEOREM SmsDelivers == Spec => DeliversTruthfully
<1>1. SmsInv /\ SmsInv' /\ FailedTold /\ FailedTold' /\ [Next]_vars => [Delivery!Next]_(Delivery!vars)
  BY NextMaps
<1>2. Spec => Delivery!Init /\ [][Delivery!Next]_(Delivery!vars)
  BY <1>1, InitMaps, SmsInvariant, FailedToldInvariant, PTL DEF Spec
<1> QED
  BY <1>2 DEF DeliversTruthfully, Delivery!Spec
=============================================================================
