------------------------- MODULE SettingsAuthProofs -------------------------
(***************************************************************************)
(* Proofs about the access to the settings, for any installations, grants, *)
(* codes, sessions, limits and times.                                      *)
(***************************************************************************)
EXTENDS SettingsAuth, FiniteSetTheorems, SequenceTheorems, TLAPS

-----------------------------------------------------------------------------
(* What is always true of a row.                                           *)

\* A grant belongs to an installation; while it is unspent, and while its
\* administrator is active, to the installation as it is.  It is spent when its
\* administrator appears.
GrantSound(g) ==
    /\ grant[g].state # "absent" => grant[g].installation \in Installations
    /\ grant[g].method = "operator" => grant[g].email \in Emails
    /\ grant[g].state = "live" => GrantEligible(g)
    /\ administrator[g].state = "active" => GrantEligible(g)
    /\ grant[g].state = "consumed" <=> administrator[g].state # "absent"

\* A code that may still be used has its address until it expires, and none that
\* has ended keeps it; its times are past; failures come after the delivery, in
\* order, and the last one locks.
RowSound(row, time) ==
    /\ row.purpose = "enrollment" => row.grant \in Grants
    /\ row.purpose = "login" => row.grant = NoOne
    /\ row.state \in {"pending", "live", "verified"} /\ time < row.expires_at
         => row.has_email
    /\ row.has_email => row.state \in {"pending", "live", "verified"}
    /\ row.created_at <= time /\ row.delivered_at <= time /\ row.verified_at <= time
    /\ row.state = "pending" => row.failures = <<>>
    /\ row.state = "live" => 0 < row.delivered_at
    /\ \A n \in DOMAIN row.failures : row.failures[n] <= time
    /\ ChallengeIntact(row)

CodeSound(c) == RowSound(challenge[c], now)

\* A code that was consumed has spent its grant.
CodeSpends(c) ==
    challenge[c].state = "consumed" /\ challenge[c].grant \in Grants
      => grant[challenge[c].grant].state = "consumed"

\* A grant is spent by one code.
OneSpentCode ==
    \A c, d \in Challenges :
        /\ challenge[c].state = "consumed" /\ challenge[d].state = "consumed"
        /\ challenge[c].grant = challenge[d].grant /\ challenge[c].grant \in Grants
        => c = d

\* A session came from one code, for an administrator, and lives no longer than
\* the administrator is active.
SessionSound(s) ==
    LET c == session[s].challenge
        g == session[s].administrator
    IN  /\ session[s].state = "absent" => c = NoOne
        /\ session[s].state # "absent" =>
             /\ g \in Grants /\ administrator[g].state # "absent"
             /\ c \in Challenges /\ challenge[c].state \in {"consumed", "deleted"}
             /\ challenge[c].state = "consumed" =>
                  /\ administrator[g].email = challenge[c].email
                  /\ challenge[c].purpose = "enrollment" => challenge[c].grant = g
             /\ \A r \in Sessions \ {s} : session[r].challenge # c
        /\ session[s].state = "live" =>
             /\ administrator[g].state = "active"
             /\ session[s].generation = grant[g].generation

\* A call works on a code that was requested; a credential it made is its own;
\* the candidates it gathered are all there can be while it holds the address.
CallSound(t) ==
    LET c == call[t].challenge
        s == call[t].session
    IN  /\ call[t].stage # "idle" => c \in Challenges /\ challenge[c].state # "absent"
        /\ call[t].op = "consume" =>
             /\ s \in Sessions /\ session[s].state = "absent"
             /\ \A u \in Calls \ {t} : call[u].op = "consume" => call[u].session # s
        /\ call[t].stage = "gathered" /\ challenge[c].state # "deleted" =>
             \A g \in Grants :
                administrator[g].state = "active" /\ administrator[g].email = challenge[c].email
                  => g \in call[t].candidates

\* The failures of an address stay within the hour's budget.
WithinBudget == \A e \in Emails : Cardinality(FailuresSince(e, now - Hour)) <= HourlyFailures

\* The inductive invariant.
AuthInv ==
    /\ TypeOK /\ now > 0
    /\ \A g \in Grants : GrantSound(g)
    /\ \A c \in Challenges : CodeSound(c) /\ CodeSpends(c)
    /\ \A s \in Sessions : SessionSound(s)
    /\ \A t \in Calls : CallSound(t)
    /\ OneOpenCode
    /\ OneSpentCode
    /\ WithinBudget

-----------------------------------------------------------------------------
(* Rows and their columns.                                                 *)

\* The columns of a row of the table of codes.
LEMMA ChallengeColumns ==
    ASSUME NEW row \in Challenge
    PROVE  /\ row.state \in ChallengeStates
           /\ row.purpose \in {"none", "enrollment", "login"}
           /\ row.grant \in Grants \cup {NoOne} /\ row.email \in Emails \cup {NoOne}
           /\ row.has_email \in BOOLEAN
           /\ row.created_at \in Nat /\ row.expires_at \in Nat
           /\ row.delivered_at \in Nat /\ row.verified_at \in Nat
           /\ row.ended_at \in Nat /\ row.failures \in Seq(Nat)
  BY DEF Challenge

\* A code whose mail was delivered, and one that was typed in.
Delivered(row) == [row EXCEPT !.state = "live", !.delivered_at = now]

Verified(row) == [row EXCEPT !.state = "verified", !.verified_at = now]

\* A row that ends keeps every column but its state, address and time.
LEMMA EndedColumns ==
    ASSUME NEW row \in Challenge, NEW s, NEW time
    PROVE  /\ Ended(row, s, time).state = s
           /\ ~Ended(row, s, time).has_email
           /\ Ended(row, s, time).ended_at = time
           /\ Ended(row, s, time).delivered_at = row.delivered_at
           /\ Ended(row, s, time).verified_at = row.verified_at
           /\ Ended(row, s, time).failures = row.failures
           /\ Ended(row, s, time).purpose = row.purpose
           /\ Ended(row, s, time).grant = row.grant
           /\ Ended(row, s, time).email = row.email
           /\ Ended(row, s, time).created_at = row.created_at
           /\ Ended(row, s, time).expires_at = row.expires_at
  BY DEF Ended, Challenge

\* A row that ends is a row of the table.
LEMMA EndedType ==
    ASSUME NEW row \in Challenge, NEW s \in ChallengeStates, NEW time \in Nat
    PROVE  Ended(row, s, time) \in Challenge
  BY DEF Ended, Challenge

\* A row whose mail was delivered.
LEMMA DeliveredColumns ==
    ASSUME NEW row \in Challenge, now \in Nat
    PROVE  /\ Delivered(row) \in Challenge
           /\ Delivered(row).state = "live"
           /\ Delivered(row).has_email = row.has_email
           /\ Delivered(row).ended_at = row.ended_at
           /\ Delivered(row).delivered_at = now
           /\ Delivered(row).verified_at = row.verified_at
           /\ Delivered(row).failures = row.failures
           /\ Delivered(row).purpose = row.purpose
           /\ Delivered(row).grant = row.grant
           /\ Delivered(row).email = row.email
           /\ Delivered(row).created_at = row.created_at
           /\ Delivered(row).expires_at = row.expires_at
  BY DEF Delivered, Challenge, ChallengeStates

\* A row whose code was typed in.
LEMMA VerifiedColumns ==
    ASSUME NEW row \in Challenge, now \in Nat
    PROVE  /\ Verified(row) \in Challenge
           /\ Verified(row).state = "verified"
           /\ Verified(row).has_email = row.has_email
           /\ Verified(row).ended_at = row.ended_at
           /\ Verified(row).delivered_at = row.delivered_at
           /\ Verified(row).verified_at = now
           /\ Verified(row).failures = row.failures
           /\ Verified(row).purpose = row.purpose
           /\ Verified(row).grant = row.grant
           /\ Verified(row).email = row.email
           /\ Verified(row).created_at = row.created_at
           /\ Verified(row).expires_at = row.expires_at
  BY DEF Verified, Challenge, ChallengeStates

\* A row that gains a failure.
LEMMA FailedColumns ==
    ASSUME NEW row \in Challenge, NEW f \in Seq(Nat), NEW new,
           new = [row EXCEPT !.failures = f]
    PROVE  /\ new \in Challenge
           /\ new.state = row.state
           /\ new.has_email = row.has_email
           /\ new.ended_at = row.ended_at
           /\ new.delivered_at = row.delivered_at
           /\ new.verified_at = row.verified_at
           /\ new.failures = f
           /\ new.purpose = row.purpose
           /\ new.grant = row.grant
           /\ new.email = row.email
           /\ new.created_at = row.created_at
           /\ new.expires_at = row.expires_at
  BY DEF Challenge

\* A row that forgets its address.
LEMMA ScrubbedColumns ==
    ASSUME NEW row \in Challenge, NEW new, new = [row EXCEPT !.has_email = FALSE]
    PROVE  /\ new \in Challenge
           /\ new.state = row.state
           /\ ~new.has_email
           /\ new.ended_at = row.ended_at
           /\ new.delivered_at = row.delivered_at
           /\ new.verified_at = row.verified_at
           /\ new.failures = row.failures
           /\ new.purpose = row.purpose
           /\ new.grant = row.grant
           /\ new.email = row.email
           /\ new.created_at = row.created_at
           /\ new.expires_at = row.expires_at
  BY DEF Challenge

\* The columns of a code that is requested.
LEMMA NewChallengeColumns ==
    ASSUME NEW p, NEW g, NEW e, NEW time, NEW x
    PROVE  LET new == NewChallenge(p, g, e, time, x)
           IN  /\ new.state = "pending" /\ new.has_email
               /\ new.purpose = p /\ new.grant = g /\ new.email = e
               /\ new.created_at = time /\ new.expires_at = x
               /\ new.delivered_at = 0 /\ new.verified_at = 0 /\ new.ended_at = 0
               /\ new.failures = <<>>
  BY DEF NewChallenge, NoChallenge

\* The absent row is a row of the table.
LEMMA NoChallengeType == NoChallenge \in Challenge
<1> DEFINE row(h) == [state |-> "absent", purpose |-> "none", grant |-> NoOne,
                      email |-> NoOne, has_email |-> h, created_at |-> 0,
                      expires_at |-> 0, delivered_at |-> 0, verified_at |-> 0,
                      ended_at |-> 0, failures |-> <<>>]
<1>1. NoChallenge = row(FALSE)
  BY Zenon DEF NoChallenge
<1>2. \A h \in BOOLEAN : row(h) \in Challenge
  BY DEF Challenge, ChallengeStates
<1> QED
  BY <1>1, <1>2, Zenon

\* A code that is requested is a row of the table.
LEMMA NewChallengeType ==
    ASSUME NEW p \in {"enrollment", "login"}, NEW g \in Grants \cup {NoOne},
           NEW e \in Emails, NEW time \in Nat, NEW x \in Nat
    PROVE  NewChallenge(p, g, e, time, x) \in Challenge
  BY NoChallengeType DEF NewChallenge, Challenge, ChallengeStates

\* What cleanup leaves of a row.
LEMMA DeletedColumns ==
    ASSUME NEW new, new = [NoChallenge EXCEPT !.state = "deleted"]
    PROVE  /\ new \in Challenge
           /\ new.state = "deleted" /\ new.purpose = "none"
           /\ new.grant = NoOne /\ new.email = NoOne
           /\ ~new.has_email /\ new.created_at = 0 /\ new.expires_at = 0
           /\ new.delivered_at = 0 /\ new.verified_at = 0
           /\ new.failures = <<>>
<1>1. new \in Challenge
  BY NoChallengeType DEF Challenge, ChallengeStates
<1> QED
  BY <1>1 DEF NoChallenge

-----------------------------------------------------------------------------
(* What a step does to a code.                                             *)

\* A code that is requested, by a call that read the clock some time ago.
CodeInserted(old, new) ==
    /\ old.state = "absent"
    /\ \E p \in {"enrollment", "login"}, g \in Grants \cup {NoOne}, e \in Emails,
          time \in Nat, x \in Nat :
         /\ time <= now
         /\ new = NewChallenge(p, g, e, time, x)
         /\ p = "login" => g = NoOne /\ x = time + ChallengeTtl
         /\ p = "enrollment" =>
              /\ g \in Grants /\ grant[g].state = "live" /\ GrantLasts(g, time)
              /\ x = EnrollmentExpiry(g, time) /\ grant[g].email \in {NoOne, e}

\* A wrong code is recorded, and perhaps locks.
CodeFailed(old, new) ==
    LET failures == Append(old.failures, now)
    IN  /\ old.state = "live"
        /\ \/ /\ ~LocksAt(Len(failures))
              /\ new = [old EXCEPT !.failures = failures]
           \/ /\ LocksAt(Len(failures))
              /\ new = Ended([old EXCEPT !.failures = failures], "locked", now)

\* An open code is superseded at a time that was read before, if the trigger on
\* codes admits it.
CodeSuperseded(old, new) ==
    /\ old.state \in {"pending", "live"}
    /\ \E time \in Nat : new = Ended(old, "superseded", time)
    /\ ChallengeMoved(old, new)

\* An open or verified code goes on, or ends.
CodeMoved(old, new) ==
    /\ now < old.expires_at
    /\ \/ old.state = "pending" /\ new = Delivered(old)
       \/ old.state = "pending" /\ new = Ended(old, "failed", now)
       \/ old.has_email /\ CodeFailed(old, new)
       \/ old.has_email /\ old.state = "live" /\ new = Verified(old)
       \/ old.has_email /\ old.state = "verified" /\ new = Ended(old, "consumed", now)

CodeStep(old, new) ==
    \/ new = old
    \/ CodeInserted(old, new)
    \/ /\ old.state \notin {"absent", "deleted"}
       /\ new = [NoChallenge EXCEPT !.state = "deleted"]
    \/ ChallengeScrubbed(old, new)
    \/ CodeSuperseded(old, new)
    \/ CodeMoved(old, new)

CodesStep == \A c \in Challenges : CodeStep(challenge[c], challenge'[c])

\* A code that is superseded keeps its columns but the state, address and time.
LEMMA SupersededColumns ==
    ASSUME NEW old \in Challenge, NEW new, CodeSuperseded(old, new)
    PROVE  /\ new \in Challenge
           /\ new.state = "superseded"
           /\ ~new.has_email
           /\ new.delivered_at = old.delivered_at
           /\ new.verified_at = old.verified_at
           /\ new.failures = old.failures
           /\ new.purpose = old.purpose
           /\ new.grant = old.grant
           /\ new.email = old.email
           /\ new.created_at = old.created_at
           /\ new.expires_at = old.expires_at
<1>1. PICK time \in Nat : new = Ended(old, "superseded", time)
  BY DEF CodeSuperseded
<1>2. "superseded" \in ChallengeStates
  BY DEF ChallengeStates
<1> QED
  BY <1>1, <1>2, EndedColumns, EndedType

\* The columns of a code that a wrong one was entered for.
LEMMA CodeFailedColumns ==
    ASSUME NEW old \in Challenge, NEW new, now \in Nat, CodeFailed(old, new)
    PROVE  /\ old.state = "live" /\ new \in Challenge
           /\ new.failures = Append(old.failures, now)
           /\ new.state = IF LocksAt(Len(new.failures)) THEN "locked" ELSE "live"
           /\ new.state = "locked" => new.ended_at = now /\ ~new.has_email
           /\ new.state = "live" => /\ new.has_email = old.has_email
                                    /\ new = [old EXCEPT !.failures = new.failures]
           /\ new.purpose = old.purpose /\ new.grant = old.grant /\ new.email = old.email
           /\ new.created_at = old.created_at /\ new.expires_at = old.expires_at
           /\ new.delivered_at = old.delivered_at /\ new.verified_at = old.verified_at
<1> DEFINE f == Append(old.failures, now)
           failed == [old EXCEPT !.failures = f]
<1>1. f \in Seq(Nat)
  BY ChallengeColumns
<1>2. /\ old.state = "live"
      /\ new = IF LocksAt(Len(f)) THEN Ended(failed, "locked", now) ELSE failed
  BY DEF CodeFailed
<1> HIDE DEF f
<1>3. /\ failed \in Challenge /\ failed.state = old.state
      /\ failed.has_email = old.has_email
      /\ failed.purpose = old.purpose /\ failed.grant = old.grant
      /\ failed.email = old.email
      /\ failed.created_at = old.created_at /\ failed.expires_at = old.expires_at
      /\ failed.delivered_at = old.delivered_at /\ failed.verified_at = old.verified_at
      /\ failed.failures = f
  BY <1>1, FailedColumns
<1>4. CASE LocksAt(Len(f))
  <2> HIDE DEF failed
  <2>1. new = Ended(failed, "locked", now) /\ "locked" \in ChallengeStates
    BY <1>2, <1>4 DEF ChallengeStates
  <2>2. /\ new \in Challenge /\ new.failures = f /\ new.state = "locked"
        /\ new.ended_at = now /\ ~new.has_email
        /\ new.purpose = old.purpose /\ new.grant = old.grant /\ new.email = old.email
        /\ new.created_at = old.created_at /\ new.expires_at = old.expires_at
        /\ new.delivered_at = old.delivered_at /\ new.verified_at = old.verified_at
    BY <1>3, <2>1, EndedColumns, EndedType
  <2> QED
    BY <1>2, <1>4, <2>2 DEF f
<1>5. CASE ~LocksAt(Len(f))
  <2>1. new = failed /\ new.failures = f /\ new.state = "live"
    BY <1>2, <1>3, <1>5
  <2>2. new = [old EXCEPT !.failures = new.failures]
    BY <2>1
  <2> HIDE DEF failed
  <2> QED
    BY <1>2, <1>3, <1>5, <2>1, <2>2 DEF f
<1> QED
  BY <1>4, <1>5

\* A step of a code leaves a row of the table.
LEMMA CodeStepType ==
    ASSUME NEW old \in Challenge, NEW new, now \in Nat, CodeStep(old, new)
    PROVE  new \in Challenge
<1>1. CASE new = old
  BY <1>1
<1>2. CASE CodeInserted(old, new)
  <2>1. PICK p \in {"enrollment", "login"}, g \in Grants \cup {NoOne}, e \in Emails,
             time \in Nat, x \in Nat : new = NewChallenge(p, g, e, time, x)
    BY <1>2 DEF CodeInserted
  <2> QED
    BY <2>1, NewChallengeType
<1>3. CASE new = [NoChallenge EXCEPT !.state = "deleted"]
  BY <1>3, DeletedColumns
<1>4. CASE ChallengeScrubbed(old, new)
  BY <1>4, ScrubbedColumns DEF ChallengeScrubbed
<1>5. CASE CodeMoved(old, new)
  <2>1. CASE new \in {Delivered(old), Verified(old)}
    BY <2>1, DeliveredColumns, VerifiedColumns
  <2>2. CASE new \in {Ended(old, "failed", now), Ended(old, "consumed", now)}
    BY <2>2, EndedType DEF ChallengeStates
  <2>3. CASE CodeFailed(old, new)
    BY <2>3, CodeFailedColumns
  <2> QED
    BY <1>5, <2>1, <2>2, <2>3 DEF CodeMoved
<1>6. CASE CodeSuperseded(old, new)
  BY <1>6, SupersededColumns
<1> QED
  BY <1>1, <1>2, <1>3, <1>4, <1>5, <1>6 DEF CodeStep

\* Writing one row is a step of that code and of no other.
LEMMA OneCodeStep ==
    ASSUME challenge \in [Challenges -> Challenge], now \in Nat, NEW c, NEW new,
           challenge' = [challenge EXCEPT ![c] = new],
           c \in Challenges => CodeStep(challenge[c], new)
    PROVE  challenge' \in [Challenges -> Challenge] /\ CodesStep
<1>1. \A d \in Challenges : challenge'[d] = IF d = c THEN new ELSE challenge[d]
  OBVIOUS
<1>2. CodesStep
  BY <1>1 DEF CodesStep, CodeStep
<1>3. c \in Challenges => new \in Challenge
  BY CodeStepType
<1> QED
  BY <1>2, <1>3

-----------------------------------------------------------------------------
(* Superseding codes.                                                      *)

\* Some of the codes are superseded, and those of them that are open all are.
Superseding(codes, rows) ==
    /\ codes \in [Challenges -> Challenge]
    /\ \A c \in Challenges :
         \/ codes[c] = challenge[c]
         \/ c \in rows /\ CodeSuperseded(challenge[c], codes[c])
    /\ \A c \in Challenges \cap rows : Open(c) => codes[c].state = "superseded"

\* The codes of some grants.
CodesOf(ended) == {c \in Challenges : challenge[c].grant \in ended}

\* What an update by earlier readings of the clock does, if it is not rolled back.
LEMMA CodesAfterStep ==
    ASSUME challenge \in [Challenges -> Challenge], now \in Nat, NEW at,
           \A c \in DOMAIN at : at[c] \in 1..now, Admitted(at)
    PROVE  Superseding(CodesAfter(at), DOMAIN at)
<1>1. \A c \in Challenges :
        CodesAfter(at)[c] = IF c \in DOMAIN at /\ Unspent(c, at[c])
                            THEN Ended(challenge[c], "superseded", at[c]) ELSE challenge[c]
  BY DEF CodesAfter, Superseded
<1>2. ASSUME NEW c \in Challenges, c \in DOMAIN at, Unspent(c, at[c])
      PROVE  /\ CodeSuperseded(challenge[c], CodesAfter(at)[c])
             /\ CodesAfter(at)[c] \in Challenge
             /\ CodesAfter(at)[c].state = "superseded"
  <2>1. CodesAfter(at)[c] = Ended(challenge[c], "superseded", at[c]) /\ at[c] \in Nat
    BY <1>1, <1>2
  <2>2. ChallengeMoved(challenge[c], Ended(challenge[c], "superseded", at[c]))
    BY <1>2 DEF Admitted, Raises, Superseded
  <2>3. challenge[c].state \in {"pending", "live"}
    BY <1>2 DEF Unspent
  <2>4. CodeSuperseded(challenge[c], CodesAfter(at)[c])
    BY <2>1, <2>2, <2>3 DEF CodeSuperseded
  <2> QED
    BY <2>4, SupersededColumns
<1>3. ASSUME NEW c \in Challenges, c \in DOMAIN at, Open(c)
      PROVE  Unspent(c, at[c])
  <2>1. challenge[c].expires_at \in Nat /\ at[c] \in 1..now
    BY <1>3, ChallengeColumns
  <2> QED
    BY <1>3, <2>1 DEF Open, Unspent
<1>4. CodesAfter(at) \in [Challenges -> Challenge]
  <2>1. \A c \in Challenges : CodesAfter(at)[c] \in Challenge
    BY <1>1, <1>2
  <2>2. CodesAfter(at) = [c \in Challenges |-> CodesAfter(at)[c]]
    BY DEF CodesAfter
  <2> QED
    BY <2>1, <2>2
<1>5. \A c \in Challenges :
        \/ CodesAfter(at)[c] = challenge[c]
        \/ c \in DOMAIN at /\ CodeSuperseded(challenge[c], CodesAfter(at)[c])
  BY <1>1, <1>2
<1>6. \A c \in Challenges \cap DOMAIN at : Open(c) => CodesAfter(at)[c].state = "superseded"
  BY <1>2, <1>3
<1> QED
  BY <1>4, <1>5, <1>6 DEF Superseding

\* Ending grants supersedes the codes requested for them.
LEMMA WithoutGrantsStep ==
    ASSUME challenge \in [Challenges -> Challenge], now \in Nat, NEW ended, NEW since,
           NEW codes \in WithoutGrants(ended, since)
    PROVE  Superseding(codes, CodesOf(ended))
<1>1. PICK read \in [ended -> since..now] :
        /\ \A g \in ended : read[g] \in Readings(g, NoOne)
        /\ Admitted([c \in CodesOf(ended) |-> read[challenge[c].grant]])
        /\ codes = CodesAfter([c \in CodesOf(ended) |-> read[challenge[c].grant]])
  BY DEF WithoutGrants, CodesOf
<1> DEFINE at == [c \in CodesOf(ended) |-> read[challenge[c].grant]]
<1>2. DOMAIN at = CodesOf(ended)
  OBVIOUS
<1>3. \A c \in DOMAIN at : at[c] \in 1..now
  BY <1>1 DEF CodesOf, Readings
<1>4. Admitted(at) /\ codes = CodesAfter(at)
  BY <1>1
<1> HIDE DEF at
<1>5. Superseding(codes, DOMAIN at)
  BY <1>3, <1>4, CodesAfterStep
<1> QED
  BY <1>2, <1>5

\* A code is inserted and those it replaces are superseded.
Inserted(c, new) ==
    \E codes : /\ Superseding(codes, Resent(new.purpose, new.grant, new.email))
               /\ challenge' = [codes EXCEPT ![c] = new]

\* Requesting a code supersedes those it replaces.
LEMMA InsertSupersedes ==
    ASSUME challenge \in [Challenges -> Challenge], now \in Nat,
           NEW c, NEW p, NEW g, NEW e, NEW time \in 1..now, NEW x,
           InsertChallenge(c, p, g, e, time, x)
    PROVE  Inserted(c, NewChallenge(p, g, e, time, x))
<1> DEFINE at == [d \in Resent(p, g, e) |-> time]
           new == NewChallenge(p, g, e, time, x)
<1>1. DOMAIN at = Resent(p, g, e) /\ \A d \in DOMAIN at : at[d] \in 1..now
  OBVIOUS
<1>2. /\ Admitted(at)
      /\ challenge' = [CodesAfter(at) EXCEPT ![c] = new]
  BY DEF InsertChallenge
<1>3. new.purpose = p /\ new.grant = g /\ new.email = e
  BY NewChallengeColumns
<1> HIDE DEF at, new
<1>4. Superseding(CodesAfter(at), DOMAIN at)
  BY <1>1, <1>2, CodesAfterStep
<1>5. Inserted(c, new)
  BY <1>1, <1>2, <1>3, <1>4 DEF Inserted
<1> QED
  BY <1>5 DEF new

\* Writing one row besides those that are superseded.
LEMMA SupersedingStep ==
    ASSUME challenge \in [Challenges -> Challenge], now \in Nat, NEW codes, NEW rows,
           Superseding(codes, rows), NEW c, NEW new, challenge' = [codes EXCEPT ![c] = new],
           c \in Challenges => CodeStep(challenge[c], new)
    PROVE  /\ challenge' \in [Challenges -> Challenge] /\ CodesStep
           /\ c \in Challenges => challenge'[c] = new
           /\ \A d \in Challenges \ {c} : challenge'[d] = codes[d]
<1>1. codes \in [Challenges -> Challenge]
  BY DEF Superseding
<1>2. \A d \in Challenges : challenge'[d] = IF d = c THEN new ELSE codes[d]
  BY <1>1
<1>3. c \in Challenges => new \in Challenge
  BY CodeStepType
<1>4. \A d \in Challenges : CodeStep(challenge[d], codes[d])
  BY DEF Superseding, CodeStep
<1>5. CodesStep
  BY <1>2, <1>4 DEF CodesStep
<1> QED
  BY <1>1, <1>2, <1>3, <1>5

\* Superseding codes is a step of each of them.
LEMMA AllSupersedingStep ==
    ASSUME NEW rows, Superseding(challenge', rows)
    PROVE  challenge' \in [Challenges -> Challenge] /\ CodesStep
  BY DEF Superseding, CodesStep, CodeStep

\* A request inserts one code and supersedes those it replaces, by a reading of the
\* clock that is past.
LEMMA RequestInserts ==
    ASSUME challenge \in [Challenges -> Challenge], now \in Nat,
           grant \in [Grants -> Grant], NEW c \in Challenges, NEW e \in Emails,
           RequestLogin(c, e) \/ \E g \in Grants : RequestEnrollment(c, g, e)
    PROVE  \E new :
             /\ CodeInserted(challenge[c], new) /\ Inserted(c, new)
             /\ UNCHANGED <<now, install, grant, administrator, session, call>>
<1>1. PICK p \in {"enrollment", "login"}, g \in Grants \cup {NoOne}, time \in 1..now, x \in Nat :
        /\ InsertChallenge(c, p, g, e, time, x)
        /\ p = "login" => g = NoOne /\ x = time + ChallengeTtl
        /\ p = "enrollment" =>
             /\ g \in Grants /\ grant[g].state = "live" /\ GrantLasts(g, time)
             /\ x = EnrollmentExpiry(g, time) /\ grant[g].email \in {NoOne, e}
  <2>1. CASE RequestLogin(c, e)
    <3>1. PICK time \in Readings(NoOne, e) :
            InsertChallenge(c, "login", NoOne, e, time, time + ChallengeTtl)
      BY <2>1 DEF RequestLogin
    <3>2. time \in 1..now /\ time + ChallengeTtl \in Nat
      BY SettingsAuthAssumption DEF Readings
    <3> QED
      BY <3>1, <3>2
  <2>2. ASSUME NEW g \in Grants, RequestEnrollment(c, g, e)
        PROVE  \E time \in 1..now, x \in Nat :
                 /\ InsertChallenge(c, "enrollment", g, e, time, x)
                 /\ grant[g].state = "live" /\ GrantLasts(g, time)
                 /\ x = EnrollmentExpiry(g, time) /\ grant[g].email \in {NoOne, e}
    <3>1. PICK time \in Readings(g, e) :
            /\ GrantLasts(g, time)
            /\ InsertChallenge(c, "enrollment", g, e, time, EnrollmentExpiry(g, time))
      BY <2>2 DEF RequestEnrollment
    <3>2. time \in 1..now
      BY DEF Readings
    <3>3. EnrollmentExpiry(g, time) \in Nat
      BY <3>2, SettingsAuthAssumption DEF EnrollmentExpiry, Grant
    <3> QED
      BY <2>2, <3>1, <3>2, <3>3 DEF RequestEnrollment
  <2> QED
    BY <2>1, <2>2
<1> DEFINE new == NewChallenge(p, g, e, time, x)
<1>2. InsertChallenge(c, p, g, e, time, x)
  BY <1>1
<1>3. Inserted(c, new)
  BY <1>2, InsertSupersedes
<1>4. CodeInserted(challenge[c], new)
  BY <1>1 DEF CodeInserted, InsertChallenge
<1> HIDE DEF new
<1> QED
  BY <1>2, <1>3, <1>4 DEF InsertChallenge

\* Every step writes codes by their steps alone.
LEMMA NextCodesStep ==
    ASSUME TypeOK, Next
    PROVE  challenge' \in [Challenges -> Challenge] /\ CodesStep
<1> challenge \in [Challenges -> Challenge] /\ now \in Nat
  BY DEF TypeOK
<1>1. CASE UNCHANGED challenge
  BY <1>1 DEF CodesStep, CodeStep
<1>2. ASSUME NEW c \in Challenges, Scrub(c)
      PROVE  challenge' \in [Challenges -> Challenge] /\ CodesStep
  <2>1. challenge' = [challenge EXCEPT ![c] = [challenge[c] EXCEPT !.has_email = FALSE]]
    BY <1>2, Zenon DEF Scrub
  <2> QED
    BY <1>2, <2>1, OneCodeStep DEF Scrub, CodeStep, ChallengeScrubbed
<1>3. ASSUME NEW c \in Challenges, Cleanup(c)
      PROVE  challenge' \in [Challenges -> Challenge] /\ CodesStep
  BY <1>3, OneCodeStep DEF Cleanup, CodeStep
<1>4. ASSUME NEW i \in Installations, NEW b \in BOOLEAN, ChangeInstallation(i, b)
      PROVE  challenge' \in [Challenges -> Challenge] /\ CodesStep
  BY <1>4, WithoutGrantsStep, AllSupersedingStep DEF ChangeInstallation, Invalidate
<1>5. ASSUME NEW g \in Grants, NEW i \in Installations, NEW e \in Emails,
             IssueOperatorGrant(g, i, e)
      PROVE  challenge' \in [Challenges -> Challenge] /\ CodesStep
  <2>1. PICK former, since : challenge' \in WithoutGrants(former, since)
    BY <1>5 DEF IssueOperatorGrant
  <2> QED
    BY <2>1, WithoutGrantsStep, AllSupersedingStep
<1>6. ASSUME NEW c \in Challenges, NEW e \in Emails,
             RequestLogin(c, e) \/ \E g \in Grants : RequestEnrollment(c, g, e)
      PROVE  challenge' \in [Challenges -> Challenge] /\ CodesStep
  <2>1. PICK new, codes, rows :
          /\ CodeInserted(challenge[c], new)
          /\ Superseding(codes, rows)
          /\ challenge' = [codes EXCEPT ![c] = new]
    BY <1>6, RequestInserts DEF TypeOK, Inserted
  <2>2. CodeStep(challenge[c], new)
    BY <2>1 DEF CodeStep
  <2> QED
    BY <2>1, <2>2, SupersedingStep
<1>7. ASSUME NEW c \in Challenges, RecordDelivery(c)
      PROVE  challenge' \in [Challenges -> Challenge] /\ CodesStep
  <2>1. PICK new \in {Delivered(challenge[c]), Ended(challenge[c], "failed", now)} :
          challenge' = [challenge EXCEPT ![c] = new]
    BY <1>7, Zenon DEF RecordDelivery, Delivered
  <2> QED
    BY <1>7, <2>1, OneCodeStep DEF RecordDelivery, CodeStep, CodeMoved
<1>8. ASSUME NEW t \in Calls, VerifyRight(t)
      PROVE  challenge' \in [Challenges -> Challenge] /\ CodesStep
  <2> DEFINE c == call[t].challenge
  <2>1. challenge' = [challenge EXCEPT ![c] = Verified(challenge[c])]
    BY <1>8, Zenon DEF VerifyRight, Verified
  <2>2. Usable(c, "live")
    BY <1>8 DEF VerifyRight, Verifiable
  <2> QED
    BY <2>1, <2>2, OneCodeStep DEF Usable, CodeStep, CodeMoved
<1>9. ASSUME NEW t \in Calls, VerifyWrong(t)
       PROVE  challenge' \in [Challenges -> Challenge] /\ CodesStep
  <2> DEFINE c == call[t].challenge
             failures == Append(challenge[c].failures, now)
             new == IF LocksAt(Len(failures))
                    THEN Ended([challenge[c] EXCEPT !.failures = failures], "locked", now)
                    ELSE [challenge[c] EXCEPT !.failures = failures]
  <2>1. challenge' = [challenge EXCEPT ![c] = new]
    BY <1>9, Zenon DEF VerifyWrong
  <2>2. Usable(c, "live")
    BY <1>9 DEF VerifyWrong, Verifiable
  <2>3. CodeStep(challenge[c], new)
    BY <2>2 DEF Usable, CodeStep, CodeMoved, CodeFailed
  <2> QED
    BY <2>1, <2>3, OneCodeStep
<1>10. ASSUME NEW t \in Calls, ConsumeEnrollment(t)
       PROVE  challenge' \in [Challenges -> Challenge] /\ CodesStep
  <2> DEFINE c == call[t].challenge
  <2>1. PICK since, codes : /\ codes \in WithoutGrants({challenge[c].grant}, since)
                            /\ challenge' = [codes EXCEPT ![c] = Ended(codes[c], "consumed", now)]
    BY <1>10, Zenon DEF ConsumeEnrollment
  <2>2. Usable(c, "verified")
    BY <1>10 DEF ConsumeEnrollment, Consumable
  <2>3. Superseding(codes, CodesOf({challenge[c].grant}))
    BY <2>1, WithoutGrantsStep
  <2>4. c \in Challenges => codes[c] = challenge[c]
    BY <2>2, <2>3 DEF Superseding, CodeSuperseded, Usable
  <2>5. c \in Challenges => CodeStep(challenge[c], Ended(codes[c], "consumed", now))
    BY <2>2, <2>4 DEF Usable, CodeStep, CodeMoved
  <2> QED
    BY <2>1, <2>3, <2>5, SupersedingStep
<1>11. ASSUME NEW t \in Calls, ConsumeLogin(t)
       PROVE  challenge' \in [Challenges -> Challenge] /\ CodesStep
  <2> DEFINE c == call[t].challenge
  <2>1. challenge' = [challenge EXCEPT ![c] = Ended(challenge[c], "consumed", now)]
    BY <1>11, Zenon DEF ConsumeLogin
  <2>2. Usable(c, "verified")
    BY <1>11 DEF ConsumeLogin, Consumable
  <2> QED
    BY <2>1, <2>2, OneCodeStep DEF Usable, CodeStep, CodeMoved
<1>12. CASE Tick \/ \E g \in Grants, i \in Installations : IssueCallbackGrant(g, i)
  BY <1>1, <1>12 DEF Tick, IssueCallbackGrant
<1>13. ASSUME NEW t \in Calls, NEW c \in Challenges,
              StartVerify(t, c) \/ \E s \in Sessions : StartConsume(t, c, s)
       PROVE  UNCHANGED challenge
  BY <1>13 DEF StartVerify, StartConsume
<1>14. ASSUME NEW t \in Calls, GatherCandidates(t) \/ EndCall(t)
       PROVE  UNCHANGED challenge
  BY <1>14 DEF GatherCandidates, EndCall
<1>15. ASSUME NEW s \in Sessions, RevokeSession(s)
       PROVE  UNCHANGED challenge
  BY <1>15 DEF RevokeSession
<1>16. CASE Housekeeping
  BY <1>2, <1>3, <1>4, <1>12, <1>16 DEF Housekeeping
<1>17. CASE Requesting
  BY <1>5, <1>6, <1>7, <1>12, <1>17 DEF Requesting
<1>18. CASE Entering
  BY <1>1, <1>8, <1>9, <1>10, <1>11, <1>13, <1>14, <1>15, <1>18 DEF Entering
<1> QED
  BY <1>16, <1>17, <1>18 DEF Next

-----------------------------------------------------------------------------
(* Which steps write which table.                                          *)

\* Time does not run backwards.
LEMMA TimeStep ==
    ASSUME TypeOK, [Next]_vars
    PROVE  now' \in Nat /\ now' >= now
<1> now \in Nat
  BY DEF TypeOK
<1>1. CASE UNCHANGED vars
  BY <1>1 DEF vars
<1>2. CASE Housekeeping
  BY <1>2 DEF Housekeeping, Tick, Scrub, Cleanup, ChangeInstallation
<1>3. ASSUME Requesting
      PROVE  UNCHANGED now
  BY <1>3, Zenon DEF Requesting, IssueOperatorGrant, IssueCallbackGrant,
              RequestEnrollment, RequestLogin, InsertChallenge,
              RecordDelivery
<1>4. ASSUME Entering
      PROVE  UNCHANGED now
  BY <1>4, Zenon DEF Entering, StartVerify, StartConsume, GatherCandidates, EndCall,
              VerifyRight, VerifyWrong, ConsumeEnrollment, ConsumeLogin, RevokeSession
<1> QED
  BY <1>1, <1>2, <1>3, <1>4 DEF Next

\* Who writes installations, grants and administrators.
LEMMA GrantWriters ==
    ASSUME [Next]_vars
    PROVE  \/ UNCHANGED <<install, grant, administrator>>
           \/ \E i \in Installations, b \in BOOLEAN : ChangeInstallation(i, b)
           \/ \E g \in Grants, i \in Installations :
                \/ \E e \in Emails : IssueOperatorGrant(g, i, e)
                \/ IssueCallbackGrant(g, i)
           \/ \E t \in Calls : ConsumeEnrollment(t)
<1>1. CASE UNCHANGED vars
  BY <1>1 DEF vars
<1>2. CASE Housekeeping
  BY <1>2 DEF Housekeeping, Tick, Scrub, Cleanup
<1>3. CASE Requesting
  BY <1>3 DEF Requesting, RequestEnrollment, RequestLogin, InsertChallenge,
              RecordDelivery
<1>4. CASE Entering
  BY <1>4 DEF Entering, StartVerify, StartConsume, GatherCandidates, EndCall, VerifyRight,
              VerifyWrong, ConsumeLogin, RevokeSession
<1> QED
  BY <1>1, <1>2, <1>3, <1>4 DEF Next

\* Who writes sessions.
LEMMA SessionWriters ==
    ASSUME [Next]_vars
    PROVE  \/ UNCHANGED session
           \/ \E i \in Installations, b \in BOOLEAN : ChangeInstallation(i, b)
           \/ \E t \in Calls : ConsumeEnrollment(t) \/ ConsumeLogin(t)
           \/ \E s \in Sessions : RevokeSession(s)
<1>1. CASE UNCHANGED vars
  BY <1>1 DEF vars
<1>2. CASE Housekeeping
  BY <1>2 DEF Housekeeping, Tick, Scrub, Cleanup
<1>3. CASE Requesting
  BY <1>3 DEF Requesting, IssueOperatorGrant, IssueCallbackGrant, RequestEnrollment,
              RequestLogin, InsertChallenge, RecordDelivery
<1>4. CASE Entering
  BY <1>4 DEF Entering, StartVerify, StartConsume, GatherCandidates, EndCall, VerifyRight,
              VerifyWrong
<1> QED
  BY <1>1, <1>2, <1>3, <1>4 DEF Next

\* A call begins, gathers its candidates, or is over.
LEMMA CallWriters ==
    ASSUME [Next]_vars
    PROVE  \/ UNCHANGED call
           \/ \E t \in Calls, c \in Challenges :
                StartVerify(t, c) \/ \E s \in Sessions : StartConsume(t, c, s)
           \/ \E t \in Calls : GatherCandidates(t)
           \/ \E t \in Calls : call' = [call EXCEPT ![t] = Idle]
<1>1. CASE UNCHANGED vars
  BY <1>1 DEF vars
<1>2. CASE Housekeeping
  BY <1>2 DEF Housekeeping, Tick, Scrub, Cleanup, ChangeInstallation
<1>3. CASE Requesting
  BY <1>3 DEF Requesting, IssueOperatorGrant, IssueCallbackGrant, RequestEnrollment,
              RequestLogin, InsertChallenge, RecordDelivery
<1>4. CASE Entering
  BY <1>4 DEF Entering, EndCall, VerifyRight, VerifyWrong, ConsumeEnrollment,
              ConsumeLogin, RevokeSession
<1> QED
  BY <1>1, <1>2, <1>3, <1>4 DEF Next

\* The codes only take their steps, stuttering included.
LEMMA CodesTakeSteps ==
    ASSUME TypeOK, [Next]_vars
    PROVE  challenge' \in [Challenges -> Challenge] /\ CodesStep
<1>1. CASE UNCHANGED vars
  BY <1>1 DEF vars, TypeOK, CodesStep, CodeStep
<1> QED
  BY <1>1, NextCodesStep

-----------------------------------------------------------------------------
(* Types.                                                                  *)

\* Installations, grants and administrators keep their types.
LEMMA GrantTypes ==
    ASSUME TypeOK, [Next]_vars, \A t \in Calls : CallSound(t)
    PROVE  /\ install' \in [Installations -> [installed : BOOLEAN, generation : Nat]]
           /\ grant' \in [Grants -> Grant]
           /\ administrator' \in [Grants -> [state : {"absent", "active", "revoked"},
                                             email : Emails \cup {NoOne}]]
<1> /\ now \in Nat
    /\ install \in [Installations -> [installed : BOOLEAN, generation : Nat]]
    /\ grant \in [Grants -> Grant]
    /\ administrator \in [Grants -> [state : {"absent", "active", "revoked"},
                                     email : Emails \cup {NoOne}]]
    /\ challenge \in [Challenges -> Challenge]
  BY DEF TypeOK
<1>1. CASE UNCHANGED <<install, grant, administrator>>
  BY <1>1
<1>2. ASSUME NEW i \in Installations, NEW b \in BOOLEAN, ChangeInstallation(i, b)
      PROVE  /\ install' \in [Installations -> [installed : BOOLEAN, generation : Nat]]
             /\ grant' \in [Grants -> Grant]
             /\ administrator' \in [Grants -> [state : {"absent", "active", "revoked"},
                                               email : Emails \cup {NoOne}]]
  <2>1. install' \in [Installations -> [installed : BOOLEAN, generation : Nat]]
    BY <1>2 DEF ChangeInstallation
  <2>2. grant' \in [Grants -> Grant]
    <3>1. \A g \in Grants : [grant[g] EXCEPT !.state = "revoked"] \in Grant
      BY DEF Grant
    <3> QED
      BY <1>2, <3>1 DEF ChangeInstallation, Invalidate
  <2>3. \A g \in Grants : [administrator[g] EXCEPT !.state = "revoked"]
                            \in [state : {"absent", "active", "revoked"},
                                 email : Emails \cup {NoOne}]
    OBVIOUS
  <2> QED
    BY <1>2, <2>1, <2>2, <2>3 DEF ChangeInstallation, Invalidate
<1>3. ASSUME NEW i \in Installations, NEW e \in Emails \cup {NoOne}, NEW ttl \in GrantTtls,
             NEW m \in Methods, NEW time \in Nat
      PROVE  NewGrant(i, m, e, time, ttl) \in Grant
  <2>1. time + ttl \in Nat /\ install[i].generation \in Nat
    BY SettingsAuthAssumption
  <2> QED
    BY <2>1 DEF NewGrant, Grant
<1>4. ASSUME NEW g \in Grants, NEW i \in Installations, NEW e \in Emails,
             IssueOperatorGrant(g, i, e)
      PROVE  grant' \in [Grants -> Grant] /\ UNCHANGED <<install, administrator>>
  <2>1. \A h \in Grants : [grant[h] EXCEPT !.state = "revoked"] \in Grant
    BY DEF Grant
  <2>2. PICK time \in 1..now, ttl \in GrantTtls :
          grant' = [h \in Grants |->
            IF h = g THEN NewGrant(i, "operator", e, time, ttl)
            ELSE IF h \in Former(i, e, time) THEN [grant[h] EXCEPT !.state = "revoked"]
            ELSE grant[h]]
    BY <1>4 DEF IssueOperatorGrant
  <2>3. NewGrant(i, "operator", e, time, ttl) \in Grant
    BY <1>3, <1>4 DEF IssueOperatorGrant
  <2> QED
    BY <1>4, <2>1, <2>2, <2>3 DEF IssueOperatorGrant
<1>5. ASSUME NEW g \in Grants, NEW i \in Installations, IssueCallbackGrant(g, i)
      PROVE  grant' \in [Grants -> Grant] /\ UNCHANGED <<install, administrator>>
  <2>1. PICK ttl \in GrantTtls :
          grant' = [grant EXCEPT ![g] = NewGrant(i, "install_callback", NoOne, now, ttl)]
    BY <1>5 DEF IssueCallbackGrant
  <2>2. "install_callback" \in Methods
    BY <1>5 DEF IssueCallbackGrant
  <2> QED
    BY <1>3, <1>5, <2>1, <2>2 DEF IssueCallbackGrant
<1>6. ASSUME NEW t \in Calls, ConsumeEnrollment(t)
      PROVE  /\ UNCHANGED install
             /\ grant' \in [Grants -> Grant]
             /\ administrator' \in [Grants -> [state : {"absent", "active", "revoked"},
                                               email : Emails \cup {NoOne}]]
  <2> DEFINE c == call[t].challenge
             g == challenge[c].grant
             e == challenge[c].email
  <2>1. /\ grant' = [grant EXCEPT ![g].state = "consumed"]
        /\ administrator' = [administrator EXCEPT ![g] = [state |-> "active", email |-> e]]
    BY <1>6 DEF ConsumeEnrollment
  <2>2. c \in Challenges
    BY <1>6 DEF ConsumeEnrollment, Decides, CallSound
  <2>3. e \in Emails \cup {NoOne}
    BY <2>2, ChallengeColumns
  <2>4. \A h \in Grants : [grant[h] EXCEPT !.state = "consumed"] \in Grant
    BY DEF Grant
  <2>5. UNCHANGED install
    BY <1>6 DEF ConsumeEnrollment
  <2> HIDE DEF e, g, c
  <2> QED
    BY <2>1, <2>3, <2>4, <2>5
<1> QED
  BY <1>1, <1>2, <1>4, <1>5, <1>6, GrantWriters

\* The columns of a grant whose state alone changes.
LEMMA GrantColumns ==
    ASSUME NEW row \in Grant, NEW s, NEW new, new = [row EXCEPT !.state = s]
    PROVE  /\ new.state = s /\ new.installation = row.installation
           /\ new.generation = row.generation /\ new.method = row.method
           /\ new.email = row.email /\ new.issued_at = row.issued_at
           /\ new.expires_at = row.expires_at
  BY DEF Grant

-----------------------------------------------------------------------------
(* A code is consumed.                                                     *)

\* The session and the administrator a consumed code leaves.
Opened(t, g) ==
    LET c == call[t].challenge
        s == call[t].session
    IN  /\ g \in Grants /\ GrantEligible(g)
        /\ c \in Challenges /\ s \in Sessions
        /\ challenge[c].state = "verified" /\ session[s].state = "absent"
        /\ challenge[c].purpose = "enrollment" => challenge[c].grant = g
        /\ session' = [session EXCEPT ![s] =
             [state |-> "live", administrator |-> g, generation |-> grant[g].generation,
              challenge |-> c, expires_at |-> now + SessionTtl]]
        /\ challenge'[c].state = "consumed"
        /\ challenge'[c].email = challenge[c].email
        /\ challenge'[c].purpose = challenge[c].purpose
        /\ challenge'[c].grant = challenge[c].grant
        /\ administrator'[g].state = "active"
        /\ administrator'[g].email = challenge[c].email
        /\ grant'[g].generation = grant[g].generation
        /\ call[t].op = "consume" /\ call' = [call EXCEPT ![t] = Idle]

\* What the decision of a call has under its locks.
LEMMA DecidesOn ==
    ASSUME NEW t \in Calls, NEW op, Decides(t, op), CallSound(t)
    PROVE  /\ call[t].challenge \in Challenges
           /\ challenge[call[t].challenge].purpose \in {"enrollment", "login"}
           /\ op = "consume" => /\ call[t].session \in Sessions
                                /\ session[call[t].session].state = "absent"
  BY DEF Decides, CallSound

\* Consuming an enrollment's code spends the grant, makes the administrator and
\* supersedes the other codes of the grant.
LEMMA EnrollmentEffect ==
    ASSUME AuthInv, NEW t \in Calls, ConsumeEnrollment(t)
    PROVE  LET c == call[t].challenge
               g == challenge[c].grant
           IN  /\ Opened(t, g)
               /\ challenge[c].purpose = "enrollment"
               /\ grant[g].state = "live" /\ administrator[g].state = "absent"
               /\ grant[g].method = "operator" /\ grant[g].email = challenge[c].email
               /\ grant'[g].state = "consumed"
               /\ grant'[g].installation = grant[g].installation
               /\ grant'[g].method = grant[g].method
               /\ grant'[g].email = grant[g].email
               /\ grant' = [grant EXCEPT ![g] = [grant[g] EXCEPT !.state = "consumed"]]
               /\ \A h \in Grants \ {g} : /\ grant'[h] = grant[h]
                                          /\ administrator'[h] = administrator[h]
               /\ \E codes :
                    /\ Superseding(codes, CodesOf({g})) /\ codes[c] = challenge[c]
                    /\ challenge' = [codes EXCEPT ![c] = Ended(challenge[c], "consumed", now)]
               /\ AliasFree(challenge[c].email)
               /\ UNCHANGED install
<1> DEFINE c == call[t].challenge
           g == challenge[c].grant
<1>1. /\ grant \in [Grants -> Grant]
      /\ administrator \in [Grants -> [state : {"absent", "active", "revoked"},
                                       email : Emails \cup {NoOne}]]
      /\ challenge \in [Challenges -> Challenge] /\ now \in Nat
      /\ session \in [Sessions -> Session]
  BY DEF AuthInv, TypeOK
<1>2. /\ Decides(t, "consume") /\ challenge[c].purpose = "enrollment"
      /\ Usable(c, "verified") /\ grant[g].method = "operator"
      /\ \E time : EnrollmentBacked(c, time)
  BY DEF ConsumeEnrollment, Consumable
<1>3. c \in Challenges /\ call[t].session \in Sessions
      /\ session[call[t].session].state = "absent"
  BY <1>2, DecidesOn DEF AuthInv
<1>4. g \in Grants /\ GrantSound(g)
  BY <1>2, <1>3 DEF AuthInv, CodeSound, RowSound
<1>5. /\ grant[g].state = "live" /\ GrantEligible(g)
      /\ grant[g].email \in {NoOne, challenge[c].email}
  BY <1>2 DEF EnrollmentBacked
<1>6. grant[g].email = challenge[c].email
  BY <1>2, <1>4, <1>5, SettingsAuthAssumption DEF GrantSound
<1>7. administrator[g].state = "absent"
  BY <1>4, <1>5 DEF GrantSound
<1>8. /\ grant' = [grant EXCEPT ![g].state = "consumed"]
      /\ administrator' = [administrator EXCEPT ![g] =
                             [state |-> "active", email |-> challenge[c].email]]
      /\ UNCHANGED install /\ call' = [call EXCEPT ![t] = Idle]
  BY DEF ConsumeEnrollment
<1>9. session' = [session EXCEPT ![call[t].session] =
             [state |-> "live", administrator |-> g, generation |-> grant[g].generation,
              challenge |-> c, expires_at |-> now + SessionTtl]]
  BY Zenon DEF ConsumeEnrollment, OpenSession
<1>10. PICK since, codes : /\ codes \in WithoutGrants({g}, since)
                           /\ challenge' = [codes EXCEPT ![c] = Ended(codes[c], "consumed", now)]
  BY Zenon DEF ConsumeEnrollment
<1>11. Superseding(codes, CodesOf({g}))
  BY <1>1, <1>10, WithoutGrantsStep
<1>12. /\ codes[c] = challenge[c]
       /\ challenge' = [codes EXCEPT ![c] = Ended(challenge[c], "consumed", now)]
       /\ challenge'[c] = Ended(challenge[c], "consumed", now)
  <2>1. codes[c] = challenge[c] /\ codes \in [Challenges -> Challenge]
    BY <1>2, <1>3, <1>11 DEF Superseding, CodeSuperseded, Usable
  <2> QED
    BY <1>3, <1>10, <2>1
<1>13. /\ challenge'[c].state = "consumed" /\ challenge'[c].email = challenge[c].email
       /\ challenge'[c].purpose = challenge[c].purpose
       /\ challenge'[c].grant = challenge[c].grant
  BY <1>1, <1>3, <1>12, EndedColumns
<1>14. AliasFree(challenge[c].email)
  BY <1>2 DEF Decides
<1>15. grant'[g] = [grant[g] EXCEPT !.state = "consumed"]
  BY <1>1, <1>4, <1>8
<1>16. /\ grant'[g].state = "consumed" /\ grant'[g].installation = grant[g].installation
       /\ grant'[g].method = grant[g].method /\ grant'[g].email = grant[g].email
       /\ grant'[g].generation = grant[g].generation
  BY <1>1, <1>4, <1>15, GrantColumns
<1>17. /\ administrator'[g].state = "active"
       /\ administrator'[g].email = challenge[c].email
       /\ \A h \in Grants \ {g} : /\ grant'[h] = grant[h]
                                  /\ administrator'[h] = administrator[h]
  BY <1>1, <1>4, <1>8
<1>18. Opened(t, g)
  BY <1>2, <1>3, <1>4, <1>5, <1>8, <1>9, <1>13, <1>16, <1>17 DEF Opened, Usable, Decides
<1>19. grant' = [grant EXCEPT ![g] = [grant[g] EXCEPT !.state = "consumed"]]
  BY <1>8, Zenon
<1> QED
  BY <1>2, <1>5, <1>6, <1>7, <1>8, <1>11, <1>12, <1>14, <1>16, <1>17, <1>18, <1>19

\* Consuming a login's code opens the session of its one candidate.
LEMMA LoginEffect ==
    ASSUME AuthInv, NEW t \in Calls, ConsumeLogin(t)
    PROVE  LET c == call[t].challenge
           IN  /\ \E g \in Grants :
                    /\ Opened(t, g)
                    /\ Principals(challenge[c].email, call[t].candidates) = {g}
               /\ challenge[c].purpose = "login" /\ call[t].stage = "gathered"
               /\ challenge' = [challenge EXCEPT ![c] = Ended(challenge[c], "consumed", now)]
               /\ UNCHANGED <<install, grant, administrator>>
<1> DEFINE c == call[t].challenge
<1>1. /\ challenge \in [Challenges -> Challenge] /\ now \in Nat
      /\ call \in [Calls -> Call]
  BY DEF AuthInv, TypeOK
<1>2. /\ Decides(t, "consume") /\ challenge[c].purpose = "login" /\ Usable(c, "verified")
      /\ UNCHANGED <<install, grant, administrator>> /\ call' = [call EXCEPT ![t] = Idle]
  BY DEF ConsumeLogin, Consumable
<1>3. c \in Challenges /\ call[t].session \in Sessions
      /\ session[call[t].session].state = "absent" /\ call[t].stage = "gathered"
  BY <1>2, DecidesOn DEF AuthInv, Decides
<1>4. PICK g \in Principals(challenge[c].email, call[t].candidates) :
        Principals(challenge[c].email, call[t].candidates) = {g} /\ OpenSession(t, g)
  BY DEF ConsumeLogin
<1>5. call[t].candidates \subseteq Grants
  BY <1>1 DEF Call
<1>6. /\ g \in Grants /\ administrator[g].state = "active"
      /\ administrator[g].email = challenge[c].email /\ GrantEligible(g)
  BY <1>5 DEF Principals
<1>7. challenge' = [challenge EXCEPT ![c] = Ended(challenge[c], "consumed", now)]
  BY Zenon DEF ConsumeLogin
<1>8. /\ challenge'[c].state = "consumed" /\ challenge'[c].email = challenge[c].email
      /\ challenge'[c].purpose = challenge[c].purpose
      /\ challenge'[c].grant = challenge[c].grant
  BY <1>1, <1>3, <1>7, EndedColumns
<1>9. session' = [session EXCEPT ![call[t].session] =
             [state |-> "live", administrator |-> g, generation |-> grant[g].generation,
              challenge |-> c, expires_at |-> now + SessionTtl]]
  BY <1>4, Zenon DEF OpenSession
<1>10. Opened(t, g)
  BY <1>2, <1>3, <1>6, <1>8, <1>9 DEF Opened, Usable, Decides
<1> QED
  BY <1>2, <1>3, <1>4, <1>6, <1>7, <1>10

-----------------------------------------------------------------------------
(* Types of sessions and calls.                                            *)

\* Whoever opens a session, consuming a code does so for an administrator.
LEMMA Openings ==
    ASSUME AuthInv, NEW t \in Calls, ConsumeEnrollment(t) \/ ConsumeLogin(t)
    PROVE  \E g \in Grants : Opened(t, g)
<1>1. CASE ConsumeEnrollment(t)
  BY <1>1, EnrollmentEffect DEF Opened
<1>2. CASE ConsumeLogin(t)
  BY <1>2, LoginEffect
<1> QED
  BY <1>1, <1>2

\* Sessions keep their type.
LEMMA SessionTypes ==
    ASSUME AuthInv, [Next]_vars
    PROVE  session' \in [Sessions -> Session]
<1>1. /\ session \in [Sessions -> Session] /\ grant \in [Grants -> Grant] /\ now \in Nat
  BY DEF AuthInv, TypeOK
<1>2. \A s \in Sessions : [session[s] EXCEPT !.state = "revoked"] \in Session
  BY <1>1 DEF Session
<1>3. ASSUME NEW i \in Installations, NEW b \in BOOLEAN, ChangeInstallation(i, b)
      PROVE  session' \in [Sessions -> Session]
  BY <1>1, <1>2, <1>3 DEF ChangeInstallation, Invalidate
<1>4. ASSUME NEW t \in Calls, NEW g \in Grants, Opened(t, g)
      PROVE  session' \in [Sessions -> Session]
  <2>1. now + SessionTtl \in Nat /\ grant[g].generation \in Nat
    BY <1>1, SettingsAuthAssumption DEF Grant
  <2> QED
    BY <1>1, <1>4, <2>1 DEF Opened, Session
<1>5. ASSUME NEW s \in Sessions, RevokeSession(s)
      PROVE  session' \in [Sessions -> Session]
  BY <1>1, <1>2, <1>5 DEF RevokeSession
<1> QED
  BY <1>1, <1>3, <1>4, <1>5, Openings, SessionWriters

\* Calls keep their type.
LEMMA CallTypes ==
    ASSUME AuthInv, [Next]_vars
    PROVE  call' \in [Calls -> Call]
<1>1. call \in [Calls -> Call]
  BY DEF AuthInv, TypeOK
<1>2. Idle \in Call
  BY DEF Idle, Call
<1>3. ASSUME NEW t \in Calls, NEW c \in Challenges, StartVerify(t, c)
      PROVE  call' \in [Calls -> Call]
  <2>1. [Idle EXCEPT !.op = "verify", !.stage = "found", !.challenge = c] \in Call
    BY <1>2 DEF Call
  <2> QED
    BY <1>1, <1>3, <2>1 DEF StartVerify
<1>4. ASSUME NEW t \in Calls, NEW c \in Challenges, NEW s \in Sessions, StartConsume(t, c, s)
      PROVE  call' \in [Calls -> Call]
  <2>1. [Idle EXCEPT !.op = "consume", !.stage = "found", !.challenge = c, !.session = s]
          \in Call
    BY <1>2 DEF Call
  <2> QED
    BY <1>1, <1>4, <2>1 DEF StartConsume
<1>5. ASSUME NEW t \in Calls, GatherCandidates(t)
      PROVE  call' \in [Calls -> Call]
  <2>1. PICK known \in SUBSET Grants :
          call' = [call EXCEPT ![t].stage = "gathered", ![t].candidates = known]
    BY <1>5 DEF GatherCandidates
  <2>2. [call[t] EXCEPT !.stage = "gathered", !.candidates = known] \in Call
    BY <1>1 DEF Call
  <2>3. call' = [call EXCEPT ![t] = [call[t] EXCEPT !.stage = "gathered", !.candidates = known]]
    BY <1>1, <2>1
  <2> QED
    BY <1>1, <2>2, <2>3
<1> QED
  BY <1>1, <1>2, <1>3, <1>4, <1>5, CallWriters

-----------------------------------------------------------------------------
(* Grants stay sound.                                                      *)

\* A step that leaves installations, grants and administrators alone.
LEMMA SameGrants ==
    ASSUME UNCHANGED <<install, grant, administrator>>, NEW g \in Grants, GrantSound(g)
    PROVE  GrantSound(g)'
  BY DEF GrantSound, GrantEligible, Eligible

\* Invalidation takes what belongs to the installation, before it changes.
LEMMA ChangedGrants ==
    ASSUME TypeOK, \A g \in Grants : GrantSound(g),
           NEW i \in Installations, NEW b \in BOOLEAN, ChangeInstallation(i, b),
           NEW g \in Grants
    PROVE  /\ GrantSound(g)'
           /\ grant'[g].generation = grant[g].generation
           /\ \/ grant'[g].state = grant[g].state
              \/ /\ grant[g].state = "live" /\ grant'[g].state = "revoked"
                 /\ g \in EndedWith(i)
           /\ administrator'[g].email = administrator[g].email
           /\ \/ administrator'[g] = administrator[g]
              \/ /\ administrator[g].state = "active" /\ administrator'[g].state = "revoked"
                 /\ BelongsTo(g, i)
<1>1. /\ grant \in [Grants -> Grant]
      /\ administrator \in [Grants -> [state : {"absent", "active", "revoked"},
                                       email : Emails \cup {NoOne}]]
      /\ install \in [Installations -> [installed : BOOLEAN, generation : Nat]]
  BY DEF TypeOK
<1>2. /\ grant'[g] = IF g \in EndedWith(i) THEN [grant[g] EXCEPT !.state = "revoked"]
                     ELSE grant[g]
      /\ administrator'[g] = IF administrator[g].state = "active" /\ BelongsTo(g, i)
                             THEN [administrator[g] EXCEPT !.state = "revoked"]
                             ELSE administrator[g]
  BY DEF ChangeInstallation, Invalidate
<1>3. /\ grant'[g].installation = grant[g].installation
      /\ grant'[g].generation = grant[g].generation
      /\ grant'[g].method = grant[g].method /\ grant'[g].email = grant[g].email
      /\ grant'[g].state = IF g \in EndedWith(i) THEN "revoked" ELSE grant[g].state
  BY <1>1, <1>2, GrantColumns
<1>4. /\ administrator'[g].email = administrator[g].email
      /\ administrator'[g].state = IF administrator[g].state = "active" /\ BelongsTo(g, i)
                                   THEN "revoked" ELSE administrator[g].state
  BY <1>1, <1>2
<1>5. \A j \in Installations \ {i} : install'[j] = install[j]
  BY <1>1 DEF ChangeInstallation
<1>6. GrantEligible(g) /\ grant[g].installation = i => BelongsTo(g, i)
  BY DEF GrantEligible, Eligible, BelongsTo
<1>7. GrantSound(g)
  OBVIOUS
<1>8. grant[g].state = "live" /\ g \notin EndedWith(i)
        => GrantEligible(g) /\ grant[g].installation \in Installations \ {i}
  BY <1>6, <1>7 DEF EndedWith, GrantSound
<1>9. administrator[g].state = "active" /\ ~BelongsTo(g, i)
        => GrantEligible(g) /\ grant[g].installation \in Installations \ {i}
  BY <1>1, <1>6, <1>7 DEF GrantSound
<1>10. GrantEligible(g) /\ grant[g].installation \in Installations \ {i}
         => GrantEligible(g)'
  BY <1>3, <1>5 DEF GrantEligible, Eligible
<1>11. g \in EndedWith(i) => grant[g].state = "live"
  BY DEF EndedWith
<1>12. /\ grant'[g].state # "absent" => grant'[g].installation \in Installations
       /\ grant'[g].method = "operator" => grant'[g].email \in Emails
  BY <1>3, <1>7, <1>11 DEF GrantSound
<1>13. grant'[g].state = "consumed" <=> administrator'[g].state # "absent"
  BY <1>3, <1>4, <1>7, <1>11 DEF GrantSound
<1>14. /\ grant'[g].state = "live" => GrantEligible(g)'
       /\ administrator'[g].state = "active" => GrantEligible(g)'
  BY <1>3, <1>4, <1>8, <1>9, <1>10
<1>15. GrantSound(g)'
  BY <1>12, <1>13, <1>14 DEF GrantSound
<1> QED
  BY <1>2, <1>3, <1>4, <1>11, <1>15

\* The columns of a grant that is issued.
LEMMA IssuedColumns ==
    ASSUME NEW i, NEW m, NEW e, NEW time, NEW ttl
    PROVE  LET new == NewGrant(i, m, e, time, ttl)
           IN  /\ new.state = "live" /\ new.installation = i
               /\ new.generation = install[i].generation
               /\ new.method = m /\ new.email = e
  BY DEF NewGrant

\* An operator's grant is sound, and revokes the former ones with their codes.
LEMMA OperatorGrants ==
    ASSUME TypeOK, \A h \in Grants : GrantSound(h), NEW g \in Grants,
           NEW i \in Installations, NEW e \in Emails, IssueOperatorGrant(g, i, e)
    PROVE  \E former \in SUBSET Grants :
             /\ Superseding(challenge', CodesOf(former))
             /\ \A h \in Grants :
                  /\ GrantSound(h)'
                  /\ \/ h \notin former /\ grant'[h] = grant[h]
                     \/ /\ h \in former /\ grant[h].state = "live"
                        /\ grant'[h] = [grant[h] EXCEPT !.state = "revoked"]
                     \/ /\ h = g /\ grant[h].state = "absent" /\ h \notin former
                        /\ grant'[h].state = "live"
                        /\ Eligible(grant'[h].installation, grant'[h].generation)
<1>1. /\ grant \in [Grants -> Grant] /\ grant[g].state = "absent" /\ install[i].installed
      /\ challenge \in [Challenges -> Challenge] /\ now \in Nat
      /\ UNCHANGED <<install, administrator>>
  BY DEF IssueOperatorGrant, TypeOK
<1>2. PICK time, ttl :
        /\ grant' = [h \in Grants |->
             IF h = g THEN NewGrant(i, "operator", e, time, ttl)
             ELSE IF h \in Former(i, e, time) THEN [grant[h] EXCEPT !.state = "revoked"]
             ELSE grant[h]]
        /\ challenge' \in WithoutGrants(Former(i, e, time), time)
  BY DEF IssueOperatorGrant
<1> DEFINE former == Former(i, e, time)
           new == NewGrant(i, "operator", e, time, ttl)
<1>3. former \in SUBSET Grants /\ \A h \in former : grant[h].state = "live"
  BY DEF Former, EndedWith
<1>4. Superseding(challenge', CodesOf(former))
  BY <1>1, <1>2, WithoutGrantsStep
<1>5. /\ new.state = "live" /\ new.installation = i
      /\ new.generation = install[i].generation
      /\ new.method = "operator" /\ new.email = e
  BY IssuedColumns
<1> HIDE DEF former, new
<1>6. grant' = [h \in Grants |->
         IF h = g THEN new
         ELSE IF h \in former THEN [grant[h] EXCEPT !.state = "revoked"]
         ELSE grant[h]]
  BY <1>2 DEF former, new
<1>7. grant'[g] = new
  BY <1>6
<1>8. Eligible(grant'[g].installation, grant'[g].generation)
  BY <1>1, <1>5, <1>7 DEF Eligible
<1>9. GrantSound(g)'
  <2>1. administrator[g].state = "absent"
    BY <1>1 DEF GrantSound, TypeOK
  <2> QED
    BY <1>1, <1>5, <1>7, <2>1 DEF GrantSound, GrantEligible, Eligible
<1>10. ASSUME NEW h \in Grants \ {g}, h \in former
       PROVE  GrantSound(h)' /\ grant'[h] = [grant[h] EXCEPT !.state = "revoked"]
  <2>1. grant'[h] = [grant[h] EXCEPT !.state = "revoked"]
    BY <1>6, <1>10
  <2>2. /\ grant'[h].state = "revoked" /\ grant'[h].installation = grant[h].installation
        /\ grant'[h].method = grant[h].method /\ grant'[h].email = grant[h].email
    BY <1>1, <2>1, GrantColumns
  <2>3. administrator[h].state = "absent"
    BY <1>3, <1>10 DEF GrantSound, TypeOK
  <2>4. grant[h].state = "live" /\ GrantSound(h)
    BY <1>3, <1>10
  <2>5. GrantSound(h)'
    BY <1>1, <2>2, <2>3, <2>4 DEF GrantSound
  <2> QED
    BY <2>1, <2>5
<1>11. ASSUME NEW h \in Grants \ {g}, h \notin former
       PROVE  GrantSound(h)' /\ grant'[h] = grant[h]
  <2>1. grant'[h] = grant[h]
    BY <1>6, <1>11
  <2> QED
    BY <1>1, <2>1 DEF GrantSound, GrantEligible, Eligible
<1>12. g \notin former
  BY <1>1, <1>3
<1> QED
  BY <1>1, <1>3, <1>4, <1>5, <1>7, <1>8, <1>9, <1>10, <1>11, <1>12

\* A callback's grant is sound, and the others are left alone.
LEMMA CallbackGrants ==
    ASSUME TypeOK, \A h \in Grants : GrantSound(h), NEW g \in Grants,
           NEW i \in Installations, IssueCallbackGrant(g, i)
    PROVE  \A h \in Grants :
             /\ GrantSound(h)'
             /\ \/ grant'[h] = grant[h]
                \/ /\ h = g /\ grant[h].state = "absent"
                   /\ grant'[h].state = "live"
                   /\ Eligible(grant'[h].installation, grant'[h].generation)
<1>1. /\ grant \in [Grants -> Grant] /\ grant[g].state = "absent" /\ install[i].installed
      /\ UNCHANGED <<install, administrator>>
  BY DEF IssueCallbackGrant, TypeOK
<1>2. PICK ttl :
        grant' = [grant EXCEPT ![g] = NewGrant(i, "install_callback", NoOne, now, ttl)]
  BY DEF IssueCallbackGrant
<1>3. /\ grant'[g] = NewGrant(i, "install_callback", NoOne, now, ttl)
      /\ \A h \in Grants \ {g} : grant'[h] = grant[h]
  BY <1>1, <1>2
<1>4. /\ grant'[g].state = "live" /\ grant'[g].installation = i
      /\ grant'[g].generation = install[i].generation
      /\ grant'[g].method = "install_callback"
  BY <1>3, IssuedColumns
<1>5. Eligible(grant'[g].installation, grant'[g].generation)
  BY <1>1, <1>4 DEF Eligible
<1>6. GrantSound(g)'
  <2>1. administrator[g].state = "absent"
    BY <1>1 DEF GrantSound, TypeOK
  <2> QED
    BY <1>1, <1>4, <2>1 DEF GrantSound, GrantEligible, Eligible
<1>7. \A h \in Grants \ {g} : GrantSound(h)'
  BY <1>1, <1>3 DEF GrantSound, GrantEligible, Eligible
<1> QED
  BY <1>1, <1>3, <1>4, <1>5, <1>6, <1>7

\* A grant that is spent is sound with its administrator.
LEMMA SpentGrants ==
    ASSUME AuthInv, NEW t \in Calls, ConsumeEnrollment(t), NEW h \in Grants
    PROVE  GrantSound(h)'
<1> DEFINE g == challenge[call[t].challenge].grant
<1>1. GrantSound(h)
  BY DEF AuthInv
<1>2. /\ Opened(t, g) /\ grant[g].state = "live"
      /\ grant'[g].state = "consumed"
      /\ grant'[g].installation = grant[g].installation
      /\ grant'[g].method = grant[g].method /\ grant'[g].email = grant[g].email
      /\ \A k \in Grants \ {g} : /\ grant'[k] = grant[k]
                                 /\ administrator'[k] = administrator[k]
      /\ UNCHANGED install
  BY EnrollmentEffect
<1>3. /\ GrantEligible(g) /\ administrator'[g].state = "active"
      /\ grant'[g].generation = grant[g].generation
  BY <1>2 DEF Opened
<1>4. CASE h = g
  BY <1>1, <1>2, <1>3, <1>4 DEF GrantSound, GrantEligible, Eligible
<1>5. CASE h # g
  BY <1>1, <1>2, <1>5 DEF GrantSound, GrantEligible, Eligible
<1> QED
  BY <1>4, <1>5

\* Every grant stays sound.
LEMMA GrantsStaySound ==
    ASSUME AuthInv, [Next]_vars
    PROVE  \A g \in Grants : GrantSound(g)'
<1> TypeOK /\ \A g \in Grants : GrantSound(g)
  BY DEF AuthInv
<1>1. CASE UNCHANGED <<install, grant, administrator>>
  BY <1>1, SameGrants
<1>2. ASSUME NEW i \in Installations, NEW b \in BOOLEAN, ChangeInstallation(i, b)
      PROVE  \A g \in Grants : GrantSound(g)'
  BY <1>2, ChangedGrants
<1>3. ASSUME NEW g \in Grants, NEW i \in Installations,
             NEW e \in Emails, IssueOperatorGrant(g, i, e)
      PROVE  \A h \in Grants : GrantSound(h)'
  BY <1>3, OperatorGrants
<1>4. ASSUME NEW g \in Grants, NEW i \in Installations, IssueCallbackGrant(g, i)
      PROVE  \A h \in Grants : GrantSound(h)'
  BY <1>4, CallbackGrants
<1>5. ASSUME NEW t \in Calls, ConsumeEnrollment(t)
      PROVE  \A h \in Grants : GrantSound(h)'
  BY <1>5, SpentGrants
<1> QED
  BY <1>1, <1>2, <1>3, <1>4, <1>5, GrantWriters

-----------------------------------------------------------------------------
(* Codes stay sound.                                                       *)

\* Failures matter to the integrity of a row with its state and times alone.
LEMMA IntactColumns ==
    ASSUME NEW old \in Challenge, NEW new \in Challenge, ChallengeIntact(old),
           new.failures = old.failures, new.expires_at = old.expires_at,
           new.delivered_at = old.delivered_at,
           old.state # "locked", new.state # "locked"
    PROVE  ChallengeIntact(new)
  BY DEF ChallengeIntact

\* A further failure keeps the ledger in order, and the last one locks.
LEMMA FailedRow ==
    ASSUME NEW old \in Challenge, NEW new \in Challenge, now \in Nat,
           RowSound(old, now), old.state = "live", now < old.expires_at,
           new.failures = Append(old.failures, now),
           new.delivered_at = old.delivered_at, new.expires_at = old.expires_at,
           new.state = IF LocksAt(Len(new.failures)) THEN "locked" ELSE "live",
           new.state = "locked" => new.ended_at = now
    PROVE  /\ ChallengeIntact(new)
           /\ \A n \in DOMAIN new.failures : new.failures[n] <= now
           /\ Len(old.failures) < MaxFailures
<1> DEFINE f == old.failures
           k == Len(f)
<1>1. f \in Seq(Nat) /\ k \in Nat /\ old.delivered_at \in Nat /\ old.expires_at \in Nat
  BY ChallengeColumns
<1>2. MaxFailures \in Nat \ {0}
  BY SettingsAuthAssumption
<1>3. /\ k <= MaxFailures /\ k # MaxFailures
      /\ \A n \in 2..k : f[n - 1] <= f[n]
      /\ \A n \in 1..k : old.delivered_at <= f[n] /\ f[n] < old.expires_at
      /\ \A n \in 1..k : f[n] <= now
      /\ 0 < old.delivered_at /\ old.delivered_at <= now
  BY <1>1 DEF RowSound, ChallengeIntact
<1>4. /\ new.failures \in Seq(Nat) /\ Len(new.failures) = k + 1
      /\ DOMAIN new.failures = 1..(k + 1)
      /\ new.failures[k + 1] = now
      /\ \A n \in 1..k : new.failures[n] = f[n] /\ f[n] \in Nat
  BY <1>1
<1> HIDE DEF f, k
<1>5. \A n \in 1..(k + 1) : /\ new.failures[n] <= now
                            /\ old.delivered_at <= new.failures[n]
                            /\ new.failures[n] < old.expires_at
  <2> SUFFICES ASSUME NEW n \in 1..(k + 1)
               PROVE  /\ new.failures[n] <= now
                      /\ old.delivered_at <= new.failures[n]
                      /\ new.failures[n] < old.expires_at
    OBVIOUS
  <2>1. CASE n = k + 1
    BY <1>3, <1>4, <2>1
  <2>2. CASE n # k + 1
    <3>1. n \in 1..k
      BY <1>1, <2>2
    <3> QED
      BY <1>3, <1>4, <3>1
  <2> QED
    BY <2>1, <2>2
<1>6. \A n \in 2..(k + 1) : new.failures[n - 1] <= new.failures[n]
  <2> SUFFICES ASSUME NEW n \in 2..(k + 1)
               PROVE  new.failures[n - 1] <= new.failures[n]
    OBVIOUS
  <2>1. CASE n = k + 1
    <3>1. n - 1 \in 1..(k + 1)
      BY <1>1
    <3> QED
      BY <1>4, <1>5, <2>1, <3>1
  <2>2. CASE n # k + 1
    <3>1. n \in 2..k /\ n \in 1..k /\ n - 1 \in 1..k
      BY <1>1, <2>2
    <3> QED
      BY <1>3, <1>4, <3>1
  <2> QED
    BY <2>1, <2>2
<1>7. new.state = "locked" <=> k + 1 = MaxFailures
  BY <1>4 DEF LocksAt
<1>8. new.state = "locked" => new.ended_at = new.failures[MaxFailures]
  BY <1>4, <1>7
<1>9. k + 1 <= MaxFailures
  BY <1>1, <1>2, <1>3
<1>10. ChallengeIntact(new)
  BY <1>3, <1>4, <1>5, <1>6, <1>7, <1>8, <1>9 DEF ChallengeIntact
<1> QED
  BY <1>1, <1>2, <1>3, <1>4, <1>5, <1>10 DEF f, k

\* A row that has no failures yet, or any more.
LEMMA FreshRow ==
    ASSUME NEW new, new.failures = <<>>, new.state # "locked"
    PROVE  ChallengeIntact(new) /\ \A n \in DOMAIN new.failures : FALSE
<1>1. MaxFailures \in Nat \ {0}
  BY SettingsAuthAssumption
<1> QED
  BY <1>1 DEF ChallengeIntact

\* Time alone leaves a row sound.
LEMMA LaterRow ==
    ASSUME NEW row \in Challenge, now \in Nat, NEW later \in Nat, later >= now,
           RowSound(row, now)
    PROVE  RowSound(row, later)
<1>1. /\ row.created_at \in Nat /\ row.expires_at \in Nat
      /\ row.delivered_at \in Nat /\ row.verified_at \in Nat
      /\ \A n \in DOMAIN row.failures : row.failures[n] \in Nat
  BY ChallengeColumns
<1> QED
  BY <1>1 DEF RowSound

\* Every step of a code leaves its row sound.
LEMMA CodeStepSound ==
    ASSUME NEW old \in Challenge, NEW new, now \in Nat, now > 0, RowSound(old, now),
           CodeStep(old, new)
    PROVE  RowSound(new, now)
<1>1. CASE new = old
  BY <1>1
<1>2. CASE CodeInserted(old, new)
  <2>1. PICK p \in {"enrollment", "login"}, g \in Grants \cup {NoOne}, e \in Emails,
             time \in Nat, x \in Nat :
          /\ time <= now
          /\ new = NewChallenge(p, g, e, time, x)
          /\ p = "login" => g = NoOne
          /\ p = "enrollment" => g \in Grants
    BY <1>2 DEF CodeInserted
  <2>2. /\ new.purpose = p /\ new.grant = g /\ new.created_at = time /\ new.has_email
        /\ new.delivered_at = 0 /\ new.verified_at = 0
        /\ new.state = "pending" /\ new.failures = <<>>
    BY <2>1, NewChallengeColumns
  <2> QED
    BY <2>1, <2>2, FreshRow DEF RowSound
<1>3. CASE new = [NoChallenge EXCEPT !.state = "deleted"]
  <2>1. /\ new.state = "deleted" /\ new.purpose = "none" /\ new.created_at = 0
        /\ new.delivered_at = 0 /\ new.verified_at = 0
        /\ ~new.has_email /\ new.failures = <<>>
    BY <1>3, DeletedColumns
  <2>2. ChallengeIntact(new) /\ \A n \in DOMAIN new.failures : FALSE
    BY <2>1, FreshRow
  <2> QED
    BY <2>1, <2>2 DEF RowSound
<1>4. CASE ChallengeScrubbed(old, new)
  <2>1. /\ new \in Challenge /\ new.state = old.state /\ new.ended_at = old.ended_at
        /\ new.purpose = old.purpose /\ new.grant = old.grant
        /\ new.created_at = old.created_at /\ new.expires_at = old.expires_at
        /\ new.delivered_at = old.delivered_at /\ new.verified_at = old.verified_at
        /\ ~new.has_email /\ new.failures = old.failures
    BY <1>4, ScrubbedColumns DEF ChallengeScrubbed
  <2>2. ChallengeIntact(new)
    BY <2>1 DEF RowSound, ChallengeIntact
  <2>3. old.expires_at <= now /\ old.expires_at \in Nat
    BY <1>4, ChallengeColumns DEF ChallengeScrubbed
  <2> QED
    BY <2>1, <2>2, <2>3 DEF RowSound
<1>5. ASSUME old.state \in {"pending", "live", "verified"}, NEW time \in Nat,
             NEW s \in {"superseded", "failed", "consumed"}, new = Ended(old, s, time)
      PROVE  RowSound(new, now)
  <2>1. /\ new.state = s /\ new.purpose = old.purpose /\ new.grant = old.grant
        /\ new.created_at = old.created_at /\ new.expires_at = old.expires_at
        /\ new.delivered_at = old.delivered_at /\ new.verified_at = old.verified_at
        /\ ~new.has_email /\ new.failures = old.failures
    BY <1>5, EndedColumns
  <2>2. new \in Challenge
    BY <1>5, EndedType DEF ChallengeStates
  <2>3. ChallengeIntact(new)
    BY <1>5, <2>1, <2>2, IntactColumns DEF RowSound
  <2> QED
    BY <1>5, <2>1, <2>3 DEF RowSound
<1>6. CASE CodeSuperseded(old, new)
  BY <1>5, <1>6 DEF CodeSuperseded
<1>7. CASE CodeMoved(old, new)
  <2>1. ASSUME old.state = "pending", new = Delivered(old), now < old.expires_at
        PROVE  RowSound(new, now)
    <3>1. /\ new.state = "live" /\ new.purpose = old.purpose /\ new.grant = old.grant
          /\ new.created_at = old.created_at /\ new.expires_at = old.expires_at
          /\ new.delivered_at = now /\ new.verified_at = old.verified_at
          /\ new.failures = old.failures /\ new.has_email = old.has_email
      BY <2>1, DeliveredColumns
    <3>2. old.failures = <<>> /\ old.has_email
      BY <2>1 DEF RowSound
    <3>3. ChallengeIntact(new)
      BY <3>1, <3>2, FreshRow
    <3> QED
      BY <3>1, <3>2, <3>3 DEF RowSound
  <2>2. ASSUME old.state = "live", new = Verified(old), now < old.expires_at
        PROVE  RowSound(new, now)
    <3>1. /\ new.state = "verified" /\ new.purpose = old.purpose /\ new.grant = old.grant
          /\ new.created_at = old.created_at /\ new.expires_at = old.expires_at
          /\ new.delivered_at = old.delivered_at /\ new.verified_at = now
          /\ new.failures = old.failures /\ new.has_email = old.has_email
          /\ new \in Challenge
      BY <2>2, VerifiedColumns
    <3>2. ChallengeIntact(new)
      BY <2>2, <3>1, IntactColumns DEF RowSound
    <3>3. old.has_email
      BY <2>2 DEF RowSound
    <3> QED
      BY <3>1, <3>2, <3>3 DEF RowSound
  <2>3. ASSUME CodeFailed(old, new), old.has_email, now < old.expires_at
        PROVE  RowSound(new, now)
    <3>1. /\ old.state = "live" /\ new \in Challenge
          /\ new.failures = Append(old.failures, now)
          /\ new.state = IF LocksAt(Len(new.failures)) THEN "locked" ELSE "live"
          /\ new.state = "locked" => new.ended_at = now /\ ~new.has_email
          /\ new.state = "live" => new.has_email = old.has_email
          /\ new.purpose = old.purpose /\ new.grant = old.grant
          /\ new.created_at = old.created_at /\ new.expires_at = old.expires_at
          /\ new.delivered_at = old.delivered_at /\ new.verified_at = old.verified_at
      BY <2>3, CodeFailedColumns
    <3>2. ChallengeIntact(new) /\ \A n \in DOMAIN new.failures : new.failures[n] <= now
      BY <2>3, <3>1, FailedRow
    <3>3. new.state \in {"live", "locked"}
      BY <3>1
    <3> QED
      BY <2>3, <3>1, <3>2, <3>3 DEF RowSound
  <2> QED
    BY <1>5, <1>7, <2>1, <2>2, <2>3 DEF CodeMoved
<1> QED
  BY <1>1, <1>2, <1>3, <1>4, <1>6, <1>7 DEF CodeStep

\* Every code stays sound.
LEMMA CodesStaySound ==
    ASSUME AuthInv, [Next]_vars
    PROVE  \A c \in Challenges : CodeSound(c)'
<1>1. /\ challenge \in [Challenges -> Challenge] /\ now \in Nat /\ now > 0
      /\ challenge' \in [Challenges -> Challenge] /\ CodesStep
      /\ now' \in Nat /\ now' >= now
  BY CodesTakeSteps, TimeStep DEF AuthInv, TypeOK
<1>2. \A c \in Challenges : RowSound(challenge'[c], now)
  BY <1>1, CodeStepSound DEF AuthInv, CodeSound, CodesStep
<1>3. \A c \in Challenges : RowSound(challenge'[c], now')
  BY <1>1, <1>2, LaterRow
<1> QED
  BY <1>3 DEF CodeSound

-----------------------------------------------------------------------------
(* Which steps request and consume codes.                                  *)

\* No code is requested and none is consumed.
CodesKept ==
    \A c \in Challenges :
        /\ challenge'[c].state = "consumed" => challenge[c].state = "consumed"
        /\ challenge[c].state = "absent" => challenge'[c] = challenge[c]

\* Writing a row that is neither requested nor consumed.
LEMMA OneCodeKept ==
    ASSUME challenge \in [Challenges -> Challenge], NEW c, NEW new,
           challenge' = [challenge EXCEPT ![c] = new],
           c \in Challenges => new.state # "consumed" /\ challenge[c].state # "absent"
    PROVE  CodesKept
<1>1. \A d \in Challenges : challenge'[d] = IF d = c THEN new ELSE challenge[d]
  OBVIOUS
<1> QED
  BY <1>1 DEF CodesKept

\* Superseding codes requests and consumes none.
LEMMA SupersedingKept ==
    ASSUME challenge \in [Challenges -> Challenge], NEW rows, Superseding(challenge', rows)
    PROVE  CodesKept
<1>1. \A c \in Challenges :
        challenge'[c] = challenge[c] \/ CodeSuperseded(challenge[c], challenge'[c])
  BY DEF Superseding
<1>2. \A c \in Challenges : CodeSuperseded(challenge[c], challenge'[c]) =>
        challenge'[c].state = "superseded" /\ challenge[c].state # "absent"
  BY SupersededColumns DEF CodeSuperseded
<1> QED
  BY <1>1, <1>2 DEF CodesKept

\* Codes are requested by two RPCs and consumed by two.
LEMMA CodeWriters ==
    ASSUME AuthInv, [Next]_vars
    PROVE  \/ CodesKept
           \/ \E c \in Challenges, e \in Emails :
                RequestLogin(c, e) \/ \E g \in Grants : RequestEnrollment(c, g, e)
           \/ \E t \in Calls : ConsumeEnrollment(t) \/ ConsumeLogin(t)
<1> challenge \in [Challenges -> Challenge] /\ now \in Nat
  BY DEF AuthInv, TypeOK
<1>1. UNCHANGED challenge => CodesKept
  BY DEF CodesKept
<1>2. CASE UNCHANGED vars
  BY <1>1, <1>2 DEF vars
<1>3. ASSUME NEW c \in Challenges, Scrub(c)
      PROVE  CodesKept
  <2>1. challenge' = [challenge EXCEPT ![c] = [challenge[c] EXCEPT !.has_email = FALSE]]
    BY <1>3, Zenon DEF Scrub
  <2>2. [challenge[c] EXCEPT !.has_email = FALSE].state = challenge[c].state
    BY ScrubbedColumns
  <2>3. \A d \in Challenges \ {c} : challenge'[d] = challenge[d]
    BY <2>1
  <2>4. challenge'[c].state = challenge[c].state
    BY <2>1, <2>2
  <2>5. challenge[c].state # "absent"
    BY <1>3 DEF Scrub, AuthInv, CodeSound, RowSound
  <2> QED
    BY <2>3, <2>4, <2>5 DEF CodesKept
<1>4. ASSUME NEW c \in Challenges, Cleanup(c)
      PROVE  CodesKept
  BY <1>4, DeletedColumns, OneCodeKept DEF Cleanup
<1>5. ASSUME NEW i \in Installations, NEW b \in BOOLEAN, ChangeInstallation(i, b)
      PROVE  CodesKept
  BY <1>5, WithoutGrantsStep, SupersedingKept DEF ChangeInstallation, Invalidate
<1>6. ASSUME NEW g \in Grants, NEW i \in Installations, NEW e \in Emails,
             IssueOperatorGrant(g, i, e)
      PROVE  CodesKept
  <2>1. PICK former \in SUBSET Grants : Superseding(challenge', CodesOf(former))
    BY <1>6, OperatorGrants DEF AuthInv
  <2> QED
    BY <2>1, SupersedingKept
<1>7. ASSUME NEW c \in Challenges, RecordDelivery(c)
      PROVE  CodesKept
  <2>1. PICK new \in {Delivered(challenge[c]), Ended(challenge[c], "failed", now)} :
          challenge' = [challenge EXCEPT ![c] = new]
    BY <1>7, Zenon DEF RecordDelivery, Delivered
  <2>2. new.state # "consumed"
    BY <2>1, EndedColumns, DeliveredColumns
  <2> QED
    BY <1>7, <2>1, <2>2, OneCodeKept DEF RecordDelivery
<1>8. ASSUME NEW t \in Calls, VerifyRight(t)
      PROVE  CodesKept
  <2> DEFINE c == call[t].challenge
             new == Verified(challenge[c])
  <2>1. challenge' = [challenge EXCEPT ![c] = new]
    BY <1>8, Zenon DEF VerifyRight, Verified
  <2>2. Usable(c, "live")
    BY <1>8 DEF VerifyRight, Verifiable
  <2>3. c \in Challenges => new.state # "consumed"
    BY VerifiedColumns
  <2> HIDE DEF new
  <2> QED
    BY <2>1, <2>2, <2>3, OneCodeKept DEF Usable
<1>9. ASSUME NEW t \in Calls, VerifyWrong(t)
      PROVE  CodesKept
  <2> DEFINE c == call[t].challenge
             f == Append(challenge[c].failures, now)
             failed == [challenge[c] EXCEPT !.failures = f]
             new == IF LocksAt(Len(f)) THEN Ended(failed, "locked", now) ELSE failed
  <2>1. challenge' = [challenge EXCEPT ![c] = new]
    BY <1>9, Zenon DEF VerifyWrong
  <2>2. challenge[c].state = "live"
    BY <1>9 DEF VerifyWrong, Verifiable, Usable
  <2>3. c \in Challenges => f \in Seq(Nat)
    BY ChallengeColumns
  <2> HIDE DEF f
  <2>4. c \in Challenges => failed \in Challenge /\ failed.state = "live"
    BY <2>2, <2>3, FailedColumns
  <2> HIDE DEF failed
  <2>5. c \in Challenges => new.state # "consumed"
    BY <2>4, EndedColumns
  <2> HIDE DEF new
  <2> QED
    BY <2>1, <2>2, <2>5, OneCodeKept
<1>10. ASSUME Housekeeping
       PROVE  CodesKept
  BY <1>1, <1>3, <1>4, <1>5, <1>10 DEF Housekeeping, Tick
<1>11. CASE Requesting
  BY <1>1, <1>6, <1>7, <1>11 DEF Requesting, IssueCallbackGrant
<1>12. ASSUME NEW t \in Calls, NEW c \in Challenges,
              StartVerify(t, c) \/ \E s \in Sessions : StartConsume(t, c, s)
       PROVE  UNCHANGED challenge
  BY <1>12 DEF StartVerify, StartConsume
<1>13. ASSUME NEW t \in Calls, GatherCandidates(t) \/ EndCall(t)
       PROVE  UNCHANGED challenge
  BY <1>13 DEF GatherCandidates, EndCall
<1>14. ASSUME NEW s \in Sessions, RevokeSession(s)
       PROVE  UNCHANGED challenge
  BY <1>14 DEF RevokeSession
<1>15. CASE Entering
  BY <1>1, <1>8, <1>9, <1>12, <1>13, <1>14, <1>15 DEF Entering
<1> QED
  BY <1>2, <1>10, <1>11, <1>15 DEF Next

\* A step that requests no code leaves the rows of codes to come alone.
LEMMA NotRequested ==
    ASSUME AuthInv, [Next]_vars,
           ~ \E c \in Challenges, e \in Emails :
                RequestLogin(c, e) \/ \E g \in Grants : RequestEnrollment(c, g, e)
    PROVE  \A c \in Challenges : challenge[c].state = "absent" => challenge'[c] = challenge[c]
<1> challenge \in [Challenges -> Challenge]
  BY DEF AuthInv, TypeOK
<1>1. CASE CodesKept
  BY <1>1 DEF CodesKept
<1>2. ASSUME NEW t \in Calls, ConsumeEnrollment(t), NEW c \in Challenges,
             challenge[c].state = "absent"
      PROVE  challenge'[c] = challenge[c]
  <2> DEFINE d == call[t].challenge
  <2>1. PICK codes : /\ Superseding(codes, CodesOf({challenge[d].grant}))
                     /\ challenge' = [codes EXCEPT ![d] = Ended(challenge[d], "consumed", now)]
    BY <1>2, EnrollmentEffect
  <2>2. challenge[d].state = "verified"
    BY <1>2, EnrollmentEffect DEF Opened
  <2>3. codes[c] = challenge[c] /\ codes \in [Challenges -> Challenge]
    BY <1>2, <2>1 DEF Superseding, CodeSuperseded
  <2> QED
    BY <1>2, <2>1, <2>2, <2>3
<1>3. ASSUME NEW t \in Calls, ConsumeLogin(t), NEW c \in Challenges,
             challenge[c].state = "absent"
      PROVE  challenge'[c] = challenge[c]
  <2> DEFINE d == call[t].challenge
  <2>1. challenge' = [challenge EXCEPT ![d] = Ended(challenge[d], "consumed", now)]
        /\ challenge[d].state = "verified"
    BY <1>3, LoginEffect DEF Opened
  <2> QED
    BY <1>3, <2>1
<1> QED
  BY <1>1, <1>2, <1>3, CodeWriters

-----------------------------------------------------------------------------
(* A grant that is spent stays so, and a code that is consumed spends it.  *)

\* A grant that is spent stays so.
LEMMA SpentForever ==
    ASSUME AuthInv, [Next]_vars, NEW g \in Grants, grant[g].state = "consumed"
    PROVE  grant'[g].state = "consumed"
<1> TypeOK /\ \A h \in Grants : GrantSound(h)
  BY DEF AuthInv
<1>1. CASE UNCHANGED <<install, grant, administrator>>
  BY <1>1
<1>2. ASSUME NEW i \in Installations, NEW b \in BOOLEAN, ChangeInstallation(i, b)
      PROVE  grant'[g].state = "consumed"
  BY <1>2, ChangedGrants
<1>3. ASSUME NEW h \in Grants, NEW i \in Installations,
             NEW e \in Emails, IssueOperatorGrant(h, i, e)
      PROVE  grant'[g].state = "consumed"
  <2>1. PICK former \in SUBSET Grants :
          \A k \in Grants : \/ k \notin former /\ grant'[k] = grant[k]
                            \/ grant[k].state = "live"
                            \/ grant[k].state = "absent"
    BY <1>3, OperatorGrants
  <2> QED
    BY <2>1
<1>4. ASSUME NEW h \in Grants, NEW i \in Installations, IssueCallbackGrant(h, i)
      PROVE  grant'[g].state = "consumed"
  BY <1>4, CallbackGrants
<1>5. ASSUME NEW t \in Calls, ConsumeEnrollment(t)
      PROVE  grant'[g].state = "consumed"
  BY <1>5, EnrollmentEffect
<1> QED
  BY <1>1, <1>2, <1>3, <1>4, <1>5, GrantWriters

\* A code of a grant is newly consumed by an enrollment, alone and while the grant
\* is live.
LEMMA NewlySpent ==
    ASSUME AuthInv, [Next]_vars, NEW c \in Challenges, challenge[c].state # "consumed",
           challenge'[c].state = "consumed", challenge'[c].grant \in Grants
    PROVE  /\ grant[challenge'[c].grant].state = "live"
           /\ grant'[challenge'[c].grant].state = "consumed"
           /\ \A k \in Challenges \ {c} :
                challenge'[k].state = "consumed" => challenge[k].state = "consumed"
<1>1. challenge \in [Challenges -> Challenge]
  BY DEF AuthInv, TypeOK
<1>2. ~CodesKept
  BY DEF CodesKept
<1>3. ASSUME NEW d \in Challenges, NEW e \in Emails,
             RequestLogin(d, e) \/ \E g \in Grants : RequestEnrollment(d, g, e)
      PROVE  FALSE
  <2>1. PICK new, codes, rows :
          /\ CodeInserted(challenge[d], new) /\ Superseding(codes, rows)
          /\ challenge' = [codes EXCEPT ![d] = new]
    BY <1>1, <1>3, RequestInserts DEF AuthInv, TypeOK, Inserted
  <2>2. new.state # "consumed"
    BY <2>1, NewChallengeColumns DEF CodeInserted
  <2>3. codes[c].state # "consumed" /\ codes \in [Challenges -> Challenge]
    BY <1>1, <2>1, SupersededColumns DEF Superseding
  <2> QED
    BY <2>1, <2>2, <2>3
<1>4. ASSUME NEW t \in Calls, ConsumeEnrollment(t)
      PROVE  /\ grant[challenge'[c].grant].state = "live"
             /\ grant'[challenge'[c].grant].state = "consumed"
             /\ \A k \in Challenges \ {c} :
                  challenge'[k].state = "consumed" => challenge[k].state = "consumed"
  <2> DEFINE d == call[t].challenge
             g == challenge[d].grant
  <2>1. d \in Challenges /\ grant[g].state = "live" /\ grant'[g].state = "consumed"
    BY <1>4, EnrollmentEffect DEF Opened
  <2>2. PICK codes : /\ Superseding(codes, CodesOf({g}))
                     /\ challenge' = [codes EXCEPT ![d] = Ended(challenge[d], "consumed", now)]
    BY <1>4, EnrollmentEffect
  <2>3. /\ codes \in [Challenges -> Challenge]
        /\ \A k \in Challenges : codes[k].state = "consumed" => challenge[k].state = "consumed"
    BY <1>1, <2>2, SupersededColumns DEF Superseding
  <2>4. \A k \in Challenges \ {d} :
          challenge'[k].state = "consumed" => challenge[k].state = "consumed"
    BY <2>2, <2>3
  <2>5. c = d /\ challenge'[c] = Ended(challenge[c], "consumed", now)
    BY <2>1, <2>2, <2>3, <2>4
  <2>6. challenge'[c].grant = g
    BY <1>1, <2>5, EndedColumns
  <2> QED
    BY <2>1, <2>4, <2>5, <2>6
<1>5. ASSUME NEW t \in Calls, ConsumeLogin(t)
      PROVE  FALSE
  <2> DEFINE d == call[t].challenge
  <2>1. /\ challenge' = [challenge EXCEPT ![d] = Ended(challenge[d], "consumed", now)]
        /\ challenge[d].purpose = "login"
    BY <1>5, LoginEffect
  <2>2. c = d /\ challenge'[c] = Ended(challenge[c], "consumed", now)
    BY <1>1, <2>1
  <2>3. challenge'[c].grant = NoOne
    BY <1>1, <2>1, <2>2, EndedColumns DEF AuthInv, CodeSound, RowSound
  <2> QED
    BY <2>3, SettingsAuthAssumption
<1> QED
  BY <1>2, <1>3, <1>4, <1>5, CodeWriters

\* What is consumed or deleted stays so, the code of the same grant.
LEMMA CodeOver ==
    ASSUME AuthInv, [Next]_vars, NEW c \in Challenges,
           challenge[c].state \in {"consumed", "deleted"}
    PROVE  /\ challenge'[c].state \in {"consumed", "deleted"}
           /\ challenge'[c].state = "consumed" =>
                /\ challenge[c].state = "consumed"
                /\ challenge'[c].email = challenge[c].email
                /\ challenge'[c].purpose = challenge[c].purpose
                /\ challenge'[c].grant = challenge[c].grant
<1> DEFINE old == challenge[c]
           new == challenge'[c]
<1>1. old \in Challenge /\ CodeStep(old, new)
  BY CodesTakeSteps DEF AuthInv, TypeOK, CodesStep
<1>2. CASE new = old
  BY <1>2
<1>3. CASE new = [NoChallenge EXCEPT !.state = "deleted"]
  BY <1>3, DeletedColumns
<1>4. CASE ChallengeScrubbed(old, new)
  BY <1>1, <1>4, ScrubbedColumns DEF ChallengeScrubbed
<1>5. ~CodeMoved(old, new) /\ ~CodeSuperseded(old, new) /\ ~CodeInserted(old, new)
  BY DEF CodeMoved, CodeSuperseded, CodeInserted, CodeFailed
<1> QED
  BY <1>1, <1>2, <1>3, <1>4, <1>5 DEF CodeStep

\* Codes that are consumed go on having spent their grants.
LEMMA CodesStillSpend ==
    ASSUME AuthInv, [Next]_vars, NEW c \in Challenges
    PROVE  CodeSpends(c)'
<1> SUFFICES ASSUME challenge'[c].state = "consumed", challenge'[c].grant \in Grants
             PROVE  grant'[challenge'[c].grant].state = "consumed"
  BY DEF CodeSpends
<1>1. CASE challenge[c].state = "consumed"
  <2>1. challenge'[c].grant = challenge[c].grant
    BY <1>1, CodeOver
  <2>2. CodeSpends(c)
    BY DEF AuthInv
  <2> QED
    BY <1>1, <2>1, <2>2, SpentForever DEF CodeSpends
<1> QED
  BY <1>1, NewlySpent

\* No grant is spent by two codes.
LEMMA OneSpentCodeKept ==
    ASSUME AuthInv, [Next]_vars
    PROVE  OneSpentCode'
<1> SUFFICES ASSUME NEW c \in Challenges, NEW d \in Challenges,
                    challenge'[c].state = "consumed", challenge'[d].state = "consumed",
                    challenge'[c].grant = challenge'[d].grant,
                    challenge'[c].grant \in Grants, c # d
             PROVE  FALSE
  BY DEF OneSpentCode
<1>1. CASE challenge[c].state = "consumed" /\ challenge[d].state = "consumed"
  <2>1. challenge'[c].grant = challenge[c].grant /\ challenge'[d].grant = challenge[d].grant
    BY <1>1, CodeOver
  <2> QED
    BY <1>1, <2>1 DEF AuthInv, OneSpentCode
<1>2. ASSUME NEW a \in Challenges, NEW b \in Challenges, a # b,
             challenge[a].state # "consumed",
             challenge'[a].state = "consumed", challenge'[b].state = "consumed",
             challenge'[a].grant = challenge'[b].grant, challenge'[a].grant \in Grants
      PROVE  FALSE
  <2>1. /\ grant[challenge'[a].grant].state = "live"
        /\ challenge[b].state = "consumed"
    BY <1>2, NewlySpent
  <2>2. challenge'[b].grant = challenge[b].grant
    BY <1>2, <2>1, CodeOver
  <2>3. CodeSpends(b)
    BY DEF AuthInv
  <2> QED
    BY <1>2, <2>1, <2>2, <2>3 DEF CodeSpends
<1> QED
  BY <1>1, <1>2

-----------------------------------------------------------------------------
(* One open code.                                                          *)

\* Superseding the codes of a grant closes them.
LEMMA SupersedingCloses ==
    ASSUME challenge \in [Challenges -> Challenge], now \in Nat, now' \in Nat, now' >= now,
           NEW codes, NEW ended, Superseding(codes, CodesOf(ended)),
           NEW c \in Challenges, challenge[c].grant \in ended, challenge'[c] = codes[c]
    PROVE  ~Open(c)'
<1>1. CASE codes[c] = challenge[c]
  <2>1. ~Open(c)
    <3>1. c \in CodesOf(ended)
      BY DEF CodesOf
    <3> QED
      BY <1>1, <3>1 DEF Superseding, Open
  <2> QED
    BY <1>1, <2>1, ChallengeColumns DEF Open
<1>2. CASE CodeSuperseded(challenge[c], codes[c])
  BY <1>2, SupersededColumns DEF Open
<1> QED
  BY <1>1, <1>2 DEF Superseding

\* A step that ends a grant closes its codes.
LEMMA EndedGrantsCloseCodes ==
    ASSUME AuthInv, [Next]_vars, NEW g \in Grants, grant[g].state = "live",
           grant'[g].state # "live", NEW c \in Challenges, challenge[c].grant = g
    PROVE  ~Open(c)'
<1> TypeOK /\ \A h \in Grants : GrantSound(h)
  BY DEF AuthInv
<1>1. challenge \in [Challenges -> Challenge] /\ now \in Nat /\ now' \in Nat /\ now' >= now
  BY TimeStep DEF TypeOK
<1>2. CASE UNCHANGED <<install, grant, administrator>>
  BY <1>2
<1>3. ASSUME NEW i \in Installations, NEW b \in BOOLEAN, ChangeInstallation(i, b)
      PROVE  ~Open(c)'
  <2>1. g \in EndedWith(i)
    BY <1>3, ChangedGrants
  <2>2. Superseding(challenge', CodesOf(EndedWith(i)))
    BY <1>1, <1>3, WithoutGrantsStep DEF ChangeInstallation, Invalidate
  <2> QED
    BY <1>1, <2>1, <2>2, SupersedingCloses
<1>4. ASSUME NEW h \in Grants, NEW i \in Installations,
             NEW e \in Emails, IssueOperatorGrant(h, i, e)
      PROVE  ~Open(c)'
  <2>1. PICK former \in SUBSET Grants :
          /\ Superseding(challenge', CodesOf(former))
          /\ \A k \in Grants : \/ k \notin former /\ grant'[k] = grant[k]
                               \/ k \in former
                               \/ grant[k].state = "absent"
    BY <1>4, OperatorGrants
  <2>2. g \in former
    BY <2>1
  <2> QED
    BY <1>1, <2>1, <2>2, SupersedingCloses
<1>5. ASSUME NEW h \in Grants, NEW i \in Installations, IssueCallbackGrant(h, i)
      PROVE  FALSE
  <2>1. grant'[g] = grant[g] \/ grant[g].state = "absent"
    BY <1>5, CallbackGrants
  <2> QED
    BY <2>1
<1>6. ASSUME NEW t \in Calls, ConsumeEnrollment(t)
      PROVE  ~Open(c)'
  <2> DEFINE d == call[t].challenge
             k == challenge[d].grant
  <2>1. d \in Challenges /\ \A h \in Grants \ {k} : grant'[h] = grant[h]
    BY <1>6, EnrollmentEffect DEF Opened
  <2>2. g = k
    BY <2>1
  <2>3. PICK codes : /\ Superseding(codes, CodesOf({k}))
                     /\ challenge' = [codes EXCEPT ![d] = Ended(challenge[d], "consumed", now)]
    BY <1>6, EnrollmentEffect
  <2>4. CASE c = d
    <3>1. challenge'[c].state = "consumed"
      BY <1>1, <2>1, <2>3, <2>4, EndedColumns DEF Superseding
    <3> QED
      BY <3>1 DEF Open
  <2>5. CASE c # d
    <3>1. challenge'[c] = codes[c]
      BY <2>3, <2>5 DEF Superseding
    <3> QED
      BY <1>1, <2>2, <2>3, <3>1, SupersedingCloses
  <2> QED
    BY <2>4, <2>5
<1> QED
  BY <1>2, <1>3, <1>4, <1>5, <1>6, GrantWriters

\* An open code was open before, or has just been requested.
LEMMA OpenBefore ==
    ASSUME AuthInv, [Next]_vars, NEW c \in Challenges, Open(c)',
           ~CodeInserted(challenge[c], challenge'[c])
    PROVE  /\ Open(c)
           /\ challenge'[c].purpose = challenge[c].purpose
           /\ challenge'[c].grant = challenge[c].grant
           /\ challenge'[c].email = challenge[c].email
<1> DEFINE old == challenge[c]
           new == challenge'[c]
<1>1. /\ old \in Challenge /\ CodeStep(old, new)
      /\ now \in Nat /\ now' \in Nat /\ now' >= now
  BY CodesTakeSteps, TimeStep DEF AuthInv, TypeOK, CodesStep
<1>2. new.state \in {"pending", "live"} /\ now' < new.expires_at
  BY DEF Open
<1> SUFFICES /\ old.state \in {"pending", "live"} /\ now < old.expires_at
             /\ new.purpose = old.purpose /\ new.grant = old.grant /\ new.email = old.email
  BY DEF Open
<1> HIDE DEF old, new
<1>3. old.expires_at \in Nat
  BY <1>1, ChallengeColumns
<1>4. CASE new = old
  BY <1>1, <1>2, <1>3, <1>4
<1>5. CASE ChallengeScrubbed(old, new)
  BY <1>1, <1>2, <1>3, <1>5, ScrubbedColumns DEF ChallengeScrubbed
<1>6. new # [NoChallenge EXCEPT !.state = "deleted"]
  BY <1>2, DeletedColumns
<1>7. CASE CodeMoved(old, new)
  <2>1. now < old.expires_at
    BY <1>7 DEF CodeMoved
  <2>2. new \notin {Ended(old, "failed", now), Ended(old, "consumed", now), Verified(old)}
    BY <1>1, <1>2, EndedColumns, VerifiedColumns
  <2>3. CASE old.state = "pending" /\ new = Delivered(old)
    BY <1>1, <2>1, <2>3, DeliveredColumns
  <2>4. CASE CodeFailed(old, new)
    BY <1>1, <2>1, <2>4, CodeFailedColumns
  <2> QED
    BY <1>7, <2>2, <2>3, <2>4 DEF CodeMoved
<1>8. ~CodeSuperseded(old, new)
  BY <1>1, <1>2, SupersededColumns
<1> QED
  BY <1>1, <1>4, <1>5, <1>6, <1>7, <1>8 DEF CodeStep, old, new

\* A code that is requested replaces the open ones like it.
LEMMA InsertedAlone ==
    ASSUME AuthInv, [Next]_vars, NEW c \in Challenges, NEW new, Inserted(c, new),
           NEW d \in Challenges \ {c}, Open(d)', ~CodeInserted(challenge[d], challenge'[d])
    PROVE  ~ /\ challenge'[d].purpose = new.purpose
             /\ challenge'[d].grant = new.grant
             /\ challenge'[d].email = new.email
<1> SUFFICES ASSUME challenge'[d].purpose = new.purpose, challenge'[d].grant = new.grant,
                    challenge'[d].email = new.email
             PROVE  FALSE
  OBVIOUS
<1>1. /\ Open(d) /\ challenge[d].purpose = new.purpose /\ challenge[d].grant = new.grant
      /\ challenge[d].email = new.email
  BY OpenBefore
<1>2. d \in Resent(new.purpose, new.grant, new.email)
  BY <1>1 DEF Resent
<1>3. PICK codes : /\ Superseding(codes, Resent(new.purpose, new.grant, new.email))
                   /\ challenge' = [codes EXCEPT ![c] = new]
  BY DEF Inserted
<1>4. codes[d].state = "superseded" /\ codes \in [Challenges -> Challenge]
  BY <1>1, <1>2, <1>3 DEF Superseding
<1>5. challenge'[d].state = "superseded"
  BY <1>3, <1>4
<1> QED
  BY <1>5 DEF Open

\* A request inserts one code and leaves the grants alone.
LEMMA RequestEffect ==
    ASSUME AuthInv, NEW c \in Challenges, NEW e \in Emails,
           RequestLogin(c, e) \/ \E g \in Grants : RequestEnrollment(c, g, e)
    PROVE  \E new :
             /\ Inserted(c, new) /\ challenge'[c] = new
             /\ UNCHANGED <<now, install, grant, administrator, session, call>>
             /\ \A d \in Challenges \ {c} : ~CodeInserted(challenge[d], challenge'[d])
<1> challenge \in [Challenges -> Challenge] /\ now \in Nat /\ grant \in [Grants -> Grant]
  BY DEF AuthInv, TypeOK
<1>1. PICK new : /\ Inserted(c, new)
                 /\ UNCHANGED <<now, install, grant, administrator, session, call>>
  BY RequestInserts
<1>2. PICK codes, rows : Superseding(codes, rows) /\ challenge' = [codes EXCEPT ![c] = new]
  BY <1>1 DEF Inserted
<1>3. challenge'[c] = new /\ \A d \in Challenges \ {c} : challenge'[d] = codes[d]
  BY <1>2 DEF Superseding
<1>4. ASSUME NEW d \in Challenges \ {c}, CodeInserted(challenge[d], challenge'[d])
      PROVE  FALSE
  <2>1. challenge[d].state = "absent" /\ challenge'[d].state = "pending"
    BY <1>4, NewChallengeColumns DEF CodeInserted
  <2>2. challenge'[d] = challenge[d]
    BY <1>2, <1>3, <2>1 DEF Superseding, CodeSuperseded
  <2> QED
    BY <2>1, <2>2
<1> QED
  BY <1>1, <1>3, <1>4

\* No step leaves two codes open for the same purpose, or one of an ended grant.
LEMMA OneOpenCodeKept ==
    ASSUME AuthInv, [Next]_vars
    PROVE  OneOpenCode'
<1>1. /\ challenge \in [Challenges -> Challenge]
      /\ challenge' \in [Challenges -> Challenge]
      /\ \A c \in Challenges : CodeSound(c)
      /\ OneOpenCode
  BY CodesTakeSteps DEF AuthInv, TypeOK
<1>2. ASSUME NEW c \in Challenges, Open(c)', challenge'[c].purpose = "enrollment",
             ~CodeInserted(challenge[c], challenge'[c])
      PROVE  grant'[challenge'[c].grant].state = "live"
  <2> DEFINE g == challenge[c].grant
  <2>1. Open(c) /\ challenge[c].purpose = "enrollment" /\ challenge'[c].grant = g
    BY <1>2, OpenBefore
  <2>2. g \in Grants /\ grant[g].state = "live"
    BY <1>1, <2>1 DEF CodeSound, RowSound, OneOpenCode
  <2>3. grant'[g].state = "live"
    BY <1>2, <2>2, EndedGrantsCloseCodes
  <2> QED
    BY <2>1, <2>3
<1>3. ASSUME NEW c \in Challenges, NEW d \in Challenges \ {c}, Open(c)', Open(d)',
             ~CodeInserted(challenge[c], challenge'[c]),
             ~CodeInserted(challenge[d], challenge'[d])
      PROVE  ~ /\ challenge'[d].purpose = challenge'[c].purpose
               /\ challenge'[d].grant = challenge'[c].grant
               /\ challenge'[d].email = challenge'[c].email
  BY <1>1, <1>3, OpenBefore DEF OneOpenCode
<1>4. CASE \A c \in Challenges : ~CodeInserted(challenge[c], challenge'[c])
  BY <1>2, <1>3, <1>4 DEF OneOpenCode
<1>5. CASE \E c \in Challenges, e \in Emails :
             RequestLogin(c, e) \/ \E g \in Grants : RequestEnrollment(c, g, e)
  <2>1. PICK c \in Challenges, e \in Emails :
          RequestLogin(c, e) \/ \E g \in Grants : RequestEnrollment(c, g, e)
    BY <1>5
  <2>2. PICK new : /\ Inserted(c, new) /\ challenge'[c] = new
                   /\ UNCHANGED grant
                   /\ \A d \in Challenges \ {c} : ~CodeInserted(challenge[d], challenge'[d])
    BY <2>1, RequestEffect
  <2>3. CASE ~CodeInserted(challenge[c], challenge'[c])
    BY <1>4, <2>2, <2>3
  <2>4. CASE CodeInserted(challenge[c], challenge'[c])
    <3>1. challenge'[c].purpose = "enrollment" => grant'[challenge'[c].grant].state = "live"
      BY <2>2, <2>4, NewChallengeColumns DEF CodeInserted
    <3>2. ASSUME NEW d \in Challenges \ {c}, Open(d)'
          PROVE  ~ /\ challenge'[d].purpose = challenge'[c].purpose
                   /\ challenge'[d].grant = challenge'[c].grant
                   /\ challenge'[d].email = challenge'[c].email
      BY <2>2, <3>2, InsertedAlone
    <3>3. ASSUME NEW a \in Challenges, Open(a)'
          PROVE  /\ challenge'[a].purpose = "enrollment"
                      => grant'[challenge'[a].grant].state = "live"
                 /\ \A d \in Challenges \ {a} :
                      ~ /\ Open(d)'
                        /\ challenge'[d].purpose = challenge'[a].purpose
                        /\ challenge'[d].grant = challenge'[a].grant
                        /\ challenge'[d].email = challenge'[a].email
      <4>1. CASE a = c
        BY <3>1, <3>2, <4>1
      <4>2. CASE a # c
        BY <1>2, <1>3, <2>2, <3>2, <3>3, <4>2
      <4> QED
        BY <4>1, <4>2
    <3> QED
      BY <3>3 DEF OneOpenCode
  <2> QED
    BY <2>3, <2>4
<1>6. CASE ~ \E c \in Challenges, e \in Emails :
                RequestLogin(c, e) \/ \E g \in Grants : RequestEnrollment(c, g, e)
  <2>1. ASSUME NEW c \in Challenges, CodeInserted(challenge[c], challenge'[c])
        PROVE  FALSE
    <3>1. challenge[c].state = "absent" /\ challenge'[c].state = "pending"
      BY <2>1, NewChallengeColumns DEF CodeInserted
    <3> QED
      BY <1>6, <3>1, NotRequested
  <2> QED
    BY <1>4, <2>1
<1> QED
  BY <1>5, <1>6

-----------------------------------------------------------------------------
(* Sessions stay sound.                                                    *)

\* An administrator stays the one of the address, and active until the
\* installation the grant belongs to changes.
LEMMA AdministratorStep ==
    ASSUME AuthInv, [Next]_vars, NEW g \in Grants, administrator[g].state # "absent"
    PROVE  /\ administrator'[g].state # "absent"
           /\ administrator'[g].email = administrator[g].email
           /\ grant'[g].generation = grant[g].generation
           /\ \/ administrator'[g].state = administrator[g].state
              \/ \E i \in Installations, b \in BOOLEAN :
                   ChangeInstallation(i, b) /\ BelongsTo(g, i)
<1> TypeOK /\ \A h \in Grants : GrantSound(h)
  BY DEF AuthInv
<1>1. grant[g].state = "consumed"
  BY DEF GrantSound
<1>2. CASE UNCHANGED <<install, grant, administrator>>
  BY <1>2
<1>3. ASSUME NEW i \in Installations, NEW b \in BOOLEAN, ChangeInstallation(i, b)
      PROVE  /\ administrator'[g].state # "absent"
             /\ administrator'[g].email = administrator[g].email
             /\ grant'[g].generation = grant[g].generation
             /\ administrator'[g].state = administrator[g].state \/ BelongsTo(g, i)
  BY <1>3, ChangedGrants
<1>4. ASSUME NEW h \in Grants, NEW i \in Installations,
             NEW e \in Emails, IssueOperatorGrant(h, i, e)
      PROVE  UNCHANGED administrator /\ grant'[g] = grant[g]
  <2>1. PICK former \in SUBSET Grants :
          \A k \in Grants : \/ grant'[k] = grant[k]
                            \/ grant[k].state = "live"
                            \/ grant[k].state = "absent"
    BY <1>4, OperatorGrants
  <2>2. grant'[g] = grant[g]
    BY <1>1, <2>1
  <2> QED
    BY <1>4, <2>2 DEF IssueOperatorGrant
<1>5. ASSUME NEW h \in Grants, NEW i \in Installations, IssueCallbackGrant(h, i)
      PROVE  UNCHANGED administrator /\ grant'[g] = grant[g]
  <2>1. grant'[g] = grant[g] \/ grant[g].state = "absent"
    BY <1>5, CallbackGrants
  <2> QED
    BY <1>1, <1>5, <2>1 DEF IssueCallbackGrant
<1>6. ASSUME NEW t \in Calls, ConsumeEnrollment(t)
      PROVE  administrator'[g] = administrator[g] /\ grant'[g] = grant[g]
  BY <1>6, EnrollmentEffect
<1> QED
  BY <1>2, <1>3, <1>4, <1>5, <1>6, GrantWriters

\* The columns of a session that is revoked.
LEMMA RevokedColumns ==
    ASSUME NEW row \in Session, NEW new, new = [row EXCEPT !.state = "revoked"]
    PROVE  /\ new.state = "revoked" /\ new.administrator = row.administrator
           /\ new.generation = row.generation /\ new.challenge = row.challenge
           /\ new.expires_at = row.expires_at
  BY DEF Session

\* A session goes on, or is revoked.
SessionKept(s) ==
    \/ session'[s] = session[s]
    \/ session[s].state = "live" /\ session'[s] = [session[s] EXCEPT !.state = "revoked"]

\* What a step does to the sessions.
LEMMA SessionStep ==
    ASSUME AuthInv, [Next]_vars
    PROVE  \/ \A s \in Sessions : SessionKept(s)
           \/ \E t \in Calls, g \in Grants :
                /\ Opened(t, g)
                /\ \A s \in Sessions \ {call[t].session} : session'[s] = session[s]
<1> session \in [Sessions -> Session]
  BY DEF AuthInv, TypeOK
<1>1. CASE UNCHANGED session
  BY <1>1 DEF SessionKept
<1>2. ASSUME NEW i \in Installations, NEW b \in BOOLEAN, ChangeInstallation(i, b)
      PROVE  \A s \in Sessions : SessionKept(s)
  BY <1>2 DEF ChangeInstallation, Invalidate, SessionKept
<1>3. ASSUME NEW t \in Calls, ConsumeEnrollment(t) \/ ConsumeLogin(t)
      PROVE  \E g \in Grants :
               /\ Opened(t, g)
               /\ \A s \in Sessions \ {call[t].session} : session'[s] = session[s]
  <2>1. PICK g \in Grants : Opened(t, g)
    BY <1>3, Openings
  <2>2. \A s \in Sessions \ {call[t].session} : session'[s] = session[s]
    BY <2>1 DEF Opened
  <2> QED
    BY <2>1, <2>2
<1>4. ASSUME NEW s \in Sessions, RevokeSession(s)
      PROVE  \A r \in Sessions : SessionKept(r)
  <2>1. session' = [session EXCEPT ![s] = [session[s] EXCEPT !.state = "revoked"]]
    BY <1>4, Zenon DEF RevokeSession
  <2> QED
    BY <1>4, <2>1 DEF RevokeSession, SessionKept
<1> QED
  BY <1>1, <1>2, <1>3, <1>4, SessionWriters

\* A session that is opened has the columns of its call.
LEMMA OpenedColumns ==
    ASSUME AuthInv, NEW t \in Calls, NEW g \in Grants, Opened(t, g)
    PROVE  /\ session'[call[t].session].state = "live"
           /\ session'[call[t].session].administrator = g
           /\ session'[call[t].session].generation = grant[g].generation
           /\ session'[call[t].session].challenge = call[t].challenge
  BY DEF Opened, AuthInv, TypeOK

\* A kept session has the same columns, but that it may be revoked.
LEMMA KeptColumns ==
    ASSUME AuthInv, NEW s \in Sessions, SessionKept(s)
    PROVE  /\ \/ session'[s].state = session[s].state
              \/ session[s].state = "live" /\ session'[s].state = "revoked"
           /\ session'[s].administrator = session[s].administrator
           /\ session'[s].generation = session[s].generation
           /\ session'[s].challenge = session[s].challenge
  BY RevokedColumns DEF SessionKept, AuthInv, TypeOK

\* A session that goes on is sound.
LEMMA KeptSound ==
    ASSUME AuthInv, [Next]_vars, NEW s \in Sessions, SessionKept(s),
           \A r \in Sessions \ {s} :
              \/ session'[r].challenge = session[r].challenge
              \/ /\ session'[r].challenge \in Challenges
                 /\ challenge[session'[r].challenge].state = "verified"
    PROVE  SessionSound(s)'
<1> DEFINE c == session[s].challenge
           g == session[s].administrator
<1>1. SessionSound(s)
  BY DEF AuthInv
<1>2. /\ session'[s].state = "absent" => session[s].state = "absent"
      /\ session[s].state = "absent" => session'[s].state = "absent"
      /\ session'[s].state = "live" => session[s].state = "live"
      /\ session'[s].administrator = g
      /\ session'[s].generation = session[s].generation
      /\ session'[s].challenge = c
  BY KeptColumns
<1>3. session'[s].state = "absent" => c = NoOne
  BY <1>1, <1>2 DEF SessionSound
<1>4. ASSUME session[s].state # "absent"
      PROVE  /\ g \in Grants /\ administrator'[g].state # "absent"
             /\ c \in Challenges /\ challenge'[c].state \in {"consumed", "deleted"}
             /\ challenge'[c].state = "consumed" =>
                  /\ administrator'[g].email = challenge'[c].email
                  /\ challenge'[c].purpose = "enrollment" => challenge'[c].grant = g
             /\ \A r \in Sessions \ {s} : session'[r].challenge # c
  <2>1. /\ g \in Grants /\ administrator[g].state # "absent"
        /\ c \in Challenges /\ challenge[c].state \in {"consumed", "deleted"}
        /\ challenge[c].state = "consumed" =>
             /\ administrator[g].email = challenge[c].email
             /\ challenge[c].purpose = "enrollment" => challenge[c].grant = g
        /\ \A r \in Sessions \ {s} : session[r].challenge # c
    BY <1>1, <1>4 DEF SessionSound
  <2> HIDE DEF c, g
  <2>2. administrator'[g].state # "absent" /\ administrator'[g].email = administrator[g].email
    BY <2>1, AdministratorStep
  <2>3. /\ challenge'[c].state \in {"consumed", "deleted"}
        /\ challenge'[c].state = "consumed" =>
             /\ challenge[c].state = "consumed"
             /\ challenge'[c].email = challenge[c].email
             /\ challenge'[c].purpose = challenge[c].purpose
             /\ challenge'[c].grant = challenge[c].grant
    BY <2>1, CodeOver
  <2>4. \A r \in Sessions \ {s} : session'[r].challenge # c
    BY <2>1
  <2> QED
    BY <2>1, <2>2, <2>3, <2>4
<1>5. ASSUME session'[s].state = "live"
      PROVE  administrator'[g].state = "active" /\ session[s].generation = grant'[g].generation
  <2>1. /\ session[s].state = "live" /\ g \in Grants /\ administrator[g].state = "active"
        /\ session[s].generation = grant[g].generation
    BY <1>1, <1>2, <1>5 DEF SessionSound
  <2>2. ASSUME NEW i \in Installations, NEW b \in BOOLEAN, ChangeInstallation(i, b),
               BelongsTo(g, i)
        PROVE  FALSE
    <3>1. session'[s] = [session[s] EXCEPT !.state = "revoked"]
      BY <2>1, <2>2 DEF ChangeInstallation, Invalidate
    <3> QED
      BY <1>5, <3>1, RevokedColumns DEF AuthInv, TypeOK
  <2> HIDE DEF g
  <2> QED
    BY <2>1, <2>2, AdministratorStep
<1> HIDE DEF c, g
<1>6. session'[s].state # "absent" =>
        LET cc == session'[s].challenge
            gg == session'[s].administrator
        IN  /\ gg \in Grants /\ administrator'[gg].state # "absent"
            /\ cc \in Challenges /\ challenge'[cc].state \in {"consumed", "deleted"}
            /\ challenge'[cc].state = "consumed" =>
                 /\ administrator'[gg].email = challenge'[cc].email
                 /\ challenge'[cc].purpose = "enrollment" => challenge'[cc].grant = gg
            /\ \A r \in Sessions \ {s} : session'[r].challenge # cc
  BY <1>2, <1>4
<1> QED
  BY <1>2, <1>3, <1>5, <1>6 DEF SessionSound

\* A session that is opened is sound.
LEMMA OpenedSound ==
    ASSUME AuthInv, [Next]_vars, NEW t \in Calls, NEW g \in Grants, Opened(t, g),
           NEW s \in Sessions, s = call[t].session,
           \A r \in Sessions \ {s} : session'[r] = session[r]
    PROVE  SessionSound(s)'
<1> DEFINE c == call[t].challenge
<1>1. /\ session'[s].state = "live" /\ session'[s].administrator = g
      /\ session'[s].generation = grant[g].generation /\ session'[s].challenge = c
  BY OpenedColumns
<1>2. /\ c \in Challenges /\ s \in Sessions /\ challenge[c].state = "verified"
      /\ challenge[c].purpose = "enrollment" => challenge[c].grant = g
      /\ challenge'[c].state = "consumed" /\ challenge'[c].email = challenge[c].email
      /\ challenge'[c].purpose = challenge[c].purpose
      /\ challenge'[c].grant = challenge[c].grant
      /\ administrator'[g].state = "active" /\ administrator'[g].email = challenge[c].email
      /\ grant'[g].generation = grant[g].generation
  BY DEF Opened
<1>3. ASSUME NEW r \in Sessions \ {s}
      PROVE  session'[r].challenge # c
  <2>1. SessionSound(r) /\ session'[r] = session[r]
    BY DEF AuthInv
  <2>2. c # NoOne
    BY <1>2, SettingsAuthAssumption
  <2> QED
    BY <1>2, <2>1, <2>2 DEF SessionSound
<1> HIDE DEF c
<1> QED
  BY <1>1, <1>2, <1>3 DEF SessionSound

\* Every session stays sound.
LEMMA SessionsStaySound ==
    ASSUME AuthInv, [Next]_vars
    PROVE  \A s \in Sessions : SessionSound(s)'
<1>1. CASE \A s \in Sessions : SessionKept(s)
  BY <1>1, KeptSound, KeptColumns
<1>2. ASSUME NEW t \in Calls, NEW g \in Grants, Opened(t, g),
             \A s \in Sessions \ {call[t].session} : session'[s] = session[s]
      PROVE  \A s \in Sessions : SessionSound(s)'
  <2>1. /\ session'[call[t].session].challenge \in Challenges
        /\ challenge[session'[call[t].session].challenge].state = "verified"
    BY <1>2, OpenedColumns DEF Opened
  <2>2. ASSUME NEW s \in Sessions \ {call[t].session}
        PROVE  SessionSound(s)'
    BY <1>2, <2>1, KeptSound DEF SessionKept
  <2>3. ASSUME NEW s \in Sessions, s = call[t].session
        PROVE  SessionSound(s)'
    BY <1>2, <2>3, OpenedSound
  <2> QED
    BY <2>2, <2>3
<1> QED
  BY <1>1, <1>2, SessionStep

-----------------------------------------------------------------------------
(* Calls stay sound.                                                       *)

\* A code that was requested is the same code until its row is deleted.
LEMMA SameCode ==
    ASSUME NEW old \in Challenge, NEW new, now \in Nat, CodeStep(old, new),
           old.state # "absent"
    PROVE  /\ new.state # "absent"
           /\ \/ new.state = "deleted"
              \/ /\ old.state # "deleted"
                 /\ new.purpose = old.purpose /\ new.grant = old.grant
                 /\ new.email = old.email /\ new.created_at = old.created_at
                 /\ new.expires_at = old.expires_at
<1>1. CASE new = old
  BY <1>1
<1>2. CASE new = [NoChallenge EXCEPT !.state = "deleted"]
  BY <1>2, DeletedColumns
<1>3. CASE ChallengeScrubbed(old, new)
  BY <1>3, ScrubbedColumns DEF ChallengeScrubbed
<1>4. CASE CodeMoved(old, new)
  <2>1. CASE new \in {Ended(old, "failed", now), Ended(old, "consumed", now)}
    BY <1>4, <2>1, EndedColumns DEF CodeMoved, CodeFailed
  <2>2. CASE new \in {Delivered(old), Verified(old)}
    BY <1>4, <2>2, DeliveredColumns, VerifiedColumns DEF CodeMoved, CodeFailed
  <2>3. CASE CodeFailed(old, new)
    BY <2>3, CodeFailedColumns
  <2> QED
    BY <1>4, <2>1, <2>2, <2>3 DEF CodeMoved
<1>5. CASE CodeSuperseded(old, new)
  BY <1>5, SupersededColumns DEF CodeSuperseded
<1> QED
  BY <1>1, <1>2, <1>3, <1>4, <1>5 DEF CodeStep, CodeInserted

\* A credential stays unused while its call is under way.
LEMMA ReservedStays ==
    ASSUME AuthInv, [Next]_vars, NEW t \in Calls, call'[t] = call[t],
           call[t].op = "consume"
    PROVE  session'[call[t].session].state = "absent"
<1> DEFINE s == call[t].session
<1>1. /\ s \in Sessions /\ session[s].state = "absent"
      /\ \A u \in Calls \ {t} : call[u].op = "consume" => call[u].session # s
      /\ call \in [Calls -> Call]
  BY DEF AuthInv, CallSound, TypeOK
<1>2. CASE \A r \in Sessions : SessionKept(r)
  BY <1>1, <1>2, KeptColumns
<1>3. ASSUME NEW u \in Calls, NEW g \in Grants, Opened(u, g),
             \A r \in Sessions \ {call[u].session} : session'[r] = session[r]
      PROVE  session'[s].state = "absent"
  <2>1. u # t
    <3>1. call'[u] = Idle /\ Idle.op = "none"
      BY <1>1, <1>3 DEF Opened, Idle
    <3>2. call'[t].op = "consume"
      OBVIOUS
    <3> QED
      BY <3>1, <3>2
  <2>2. call[u].op = "consume"
    BY <1>3 DEF Opened
  <2> QED
    BY <1>1, <1>3, <2>1, <2>2
<1> QED
  BY <1>1, <1>2, <1>3, SessionStep

\* An administrator appears only while no call holds the address.
LEMMA NewAdministrator ==
    ASSUME AuthInv, [Next]_vars, NEW g \in Grants, administrator'[g].state = "active"
    PROVE  \/ /\ administrator[g].state = "active"
              /\ administrator[g].email = administrator'[g].email
           \/ AliasFree(administrator'[g].email)
<1> TypeOK /\ \A h \in Grants : GrantSound(h)
  BY DEF AuthInv
<1>1. CASE UNCHANGED administrator
  BY <1>1
<1>2. ASSUME NEW i \in Installations, NEW b \in BOOLEAN, ChangeInstallation(i, b)
      PROVE  administrator[g].state = "active" /\ administrator[g].email = administrator'[g].email
  BY <1>2, ChangedGrants
<1>3. ASSUME NEW t \in Calls, ConsumeEnrollment(t)
      PROVE  \/ administrator'[g] = administrator[g]
             \/ AliasFree(administrator'[g].email)
  <2> DEFINE h == challenge[call[t].challenge].grant
  <2>1. /\ AliasFree(challenge[call[t].challenge].email)
        /\ administrator'[h].email = challenge[call[t].challenge].email
        /\ \A k \in Grants \ {h} : administrator'[k] = administrator[k]
    BY <1>3, EnrollmentEffect DEF Opened
  <2> QED
    BY <2>1
<1> QED
  BY <1>1, <1>2, <1>3, GrantWriters DEF IssueOperatorGrant, IssueCallbackGrant

\* A call that waits stays sound, whatever the others do: no administrator appears
\* for the address it holds.
LEMMA CallKept ==
    ASSUME AuthInv, [Next]_vars, NEW t \in Calls, call'[t] = call[t],
           \A u \in Calls \ {t} : call'[u].op = "consume" =>
              \/ call[u].op = "consume" /\ call'[u].session = call[u].session
              \/ call'[u].session # call[t].session
    PROVE  CallSound(t)'
<1> DEFINE c == call[t].challenge
           s == call[t].session
<1>1. CallSound(t) /\ now \in Nat /\ challenge \in [Challenges -> Challenge] /\ CodesStep
  BY CodesTakeSteps DEF AuthInv, TypeOK
<1>2. ASSUME call[t].stage # "idle"
      PROVE  /\ c \in Challenges /\ challenge'[c].state # "absent"
             /\ challenge'[c].state # "deleted" =>
                  challenge[c].state # "deleted" /\ challenge'[c].email = challenge[c].email
  <2>1. c \in Challenges /\ challenge[c].state # "absent"
    BY <1>1, <1>2 DEF CallSound
  <2>2. challenge[c] \in Challenge /\ CodeStep(challenge[c], challenge'[c])
    BY <1>1, <2>1 DEF CodesStep
  <2> QED
    BY <1>1, <2>1, <2>2, SameCode
<1>3. ASSUME call[t].op = "consume"
      PROVE  /\ s \in Sessions /\ session'[s].state = "absent"
             /\ \A u \in Calls \ {t} : call'[u].op = "consume" => call'[u].session # s
  BY <1>1, <1>3, ReservedStays DEF CallSound
<1>4. ASSUME call[t].stage = "gathered", challenge'[c].state # "deleted", NEW g \in Grants,
             administrator'[g].state = "active", administrator'[g].email = challenge'[c].email
      PROVE  g \in call[t].candidates
  <2>1. challenge[c].state # "deleted" /\ challenge'[c].email = challenge[c].email
    BY <1>2, <1>4
  <2>2. ~AliasFree(administrator'[g].email)
    BY <1>4, <2>1 DEF AliasFree
  <2>3. administrator[g].state = "active" /\ administrator[g].email = challenge[c].email
    BY <1>4, <2>1, <2>2, NewAdministrator
  <2> QED
    BY <1>1, <1>4, <2>1, <2>3 DEF CallSound
<1> QED
  BY <1>2, <1>3, <1>4 DEF CallSound

\* What a call reads when it begins.
LEMMA StartedSound ==
    ASSUME AuthInv, [Next]_vars, NEW u \in Calls, NEW c \in Challenges,
           StartVerify(u, c) \/ \E s \in Sessions : StartConsume(u, c, s),
           NEW t \in Calls
    PROVE  CallSound(t)'
<1>1. call \in [Calls -> Call]
  BY DEF AuthInv, TypeOK
<1>2. ASSUME StartVerify(u, c)
      PROVE  CallSound(t)'
  <2> DEFINE new == [Idle EXCEPT !.op = "verify", !.stage = "found", !.challenge = c]
  <2>1. new.op = "verify" /\ new.stage = "found" /\ new.challenge = c
    BY DEF Idle
  <2>2. /\ call' = [call EXCEPT ![u] = new] /\ challenge[c].state # "absent"
        /\ UNCHANGED challenge
    BY <1>2 DEF StartVerify, Usable
  <2> HIDE DEF new
  <2>3. CASE t = u
    BY <1>1, <2>1, <2>2, <2>3 DEF CallSound
  <2>4. CASE t # u
    BY <1>1, <2>1, <2>2, <2>4, CallKept
  <2> QED
    BY <2>3, <2>4
<1>3. ASSUME NEW s \in Sessions, StartConsume(u, c, s)
      PROVE  CallSound(t)'
  <2> DEFINE new == [Idle EXCEPT !.op = "consume", !.stage = "found", !.challenge = c,
                                 !.session = s]
  <2>1. new.op = "consume" /\ new.stage = "found" /\ new.challenge = c /\ new.session = s
    BY DEF Idle
  <2>2. /\ call' = [call EXCEPT ![u] = new] /\ challenge[c].state # "absent"
        /\ session[s].state = "absent" /\ \A v \in Calls : call[v].session # s
        /\ UNCHANGED <<challenge, session>>
    BY <1>3 DEF StartConsume, Usable
  <2> HIDE DEF new
  <2>3. CASE t = u
    BY <1>1, <2>1, <2>2, <2>3 DEF CallSound
  <2>4. CASE t # u
    BY <1>1, <2>1, <2>2, <2>4, CallKept
  <2> QED
    BY <2>3, <2>4
<1> QED
  BY <1>2, <1>3

\* What a call gathers under the lock of its address.
LEMMA GatheredSound ==
    ASSUME AuthInv, [Next]_vars, NEW u \in Calls, GatherCandidates(u), NEW t \in Calls
    PROVE  CallSound(t)'
<1> DEFINE known == {g \in Grants : /\ administrator[g].state = "active"
                                    /\ administrator[g].email
                                         = challenge[call[u].challenge].email}
           new == [call[u] EXCEPT !.stage = "gathered", !.candidates = known]
<1>1. /\ call \in [Calls -> Call] /\ CallSound(u)
  BY DEF AuthInv, TypeOK
<1>2. /\ call[u].stage = "found"
      /\ call' = [call EXCEPT ![u].stage = "gathered", ![u].candidates = known]
      /\ UNCHANGED <<challenge, session, administrator>>
  BY DEF GatherCandidates
<1>3. known \subseteq Grants
  OBVIOUS
<1> HIDE DEF known
<1>4. call' = [call EXCEPT ![u] = new]
  BY <1>1, <1>2 DEF Call
<1>5. /\ new.op = call[u].op /\ new.stage = "gathered" /\ new.challenge = call[u].challenge
      /\ new.session = call[u].session /\ new.candidates = known
  BY <1>1 DEF Call
<1> HIDE DEF new
<1>6. /\ call'[u] = new
      /\ \A v \in Calls \ {u} : call'[v] = call[v]
      /\ \A v \in Calls : call'[v].op = call[v].op /\ call'[v].session = call[v].session
  BY <1>1, <1>4, <1>5
<1>7. CASE t = u
  <2> DEFINE c == call[u].challenge
             s == call[u].session
  <2>1. c \in Challenges /\ challenge'[c].state # "absent"
    BY <1>1, <1>2 DEF CallSound
  <2>2. ASSUME call[u].op = "consume"
        PROVE  /\ s \in Sessions /\ session'[s].state = "absent"
               /\ \A v \in Calls \ {u} : call'[v].op = "consume" => call'[v].session # s
    BY <1>1, <1>2, <1>6, <2>2 DEF CallSound
  <2>3. ASSUME NEW g \in Grants, administrator'[g].state = "active",
               administrator'[g].email = challenge'[c].email
        PROVE  g \in known
    BY <1>2, <2>3 DEF known
  <2>4. /\ call'[u].challenge = c /\ call'[u].session = s /\ call'[u].op = call[u].op
        /\ call'[u].candidates = known
    BY <1>5, <1>6
  <2> HIDE DEF c, s
  <2>5. CallSound(u)'
    BY <2>1, <2>2, <2>3, <2>4 DEF CallSound
  <2> QED
    BY <1>7, <2>5
<1>8. CASE t # u
  BY <1>6, <1>8, CallKept
<1> QED
  BY <1>7, <1>8

\* Every call stays sound.
LEMMA CallsStaySound ==
    ASSUME AuthInv, [Next]_vars, NEW t \in Calls
    PROVE  CallSound(t)'
<1>1. call \in [Calls -> Call]
  BY DEF AuthInv, TypeOK
<1>2. CASE UNCHANGED call
  BY <1>2, CallKept
<1>3. ASSUME NEW u \in Calls, call' = [call EXCEPT ![u] = Idle]
      PROVE  CallSound(t)'
  <2>1. Idle.op = "none" /\ Idle.stage = "idle"
    BY DEF Idle
  <2>2. CASE t = u
    BY <1>1, <1>3, <2>1, <2>2 DEF CallSound
  <2>3. CASE t # u
    BY <1>1, <1>3, <2>1, <2>3, CallKept
  <2> QED
    BY <2>2, <2>3
<1> QED
  BY <1>2, <1>3, StartedSound, GatheredSound, CallWriters

-----------------------------------------------------------------------------
(* The ledger of failures.                                                 *)

\* The failures of a code are as they were, or gone.
LedgerKept(old, new) ==
    \/ new.failures = <<>>
    \/ new.failures = old.failures /\ new.email = old.email

LedgersKept == \A c \in Challenges : LedgerKept(challenge[c], challenge'[c])

\* Writing one row that keeps its failures keeps every code's.
LEMMA OneLedgerKept ==
    ASSUME challenge \in [Challenges -> Challenge], NEW c, NEW new,
           challenge' = [challenge EXCEPT ![c] = new],
           c \in Challenges => LedgerKept(challenge[c], new)
    PROVE  LedgersKept
<1>1. \A d \in Challenges : challenge'[d] = IF d = c THEN new ELSE challenge[d]
  OBVIOUS
<1> QED
  BY <1>1 DEF LedgersKept, LedgerKept

\* A code that ends keeps its failures.
LEMMA EndedLedger ==
    ASSUME NEW row \in Challenge, NEW s, NEW time
    PROVE  LedgerKept(row, Ended(row, s, time))
  BY EndedColumns DEF LedgerKept

\* Superseding codes keeps the failures.
LEMMA SupersedingLedger ==
    ASSUME challenge \in [Challenges -> Challenge], NEW codes, NEW rows,
           Superseding(codes, rows), NEW c \in Challenges
    PROVE  LedgerKept(challenge[c], codes[c])
<1>1. codes[c] = challenge[c] \/ CodeSuperseded(challenge[c], codes[c])
  BY DEF Superseding
<1> QED
  BY <1>1, SupersededColumns DEF LedgerKept

\* Only a wrong code adds a failure.
LEMMA LedgerWriters ==
    ASSUME AuthInv, [Next]_vars
    PROVE  LedgersKept \/ \E t \in Calls : VerifyWrong(t)
<1> challenge \in [Challenges -> Challenge]
  BY DEF AuthInv, TypeOK
<1>1. UNCHANGED challenge => LedgersKept
  BY DEF LedgersKept, LedgerKept
<1>2. CASE UNCHANGED vars
  BY <1>1, <1>2 DEF vars
<1>3. ASSUME NEW c \in Challenges, Scrub(c)
      PROVE  LedgersKept
  <2> DEFINE new == [challenge[c] EXCEPT !.has_email = FALSE]
  <2>1. challenge' = [challenge EXCEPT ![c] = new]
    BY <1>3, Zenon DEF Scrub
  <2>2. LedgerKept(challenge[c], new)
    BY ScrubbedColumns DEF LedgerKept
  <2> HIDE DEF new
  <2> QED
    BY <2>1, <2>2, OneLedgerKept
<1>4. ASSUME NEW c \in Challenges, Cleanup(c)
      PROVE  LedgersKept
  BY <1>4, DeletedColumns, OneLedgerKept DEF Cleanup, LedgerKept
<1>5. ASSUME NEW rows, Superseding(challenge', rows)
      PROVE  LedgersKept
  BY <1>5, SupersedingLedger DEF LedgersKept
<1>6. ASSUME NEW i \in Installations, NEW b \in BOOLEAN, ChangeInstallation(i, b)
      PROVE  LedgersKept
  BY <1>5, <1>6, WithoutGrantsStep DEF ChangeInstallation, Invalidate, AuthInv, TypeOK
<1>7. ASSUME NEW g \in Grants, NEW i \in Installations, NEW e \in Emails,
             IssueOperatorGrant(g, i, e)
      PROVE  LedgersKept
  BY <1>5, <1>7, OperatorGrants DEF AuthInv
<1>8. ASSUME NEW c \in Challenges, NEW e \in Emails,
             RequestLogin(c, e) \/ \E g \in Grants : RequestEnrollment(c, g, e)
      PROVE  LedgersKept
  <2>1. PICK new, codes, rows :
          /\ CodeInserted(challenge[c], new) /\ Superseding(codes, rows)
          /\ challenge' = [codes EXCEPT ![c] = new]
    BY <1>8, RequestInserts DEF AuthInv, TypeOK, Inserted
  <2>2. new.failures = <<>>
    BY <2>1, NewChallengeColumns DEF CodeInserted
  <2>3. \A d \in Challenges : challenge'[d] = new \/ challenge'[d] = codes[d]
    BY <2>1 DEF Superseding
  <2> QED
    BY <2>1, <2>2, <2>3, SupersedingLedger DEF LedgersKept, LedgerKept
<1>9. ASSUME NEW c \in Challenges, RecordDelivery(c)
      PROVE  LedgersKept
  <2>1. PICK new \in {Delivered(challenge[c]), Ended(challenge[c], "failed", now)} :
          challenge' = [challenge EXCEPT ![c] = new]
    BY <1>9, Zenon DEF RecordDelivery, Delivered
  <2>2. LedgerKept(challenge[c], new)
    BY <2>1, DeliveredColumns, EndedLedger DEF LedgerKept, AuthInv, TypeOK
  <2> QED
    BY <2>1, <2>2, OneLedgerKept
<1>10. ASSUME NEW t \in Calls, VerifyRight(t)
       PROVE  LedgersKept
  <2> DEFINE c == call[t].challenge
             new == Verified(challenge[c])
  <2>1. challenge' = [challenge EXCEPT ![c] = new]
    BY <1>10, Zenon DEF VerifyRight, Verified
  <2>2. c \in Challenges => LedgerKept(challenge[c], new)
    BY VerifiedColumns DEF LedgerKept, AuthInv, TypeOK
  <2> HIDE DEF new
  <2> QED
    BY <2>1, <2>2, OneLedgerKept
<1>11. ASSUME NEW t \in Calls, ConsumeEnrollment(t)
       PROVE  LedgersKept
  <2> DEFINE d == call[t].challenge
  <2>1. PICK codes, rows : /\ Superseding(codes, rows)
                           /\ challenge' = [codes EXCEPT ![d] = Ended(challenge[d], "consumed", now)]
    BY <1>11, EnrollmentEffect
  <2>2. d \in Challenges
    BY <1>11, EnrollmentEffect DEF Opened
  <2>3. \A c \in Challenges :
          challenge'[c] = IF c = d THEN Ended(challenge[d], "consumed", now) ELSE codes[c]
    BY <2>1 DEF Superseding
  <2> QED
    BY <2>1, <2>2, <2>3, SupersedingLedger, EndedLedger DEF LedgersKept
<1>12. ASSUME NEW t \in Calls, ConsumeLogin(t)
       PROVE  LedgersKept
  BY <1>12, LoginEffect, EndedLedger, OneLedgerKept
<1>13. ASSUME Tick \/ \E g \in Grants, i \in Installations : IssueCallbackGrant(g, i)
       PROVE  UNCHANGED challenge
  BY <1>13 DEF Tick, IssueCallbackGrant
<1>14. ASSUME NEW t \in Calls, NEW c \in Challenges,
              StartVerify(t, c) \/ \E s \in Sessions : StartConsume(t, c, s)
       PROVE  UNCHANGED challenge
  BY <1>14 DEF StartVerify, StartConsume
<1>15. ASSUME NEW t \in Calls, GatherCandidates(t) \/ EndCall(t)
       PROVE  UNCHANGED challenge
  BY <1>15 DEF GatherCandidates, EndCall
<1>16. ASSUME NEW s \in Sessions, RevokeSession(s)
       PROVE  UNCHANGED challenge
  BY <1>16 DEF RevokeSession
<1>17. CASE Housekeeping
  BY <1>1, <1>3, <1>4, <1>6, <1>13, <1>17 DEF Housekeeping
<1>18. CASE Requesting
  BY <1>1, <1>7, <1>8, <1>9, <1>13, <1>18 DEF Requesting
<1>19. CASE Entering
  BY <1>1, <1>10, <1>11, <1>12, <1>14, <1>15, <1>16, <1>19 DEF Entering
<1> QED
  BY <1>2, <1>17, <1>18, <1>19 DEF Next

\* The failures of an address are finitely many.
LEMMA FailuresFinite ==
    ASSUME NEW e, NEW since
    PROVE  IsFiniteSet(FailuresSince(e, since))
<1>1. IsFiniteSet(1..MaxFailures) /\ IsFiniteSet(Challenges)
  BY SettingsAuthAssumption, FS_Interval
<1>2. IsFiniteSet(Challenges \X (1..MaxFailures))
  BY <1>1, FS_Product
<1>3. FailuresSince(e, since) \subseteq Challenges \X (1..MaxFailures)
  BY DEF FailuresSince
<1> QED
  BY <1>2, <1>3, FS_Subset

\* What a wrong code leaves: one failure more, recorded now, within the budget.
LEMMA WrongEffect ==
    ASSUME AuthInv, NEW t \in Calls, VerifyWrong(t)
    PROVE  LET c == call[t].challenge
           IN  /\ c \in Challenges
               /\ challenge'[c].failures = Append(challenge[c].failures, now)
               /\ challenge'[c].email = challenge[c].email
               /\ \A d \in Challenges \ {c} : challenge'[d] = challenge[d]
               /\ Cardinality(FailuresSince(challenge[c].email, now - Hour)) < HourlyFailures
               /\ UNCHANGED now
<1> DEFINE c == call[t].challenge
           failures == Append(challenge[c].failures, now)
           failed == [challenge[c] EXCEPT !.failures = failures]
           new == IF LocksAt(Len(failures)) THEN Ended(failed, "locked", now) ELSE failed
<1>1. challenge' = [challenge EXCEPT ![c] = new]
  BY Zenon DEF VerifyWrong
<1>2. /\ Decides(t, "verify") /\ UNCHANGED now
      /\ Cardinality(FailuresSince(challenge[c].email, now - Hour)) < HourlyFailures
  BY DEF VerifyWrong, Verifiable
<1>3. c \in Challenges /\ challenge \in [Challenges -> Challenge] /\ now \in Nat
  BY <1>2, DecidesOn DEF AuthInv, TypeOK
<1>4. failures \in Seq(Nat)
  BY <1>3, ChallengeColumns
<1> HIDE DEF failures
<1>5. failed \in Challenge /\ failed.failures = failures /\ failed.email = challenge[c].email
  BY <1>3, <1>4, FailedColumns
<1> HIDE DEF failed
<1>6. new.failures = failures /\ new.email = challenge[c].email
  BY <1>5, EndedColumns
<1> HIDE DEF new
<1>7. challenge'[c] = new /\ \A d \in Challenges \ {c} : challenge'[d] = challenge[d]
  BY <1>1, <1>3
<1> QED
  BY <1>2, <1>3, <1>6, <1>7 DEF failures

\* No step takes an address over its budget.
LEMMA WithinBudgetKept ==
    ASSUME AuthInv, [Next]_vars
    PROVE  WithinBudget'
<1> SUFFICES ASSUME NEW e \in Emails
             PROVE  Cardinality(FailuresSince(e, now - Hour)') <= HourlyFailures
  BY DEF WithinBudget
<1> DEFINE before == FailuresSince(e, now - Hour)
           after == FailuresSince(e, now - Hour)'
<1>1. /\ now \in Nat /\ now' \in Nat /\ now' >= now /\ Hour \in Nat
      /\ HourlyFailures \in Nat /\ MaxFailures \in Nat
      /\ challenge \in [Challenges -> Challenge]
  BY TimeStep, SettingsAuthAssumption DEF AuthInv, TypeOK
<1>2. \A c \in Challenges : challenge[c].failures \in Seq(Nat)
  BY <1>1, ChallengeColumns
<1>3. IsFiniteSet(before) /\ Cardinality(before) <= HourlyFailures
      /\ Cardinality(before) \in Nat
  BY FailuresFinite, FS_CardinalityType DEF AuthInv, WithinBudget
<1>4. e # NoOne
  BY SettingsAuthAssumption
<1>5. ASSUME LedgersKept
      PROVE  after \subseteq before
  <2> SUFFICES ASSUME NEW c \in Challenges, NEW n \in 1..MaxFailures,
                      challenge'[c].email = e, n \in DOMAIN challenge'[c].failures,
                      challenge'[c].failures[n] > now' - Hour
               PROVE  <<c, n>> \in before
    BY DEF FailuresSince
  <2>1. challenge'[c].failures = challenge[c].failures /\ challenge[c].email = e
    BY <1>5 DEF LedgersKept, LedgerKept
  <2>2. challenge[c].failures[n] \in Nat
    BY <1>2, <2>1
  <2>3. challenge[c].failures[n] > now - Hour
    BY <1>1, <2>1, <2>2
  <2> QED
    BY <2>1, <2>3 DEF FailuresSince
<1>6. ASSUME NEW t \in Calls, VerifyWrong(t)
      PROVE  Cardinality(after) <= HourlyFailures
  <2> DEFINE c == call[t].challenge
             old == challenge[c].failures
             last == <<c, Len(old) + 1>>
  <2>1. /\ c \in Challenges /\ challenge'[c].failures = Append(old, now)
        /\ challenge'[c].email = challenge[c].email /\ UNCHANGED now
        /\ \A d \in Challenges \ {c} : challenge'[d] = challenge[d]
        /\ Cardinality(FailuresSince(challenge[c].email, now - Hour)) < HourlyFailures
    BY <1>6, WrongEffect
  <2>2. after \subseteq before \cup {last}
    <3> SUFFICES ASSUME NEW d \in Challenges, NEW n \in 1..MaxFailures,
                        challenge'[d].email = e, n \in DOMAIN challenge'[d].failures,
                        challenge'[d].failures[n] > now' - Hour, <<d, n>> # last
                 PROVE  <<d, n>> \in before
      BY DEF FailuresSince
    <3>1. CASE d # c
      BY <2>1, <3>1 DEF FailuresSince
    <3>2. CASE d = c
      <4> DEFINE f == Append(old, now)
      <4>a. old \in Seq(Nat) /\ Len(old) \in Nat /\ now \in Nat
        BY <1>1, <1>2, <2>1
      <4>b. /\ DOMAIN f = 1..(Len(old) + 1)
            /\ \A k \in 1..Len(old) : f[k] = old[k]
        BY <4>a
      <4>c. n \in DOMAIN f /\ n # Len(old) + 1 /\ challenge'[c].failures[n] = f[n]
        BY <2>1, <3>2
      <4> HIDE DEF f
      <4>1. n \in 1..Len(old) /\ challenge'[c].failures[n] = old[n]
        BY <4>a, <4>b, <4>c
      <4>2. n \in DOMAIN old
        BY <1>2, <2>1, <4>1
      <4> QED
        BY <2>1, <3>2, <4>1, <4>2 DEF FailuresSince
    <3> QED
      BY <3>1, <3>2
  <2>3. CASE challenge[c].email = e
    <3> HIDE DEF before, after, last
    <3>a. /\ IsFiniteSet(before \cup {last})
          /\ Cardinality(before \cup {last})
               = IF last \in before THEN Cardinality(before) ELSE Cardinality(before) + 1
      BY <1>3, FS_AddElement
    <3>1. /\ IsFiniteSet(before \cup {last})
          /\ Cardinality(before \cup {last}) <= Cardinality(before) + 1
          /\ Cardinality(before \cup {last}) \in Nat
      BY <1>3, <3>a
    <3>2. Cardinality(before) < HourlyFailures
      BY <2>1, <2>3 DEF before
    <3>3. Cardinality(after) <= Cardinality(before \cup {last})
          /\ Cardinality(after) \in Nat
      BY <2>2, <3>1, FS_Subset, FS_CardinalityType
    <3> QED
      BY <1>1, <1>3, <3>1, <3>2, <3>3
  <2>4. CASE challenge[c].email # e
    <3>1. after \subseteq before
      <4> SUFFICES last \notin after
        BY <2>2
      <4> QED
        BY <2>1, <2>4 DEF FailuresSince
    <3> HIDE DEF before, after
    <3>2. Cardinality(after) <= Cardinality(before) /\ Cardinality(after) \in Nat
      BY <1>3, <3>1, FS_Subset, FS_CardinalityType
    <3> QED
      BY <1>1, <1>3, <3>2
  <2> QED
    BY <2>3, <2>4
<1>7. CASE LedgersKept
  <2> HIDE DEF before
  <2>1. after \subseteq before
    BY <1>5, <1>7
  <2> HIDE DEF after
  <2>2. Cardinality(after) <= Cardinality(before) /\ Cardinality(after) \in Nat
    BY <1>3, <2>1, FS_Subset, FS_CardinalityType
  <2>3. Cardinality(after) <= HourlyFailures
    BY <1>1, <1>3, <2>2
  <2> QED
    BY <2>3 DEF after
<1> QED
  BY <1>6, <1>7, LedgerWriters

-----------------------------------------------------------------------------
(* The inductive invariant.                                                *)

\* Rows and calls keep their types, and five failures at most are stored.
LEMMA TypesKept ==
    ASSUME AuthInv, [Next]_vars
    PROVE  TypeOK'
<1>1. /\ now' \in Nat
      /\ install' \in [Installations -> [installed : BOOLEAN, generation : Nat]]
      /\ grant' \in [Grants -> Grant]
      /\ administrator' \in [Grants -> [state : {"absent", "active", "revoked"},
                                        email : Emails \cup {NoOne}]]
  BY TimeStep, GrantTypes DEF AuthInv
<1>2. challenge' \in [Challenges -> Challenge]
  BY CodesTakeSteps DEF AuthInv
<1>3. \A c \in Challenges : Len(challenge'[c].failures) <= MaxFailures
  BY CodesStaySound DEF CodeSound, RowSound, ChallengeIntact
<1> QED
  BY <1>1, <1>2, <1>3, SessionTypes, CallTypes DEF TypeOK

\* Nothing has been issued yet.
LEMMA InitAuth == ASSUME Init PROVE AuthInv
<1>1. /\ NoOne \notin Emails \cup Grants \cup Challenges /\ IsFiniteSet(Challenges)
      /\ MaxFailures \in Nat \ {0} /\ HourlyFailures \in Nat
  BY SettingsAuthAssumption
<1>2. /\ NoChallenge.state = "absent" /\ NoChallenge.purpose = "none"
      /\ NoChallenge.created_at = 0 /\ NoChallenge.failures = <<>>
      /\ NoChallenge.delivered_at = 0 /\ NoChallenge.verified_at = 0
      /\ NoChallenge.email = NoOne /\ NoChallenge.grant = NoOne
  BY DEF NoChallenge
<1>3. ~NoChallenge.has_email
  BY Zenon DEF NoChallenge
<1>4. NoGrant \in Grant /\ NoGrant.state = "absent" /\ NoGrant.method = "none"
  BY DEF NoGrant, Grant
<1>5. NoSession \in Session /\ NoSession.state = "absent" /\ NoSession.challenge = NoOne
  BY DEF NoSession, Session
<1>6. Idle \in Call /\ Idle.op = "none" /\ Idle.stage = "idle"
  BY DEF Idle, Call
<1>7. /\ now = 1
      /\ install = [i \in Installations |-> [installed |-> 1 = 1, generation |-> 1]]
      /\ grant = [g \in Grants |-> NoGrant]
      /\ administrator = [g \in Grants |-> [state |-> "absent", email |-> NoOne]]
      /\ challenge = [c \in Challenges |-> NoChallenge]
      /\ session = [s \in Sessions |-> NoSession]
      /\ call = [t \in Calls |-> Idle]
  BY DEF Init
<1>8. TypeOK /\ now > 0
  BY <1>1, <1>2, <1>4, <1>5, <1>6, <1>7, NoChallengeType DEF TypeOK
<1>9. \A g \in Grants : GrantSound(g)
  BY <1>4, <1>7 DEF GrantSound
<1>10. ChallengeIntact(NoChallenge) /\ \A n \in DOMAIN NoChallenge.failures : FALSE
  BY <1>2, FreshRow
<1>11. \A c \in Challenges : CodeSound(c) /\ CodeSpends(c)
  BY <1>2, <1>3, <1>7, <1>10 DEF CodeSound, RowSound, CodeSpends
<1>12. \A s \in Sessions : SessionSound(s)
  BY <1>5, <1>7 DEF SessionSound
<1>13. \A t \in Calls : CallSound(t)
  BY <1>6, <1>7 DEF CallSound
<1>14. OneOpenCode /\ OneSpentCode
  BY <1>2, <1>7 DEF OneOpenCode, OneSpentCode, Open
<1>15. WithinBudget
  <2> SUFFICES ASSUME NEW e \in Emails
               PROVE  Cardinality(FailuresSince(e, now - Hour)) <= HourlyFailures
    BY DEF WithinBudget
  <2>1. FailuresSince(e, now - Hour) = {}
    BY <1>1, <1>2, <1>7 DEF FailuresSince
  <2>2. Cardinality({}) = 0
    BY FS_EmptySet
  <2> QED
    BY <1>1, <2>1, <2>2
<1> QED
  BY <1>8, <1>9, <1>11, <1>12, <1>13, <1>14, <1>15 DEF AuthInv

\* The invariant is inductive.
LEMMA NextAuth == ASSUME AuthInv, [Next]_vars PROVE AuthInv'
<1>1. now' > 0
  BY TimeStep DEF AuthInv, TypeOK
<1> QED
  BY <1>1, TypesKept, GrantsStaySound, CodesStaySound, CodesStillSpend, SessionsStaySound,
     CallsStaySound, OneOpenCodeKept, OneSpentCodeKept, WithinBudgetKept DEF AuthInv

\* What is always true of grants, codes, administrators, sessions and calls.
THEOREM AuthInvariant == Spec => []AuthInv
<1>1. AuthInv /\ [Next]_vars => AuthInv'
  BY NextAuth
<1> QED
  BY <1>1, InitAuth, PTL DEF Spec

\* Rows and calls have the types of their columns and locals, and five failures
\* at most are stored of any challenge.
THEOREM AuthTypes == Spec => []TypeOK
<1>1. AuthInv => TypeOK
  BY DEF AuthInv
<1> QED
  BY <1>1, AuthInvariant, PTL

\* What may be used belongs to the installation as it is, whatever order a removal
\* and the calls in flight come in.
THEOREM InstallationBound == Spec => []NothingOutlivesInstallation
<1>1. AuthInv => NothingOutlivesInstallation
  <2> SUFFICES ASSUME AuthInv
               PROVE  NothingOutlivesInstallation
    OBVIOUS
  <2>1. \A g \in Grants : GrantSound(g)
    BY DEF AuthInv
  <2>2. \A s \in Sessions : SessionSound(s)
    BY DEF AuthInv
  <2>3. \A s \in Sessions : session[s].state = "live" =>
          /\ session[s].administrator \in Grants
          /\ administrator[session[s].administrator].state = "active"
          /\ session[s].generation = grant[session[s].administrator].generation
    BY <2>2 DEF SessionSound
  <2> QED
    BY <2>1, <2>3 DEF NothingOutlivesInstallation, Authenticates, GrantSound
<1> QED
  BY <1>1, AuthInvariant, PTL

\* At most one code is open for a grant and an address, or for a login of an
\* address, and none for a grant that has ended.
THEOREM SingleOpenCode == Spec => []OneOpenCode
<1>1. AuthInv => OneOpenCode
  BY DEF AuthInv
<1> QED
  BY <1>1, AuthInvariant, PTL

\* The integrity trigger never raises, and an address stays within its hourly
\* budget of failures over all its codes.
THEOREM LedgerHolds == Spec => []FailureLedger
<1>1. AuthInv => FailureLedger
  BY DEF AuthInv, CodeSound, RowSound, WithinBudget, FailureLedger
<1> QED
  BY <1>1, AuthInvariant, PTL

\* A code opens one session, for whom it was mailed to, and a grant makes one
\* administrator with one code.
THEOREM CodesSpentOnce == Spec => []SpentOnce
<1>1. AuthInv => SpentOnce
  <2> SUFFICES ASSUME AuthInv
               PROVE  SpentOnce
    OBVIOUS
  <2>1. \A s \in Sessions : SessionSound(s)
    BY DEF AuthInv
  <2>2. \A g \in Grants : GrantSound(g)
    BY DEF AuthInv
  <2>3. ASSUME NEW g \in Grants, NEW c \in OfGrant(g), NEW d \in OfGrant(g),
               challenge[c].state = "consumed", challenge[d].state = "consumed"
        PROVE  c = d
    BY <2>3 DEF OfGrant, AuthInv, OneSpentCode
  <2> QED
    BY <2>1, <2>2, <2>3 DEF SpentOnce, SessionSound, GrantSound
<1> QED
  BY <1>1, AuthInvariant, PTL

-----------------------------------------------------------------------------
(* What a step may do.                                                     *)

\* A session that appears is opened by a call for an administrator.
LEMMA SessionAppears ==
    ASSUME AuthInv, [Next]_vars, NEW s \in Sessions, session[s].state = "absent",
           session'[s].state # "absent"
    PROVE  \E t \in Calls : /\ ConsumeEnrollment(t) \/ ConsumeLogin(t)
                            /\ s = call[t].session
<1>1. session \in [Sessions -> Session]
  BY DEF AuthInv, TypeOK
<1>2. CASE UNCHANGED session
  BY <1>2
<1>3. ASSUME NEW i \in Installations, NEW b \in BOOLEAN, ChangeInstallation(i, b)
      PROVE  FALSE
  BY <1>3 DEF ChangeInstallation, Invalidate
<1>4. ASSUME NEW r \in Sessions, RevokeSession(r)
      PROVE  FALSE
  BY <1>1, <1>4 DEF RevokeSession
<1>5. ASSUME NEW t \in Calls, ConsumeEnrollment(t) \/ ConsumeLogin(t)
      PROVE  s = call[t].session
  BY <1>1, <1>5, Openings DEF Opened
<1> QED
  BY <1>2, <1>3, <1>4, <1>5, SessionWriters

\* What a login gathered under the lock of its address is all there is.
LEMMA GatheredAll ==
    ASSUME AuthInv, NEW t \in Calls, call[t].stage = "gathered",
           challenge[call[t].challenge].state # "deleted"
    PROVE  Principals(challenge[call[t].challenge].email, call[t].candidates)
             = Principals(challenge[call[t].challenge].email, Grants)
<1>1. call[t].candidates \subseteq Grants
  BY DEF AuthInv, TypeOK, Call
<1>2. CallSound(t)
  BY DEF AuthInv
<1> QED
  BY <1>1, <1>2 DEF CallSound, Principals

\* A login opens the session of the only administrator its address can mean at that
\* moment, though it read the candidates when it held the lock of the address alone.
THEOREM LoginOfTheOnlyOne == Spec => LoginUnambiguous
<1> DEFINE Step == \A s \in Sessions :
                      LET c == session'[s].challenge
                      IN  /\ session[s].state = "absent"
                          /\ session'[s].state = "live"
                          /\ challenge[c].purpose = "login"
                          => Principals(challenge[c].email, Grants) = {session'[s].administrator}
<1>1. AuthInv /\ [Next]_vars => [Step]_vars
  <2> SUFFICES ASSUME AuthInv, [Next]_vars, NEW s \in Sessions,
                      session[s].state = "absent", session'[s].state = "live",
                      challenge[session'[s].challenge].purpose = "login"
               PROVE  Principals(challenge[session'[s].challenge].email, Grants)
                        = {session'[s].administrator}
    OBVIOUS
  <2>1. PICK t \in Calls : /\ ConsumeEnrollment(t) \/ ConsumeLogin(t)
                           /\ s = call[t].session
    BY SessionAppears
  <2> DEFINE c == call[t].challenge
  <2>2. ~ConsumeEnrollment(t)
    BY <2>1, EnrollmentEffect, OpenedColumns DEF Opened
  <2>3. /\ \E g \in Grants :
             /\ Opened(t, g)
             /\ Principals(challenge[c].email, call[t].candidates) = {g}
        /\ call[t].stage = "gathered"
    BY <2>1, <2>2, LoginEffect
  <2>4. PICK g \in Grants : /\ Opened(t, g)
                            /\ Principals(challenge[c].email, call[t].candidates) = {g}
    BY <2>3
  <2>5. session'[s].challenge = c /\ session'[s].administrator = g
    BY <2>1, <2>4, OpenedColumns
  <2>6. challenge[c].state # "deleted"
    BY <2>4 DEF Opened
  <2> QED
    BY <2>3, <2>4, <2>5, <2>6, GatheredAll
<1> QED
  BY <1>1, AuthInvariant, PTL DEF Spec, LoginUnambiguous

\* The triggers admit every step of a code.
LEMMA CodeStepAdmitted ==
    ASSUME NEW old \in Challenge, NEW new, now \in Nat, RowSound(old, now),
           CodeStep(old, new), new # old
    PROVE  ChallengeAdmitted(old, new)
<1>1. /\ old.created_at \in Nat /\ old.expires_at \in Nat /\ old.failures \in Seq(Nat)
      /\ old.delivered_at \in Nat /\ old.verified_at \in Nat
      /\ old.has_email \in BOOLEAN
  BY ChallengeColumns
<1>2. CASE CodeInserted(old, new)
  <2>1. PICK p \in {"enrollment", "login"}, g \in Grants \cup {NoOne}, e \in Emails,
             time \in Nat, x \in Nat :
          /\ new = NewChallenge(p, g, e, time, x)
          /\ p = "login" => g = NoOne /\ x = time + ChallengeTtl
          /\ p = "enrollment" =>
               /\ g \in Grants /\ grant[g].state = "live" /\ GrantLasts(g, time)
               /\ x = EnrollmentExpiry(g, time) /\ grant[g].email \in {NoOne, e}
    BY <1>2 DEF CodeInserted
  <2>2. /\ new.purpose = p /\ new.grant = g /\ new.created_at = time /\ new.has_email
        /\ new.state = "pending" /\ new.failures = <<>> /\ new.email = e
        /\ new.expires_at = x
    BY <2>1, NewChallengeColumns
  <2>3. ChallengeInserted(new)
    BY <2>1, <2>2 DEF ChallengeInserted, GrantLasts
  <2> QED
    BY <1>2, <2>2, <2>3 DEF ChallengeAdmitted, CodeInserted
<1>3. CASE old.state \notin {"absent", "deleted"} /\ new = [NoChallenge EXCEPT !.state = "deleted"]
  BY <1>3, DeletedColumns DEF ChallengeAdmitted
<1>4. ASSUME new.purpose = old.purpose, new.grant = old.grant, new.email = old.email,
             new.created_at = old.created_at, new.expires_at = old.expires_at
      PROVE  SameChallenge(old, new)
  BY <1>4 DEF SameChallenge
<1>5. CASE ChallengeScrubbed(old, new)
  <2>1. /\ new.state = old.state /\ new.purpose = old.purpose /\ new.grant = old.grant
        /\ new.email = old.email /\ new.created_at = old.created_at
        /\ new.expires_at = old.expires_at /\ new.failures = old.failures
    BY <1>5, ScrubbedColumns DEF ChallengeScrubbed
  <2>2. old.state \in {"pending", "live", "verified"}
    BY <1>5 DEF ChallengeScrubbed, RowSound
  <2> QED
    BY <1>4, <1>5, <2>1, <2>2 DEF ChallengeAdmitted
<1>6. CASE CodeSuperseded(old, new)
  <2>1. ChallengeMoved(old, new) /\ old.state \in {"pending", "live"}
    BY <1>6 DEF CodeSuperseded
  <2>2. /\ new.state = "superseded" /\ new.failures = old.failures
        /\ SameChallenge(old, new)
    BY <1>4, <1>6, SupersededColumns
  <2> QED
    BY <2>1, <2>2 DEF ChallengeAdmitted
<1>7. ASSUME now < old.expires_at,
             \/ old.state = "pending" /\ new = Ended(old, "failed", now)
             \/ old.has_email /\ old.state = "verified" /\ new = Ended(old, "consumed", now)
      PROVE  ChallengeAdmitted(old, new)
  <2>1. /\ ~new.has_email /\ new.ended_at = now
        /\ new.delivered_at = old.delivered_at /\ new.verified_at = old.verified_at
        /\ new.purpose = old.purpose /\ new.grant = old.grant
        /\ new.email = old.email /\ new.created_at = old.created_at
        /\ new.expires_at = old.expires_at /\ new.failures = old.failures
        /\ new.state \in {"failed", "consumed"}
        /\ <<old.state, new.state>> \in ChallengeMoves
    BY <1>7, EndedColumns DEF ChallengeMoves
  <2>2. old.has_email
    BY <1>7 DEF RowSound
  <2>3. new.has_email = (new.state \in {"live", "verified"})
    <3>1. new \in Challenge
      BY <1>7, EndedType DEF ChallengeStates
    <3>2. new.has_email \in BOOLEAN
      BY <3>1, ChallengeColumns
    <3> QED
      BY <2>1, <3>2
  <2>4. Since(old) <= Since(new) /\ Since(new) < old.expires_at
    <3>1. Since(new) = now
      BY <2>1 DEF Since
    <3>2. Since(old) <= now
      BY <1>7 DEF Since, RowSound
    <3> QED
      BY <1>7, <3>1, <3>2
  <2>5. ChallengeMoved(old, new)
    BY <1>7, <2>1, <2>2, <2>3, <2>4 DEF ChallengeMoved
  <2> QED
    BY <1>4, <1>7, <2>1, <2>5 DEF ChallengeAdmitted
<1>8. ASSUME now < old.expires_at,
             \/ old.state = "pending" /\ new = Delivered(old)
             \/ old.has_email /\ old.state = "live" /\ new = Verified(old)
      PROVE  ChallengeAdmitted(old, new)
  <2>1. /\ new.has_email = old.has_email /\ new.ended_at = old.ended_at
        /\ new.purpose = old.purpose /\ new.grant = old.grant
        /\ new.email = old.email /\ new.created_at = old.created_at
        /\ new.expires_at = old.expires_at /\ new.failures = old.failures
        /\ new.state \in {"live", "verified"}
        /\ new.state = "live" => /\ new.delivered_at = now
                                /\ new.verified_at = old.verified_at
        /\ new.state = "verified" => /\ new.verified_at = now
                                    /\ new.delivered_at = old.delivered_at
        /\ <<old.state, new.state>> \in ChallengeMoves
    BY <1>8, DeliveredColumns, VerifiedColumns DEF ChallengeMoves
  <2>2. old.has_email
    BY <1>8 DEF RowSound
  <2>3. Since(old) <= Since(new) /\ Since(new) < old.expires_at
    <3>1. Since(new) = now
      BY <2>1 DEF Since
    <3>2. Since(old) <= now
      BY <1>8 DEF Since, RowSound
    <3> QED
      BY <1>8, <3>1, <3>2
  <2>4. ChallengeMoved(old, new)
    BY <1>8, <2>1, <2>2, <2>3 DEF ChallengeMoved
  <2> QED
    BY <1>4, <1>8, <2>1, <2>4 DEF ChallengeAdmitted
<1>9. CASE now < old.expires_at /\ old.has_email /\ CodeFailed(old, new)
  <2>1. /\ old.state = "live" /\ new \in Challenge
        /\ new.failures = Append(old.failures, now)
        /\ new.state = IF LocksAt(Len(new.failures)) THEN "locked" ELSE "live"
        /\ new.state = "locked" => new.ended_at = now /\ ~new.has_email
        /\ new.state = "live" => new = [old EXCEPT !.failures = new.failures]
        /\ new.delivered_at = old.delivered_at /\ new.verified_at = old.verified_at
    BY <1>9, CodeFailedColumns
  <2>2. SameChallenge(old, new)
    BY <1>4, <1>9, CodeFailedColumns
  <2>3. Len(old.failures) < MaxFailures
    BY <1>9, <2>1, <2>2, FailedRow DEF SameChallenge
  <2>4. old.delivered_at <= now
    BY DEF RowSound
  <2>5. FailureAppended(old, new)
    <3>1. now \in old.delivered_at..(old.expires_at - 1)
      BY <1>1, <1>9, <2>4
    <3> QED
      BY <1>9, <2>1, <2>3, <3>1 DEF FailureAppended
  <2>6. CASE new.state = "live"
    BY <2>1, <2>2, <2>5, <2>6 DEF ChallengeAdmitted
  <2>7. CASE new.state = "locked"
    <3>1. new.has_email = (new.state \in {"live", "verified"})
      <4>1. new.has_email \in BOOLEAN
        BY <2>1, ChallengeColumns
      <4> QED
        BY <2>1, <2>7, <4>1
    <3>2. <<old.state, new.state>> \in ChallengeMoves
      BY <2>1, <2>7 DEF ChallengeMoves
    <3>3. Since(old) <= Since(new) /\ Since(new) < old.expires_at
      BY <1>1, <1>9, <2>1, <2>4, <2>7 DEF Since
    <3>4. ChallengeMoved(old, new)
      BY <1>9, <2>1, <2>7, <3>1, <3>2, <3>3 DEF ChallengeMoved
    <3> QED
      BY <2>1, <2>2, <2>5, <2>7, <3>4 DEF ChallengeAdmitted
  <2> QED
    BY <2>1, <2>6, <2>7
<1> QED
  BY <1>2, <1>3, <1>5, <1>6, <1>7, <1>8, <1>9 DEF CodeStep, CodeMoved

\* The triggers admit every step of a grant and of its administrator.
LEMMA GrantStepAdmitted ==
    ASSUME AuthInv, [Next]_vars, NEW g \in Grants
    PROVE  /\ grant'[g] # grant[g] => GrantAdmitted(grant[g], grant'[g])
           /\ administrator'[g] # administrator[g] =>
                AdministratorAdmitted(g, administrator[g], administrator'[g], grant'[g])
<1> TypeOK /\ \A h \in Grants : GrantSound(h)
  BY DEF AuthInv
<1>1. CASE UNCHANGED <<install, grant, administrator>>
  BY <1>1
<1>2. ASSUME NEW i \in Installations, NEW b \in BOOLEAN, ChangeInstallation(i, b)
      PROVE  /\ grant'[g] # grant[g] => GrantAdmitted(grant[g], grant'[g])
             /\ administrator'[g] # administrator[g] =>
                  AdministratorAdmitted(g, administrator[g], administrator'[g], grant'[g])
  <2>1. \/ grant'[g] = grant[g]
        \/ /\ grant[g].state = "live"
           /\ grant'[g] = [grant[g] EXCEPT !.state = "revoked"]
    BY <1>2 DEF ChangeInstallation, Invalidate, EndedWith
  <2>2. \/ administrator'[g] = administrator[g]
        \/ /\ administrator[g].state = "active"
           /\ administrator'[g] = [administrator[g] EXCEPT !.state = "revoked"]
    BY <1>2 DEF ChangeInstallation, Invalidate
  <2> QED
    BY <2>1, <2>2 DEF GrantAdmitted, AdministratorAdmitted
<1>3. ASSUME NEW h \in Grants, NEW i \in Installations, NEW e \in Emails,
             IssueOperatorGrant(h, i, e)
      PROVE  /\ grant'[g] # grant[g] => GrantAdmitted(grant[g], grant'[g])
             /\ UNCHANGED administrator
  <2>1. \/ grant'[g] = grant[g]
        \/ /\ grant[g].state = "live"
           /\ grant'[g] = [grant[g] EXCEPT !.state = "revoked"]
        \/ /\ grant[g].state = "absent"
           /\ Eligible(grant'[g].installation, grant'[g].generation)
    BY <1>3, OperatorGrants
  <2> QED
    BY <1>3, <2>1 DEF GrantAdmitted, IssueOperatorGrant
<1>4. ASSUME NEW h \in Grants, NEW i \in Installations, IssueCallbackGrant(h, i)
      PROVE  /\ grant'[g] # grant[g] => GrantAdmitted(grant[g], grant'[g])
             /\ UNCHANGED administrator
  BY <1>4, CallbackGrants DEF GrantAdmitted, IssueCallbackGrant
<1>5. ASSUME NEW t \in Calls, ConsumeEnrollment(t)
      PROVE  /\ grant'[g] # grant[g] => GrantAdmitted(grant[g], grant'[g])
             /\ administrator'[g] # administrator[g] =>
                  AdministratorAdmitted(g, administrator[g], administrator'[g], grant'[g])
  <2> DEFINE c == call[t].challenge
             h == challenge[c].grant
  <2>1. /\ Opened(t, h) /\ grant[h].state = "live" /\ administrator[h].state = "absent"
        /\ grant[h].email = challenge[c].email
        /\ grant'[h].state = "consumed" /\ grant'[h].email = grant[h].email
        /\ grant' = [grant EXCEPT ![h] = [grant[h] EXCEPT !.state = "consumed"]]
        /\ \A k \in Grants \ {h} : /\ grant'[k] = grant[k]
                                   /\ administrator'[k] = administrator[k]
    BY <1>5, EnrollmentEffect
  <2>2. /\ GrantEligible(h) /\ administrator'[h].email = challenge[c].email /\ h \in Grants
    BY <2>1 DEF Opened
  <2>3. grant'[h] = [grant[h] EXCEPT !.state = "consumed"]
    BY <2>1, <2>2 DEF TypeOK
  <2> HIDE DEF h
  <2>4. GrantAdmitted(grant[h], grant'[h])
    BY <2>1, <2>3 DEF GrantAdmitted
  <2>5. AdministratorAdmitted(h, administrator[h], administrator'[h], grant'[h])
    BY <2>1, <2>2 DEF AdministratorAdmitted
  <2> QED
    BY <2>1, <2>4, <2>5
<1> QED
  BY <1>1, <1>2, <1>3, <1>4, <1>5, GrantWriters

\* The triggers admit every step of a session.
LEMMA SessionStepAdmitted ==
    ASSUME AuthInv, [Next]_vars, NEW s \in Sessions, session'[s] # session[s]
    PROVE  SessionAdmitted(session[s], session'[s],
                           administrator'[session'[s].administrator])
<1>1. CASE SessionKept(s)
  BY <1>1 DEF SessionKept, SessionAdmitted
<1>2. ASSUME NEW t \in Calls, NEW g \in Grants, Opened(t, g), s = call[t].session
      PROVE  SessionAdmitted(session[s], session'[s],
                             administrator'[session'[s].administrator])
  <2>1. session'[s].administrator = g /\ session'[s].generation = grant[g].generation
    BY <1>2, OpenedColumns
  <2>2. /\ session[s].state = "absent" /\ GrantEligible(g)
        /\ administrator'[g].state = "active"
    BY <1>2 DEF Opened
  <2> QED
    BY <2>1, <2>2 DEF SessionAdmitted
<1> QED
  BY <1>1, <1>2, SessionStep

\* Only a code that expired, or was reported delivered, after a call read the clock
\* is refused to be superseded at the time it read: under the lock that it held,
\* calls before it wrote nothing younger.
LEMMA RefusalsAreLate ==
    ASSUME AuthInv, NEW c \in Challenges,
           NEW time \in Readings(challenge[c].grant, challenge[c].email), Raises(c, time)
    PROVE  Overtaken(c, time)
<1> DEFINE old == challenge[c]
           new == Ended(old, "superseded", time)
<1>1. /\ old \in Challenge /\ now \in Nat /\ RowSound(old, now)
  BY DEF AuthInv, TypeOK, CodeSound
<1>2. /\ old.created_at \in Nat /\ old.expires_at \in Nat
      /\ old.delivered_at \in Nat /\ old.grant \in Grants \cup {NoOne}
  BY <1>1, ChallengeColumns
<1>3. time \in Nat /\ time <= now
  BY <1>1 DEF Readings
<1>4. /\ old.state \in {"pending", "live"} /\ time < old.expires_at
      /\ ~ChallengeMoved(old, new)
  BY DEF Raises, Unspent, Superseded
<1>5. old.created_at <= time
  <2>1. c \in CodesUnder(old.grant, old.email)
    BY <1>4 DEF CodesUnder, OfGrant
  <2>2. old.created_at \in WrittenAt(old)
    BY DEF WrittenAt
  <2> QED
    BY <2>1, <2>2 DEF Readings
<1> SUFFICES ASSUME ~Overtaken(c, time)
             PROVE  FALSE
  OBVIOUS
<1>6. now < old.expires_at /\ (old.state = "live" => old.delivered_at <= time)
  BY <1>1, <1>2, <1>3, <1>4 DEF Overtaken
<1>7. old.has_email
  BY <1>1, <1>4, <1>6 DEF RowSound
<1>8. /\ new.state = "superseded" /\ new.has_email = FALSE /\ new.ended_at = time
      /\ new.delivered_at = old.delivered_at /\ new.verified_at = old.verified_at
  <2>1. new \in Challenge
    BY <1>1, <1>3, EndedType DEF ChallengeStates
  <2>2. new.has_email \in BOOLEAN
    BY <2>1, ChallengeColumns
  <2> QED
    BY <1>1, <2>2, EndedColumns
<1>9. Since(old) <= Since(new) /\ Since(new) < old.expires_at
  BY <1>4, <1>5, <1>6, <1>8 DEF Since
<1>10. <<old.state, new.state>> \in ChallengeMoves
  BY <1>4, <1>8 DEF ChallengeMoves
<1>11. new.has_email = (new.state \in {"live", "verified"})
  <2>1. ~new.has_email /\ new.has_email \in BOOLEAN /\ new.state = "superseded"
    BY <1>8
  <2> HIDE DEF new
  <2> QED
    BY <2>1
<1> HIDE DEF new
<1>12. ChallengeMoved(old, new)
  BY <1>6, <1>7, <1>8, <1>9, <1>10, <1>11 DEF ChallengeMoved
<1> QED
  BY <1>4, <1>12

\* The triggers that protect the four tables roll back no write but one that a
\* code's expiry or its report of delivery has overtaken; whatever else an RPC or
\* another trigger writes they admit.
THEOREM RefusedOnlyWhenOvertaken == Spec => OnlyLateWritesRefused
<1> DEFINE Late == \A c \in Challenges :
                      \A time \in Readings(challenge[c].grant, challenge[c].email) :
                         Raises(c, time) => Overtaken(c, time)
           Codes == \A c \in Challenges :
                       challenge'[c] # challenge[c] =>
                          ChallengeAdmitted(challenge[c], challenge'[c])
           Granted == \A g \in Grants :
                         /\ grant'[g] # grant[g] => GrantAdmitted(grant[g], grant'[g])
                         /\ administrator'[g] # administrator[g] =>
                              AdministratorAdmitted(g, administrator[g], administrator'[g],
                                                    grant'[g])
           Opens == \A s \in Sessions :
                       session'[s] # session[s] =>
                          SessionAdmitted(session[s], session'[s],
                                          administrator'[session'[s].administrator])
<1>1. AuthInv => Late
  BY RefusalsAreLate
<1>2. AuthInv /\ [Next]_vars => [Codes /\ Granted /\ Opens]_vars
  <2> SUFFICES ASSUME AuthInv, [Next]_vars
               PROVE  Codes /\ Granted /\ Opens
    OBVIOUS
  <2>1. /\ challenge \in [Challenges -> Challenge] /\ now \in Nat /\ CodesStep
        /\ \A c \in Challenges : CodeSound(c)
    BY CodesTakeSteps DEF AuthInv, TypeOK
  <2>2. Codes
    BY <2>1, CodeStepAdmitted DEF CodesStep, CodeSound
  <2> QED
    BY <2>2, GrantStepAdmitted, SessionStepAdmitted
<1> QED
  BY <1>1, <1>2, AuthInvariant, PTL DEF Spec, OnlyLateWritesRefused
=============================================================================
