---------------------------- MODULE SettingsAuth ----------------------------
(***************************************************************************)
(* Who may open the settings of an installation: enrollment grants, one-   *)
(* time codes (challenges), administrators and sessions.                   *)
(*                                                                         *)
(* An operator issues a grant for an e-mail address, or an installation's  *)
(* callback issues one without an address.  Its bearer requests a code,    *)
(* which is mailed (EmailOutbox), verifies it and consumes it: the grant   *)
(* is spent, an administrator appears, a session opens.  Later the         *)
(* administrator logs in with a code of purpose "login" alone.  Removing   *)
(* the app revokes all of it.                                              *)
(*                                                                         *)
(* Every RPC is one transaction under READ COMMITTED.  It may read before  *)
(* it holds its locks, and checks again under them; a call is therefore a  *)
(* discovery, for a login the gathering of candidates under the lock of    *)
(* the e-mail address, and a decision.  Other calls run in between, and a  *)
(* call may end, unanswered or rolled back, at any point.                  *)
(*                                                                         *)
(* What supersedes codes reads the clock before it waits for the address,  *)
(* or for rows whose delivery is being reported, and writes the time it    *)
(* read, under triggers that read the clock again.  Such a call is one     *)
(* step, at the time it writes; "Readings" are the times it may have read. *)
(* A call the trigger on codes rolls back takes no step.                   *)
(*                                                                         *)
(* A challenge is known by its request token, a session by its credential, *)
(* an administrator by the grant it came from.  All keys of the pseudonym  *)
(* keyring are known, so an address and its set of aliases are one thing.  *)
(***************************************************************************)
EXTENDS Integers, FiniteSets, Sequences

CONSTANTS
    Installations, Emails, Grants, Challenges, Sessions,
    Calls,              \* transactions that may run at the same time
    Methods,            \* "operator" (initial or recovery), "install_callback"
    ChallengeTtl,       \* 10 minutes
    GrantTtls,          \* how long grants live: at most 15 minutes
    MinGrantLeft,       \* 2 minutes
    SessionTtl,         \* 1 hour
    KeepFor,            \* 30 days
    MaxFailures,        \* 5 wrong codes lock a challenge
    Cooldown,           \* 60 seconds between two requests
    Hour, Day,
    HourlyRequests, DailyRequests, GrantRequests, HourlyFailures,
    MaxGeneration,      \* bound: installations are not reinstalled beyond it
    MaxTime             \* bound: the clock stops here

\* A column that names nothing.
NoOne == "none"

ASSUME SettingsAuthAssumption ==
    /\ NoOne \notin Emails \cup Grants \cup Challenges
    /\ IsFiniteSet(Challenges)
    /\ Methods \subseteq {"operator", "install_callback"}
    /\ ChallengeTtl \in Nat \ {0} /\ SessionTtl \in Nat \ {0}
    /\ GrantTtls \subseteq Nat \ {0} /\ MinGrantLeft \in Nat \ {0}
    /\ KeepFor \in Nat /\ MaxFailures \in Nat \ {0}
    /\ Cooldown \in Nat /\ Hour \in Nat /\ Day \in Nat
    /\ HourlyRequests \in Nat /\ DailyRequests \in Nat
    /\ GrantRequests \in Nat /\ HourlyFailures \in Nat
    /\ MaxGeneration \in Nat \ {0} /\ MaxTime \in Nat

VARIABLES
    now,
    install,        \* ghl_marketplace_installations
    grant,          \* every8d_settings_enrollment_grants
    administrator,  \* every8d_settings_administrators, by their grant
    challenge,      \* every8d_settings_auth_challenges and their failures
    session,        \* every8d_settings_sessions
    call            \* transactions that have read and not yet decided

vars == <<now, install, grant, administrator, challenge, session, call>>

Grant == [state : {"absent", "live", "consumed", "revoked"},
          installation : Installations \cup {NoOne}, generation : Nat,
          method : Methods \cup {"none"}, email : Emails \cup {NoOne},
          issued_at : Nat, expires_at : Nat]

NoGrant == [state |-> "absent", installation |-> NoOne, generation |-> 0,
            method |-> "none", email |-> NoOne, issued_at |-> 0, expires_at |-> 0]

ChallengeStates == {"absent", "pending", "live", "failed", "locked", "superseded",
                    "verified", "consumed", "deleted"}

\* "has_email" is what is left of the address; "email" is its pseudonym.
\* "ended_at" is the time of the failure, lock, supersession or consumption;
\* a time that is null is 0.
Challenge == [state : ChallengeStates, purpose : {"none", "enrollment", "login"},
              grant : Grants \cup {NoOne}, email : Emails \cup {NoOne},
              has_email : BOOLEAN, created_at : Nat, expires_at : Nat,
              delivered_at : Nat, verified_at : Nat, ended_at : Nat,
              failures : Seq(Nat)]

NoChallenge == [state |-> "absent", purpose |-> "none", grant |-> NoOne,
                email |-> NoOne, has_email |-> FALSE, created_at |-> 0,
                expires_at |-> 0, delivered_at |-> 0, verified_at |-> 0,
                ended_at |-> 0, failures |-> <<>>]

Session == [state : {"absent", "live", "revoked"},
            administrator : Grants \cup {NoOne}, generation : Nat,
            challenge : Challenges \cup {NoOne}, expires_at : Nat]

NoSession == [state |-> "absent", administrator |-> NoOne, generation |-> 0,
              challenge |-> NoOne, expires_at |-> 0]

Call == [op : {"none", "verify", "consume"}, stage : {"idle", "found", "gathered"},
         challenge : Challenges \cup {NoOne}, candidates : SUBSET Grants,
         session : Sessions \cup {NoOne}]

Idle == [op |-> "none", stage |-> "idle", challenge |-> NoOne,
         candidates |-> {}, session |-> NoOne]

\* Rows and calls have the types of their columns and locals; five failures at
\* most are stored of any challenge.
TypeOK ==
    /\ now \in Nat
    /\ install \in [Installations -> [installed : BOOLEAN, generation : Nat]]
    /\ grant \in [Grants -> Grant]
    /\ administrator \in [Grants -> [state : {"absent", "active", "revoked"},
                                     email : Emails \cup {NoOne}]]
    /\ challenge \in [Challenges -> Challenge]
    /\ \A c \in Challenges : Len(challenge[c].failures) <= MaxFailures
    /\ session \in [Sessions -> Session]
    /\ call \in [Calls -> Call]

Init ==
    /\ now = 1
    /\ install = [i \in Installations |-> [installed |-> TRUE, generation |-> 1]]
    /\ grant = [g \in Grants |-> NoGrant]
    /\ administrator = [g \in Grants |-> [state |-> "absent", email |-> NoOne]]
    /\ challenge = [c \in Challenges |-> NoChallenge]
    /\ session = [s \in Sessions |-> NoSession]
    /\ call = [t \in Calls |-> Idle]

-----------------------------------------------------------------------------
(* What the RPCs compute.                                                  *)

\* assert_every8d_settings_installation_eligible_v1
Eligible(i, generation) ==
    install[i].installed /\ install[i].generation = generation

GrantEligible(g) == Eligible(grant[g].installation, grant[g].generation)

\* A code that could still be verified, or mailed.
Open(c) ==
    /\ challenge[c].state \in {"pending", "live"}
    /\ now < challenge[c].expires_at

\* The end of a code takes the address along.
Ended(row, state, time) ==
    [row EXCEPT !.state = state, !.has_email = FALSE, !.ended_at = time]

\* Challenges and failures of an address that are younger than a time.
Requested(e, since) ==
    {c \in Challenges : /\ challenge[c].state \notin {"absent", "deleted"}
                        /\ challenge[c].email = e
                        /\ challenge[c].created_at > since}

FailuresSince(e, since) ==
    {f \in Challenges \X (1..MaxFailures) :
        LET row == challenge[f[1]]
        IN  /\ row.email = e
            /\ f[2] \in DOMAIN row.failures
            /\ row.failures[f[2]] > since}

OfGrant(g) ==
    {c \in Challenges : /\ challenge[c].state \notin {"absent", "deleted"}
                        /\ challenge[c].grant = g}

\* assert_every8d_settings_challenge_rate_limits_v1
WithinLimits(e, g, time) ==
    /\ Requested(e, time - Cooldown) = {}
    /\ Cardinality(Requested(e, time - Hour)) < HourlyRequests
    /\ Cardinality(Requested(e, time - Day)) < DailyRequests
    /\ g # NoOne => Cardinality(OfGrant(g)) < GrantRequests
    /\ Cardinality(FailuresSince(e, time - Hour)) < HourlyFailures

AliasFree_Always(e) == TRUE

\* lock_every8d_settings_email_pseudonyms_v1: no other call holds the address.
AliasFree(e) ==
    \A t \in Calls : call[t].stage = "gathered" => challenge[call[t].challenge].email # e

\* The administrators a login code of this address may stand for.
Principals(e, candidates) ==
    {g \in candidates : /\ administrator[g].state = "active"
                        /\ administrator[g].email = e
                        /\ GrantEligible(g)}

-----------------------------------------------------------------------------
(* What the triggers of the tables admit: "old" and "new" are a row before *)
(* and after a write.  They repeat, from the rows and their own reading of *)
(* the clock, what the RPCs do.                                            *)

\* A code dies with the grant it was requested for.
EnrollmentExpiry(g, created) ==
    IF created + ChallengeTtl < grant[g].expires_at THEN created + ChallengeTtl
    ELSE grant[g].expires_at

\* protect_every8d_settings_auth_challenge_v1
ChallengeInserted(new) ==
    /\ new.state = "pending" /\ new.has_email /\ new.failures = <<>>
    /\ IF new.purpose = "login" THEN new.expires_at = new.created_at + ChallengeTtl
       ELSE /\ grant[new.grant].state = "live"
            /\ new.created_at + MinGrantLeft <= grant[new.grant].expires_at
            /\ new.expires_at = EnrollmentExpiry(new.grant, new.created_at)
            /\ grant[new.grant].email \in {NoOne, new.email}

SameChallenge(old, new) ==
    \A field \in {"purpose", "grant", "email", "created_at", "expires_at"} :
        new[field] = old[field]

ChallengeScrubbed(old, new) ==
    /\ old.has_email /\ old.expires_at <= now
    /\ new = [old EXCEPT !.has_email = FALSE]

ChallengeMoves ==
    ({"pending"} \X {"live", "failed", "superseded"})
    \cup ({"live"} \X {"locked", "superseded", "verified"})
    \cup {<<"verified", "consumed">>}

\* When a row came to its state: no time may lie before the one it follows.
Since(row) ==
    CASE row.state = "pending" -> row.created_at
      [] row.state = "live" -> row.delivered_at
      [] row.state = "verified" -> row.verified_at
      [] OTHER -> row.ended_at

ChallengeMoved(old, new) ==
    /\ now < old.expires_at
    /\ old.has_email
    /\ <<old.state, new.state>> \in ChallengeMoves
    /\ Since(old) <= Since(new) /\ Since(new) < old.expires_at
    /\ new.has_email = (new.state \in {"live", "verified"})
    /\ new.state # "live" => new.delivered_at = old.delivered_at
    /\ new.state # "verified" => new.verified_at = old.verified_at
    /\ new.has_email => new.ended_at = old.ended_at

\* protect_every8d_settings_auth_challenge_failure_v1
FailureAppended(old, new) ==
    /\ old.state = "live"
    /\ now < old.expires_at
    /\ Len(old.failures) < MaxFailures
    /\ \E failed_at \in old.delivered_at..(old.expires_at - 1) :
         new.failures = Append(old.failures, failed_at)

ChallengeAdmitted(old, new) ==
    CASE old.state = "absent" -> ChallengeInserted(new)
      [] new.state = "deleted" -> old.state # "absent"
      [] OTHER ->
           /\ SameChallenge(old, new)
           /\ new.failures # old.failures => FailureAppended(old, new)
           /\ \/ new = [old EXCEPT !.failures = new.failures]
              \/ ChallengeScrubbed(old, new)
              \/ ChallengeMoved(old, new)

\* assert_every8d_settings_challenge_integrity_v1, which raises at commit.
ChallengeIntact(row) ==
    LET f == row.failures
    IN  /\ Len(f) <= MaxFailures
        /\ \A n \in 2..Len(f) : f[n - 1] <= f[n]
        /\ \A n \in DOMAIN f : /\ 0 < row.delivered_at /\ row.delivered_at <= f[n]
                               /\ f[n] < row.expires_at
        /\ row.state = "locked" <=> Len(f) = MaxFailures
        /\ row.state = "locked" => row.ended_at = f[MaxFailures]

\* protect_every8d_settings_enrollment_grant_v1
GrantAdmitted(old, new) ==
    IF old.state = "absent"
    THEN Eligible(new.installation, new.generation)
    ELSE /\ old.state = "live"
         /\ new \in {[old EXCEPT !.state = s] : s \in {"consumed", "revoked"}}

\* protect_every8d_settings_administrator_v1, under the grants "spent"
AdministratorAdmitted(g, old, new, spent) ==
    IF old.state = "absent"
    THEN /\ GrantEligible(g)
         /\ spent.state = "consumed"
         /\ spent.email \in {new.email} \cup (IF spent.method = "install_callback"
                                              THEN {NoOne} ELSE {})
    ELSE old.state = "active" /\ new = [old EXCEPT !.state = "revoked"]

\* protect_every8d_settings_session_v1, with the administrator it opens for
SessionAdmitted(old, new, holder) ==
    IF old.state = "absent"
    THEN /\ GrantEligible(new.administrator)
         /\ new.generation = grant[new.administrator].generation
         /\ holder.state = "active"
    ELSE old.state = "live" /\ new = [old EXCEPT !.state = "revoked"]

-----------------------------------------------------------------------------
(* Superseding codes: the clock is read, then the rows are updated.        *)

\* What calls wrote that held the lock of a grant, or, without one, of an address.
CodesUnder(g, e) == IF g = NoOne THEN {c \in Challenges : challenge[c].email = e} ELSE OfGrant(g)

WrittenAt(row) ==
    {row.created_at, row.verified_at} \cup {row.failures[n] : n \in DOMAIN row.failures}
    \cup (IF row.state = "consumed" THEN {row.ended_at} ELSE {})

Readings_Unlocked(g, e) == 1..now

\* The clock is read under that lock, and may be old when the call writes.
Readings(g, e) ==
    {time \in 1..now :
        /\ g # NoOne => grant[g].issued_at <= time
        /\ \A c \in CodesUnder(g, e) : \A written \in WrittenAt(challenge[c]) : written <= time}

Unspent_Delivered(c, time) ==
    challenge[c].state = "live" /\ time < challenge[c].expires_at

\* A code an update with that reading of the clock names.
Unspent(c, time) ==
    challenge[c].state \in {"pending", "live"} /\ time < challenge[c].expires_at

Superseded(c, time) == Ended(challenge[c], "superseded", time)

Raises(c, time) ==
    Unspent(c, time) /\ ~ChallengeMoved(challenge[c], Superseded(c, time))

\* The codes of some rows "at" the times the call had read for each of them.
CodesAfter(at) ==
    [c \in Challenges |->
        IF c \in DOMAIN at /\ Unspent(c, at[c]) THEN Superseded(c, at[c]) ELSE challenge[c]]

Admitted(at) == \A c \in DOMAIN at : ~Raises(c, at[c])

\* The trigger on grants, once for each grant that ends: it reads the clock
\* and supersedes the grant's codes.
WithoutGrants(ended, since) ==
    LET codes == {c \in Challenges : challenge[c].grant \in ended}
        reading == {read \in [ended -> since..now] : \A g \in ended : read[g] \in Readings(g, NoOne)}
        times == {[c \in codes |-> read[challenge[c].grant]] : read \in reading}
    IN  {CodesAfter(at) : at \in {at \in times : Admitted(at)}}

-----------------------------------------------------------------------------
(* Time, housekeeping and the installation.                                *)

Tick ==
    /\ now < MaxTime
    /\ now' = now + 1
    /\ UNCHANGED <<install, grant, administrator, challenge, session, call>>

\* Expired challenges forget the address.
Scrub(c) ==
    /\ challenge[c].has_email
    /\ challenge[c].expires_at <= now
    /\ challenge' = [challenge EXCEPT ![c].has_email = FALSE]
    /\ UNCHANGED <<now, install, grant, administrator, session, call>>

Cleanup(c) ==
    /\ challenge[c].state \notin {"absent", "deleted"}
    /\ KeepFor + (IF challenge[c].ended_at > 0 THEN challenge[c].ended_at
                  ELSE challenge[c].expires_at) <= now
    /\ challenge' = [challenge EXCEPT
         ![c] = [NoChallenge EXCEPT !.state = "deleted"]]
    /\ UNCHANGED <<now, install, grant, administrator, session, call>>

BelongsTo(g, i) ==
    grant[g].installation = i /\ grant[g].generation = install[i].generation

EndedWith_None(i) == {}

\* The unspent grants the installation's change takes with it.
EndedWith(i) == {g \in Grants : grant[g].state = "live" /\ BelongsTo(g, i)}

\* invalidate_every8d_settings_auth_v1, with the trigger on grants it fires.
Invalidate(i) ==
    /\ grant' = [g \in Grants |->
         IF g \in EndedWith(i) THEN [grant[g] EXCEPT !.state = "revoked"] ELSE grant[g]]
    /\ challenge' \in WithoutGrants(EndedWith(i), 1)
    /\ administrator' = [g \in Grants |->
         IF administrator[g].state = "active" /\ BelongsTo(g, i)
         THEN [administrator[g] EXCEPT !.state = "revoked"] ELSE administrator[g]]
    /\ session' = [s \in Sessions |->
         IF session[s].state = "live" /\ BelongsTo(session[s].administrator, i)
         THEN [session[s] EXCEPT !.state = "revoked"] ELSE session[s]]

\* An UNINSTALL or the INSTALL after it begins a new generation.
ChangeInstallation(i, installed) ==
    /\ install[i].installed # installed
    /\ install[i].generation < MaxGeneration
    /\ install' = [install EXCEPT ![i] =
         [installed |-> installed, generation |-> install[i].generation + 1]]
    /\ Invalidate(i)
    /\ UNCHANGED <<now, call>>

-----------------------------------------------------------------------------
(* Grants.                                                                 *)

\* The unspent grants of an operator that a new one for the address replaces.
Former(i, e, time) ==
    {h \in EndedWith(i) : /\ grant[h].method = "operator" /\ grant[h].email = e
                          /\ time < grant[h].expires_at}

NewGrant(i, method, e, time, ttl) ==
    [state |-> "live", installation |-> i, generation |-> install[i].generation,
     method |-> method, email |-> e, issued_at |-> time, expires_at |-> time + ttl]

\* It reads the clock, and may wait for the grants it replaces.
IssueOperatorGrant(g, i, e) ==
    /\ "operator" \in Methods
    /\ grant[g].state = "absent"
    /\ install[i].installed
    /\ \E time \in 1..now, ttl \in GrantTtls :
         LET former == Former(i, e, time)
         IN  /\ former = {} => time = now
             /\ \A h \in former : grant[h].issued_at <= time
             /\ grant' = [h \in Grants |->
                  IF h = g THEN NewGrant(i, "operator", e, time, ttl)
                  ELSE IF h \in former THEN [grant[h] EXCEPT !.state = "revoked"]
                  ELSE grant[h]]
             /\ challenge' \in WithoutGrants(former, time)
    /\ UNCHANGED <<now, install, administrator, session, call>>

\* One grant for each OAuth bootstrap that succeeded, bound to no address.
IssueCallbackGrant(g, i) ==
    /\ "install_callback" \in Methods
    /\ grant[g].state = "absent"
    /\ install[i].installed
    /\ \E ttl \in GrantTtls :
         grant' = [grant EXCEPT ![g] = NewGrant(i, "install_callback", NoOne, now, ttl)]
    /\ UNCHANGED <<now, install, administrator, challenge, session, call>>

-----------------------------------------------------------------------------
(* Codes.                                                                  *)

NewChallenge(purpose, g, e, created, expires) ==
    [NoChallenge EXCEPT !.state = "pending", !.purpose = purpose, !.grant = g,
                        !.email = e, !.has_email = TRUE, !.created_at = created,
                        !.expires_at = expires]

\* The codes a new one replaces, if they are unspent ("resend").
Resent(purpose, g, e) ==
    {c \in Challenges : /\ challenge[c].purpose = purpose /\ challenge[c].grant = g
                        /\ challenge[c].email = e}

\* The new code has the time the call read, however long it has waited since.
InsertChallenge(c, purpose, g, e, time, expires) ==
    LET at == [d \in Resent(purpose, g, e) |-> time]
    IN  /\ challenge[c].state = "absent"
        /\ AliasFree(e)
        /\ WithinLimits(e, g, time)
        /\ Admitted(at)
        /\ challenge' = [CodesAfter(at) EXCEPT ![c] = NewChallenge(purpose, g, e, time, expires)]
        /\ UNCHANGED <<now, install, grant, administrator, session, call>>

GrantLasts(g, time) == time + MinGrantLeft <= grant[g].expires_at

\* A request for a grant reads the clock before it has the address,
RequestEnrollment(c, g, e) ==
    /\ grant[g].state = "live"
    /\ GrantEligible(g)
    /\ grant[g].email \in {NoOne, e}
    /\ \E time \in Readings(g, e) :
         /\ GrantLasts(g, time)
         /\ InsertChallenge(c, "enrollment", g, e, time, EnrollmentExpiry(g, time))

\* one for a login after.
RequestLogin(c, e) ==
    /\ Principals(e, Grants) # {}
    /\ \E time \in Readings(NoOne, e) :
         InsertChallenge(c, "login", NoOne, e, time, time + ChallengeTtl)

\* What the outbox reports of the mail.
RecordDelivery(c) ==
    /\ challenge[c].state = "pending"
    /\ now < challenge[c].expires_at
    /\ \/ challenge' = [challenge EXCEPT ![c] =
            [@ EXCEPT !.state = "live", !.delivered_at = now]]
       \/ challenge' = [challenge EXCEPT ![c] = Ended(@, "failed", now)]
    /\ UNCHANGED <<now, install, grant, administrator, session, call>>

-----------------------------------------------------------------------------
(* Verifying and consuming a code.                                         *)

Usable(c, state) ==
    /\ challenge[c].state = state
    /\ challenge[c].has_email
    /\ now < challenge[c].expires_at

StartVerify(t, c) ==
    /\ call[t].stage = "idle"
    /\ Usable(c, "live")
    /\ call' = [call EXCEPT ![t] =
         [Idle EXCEPT !.op = "verify", !.stage = "found", !.challenge = c]]
    /\ UNCHANGED <<now, install, grant, administrator, challenge, session>>

\* A credential is made for this call alone.
StartConsume(t, c, s) ==
    /\ call[t].stage = "idle"
    /\ Usable(c, "verified")
    /\ session[s].state = "absent"
    /\ \A u \in Calls : call[u].session # s
    /\ call' = [call EXCEPT ![t] =
         [Idle EXCEPT !.op = "consume", !.stage = "found", !.challenge = c,
                      !.session = s]]
    /\ UNCHANGED <<now, install, grant, administrator, challenge, session>>

\* A login locks the address, then reads its administrators, then locks them.
\* Verifying reads the code again under the first lock, consuming does not.
GatherCandidates(t) ==
    LET c == call[t].challenge
        e == challenge[c].email
        known == {g \in Grants : /\ administrator[g].state = "active"
                                 /\ administrator[g].email = e}
    IN  /\ call[t].stage = "found"
        /\ challenge[c].purpose = "login"
        /\ call[t].op = "verify" => challenge[c].has_email
        /\ AliasFree(e)
        /\ known # {}
        /\ call' = [call EXCEPT ![t].stage = "gathered", ![t].candidates = known]
        /\ UNCHANGED <<now, install, grant, administrator, challenge, session>>

\* Every call may end with nothing done: refused, rolled back or cut off.
EndCall(t) ==
    /\ call[t].stage # "idle"
    /\ call' = [call EXCEPT ![t] = Idle]
    /\ UNCHANGED <<now, install, grant, administrator, challenge, session>>

EnrollmentBacked(c, time) ==
    LET g == challenge[c].grant
    IN  /\ grant[g].state = "live"
        /\ time < grant[g].expires_at
        /\ grant[g].email \in {NoOne, challenge[c].email}
        /\ GrantEligible(g)

\* The locks are held and everything read before them is checked again.
Decides(t, op) ==
    LET c == call[t].challenge
    IN  /\ call[t].op = op
        /\ CASE challenge[c].purpose = "enrollment" ->
                  call[t].stage = "found" /\ AliasFree(challenge[c].email)
             [] challenge[c].purpose = "login" -> call[t].stage = "gathered"
             [] OTHER -> FALSE

Verifiable(t) ==
    LET c == call[t].challenge
    IN  /\ Decides(t, "verify")
        /\ Usable(c, "live")
        /\ IF challenge[c].purpose = "enrollment" THEN EnrollmentBacked(c, now)
           ELSE Principals(challenge[c].email, call[t].candidates) # {}

VerifyRight(t) ==
    LET c == call[t].challenge
    IN  /\ Verifiable(t)
        /\ challenge' = [challenge EXCEPT ![c] =
             [@ EXCEPT !.state = "verified", !.verified_at = now]]
        /\ call' = [call EXCEPT ![t] = Idle]
        /\ UNCHANGED <<now, install, grant, administrator, session>>

LocksAt_Later(n) == n = MaxFailures + 1

\* lock_every8d_settings_challenge_on_fifth_failure_v1
LocksAt(n) == n = MaxFailures

VerifyWrong(t) ==
    LET c == call[t].challenge
        failures == Append(challenge[c].failures, now)
    IN  /\ Verifiable(t)
        /\ Cardinality(FailuresSince(challenge[c].email, now - Hour)) < HourlyFailures
        /\ challenge' = [challenge EXCEPT ![c] =
             IF LocksAt(Len(failures))
             THEN Ended([@ EXCEPT !.failures = failures], "locked", now)
             ELSE [@ EXCEPT !.failures = failures]]
        /\ call' = [call EXCEPT ![t] = Idle]
        /\ UNCHANGED <<now, install, grant, administrator, session>>

Consumable_Again(c) ==
    /\ challenge[c].state \in {"verified", "consumed"}
    /\ now < challenge[c].expires_at

Consumable(c) == Usable(c, "verified")

OpenSession(t, g) ==
    session' = [session EXCEPT ![call[t].session] =
        [state |-> "live", administrator |-> g, generation |-> grant[g].generation,
         challenge |-> call[t].challenge, expires_at |-> now + SessionTtl]]

Enrolled(g, e) ==
    \E h \in Grants : /\ administrator[h].state = "active"
                      /\ administrator[h].email = e
                      /\ grant[h].installation = grant[g].installation
                      /\ grant[h].generation = grant[g].generation

\* The clock is read when the grant is redeemed, by the trigger that then
\* supersedes its other codes, and again when this one is consumed.
ConsumeEnrollment(t) ==
    LET c == call[t].challenge
        g == challenge[c].grant
        e == challenge[c].email
    IN  /\ Decides(t, "consume")
        /\ challenge[c].purpose = "enrollment"
        /\ Consumable(c)
        /\ grant[g].method = "operator"
        /\ ~Enrolled(g, e)
        /\ grant' = [grant EXCEPT ![g].state = "consumed"]
        /\ administrator' = [administrator EXCEPT ![g] = [state |-> "active", email |-> e]]
        /\ \E redeemed_at \in Readings(g, NoOne) :
             /\ EnrollmentBacked(c, redeemed_at)
             /\ \E codes \in WithoutGrants({g}, redeemed_at) :
                  challenge' = [codes EXCEPT ![c] = Ended(@, "consumed", now)]
        /\ OpenSession(t, g)
        /\ call' = [call EXCEPT ![t] = Idle]
        /\ UNCHANGED <<now, install>>

\* The code must stand for exactly one administrator.
ConsumeLogin(t) ==
    LET c == call[t].challenge
        principals == Principals(challenge[c].email, call[t].candidates)
    IN  /\ Decides(t, "consume")
        /\ challenge[c].purpose = "login"
        /\ Consumable(c)
        /\ \E g \in principals : principals = {g} /\ OpenSession(t, g)
        /\ challenge' = [challenge EXCEPT ![c] = Ended(@, "consumed", now)]
        /\ call' = [call EXCEPT ![t] = Idle]
        /\ UNCHANGED <<now, install, grant, administrator>>

\* Logging out.
RevokeSession(s) ==
    /\ session[s].state = "live"
    /\ session' = [session EXCEPT ![s].state = "revoked"]
    /\ UNCHANGED <<now, install, grant, administrator, challenge, call>>

\* authenticate_every8d_settings_session_core_v1: who the bearer of a session is.
Authenticates(s) ==
    LET g == session[s].administrator
    IN  /\ session[s].state = "live"
        /\ now < session[s].expires_at
        /\ administrator[g].state = "active"
        /\ session[s].generation = grant[g].generation
        /\ GrantEligible(g)

-----------------------------------------------------------------------------
Housekeeping ==
    \/ Tick
    \/ \E c \in Challenges : Scrub(c) \/ Cleanup(c)
    \/ \E i \in Installations, b \in BOOLEAN : ChangeInstallation(i, b)

Requesting ==
    \/ \E g \in Grants, i \in Installations :
         \/ \E e \in Emails : IssueOperatorGrant(g, i, e)
         \/ IssueCallbackGrant(g, i)
    \/ \E c \in Challenges, e \in Emails :
         \/ \E g \in Grants : RequestEnrollment(c, g, e)
         \/ RequestLogin(c, e)
    \/ \E c \in Challenges : RecordDelivery(c)

Entering ==
    \/ \E t \in Calls, c \in Challenges :
         \/ StartVerify(t, c)
         \/ \E s \in Sessions : StartConsume(t, c, s)
    \/ \E t \in Calls :
         \/ GatherCandidates(t) \/ EndCall(t)
         \/ VerifyRight(t) \/ VerifyWrong(t)
         \/ ConsumeEnrollment(t) \/ ConsumeLogin(t)
    \/ \E s \in Sessions : RevokeSession(s)

Next == Housekeeping \/ Requesting \/ Entering

Spec == Init /\ [][Next]_vars

-----------------------------------------------------------------------------
\* What may be used belongs to the installation as it is: whatever order a
\* removal and the calls in flight come in, no unspent grant, administrator or
\* session of an earlier generation stays live, and a session authenticates
\* until it is revoked or expires: what authentication checks of the
\* installation and the administrator, revocation has brought into the session.
NothingOutlivesInstallation ==
    /\ \A g \in Grants : /\ grant[g].state = "live" => GrantEligible(g)
                         /\ administrator[g].state = "active" => GrantEligible(g)
    /\ \A s \in Sessions :
         session[s].state = "live" /\ now < session[s].expires_at => Authenticates(s)

\* A code opens one session, and a grant makes one administrator: two calls
\* with the same code, or codes of the same grant, never both succeed, and the
\* session is for whom the code was mailed to.
SpentOnce ==
    /\ \A s \in Sessions : session[s].state # "absent" =>
         LET c == challenge[session[s].challenge]
             g == session[s].administrator
         IN  /\ c.state \in {"consumed", "deleted"}
             /\ c.state = "consumed" =>
                  /\ administrator[g].email = c.email
                  /\ c.purpose = "enrollment" => c.grant = g
             /\ \A r \in Sessions \ {s} :
                  session[r].challenge # session[s].challenge
    /\ \A g \in Grants :
         /\ grant[g].state = "consumed" <=> administrator[g].state # "absent"
         /\ \A c, d \in OfGrant(g) :
              challenge[c].state = "consumed" /\ challenge[d].state = "consumed" => c = d

\* At most one code is open for a grant and an address, or for the login of an
\* address, and none for a grant that is spent or revoked: an older mail's code
\* is worthless once a newer one was sent.
OneOpenCode ==
    \A c \in Challenges : Open(c) =>
        /\ challenge[c].purpose = "enrollment" => grant[challenge[c].grant].state = "live"
        /\ \A d \in Challenges \ {c} :
             ~ /\ Open(d)
               /\ challenge[d].purpose = challenge[c].purpose
               /\ challenge[d].grant = challenge[c].grant
               /\ challenge[d].email = challenge[c].email

\* The integrity trigger never raises at commit: the last failure locks at its
\* own time, a lock has its failures, a code that was verified was never locked;
\* and over all codes of an address failures stay within the hour's budget.
FailureLedger ==
    /\ \A c \in Challenges : ChallengeIntact(challenge[c])
    /\ \A e \in Emails : Cardinality(FailuresSince(e, now - Hour)) <= HourlyFailures

\* A login opens the session of the only administrator its address can mean at
\* that moment, though it reads the candidates before it locks anything but
\* the address, and administrators come and go meanwhile.
LoginUnambiguous ==
    [][\A s \in Sessions :
          LET c == session'[s].challenge
          IN  /\ session[s].state = "absent"
              /\ session'[s].state = "live"
              /\ challenge[c].purpose = "login"
              => Principals(challenge[c].email, Grants) = {session'[s].administrator}]_vars

\* What happened to a code a call read as open, after it read the clock.
Overtaken(c, time) ==
    \/ time < challenge[c].expires_at /\ challenge[c].expires_at <= now
    \/ challenge[c].state = "live" /\ time < challenge[c].delivered_at

\* A request, a redemption, a new grant or a removal supersedes codes with a
\* clock it may have read long ago.  The trigger on codes rolls it back only when
\* a code it names has expired, or was reported delivered, since: what calls did
\* before it under the same lock never makes the clock it read too old.  Every
\* write that is left, of a call or of a trigger, in whatever order calls decide,
\* the triggers of the four tables admit by their own reading of the clock: one
\* that strayed from their transitions, times or parents would be rolled back at
\* every retry.
OnlyLateWritesRefused ==
    /\ [](\A c \in Challenges : \A time \in Readings(challenge[c].grant, challenge[c].email) :
             Raises(c, time) => Overtaken(c, time))
    /\ [][/\ \A c \in Challenges :
                challenge'[c] # challenge[c] => ChallengeAdmitted(challenge[c], challenge'[c])
          /\ \A g \in Grants :
                /\ grant'[g] # grant[g] => GrantAdmitted(grant[g], grant'[g])
                /\ administrator'[g] # administrator[g] =>
                     AdministratorAdmitted(g, administrator[g], administrator'[g], grant'[g])
          /\ \A s \in Sessions :
                session'[s] # session[s] =>
                   SessionAdmitted(session[s], session'[s],
                                   administrator'[session'[s].administrator])]_vars
=============================================================================
