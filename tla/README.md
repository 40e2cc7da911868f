# TLA+ verification of win-crm.ai LineConnect

LineConnect connects LINE, EVERY8D SMS and e-mail with HighLevel (GHL).  It is
a set of TypeScript processes that keep their durable state in PostgreSQL
(Supabase tables, SQL functions and triggers) and talk to providers that may
answer late, twice or never.  This directory holds TLA+ models of its stateful
parts, the TLC runs that check them on small instances and the TLAPS proofs of
what matters most.  Paths below are relative to the repository.

## 1. The system

Each part is listed with its state, its operations, what it touches, what is
hard about it and what makes it correct.  `PROJECT.json` lists the same parts
with the source files of each.

### 1.1 Settings e-mail outbox and its worker engine - modelled
* State: `every8d_settings_auth_email_outbox` (one row per challenge: state,
  lease, fence, attempts, receipt), the challenge's delivery columns, the fence
  sequence; in each worker, one session per claimed job.
* Operations: the RPCs enqueue, claim, begin_send, finalize, recover and purge
  of `supabase/migrations/202610230001_*`, the trigger that protects the table,
  and `src/services/every8dSettingsEmailWorker.ts` which calls them around one
  provider call.
* Hard: claim and recover choose rows before they lock them; a finalize whose
  answer is lost executes again; a lease expires while the provider still
  decides; a worker dies anywhere; a retry must fit into the challenge's life;
  the trigger describes every transition a second time, and the client's parser
  of receipts a third time.
* Correct when: one code is accepted by the provider at most once; a call in
  flight is covered by its lease; attempts count real submissions; challenge and
  row agree; a confirmed outcome is a stored one; no RPC is refused by the
  trigger and no receipt by the parser; every row ends.

### 1.2 E-mail worker runtime and process - modelled
* State: lifecycle, stop reason, flow/repository/provider counters, the locals
  of one serial loop, due times, the sessions of a batch.
* Operations: start, stop, the loop (recover, purge, batch), the abort of
  provider calls, the drain and its timeout, the stall timer, the exit code
  (`src/workers/every8dSettingsEmailWorker{Runtime,Process}.ts`).
* Hard: JavaScript callbacks interleave at every await; counters go down in a
  `finally` or by an abort; a repository call may never settle; a stop may
  arrive between the answer of begin_send and the send.
* Correct when: "drained" means nothing runs; an outcome of a submitted mail is
  finalized before the drain ends; a stop admits no new mail; recovery and purge
  precede claims; a stop and a hung call end the process; a failure exits
  nonzero.

### 1.3 Settings access: grants, codes, administrators, sessions - partly
* State: `every8d_settings_enrollment_grants`, `_administrators`,
  `_auth_challenges`, `_sessions`, the lifecycle of the installation.
* Operations: issue a grant, request, resend and verify a code for enrollment or
  login, consume it (administrator and session), revoke, expire, clean up;
  install and remove the app (migrations 202610060001, 202610140001,
  202610220001 and the services that call them).
* Hard: each RPC reads before it locks and decides after; a login finds its
  administrators under the lock of the address only; removal and reinstallation
  race everything in flight; budgets are counted over rows that change or go;
  the triggers of the four tables state each transition once more, and read the
  clock once more: a call that supersedes codes may have read it long before, while
  it waited for the address or for the codes' rows.
* Correct when: nothing of a removed installation works; a code and a grant are
  spent once; one code of an address is open at a time; the ledger of failures
  cannot be outrun; a login means one administrator; the triggers refuse a write
  only when a code's expiry or its report of delivery has overtaken the call, so
  that a retry succeeds, and never a transition an RPC means to make.

### 1.4 GHL installation, OAuth bootstrap and token refresh - modelled
* State: `ghl_marketplace_installations` (lifecycle columns, credential columns,
  refresh lease), `ghl_marketplace_oauth_bootstraps`, `_oauth_states`; in each
  process, one pass of the reconciler and one of the refresher.
* Operations: lifecycle webhooks, OAuth callbacks (first install and
  reconnection), exchange of authorization codes, refresh of token pairs,
  failure and abandonment (migrations 202609230001 to 202609270001,
  `every8dGhlOAuth*Service.ts`, `every8dGhlOAuthRepository.ts`).
* Hard: tokens are single-use and an answer may be lost; leases expire while
  their holder still works; webhooks are duplicated and reordered; a
  reconnection writes its pair by a plain update after anything has happened;
  two triggers and the checks of two tables must admit what six functions write.
* Correct when: no token or code is presented twice; a refresh replaces the very
  pair it refreshed; a pair belongs to the current generation; one bootstrap
  burns at a time; the row follows the newest event; the triggers admit every
  write but the one of finding 2.

### 1.5 SMS from HighLevel through EVERY8D - modelled
* State: `ghl_sms_outbound_operations`, controlled-live authorizations; in each
  handler, its place in a sequence of calls.
* Operations: claim, send start (mock or controlled live, the latter consuming
  an authorization), the provider call, finalization before and after the send,
  the operator's arming and revocation
  (`ghlSmsProviderOutboundService.ts`, migrations 2026082x/202609010002).
* Hard: a call that failed for its caller may execute later; two deployments
  answer callbacks of the same message; the provider accepts after a timeout.
* Correct when: every real SMS is the only one of its message and spends one
  fitting authorization; a recorded outcome is true.

### 1.6 Messages from HighLevel to LINE - modelled
* State: rows of `message_events` (delivery, dispatch, mirror, and the row all
  direct texts of a workflow share), the messages HighLevel holds.
* Operations: the workflow action (`ghlWorkflowActionService.ts`, provider-first
  v3 or legacy, direct text with its mirror, image and attachments) and the
  provider callback (`ghlSyncService.ts`).
* Hard: HighLevel delivers callbacks as often as it likes, to processes with
  different lifecycles; the echo of a mirrored text races the row that marks it;
  pushes and writes whose answers are lost may have happened.
* Correct when: one handler pushes a message; a callback that names no provider
  is believed only for what a run created; what is recorded, reported and
  answered is true; a stored mirror settles its echo.

### 1.7 LINE messages to HighLevel - modelled
* State: `webhook_events`, the mapping of a LINE user in `line_profiles`, the rows
  of `message_events`; in HighLevel, contacts and messages; in each process, the
  batches it handles in the background.
* Operations: the webhook's acceptance and its loop (`src/routes/lineWebhook.ts`),
  the handling of an event (`src/services/lineSyncService.ts`: save the event,
  look the profile up, create and link a contact, send the text, link the
  conversation, record the outcome, mark the event), the replacement of a contact
  HighLevel no longer has, an operator's override of a mapping.
* Hard: a known event is stored once and yet handled again, perhaps while it is
  still being handled; every request may fail for its caller and land later;
  contacts disappear and mappings change between any two steps; the recovery
  from a stale contact sends a second time.
* Correct when: a handling puts one message at most into HighLevel; what is
  recorded as synced is there, at a contact of its sender; an event that fails
  keeps no other of its batch from being handled.

### 1.8 GHL OAuth onboarding and location tokens - modelled
* State: `ghl_pending_app_installs` (one row per location), the Company session
  of `ghl_oauth_onboarding_sessions`, the location's pair in `ghl_oauth_tokens`;
  at HighLevel, the refresh tokens that are spent.
* Operations: the AppInstall webhook and the OAuth callback (a Company's, or one
  that carries the location's own pair), the reconciliation of pending installs
  under a claim with its completion, failure and take-over
  (`src/services/ghlOAuthService.ts`, `src/services/repository.ts`), and the
  requests of the rest of the program that read a pair, refresh it when it is
  overdue and save it.
* Hard: event and callback come in either order and to different processes; a
  session is read, found overdue and expired in two calls; a claim is taken over
  after two minutes from a process that may still work; a refresh token is
  spent by the first of several requests that hold it; the answer of a refresh
  and the write of the pair may be lost.
* Correct when: no install waits beside a session that serves it; one claimant
  works on an install; what says installed has a pair of its own location; a
  stored refresh token is good or about to be replaced.

### 1.9 LINE contact reconciliation preview - modelled
* State: one request's: its token, the reads it has begun and what they found,
  the identities and contacts gathered so far, its deadline.
* Operations: the decision procedure of
  `src/services/lineContactReconciliationPreviewService.ts` over searches and
  risk reads that run in parallel (`src/integrations/ghlReconciliationReadClient.ts`).
* Hard: two reads meet a 401 at once and may refresh a single-use token; a read
  that fails, is cut by a narrower scope, or ends after the deadline must not
  look like an absence; two identities may name the same contact.
* Correct when: "auto simple" and "no match" are earned by complete reads; the
  refresh token is sent once; nothing starts after the deadline has answered.

### 1.10 Not modelled
Provider configurations (a schema no code calls yet); HTTP parsing,
configuration, clients and logging (pure conversions and I/O); operator scripts
(run by hand).

### How the parts meet
* Settings access enqueues a mail for each code: `SettingsAuth` has the
  challenge's delivery state change nondeterministically, `EmailOutbox` says how
  it changes, and `EmailWorkerRuntime` says when the engine's calls happen.
* Removing the app (1.4) fires a trigger that revokes settings access (1.3);
  `SettingsAuth` models that effect, `GhlCredentials` the lifecycle itself.
* 1.5, 1.6 and 1.7 share HighLevel's webhooks and no row; 1.6 and 1.7 call
  HighLevel with the pair 1.8 keeps, abstracted there to requests that may fail.
* 1.9 reads 1.8's pair and may refresh it: `LocationTokens` has a preview as one
  of its actors, `ReconciliationPreview` what a preview does with the token.
* 1.4 is the EVERY8D app's installation and 1.8 the LINE app's: two apps of the
  marketplace, two tables, no common row.

## 2. Modules

| Module | Stands for | State | Actions |
|---|---|---|---|
| `CodeDelivery` | the abstract promise about one code | mail, tries, verdict | Submit, ProviderDecides, Conclude |
| `MessageDelivery` | the abstract promise about one message HighLevel calls back about | attempt, record, told | Submit, ProviderDecides, Conclude |
| `EmailOutbox` | 1.1 | challenge, authority, outbox, nextFence, scan, sess, now | one per RPC outcome, one per step of a session, environment |
| `EmailWorkerRuntime` | 1.2 | state, counters, loop, pass, due, job, fault | one per callback or continuation |
| `SettingsAuth` | 1.3 | install, grant, administrator, challenge, session, call, now | discovery, gathering and decision of each RPC, triggers inside them |
| `GhlCredentials` | 1.4 | inst, cred, boots, states, rec, pass, tokens, leases, newest | one per SQL function call and provider answer |
| `SmsOutbound` | 1.5 | op, auth, at, req, call, late, sms | one per call sent, executed, answered |
| `LineDelivery` | 1.6 | message, row, workflowRow, at, job, callback, push, create, late | one per await of a handler, LINE, HighLevel |
| `LineInbound` | 1.7 | event, webhook, row, profile, contact, linked, inbox, at, batch, answers, record, verdict, recovered, late, overrides | one per request of a handler and its outcome, HighLevel, operators |
| `LocationTokens` | 1.8 | rows, session, tokens, highlevel, lost, handlers | one per database call or request of a handler, aging, HighLevel |
| `ReconciliationPreview` | 1.9 | request, progress, late, evidence, session, reads | one per read begun, answered, retried, one per decision, the deadline |
| `MC*` | symmetry sets and constant values for TLC | | |
| `*Proofs` | theorems about the module of that name; `EmailOutboxProofs` also those of `EmailWorkerRuntime` | | |

There are two abstract specifications.  `EmailOutbox` instantiates `CodeDelivery`
(`Delivery`, with `MailOf` and the challenge's verdict as the refinement mapping);
TLC checks `DeliversOnce == Delivery!Spec` and `OutboxDelivers` proves it.
`SmsOutbound` and `LineDelivery`, which share no code and no row, both instantiate
`MessageDelivery` (`Attempt`, `Recorded` and `Told` are their refinement
mappings); TLC checks `DeliversTruthfully == Delivery!Spec` of both, and
`SmsDelivers` and `LineDelivers` prove it.  What it promises is: one submission of
a message at most, none once anything is settled about it, an outcome that is
recorded once, and words to HighLevel that are never taken back and agree with
the record and with the provider.  The mappings differ where the code does: an
SMS recorded as definitively failed is one EVERY8D will never have, a delivery
row that says failed leaves open whether LINE has the message and maps to an
unknown outcome.

### Modelling choices
* **EmailOutbox.** The claim and the recover transactions are a select and then
  a decision per row, with anything in between; a rollback is modelled per
  candidate (`AbortScan`), which is exact for a batch of one.  A finalize may be
  lost, late or repeated.  Encryption and rendering end a session early or do
  nothing.  The table's checks, its trigger and the parser of receipts are
  operators of their own (`RowConstraints`, the `Admits*` families,
  `*Receipt`) that the actions do not use: properties compare them with
  what the actions do.
* **EmailWorkerRuntime.** A promise settles in one step and its continuation
  runs in another.  Some steps JavaScript runs without a break are separate
  here, so the model has every interleaving of the code and more.  Timers may
  fire at any time and do fire eventually.  What a repository call decides is
  the outbox's matter; here it settles as applied, failed or thrown.
* **SettingsAuth.** An RPC is a discovery, for a login the gathering of
  candidates under the lock of the address, and one atomic decision; `EndCall`
  ends a call without effect (refused, rolled back or cut off).  A decision that
  waits after it has read the clock (a resend, for the address or for the codes it
  replaces; a new grant, a redemption and a removal, for the codes of the grants
  that end) is one step at the time it writes, and the time it read is any of
  `Readings`: up to now, but not before what calls wrote that held the same lock
  earlier (the grant's, or for a login code the address's).  The trigger on grants
  reads the clock again for each grant that ends, so `WithoutGrants` picks a reading
  per grant.  What the call writes bears the time it read: `superseded_at` and the
  new code's `created_at` and expiry, against the `delivered_at` and `verified_at`
  of the row.  If the trigger on codes would raise (`Raises`), the call is rolled
  back and takes no step.  Statements between which a call waits for nothing happen
  at one time.  Pseudonym key rotation, cryptography and the lock order inside a
  transaction are abstracted.
  The protection triggers are the operators `ChallengeAdmitted`,
  `GrantAdmitted`, `AdministratorAdmitted` and `SessionAdmitted`.
* **GhlCredentials.** Every SQL function holds the advisory lock of the Location
  or the row's lock and is one step.  Deadlines are flags raised at any moment,
  which covers every relation of the database's and the processes' clocks.  The
  one Location is the one the configuration pins.  What the installation trigger
  refuses (`TriggerRefuses`, finding 2) is computed from its translation,
  `CredentialAdmitted` and `LifecycleAdmitted`.
* **SmsOutbound.** Every database call is sent, executed and answered
  separately; a call whose caller saw an error stays in `late` and may still
  execute.  The mode is each handler's own (a rolling deployment).
* **LineDelivery.** The lifecycle is each handler's own.  Contents, mapping and
  channel are reduced to whether they stop a handler.  A write whose caller saw
  an error stays in `late`.  The audit rows of images, attachments and failed
  dispatches decide nothing and are left out.
* **LineInbound.** Every request succeeds or errs for its caller; one that erred
  stays in `late` and may land at any moment.  A handler that dies takes no
  further step.  HighLevel accepts a message exactly when it has the contact and
  may refuse it for other reasons; it deletes contacts and operators override
  mappings at any moment.  Events carry an id, as LINE's do; tags and custom
  fields of a contact are best effort and decide only whether it is found stale.
* **LocationTokens.** A database call is one step, and a handler whose call
  failed stops after it, with or without its effect; a call does not land after
  its caller has gone on (no caller goes on).  Sessions, claims and pairs age by
  flags raised at any moment.  One application and one company, as configured;
  locations are values.  A refresh answers for the location whose token it was
  sent, as HighLevel's do.
* **ReconciliationPreview.** A read is begun and answered, with anything in
  between; its answer is one of the contacts' facets the decision looks at,
  complete, partial or none.  Users who are mapped may be mapped to malformed
  contacts.  The timer of the deadline never fires early and may fire late.

## 3. Runs

| Run | Instance | Distinct states | What it shows |
|---|---|---|---|
| `outbox_one` | 1 job, 2 workers, 4 fences, clock to 8, fair | 305,455 | safety of the outbox, its checks, trigger and receipts, the refinement of `CodeDelivery`, every enqueued row ends |
| `runtime` | 2 jobs, 2 failure tiers, fair | 43,029 | safety and liveness of the process |
| `runtime_exit` | 1 job | - | violation: see finding 1 |
| `settings_one` | 2 installations, 1 address, 2 grants, 3 codes, 3 sessions, 2 calls | 113,866 | enrollment, login and removal under races; which writes the triggers refuse |
| `ghl_credentials` | 4 lifecycle events, 2 bootstraps, 1 reconnection, 1 reconciler, 2 refreshers, 3 pairs | 1,261,604 | single use, exact rotation, generations, convergence, rows the triggers and checks admit |
| `ghl_install_refused` | 1 bootstrap, 1 refresher, 1 pair | - | violation: see finding 2 |
| `location_tokens` | 3 of 2 deliveries, 2 callbacks, 2 requests, 1 preview; 1 location, 3 pairs | 1,451,334 | onboarding in either order, claims, pairs that live |
| `install_either_order` | 1 install, 1 callback | - | violation: see finding 3 |
| `reconciliation_preview` | 13 contacts, 2 searches, 2 risk reads | 861,347 | earned decisions, one refresh, silence after the deadline |
| `sms_outbound` | 2 callbacks, 2 messages, 2 authorizations | 213,798 | authorization, the refinement of `MessageDelivery` |
| `line_delivery` | 1 run, 2 callbacks, 2 messages | 1,567,778 | one delivery, verified callbacks, truth, settled echoes, the refinement of `MessageDelivery` |
| `line_inbound` | 2 deliveries, 3 events, 2 users, 2 contacts | 2,935,758 | one message per handling, true rows, whole batches |

Properties, each at its definition with the code it is about:

* **outbox_one**: `AtMostOneAcceptance`; `ProviderCallCovered` (a call that may be
  answered has its lease and its challenge alive); `ChallengeMatchesOutbox`;
  `ConfirmedIsStored` (what finalize answered is in the row); `TriggerAdmits`
  (neither the table's checks nor its trigger ever refuses an RPC);
  `ReceiptsAdmitted` (nor the client the receipt of one that took effect);
  `DeliversOnce`; `EnqueuedEnds`.
* **runtime**: `DrainedIsQuiet`, `OutcomesAreFinalized`, `Stops` (a stop admits no
  new mail and ends the process).
* **settings_one**: `NothingOutlivesInstallation`, `OneOpenCode`,
  `FailureLedger`, `SpentOnce`, `LoginUnambiguous`, `OnlyLateWritesRefused` (the
  trigger on codes rolls a call back only when a code it names has expired, or was
  reported delivered, since the call read the clock: calls before it under the same
  lock have written nothing younger; every write that is left is one the triggers
  of the four tables admit).
* **ghl_credentials**: `SingleUse`, `RotationIsExact`, `RowsAdmitted`,
  `CredentialOfGeneration`, `OneBurningBootstrap`, `LifecycleConverges`.
* **location_tokens**: `NeverForgotten` (an install waits beside an active session
  only while somebody is on the way to it), `OneClaimant`, `InstalledTrue`,
  `StoredPairLives`.
* **reconciliation_preview**: `DecisionEarned`, `OneRefresh`,
  `NothingAfterDeadline`.
* **sms_outbound**: `SendIsAuthorized`, `DeliversTruthfully`.
* **line_delivery**: `OneDelivery`, `OnlyVerified`, `OutcomesTrue`, `EchoSettled`,
  `DeliversTruthfully`.
* **line_inbound**: `OneMessagePerHandling`, `InboxTrue`, `BatchHandled`.

Every property is broken by a mutant of a modelled definition, kept beside it in
the module (`Definition_Mistake`).  The type invariants are proved (section 4) and
no run's properties.

### Bounds and why they suffice
* The outbox's rows do not interact except through a batch, so one job shows
  each row's life, and two workers race for it.  Four fences are the enqueue's
  and three leases; a fourth attempt would need a fifth, so that three are the
  limit rests on the proofs (`VerdictsMatchRows`, `OutboxDelivers`).  The timing constants keep the order of the real ones (window
  shorter than lease, delays that do and do not fit into the life of the
  challenge, equality included).  `LastRequest`, `Unsettled` and `MaxTime` only
  cut off the future; `LastUnrest` keeps the races of two scans and the changes of
  authority to the first moment, in which a row can be claimed, sent, retried,
  recovered and skipped (a challenge may be superseded at any time).  That later
  races are as harmless is proved for all values of these bounds
  (`DeliveryInvariant`).
* In `settings_one` two calls are needed for every race between a discovery and a
  decision; two installations of one address make a login ambiguous; three
  codes allow a replacement beside another installation's code.  Budgets are
  scaled down (2 requests of a grant, 3 of an address, 3 failures) so that they are reached, the cooldown is
  0, `MaxGeneration` 2 reaches one reinstallation.  The constraint `Explored` of
  `MCSettingsAuth` cuts off states that are crowded in every respect at once:
  the second installation is needed by an ambiguous login only, the third code
  and session by a repetition only.  A callback's grant, and one of the shorter of
  the two lifetimes (`GrantTtls`), is the only grant of its behaviour; the shorter
  one's codes expire while a call waits, which `MaxTime` 2 leaves time for.  Some
  states of two installations are cut off by it; the theorems know no constraint.
* The four lifecycle events hold an order, a tie of timestamps, a
  reinstallation and duplicates (any event may be sent again); `MaxTokens` 3
  allows a first pair, a rotation and a reauthorization.
* In `location_tokens` three of the handlers named are started (`MaxStarts`), any
  two of them racing and a third to pick up what they left; `MaxPairs` 3 allows a
  pair, its rotation and a reinstallation's.  One location is enough for TLC,
  since locations share the Company session only; the proofs are for all.
* The thirteen contacts of the preview differ from a clean one in one or two of
  the respects the decision looks at, and the scopes are those that stop a
  different read each; the proofs are for any set of contacts and scopes.
* Two callbacks and two messages show one message handled twice, and two
  messages that must not be confused; one run can create at most one of them.
  In `line_delivery` two constraints of `MCLineDelivery` keep the run short:
  `OneTrouble` follows no state in which two writes are still to land after their
  callers saw an error, two handlers are dead, or one of each; `FilesAlone` none in
  which a run of images, which shares no row with callbacks, meets one.  The proofs
  of all its properties, the refinement included, are about the system without
  them.
* In `line_inbound` two deliveries carry the same text or two texts, of one user or
  of two, or one delivery carries a longer batch with an event that is no text;
  two contacts allow one replacement.  `MaxLate` 1 lets any request land after
  any other; `MaxOverrides` 1 lets a mapping change under a handler.
* Deadlock is checked for `runtime` and `ghl_credentials`.  It is switched off
  where a bound ends the world (`EmailOutbox`, `SettingsAuth`) and where the
  handlers are finite and all have answered (`SmsOutbound`, `LineDelivery`,
  `LineInbound`, `LocationTokens`, `ReconciliationPreview`).

### Fairness
* `EmailOutbox!FairSpec`: the clock advances; a worker's open scan ends;
  recoveries are started again and again, by one worker or another, and some of
  them decide (strong fairness: a row is unlocked again and again).  The runtime recovers every five
  seconds and its process is restarted when it exits.  Nothing is assumed of
  engine sessions, of the provider or of claims.
* `EmailWorkerRuntime!FairRuntime`: armed timers fire and ready callbacks run.
  Nothing is assumed of the promises of the repository and the provider: they may
  never settle.

## 4. Proofs

TLC's results above are for the instances; the following hold for all values of
the constants that satisfy the modules' named assumptions.

* **EmailOutboxProofs**: every safety property of the run and the refinement.
  `DeliveryInvariant`, `TypeCorrect`, `MailedAtMostOnce`, `CallsAreCovered`:
  at-most-once is not inductive, so `DeliveryInv` adds that a session under a
  fence owns its row only while the row's fence is its own, that the deadline of
  a call lies within lease and challenge, that a refusal is proven before a row is
  reopened, and that an accepted mail closes its row.
  `PromiseInvariant`, `VerdictsMatchRows`, `OutboxDelivers`: `PromiseInv` adds that
  fences are fresh, that a mail follows its call and was counted by the row, and
  that row, verdict and sessions of a job agree; with it every step maps to a step
  of `CodeDelivery` or to a stutter (`NextMaps`).
  `RowsInvariant`, `WritesAreAdmitted`: the CHECK constraints alone are not
  inductive, because the trigger asks where a row comes from; `Provenance` says
  that a second attempt was preceded by a proven refusal and is due at its time,
  that nothing has closed a first lease and that a leased row was due.  One lemma
  per written row (`ClaimedSound`, `SettledSound`, ...) shows it sound and admitted.
  `ConfirmedStaysStored` rests on the trigger's families only (`StoredStays`): no
  transition they admit takes a stored answer away.  `ReceiptsAreAdmitted` rests on
  the table's checks (`ClosedReceipt`, `StoredReceipt`).
  The runtime of the worker is proved about in the same module (it shares no
  variable with the outbox): `FlowInvariant`, `DrainIsComplete`,
  `NoOutcomeIsDropped`, `StopBeginsNothing`.  `FlowCovers`: the flow flag is up
  exactly while the loop is, and covers every session of the batch, so zeros mean
  that nothing is left.  `CountersAreExact`: the repository's counter is the number
  of sessions that wait for an answer plus the loop's own call, the provider's
  counter the number of mails in flight, through every settlement, throw and abort
  (an argument about cardinalities: `OneMoves`, `SessionMoves`, `SettlesExactly`);
  so no counter is decremented twice, and the drain waits for nothing that has
  ended.  `RuntimeTypeCorrect` follows from both.  `StopBeginsNothing` is the action half of `Stops`, and
  holds of every callback that runs after the stop, whoever was running.
* **SettingsAuthProofs**: `AuthInvariant`, `AuthTypes`, `InstallationBound`,
  `SingleOpenCode`, `LedgerHolds`, `CodesSpentOnce`, `LoginOfTheOnlyOne`,
  `RefusedOnlyWhenOvertaken` - every property of the run, for any installations,
  addresses, calls and budgets and any finite set of challenges.  None of them is
  inductive alone.  `AuthInv` adds that a grant is consumed exactly when it has an
  administrator, that what can be used belongs to its installation's generation
  (`GrantSound`, `SessionSound`), that a consumed code has the session it paid for
  (`CodeSpends`), that a call which has its candidates still has all of them while
  it holds the lock of the address (`CallSound`: an enrollment needs that lock
  too), that one code at most is spent on a grant (`OneSpentCode`), and that the
  failures of an address are counted below the challenge that stores them
  (`WithinBudget`, an argument about the cardinality of the union of the codes'
  failures).  `CodesTakeSteps` shows once that whatever an operation or a trigger
  does to codes is a request, a delivery, a failure, a supersession at an earlier
  reading of the clock, an ending or a consumption of each; single open codes and
  the trigger's admission both follow from that, and `EnrollmentEffect` and
  `LoginEffect` say what the two consuming RPCs leave.  `Superseding` is all the
  later lemmas know of a call that supersedes codes, whatever it read.
  `RefusalsAreLate` is the other half of the last theorem: with the times of a row
  in order (`RowSound`) and the clock read under the lock, only an expiry or a
  delivery is left to make the reading too old.
* **SmsOutboundProofs**: `SmsInvariant`, `TypeCorrect`, `SendAuthorized`,
  `OutcomesTrue`, `SmsDelivers`.  `SmsInv`: from its claim on one callback owns the operation of
  a message; at each of its places the row holds what that place relies on; a
  late call can still do only what its owner left behind.  For the refinement
  `FailedTold` adds that a callback that answers a failed send left it recorded as
  failed or ambiguous, which nothing changes any more; then a submission, a
  decision of EVERY8D and a conclusion each map to the step of that name, and
  every other step, `Die` and late calls included, to one of these or a stutter
  (`NextMaps`).
* **LineDeliveryProofs**: `LineInvariant`, `TypeCorrect`, `DeliveredOnce`,
  `VerifiedOnly`, `OutcomesAreTrue`, `EchoIsSettled`, `LineDelivers` - every
  property of the run.
  `LineInv`: a callback holds a delivery from the insert of its row on, and the
  row never goes away; a run has one message in HighLevel at most; an outcome or a
  dispatch row that is stored, may still be stored or was relied upon is true.
  The step lemmas separate what no step undoes (`Grows`), the handlers a step
  does not touch (`Elsewhere`) and what it writes (`RecordsTrue`); the refinement
  reads its steps off the same lemmas.
* **LineInboundProofs**: `TypeCorrect`, `InboundInvariant`, `SentOnce`,
  `InboxIsTrue`, `BatchesAreHandled` - every property of the run.  A handling that
  has recovered from a stale contact has no message of its first one in the inbox
  or in flight; every contact in a profile or a handler is linked to its user; a
  row says sent only of a message that is behind it (`SentBehind`).  `Grows` is
  what no step undoes, `Fits` what a request in flight may rely on.
* **LocationTokensProofs**: `TypeCorrect`, `LocationInvariant`, `ClaimsAreExclusive`,
  `InstallsAreTrue`, `StoredPairsLive`, `InstallsAreVisited` - every property of the run, for
  any number of locations, handlers and pairs.  A claim names its handler until
  it is stolen; a pair on its way to the row belongs to the location its holder
  works on; a spent token that is stored has a successor somebody holds.
* **ReconciliationPreviewProofs**: `TypeCorrect`, `RefreshedOnce`,
  `QuietAfterDeadline`, `PromisesAreEarned` - every property of the run, for any
  contacts, scopes and risks.  `Stage` ties each place to what has been read by
  then; an answer that says "safe" or "absent" came over reads that are complete.
* **GhlCredentialsProofs**: `CredentialsInvariant`, `TypeCorrect`, `ShownOnce`,
  `PairsAreCurrent`, `BootstrapsAreAlone`, `OrderIsIrrelevant`,
  `RotationsAreExact`, `WritesAreAdmitted` - every property of the run.
  `CredentialsInv`: every pair that has not been shown has one place - the row
  while it is usable, the answer of one exchange, or the worker about to send it;
  a pass that holds a lease fits the row's while the row still has it
  (`PassFits`); bootstraps only move forward, so the one that burns a generation
  stays the only one.
Assumptions: the named ASSUMEs of each module (nonzero durations, finite sets,
distinct kinds of actors); TLC evaluates them on every run.

Model-checked only: liveness (`EnqueuedEnds` and the half of `Stops` that says the
process ends) and ENABLED, which are out of the prover's reach, and the three
properties the code violates.  That the provider, HighLevel and LINE behave as the
external actions say is an assumption of every result.

## 5. Findings

1. `runtime_exit`: the process's `stop()` returns at
   `src/workers/every8dSettingsEmailWorkerProcess.ts:24` when a stop is already
   under way, before it records the failure, so an uncaught exception during the
   drain of a signal exits zero;
   `test/every8dSettingsEmailWorkerLifecycle.test.cjs:159` says "process failures
   are safe and nonzero".
2. `ghl_install_refused`: the trigger of
   `202609270001_every8d_ghl_oauth_refresh_foundation.sql:319` refuses every
   update that leaves a row `refreshing`, so a newer INSTALL that arrives while a
   refresh holds its lease raises, though
   `docs/every8d-ghl-oauth-refresh-foundation.md:131` says the ordering semantics
   are unchanged.

3. `install_either_order`: `getActiveGhlOAuthOnboardingSession` expires the
   overdue session it has read (`src/services/repository.ts:474`) by its id and
   status only, and a callback that renews the session keeps that id, so the
   session just saved is expired, the callback finds none, and the install stays
   pending though both have been handled; `README.md:263` says "The OAuth callback
   and signed AppInstall event can arrive in either order".

Observed and not contradicted by any document (see the hazards in
`PROJECT.json`): the callback of a mirrored text that overtakes its mirror row
is pushed again; a callback without a provider id that overtakes its dispatch
row is dropped; a claimed delivery whose handler dies is never taken up again
(LINE and SMS alike, as an event
of LINE's stays "processing"); a text that was pushed is answered as failed when its row
cannot be saved.  On the way in, an event LINE delivers again is handled again, so
HighLevel may get its text twice; two first messages of one user handled side by
side create two contacts, of which the profile keeps the one linked last; a row
that says failed stays although a later handling succeeded; a text whose event
row or whose profile cannot be saved is gone without a row in `message_events`,
which the table's description (`README.md:602`, "sent, skipped, and failed message
sync attempts") leaves open.

Of settings access: a resend, a redemption, a new operator grant or a removal is
rolled back when a code it supersedes expires, or is reported delivered, between
its reading of the clock and its write
(`supabase/migrations/202610140001_*:398` and `202610060001_*:1173` against the
trigger's own reading at `202610060001_*:549`, and its order of times at 633); the
caller sees an error and a retry succeeds (`OnlyLateWritesRefused` says that
nothing else is refused).

Of onboarding: a claim that is stolen after two minutes may still be working,
and both may exchange (each exchange gives a pair of its own, so what is stored
is good); a redelivery under a new key makes a completed install pending again;
complete and fail name the install and not the claim; a request whose refresh was
accepted and whose process dies before the save leaves a spent token in the row,
and a preview that meets its deadline discards the pair it rotated
(`StoredPairLives` says exactly when).  Of the preview: the "Decision precedence"
list of `docs/line-contact-reconciliation-preview.md` is not in every point the
order its own text describes, which is the code's.

## 6. What is left

1. `SettingsAuthLocks`: the order of row and advisory locks inside a
   transaction (enrollment: installation, grant, address, challenge; login:
   address, installations, administrators, challenge), and which cycles
   PostgreSQL's deadlock detection has to break.
2. The liveness of leases in `GhlCredentials` under fair passes: a refresh lease
   and an exchange nobody finishes end.  That the pass that must end a lease
   always finds the row is proved already: `PairsAreCurrent` keeps a leased row
   installed in its generation, which is all the search asks for.
3. The composition of `LineInbound` and `LineDelivery` through the mapping of
   `line_profiles`, and of `LocationTokens` with the requests that use its pairs.
