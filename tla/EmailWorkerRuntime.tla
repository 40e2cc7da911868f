------------------------- MODULE EmailWorkerRuntime -------------------------
(***************************************************************************)
(* The process around the e-mail worker engine: one serial loop recovers,  *)
(* purges and runs batches; a repository call fails, hangs or returns late;*)
(* signals and faults stop the process, which closes admission, aborts the *)
(* provider calls and drains, for a bounded time, what it has begun.       *)
(*                                                                         *)
(* A promise settles in one step and its continuation runs in another:     *)
(* other callbacks run between them.  What the database and the provider   *)
(* decide is EmailOutbox; here an answer is only applied or not.           *)
(***************************************************************************)
EXTENDS Integers, FiniteSets

CONSTANTS
    BatchJobs,           \* the jobs a claim may return
    MaxFailures     \* 5, the last back-off tier

ASSUME RuntimeAssumption == IsFiniteSet(BatchJobs) /\ MaxFailures \in Nat \ {0}

VARIABLES
    state,      \* of the runtime
    stopReason,
    exit,       \* how done was resolved
    active,     \* flowActive, repositoryActive, providerActive
    loop,       \* where the serial loop is
    pass,       \* locals of the loop
    due,        \* the due times that have passed
    job,        \* the engine's sessions of the current batch
    fault       \* an uncaught exception or rejection reached the process

runtimeVars == <<state, stopReason, exit, active, loop, pass, due, job, fault>>

StopReasons == {"signal", "process_failure", "repository_stall",
                "repository_contract_violation", "internal_failure"}

\* The loop awaits a call ("recovering") until it settles ("recovered").
Calling == {"recovering", "purging", "claiming"}
Settled == {"recovered", "purged", "claimed"}

\* "lost": the mail was submitted, its outcome never passed to finalize.
JobStates == {"none", "beginning", "begun", "sending", "result", "finalizing",
              "finalized", "ended", "lost"}
JobOver == {"none", "finalized", "ended", "lost"}

\* The runtime's locals keep their ranges; the back-off tier stays in its table.
RuntimeTypeOK ==
    /\ state \in {"idle", "running", "stopping", "stopped"}
    /\ stopReason \in StopReasons
    /\ exit \in {"none", "drained", "expired"}
    /\ active \in [flow : BOOLEAN, repository : Nat, provider : Nat]
    /\ loop \in {"off", "top", "decide", "batch", "waiting", "backoff", "ended"}
                \cup Calling \cup Settled
    /\ pass \in [answer : {"none", "applied", "failure", "thrown"},
                 purgeDue : BOOLEAN, recovered : BOOLEAN, failed : BOOLEAN,
                 everRecovered : BOOLEAN, everPurged : BOOLEAN,
                 startupComplete : BOOLEAN, failures : 0..MaxFailures]
    /\ due \in [recovery : BOOLEAN, purge : BOOLEAN, poll : BOOLEAN]
    /\ job \in [BatchJobs -> JobStates]
    /\ fault \in BOOLEAN

RuntimeInit ==
    /\ state = "idle" /\ stopReason = "signal" /\ exit = "none"
    /\ active = [flow |-> FALSE, repository |-> 0, provider |-> 0]
    /\ loop = "off"
    /\ pass = [answer |-> "none", purgeDue |-> FALSE, recovered |-> FALSE,
               failed |-> FALSE, everRecovered |-> FALSE, everPurged |-> FALSE,
               startupComplete |-> FALSE, failures |-> 0]
    /\ due = [recovery |-> TRUE, purge |-> TRUE, poll |-> TRUE]
    /\ job = [j \in BatchJobs |-> "none"]
    /\ fault = FALSE

-----------------------------------------------------------------------------
(* Stopping and draining.                                                  *)

Quiet_NoFlow(a) == a.repository = 0 /\ a.provider = 0

\* checkDrain: nothing the process has begun is left.
Quiet(a) == ~a.flow /\ a.repository = 0 /\ a.provider = 0

\* cancellation.abort() settles every provider call as outcome_unknown.
Aborted(jobs) == [j \in BatchJobs |-> IF jobs[j] = "sending" THEN "result" ELSE jobs[j]]

InFlight(jobs) == {j \in BatchJobs : jobs[j] = "sending"}

\* Each aborted call gives its slot back at once.
ProviderAborted(a, jobs) ==
    [a EXCEPT !.provider = @ - Cardinality(InFlight(jobs))]

\* Every callback ends here: it leaves the sessions at "jobs" and the counters
\* at "a", has perhaps called stop for one of "reasons", and checks the drain.
Settles(jobs, a, reasons) ==
    LET stops == reasons # {} /\ state \in {"idle", "running"}
        after == IF stops THEN ProviderAborted(a, jobs) ELSE a
        draining == stops \/ state = "stopping"
    IN  /\ job' = IF stops THEN Aborted(jobs) ELSE jobs
        /\ active' = after
        /\ \E reason \in IF stops THEN reasons ELSE {stopReason} : stopReason' = reason
        /\ state' = IF ~draining THEN state
                    ELSE IF Quiet(after) THEN "stopped" ELSE "stopping"
        /\ exit' = IF draining /\ Quiet(after) THEN "drained" ELSE exit

Called == [active EXCEPT !.repository = @ + 1]
Returned == [active EXCEPT !.repository = @ - 1]

AdmitsFinalize_RunningOnly == state = "running"

\* admit(true): finalization is still admitted while the process drains.
AdmitsFinalize == state \in {"running", "stopping"}

\* SIGTERM and SIGINT, and what stops the process for a fault of its own.
Signal ==
    /\ Settles(job, active, {"signal"})
    /\ UNCHANGED <<loop, pass, due, fault>>

Fault ==
    /\ state # "stopped"
    /\ fault' = TRUE
    /\ Settles(job, active, {"process_failure"})
    /\ UNCHANGED <<loop, pass, due>>

DrainExpires_AfterCalls ==
    /\ state = "stopping" /\ active.repository = 0
    /\ state' = "stopped" /\ exit' = "expired"
    /\ UNCHANGED <<stopReason, active, loop, pass, due, job, fault>>

\* The drain timer runs from stop until the drain is complete.
DrainExpires ==
    /\ state = "stopping"
    /\ state' = "stopped" /\ exit' = "expired"
    /\ UNCHANGED <<stopReason, active, loop, pass, due, job, fault>>

\* A call that takes too long stops the process and stays what it is.
Stall ==
    /\ active.repository > 0
    /\ Settles(job, active, {"repository_stall"})
    /\ UNCHANGED <<loop, pass, due, fault>>

-----------------------------------------------------------------------------
(* The loop.                                                               *)

Start ==
    /\ state = "idle"
    /\ state' = "running"
    /\ active' = [active EXCEPT !.flow = TRUE]
    /\ loop' = "top"
    /\ UNCHANGED <<stopReason, exit, pass, due, job, fault>>

\* The loop is left; the promises it awaited have all settled.
End(reasons) ==
    /\ loop' = "ended"
    /\ Settles(job, [active EXCEPT !.flow = FALSE], reasons)

LeaveLoop ==
    /\ \/ loop \in {"top", "decide", "waiting", "backoff", "recovered", "purged"}
       \/ loop = "claimed" /\ pass.answer # "applied"
    /\ state # "running"
    /\ End({})
    /\ UNCHANGED <<pass, due, fault>>

Call(where) ==
    /\ loop' = where
    /\ Settles(job, Called, {})

\* One pass: recovery if it or a purge is due.
Top ==
    /\ loop = "top" /\ state = "running"
    /\ pass' = [pass EXCEPT !.failed = FALSE, !.recovered = FALSE, !.answer = "none",
                            !.purgeDue = due.purge]
    /\ IF due.purge \/ due.recovery
       THEN Call("recovering")
       ELSE loop' = "decide" /\ UNCHANGED <<state, stopReason, exit, active, job>>
    /\ UNCHANGED <<due, fault>>

\* operation(): a failure is remembered, a contract violation stops.
LoopCallSettles ==
    /\ loop \in Calling
    /\ \E answer \in {"applied", "failure", "violation", "thrown"} :
         /\ pass' = [pass EXCEPT !.answer = IF answer = "violation" THEN "failure"
                                            ELSE answer,
                                 !.failed = @ \/ answer # "applied"]
         /\ Settles(job, Returned, IF answer = "violation"
                                   THEN {"repository_contract_violation"} ELSE {})
    /\ loop' = CASE loop = "recovering" -> "recovered"
                 [] loop = "purging" -> "purged"
                 [] loop = "claiming" -> "claimed"
    /\ UNCHANGED <<due, fault>>

\* A maintenance call that throws ends the loop and stops the process.
LoopThrows ==
    /\ loop \in {"recovered", "purged"} /\ pass.answer = "thrown"
    /\ End({"internal_failure"})
    /\ UNCHANGED <<pass, due, fault>>

\* A purge runs only in a pass whose recovery was applied.
PurgeAdmitted(p) == p.purgeDue /\ p.recovered /\ ~p.failed

RecoverContinues ==
    /\ loop = "recovered" /\ state = "running" /\ pass.answer # "thrown"
    /\ LET applied == pass.answer = "applied"
           p == [pass EXCEPT !.recovered = applied, !.everRecovered = @ \/ applied]
       IN  /\ pass' = p
           /\ due' = [due EXCEPT !.recovery = @ /\ ~applied]
           /\ IF PurgeAdmitted(p)
              THEN Call("purging")
              ELSE loop' = "decide" /\ UNCHANGED <<state, stopReason, exit, active, job>>
    /\ UNCHANGED fault

PurgeContinues ==
    /\ loop = "purged" /\ state = "running" /\ pass.answer # "thrown"
    /\ LET applied == pass.answer = "applied"
       IN  /\ pass' = [pass EXCEPT !.everPurged = @ \/ applied]
           /\ due' = [due EXCEPT !.purge = @ /\ ~applied]
    /\ loop' = "decide"
    /\ UNCHANGED <<state, stopReason, exit, active, job, fault>>

\* The next back-off tier.
Tier(failures) == IF failures < MaxFailures THEN failures + 1 ELSE MaxFailures

\* The loop sleeps until the next due time, or for the back-off delay.
Sleep(failed, ranBatch) ==
    /\ loop' = IF failed THEN "backoff" ELSE "waiting"
    /\ due' = [due EXCEPT !.poll = @ /\ ~failed /\ ~ranBatch]
    /\ pass' = [pass EXCEPT
         !.failed = failed,
         !.startupComplete = @ \/ (~failed /\ pass.everRecovered /\ pass.everPurged),
         !.failures = IF failed THEN Tier(@) ELSE 0]

\* Startup is complete once recovery and purge have both been applied.
Ready(p) == ~p.failed /\ (p.startupComplete \/ (p.everRecovered /\ p.everPurged))

PollAdmitted(p) == Ready(p) /\ due.poll

Decide ==
    /\ loop = "decide" /\ state = "running"
    /\ IF PollAdmitted(pass)
       THEN /\ pass' = [pass EXCEPT !.startupComplete = TRUE, !.answer = "none"]
            /\ Call("claiming")
            /\ UNCHANGED due
       ELSE /\ Sleep(pass.failed, FALSE)
            /\ UNCHANGED <<state, stopReason, exit, active, job>>
    /\ UNCHANGED fault

Elapse(k) ==
    /\ ~due[k]
    /\ due' = [due EXCEPT ![k] = TRUE]
    /\ UNCHANGED <<state, stopReason, exit, active, loop, pass, job, fault>>

\* A back-off ends only by its own delay; maintenance wakes an idle loop.
Wake ==
    /\ state = "running"
    /\ \/ loop = "backoff" /\ due.poll
       \/ loop = "waiting" /\ (due.poll \/ due.recovery \/ due.purge)
    /\ loop' = "top"
    /\ UNCHANGED <<state, stopReason, exit, active, pass, due, job, fault>>

-----------------------------------------------------------------------------
(* One batch of the engine: the sessions of the claimed jobs.              *)

\* Every claimed job is begun at once, or ends before it calls anything.
BatchStarts ==
    /\ loop = "claimed" /\ pass.answer = "applied"
    /\ \E begun \in IF state = "running" THEN SUBSET BatchJobs ELSE {{}} :
         Settles([j \in BatchJobs |-> IF j \in begun THEN "beginning" ELSE "ended"],
                 [active EXCEPT !.repository = @ + Cardinality(begun)], {})
    /\ loop' = "batch"
    /\ UNCHANGED <<pass, due, fault>>

ClaimFails ==
    /\ loop = "claimed" /\ pass.answer # "applied" /\ state = "running"
    /\ Sleep(TRUE, TRUE)
    /\ UNCHANGED <<state, stopReason, exit, active, job, fault>>

BatchEnds ==
    /\ loop = "batch"
    /\ \A j \in BatchJobs : job[j] \in JobOver
    /\ IF state = "running"
       THEN /\ Sleep(pass.failed, TRUE)
            /\ job' = [j \in BatchJobs |-> "none"]
            /\ UNCHANGED <<state, stopReason, exit, active>>
       ELSE End({}) /\ UNCHANGED <<pass, due>>
    /\ UNCHANGED fault

\* A session's begin or finalize settles.
JobCallSettles(j) ==
    /\ job[j] \in {"beginning", "finalizing"}
    /\ \E answer \in {"applied", "refused", "failure", "violation", "thrown"} :
         /\ pass' = [pass EXCEPT !.failed =
                        @ \/ answer \in {"failure", "violation", "thrown"}]
         /\ Settles([job EXCEPT ![j] =
                        IF @ = "finalizing" THEN "finalized"
                        ELSE IF answer = "applied" THEN "begun" ELSE "ended"],
                    Returned,
                    IF answer = "violation"
                    THEN {"repository_contract_violation"} ELSE {})
    /\ UNCHANGED <<loop, due, fault>>

\* The mail is submitted only if nothing stopped the process meanwhile.
SendAdmitted == state = "running"

Send(j) ==
    /\ job[j] = "begun"
    /\ SendAdmitted
    /\ Settles([job EXCEPT ![j] = "sending"],
               [active EXCEPT !.provider = @ + 1], {})
    /\ UNCHANGED <<loop, pass, due, fault>>

\* Cancelled, or too little time is left: the session ends, or reports the
\* outcome as unknown, without a call.
SendRefused(j) ==
    /\ job[j] = "begun"
    /\ \E over \in {"ended"} \cup (IF state = "running" THEN {"result"} ELSE {}) :
         Settles([job EXCEPT ![j] = over], active, {})
    /\ UNCHANGED <<loop, pass, due, fault>>

\* The provider answers, throws, or its deadline passes.
SendSettles(j) ==
    /\ job[j] = "sending"
    /\ Settles([job EXCEPT ![j] = "result"], [active EXCEPT !.provider = @ - 1], {})
    /\ UNCHANGED <<loop, pass, due, fault>>

Finalize(j) ==
    /\ job[j] = "result"
    /\ IF AdmitsFinalize
       THEN Settles([job EXCEPT ![j] = "finalizing"], Called, {})
       ELSE Settles([job EXCEPT ![j] = "lost"], active, {})
    /\ UNCHANGED <<loop, pass, due, fault>>

-----------------------------------------------------------------------------
Lifecycle == Signal \/ Fault \/ DrainExpires \/ Stall \/ Start

Looping ==
    \/ LeaveLoop \/ Top \/ LoopCallSettles \/ LoopThrows
    \/ RecoverContinues \/ PurgeContinues \/ Decide \/ Wake
    \/ \E k \in {"recovery", "purge", "poll"} : Elapse(k)

Batch ==
    \/ BatchStarts \/ ClaimFails \/ BatchEnds
    \/ \E j \in BatchJobs : \/ JobCallSettles(j) \/ Send(j) \/ SendRefused(j)
                            \/ SendSettles(j) \/ Finalize(j)

RuntimeNext == Lifecycle \/ Looping \/ Batch

RuntimeSpec == RuntimeInit /\ [][RuntimeNext]_runtimeVars

\* Timers fire and callbacks that are ready run.  Nothing is assumed of the
\* repository and the provider: their promises may never settle.
RuntimeFairness ==
    /\ WF_runtimeVars(DrainExpires) /\ WF_runtimeVars(Stall)
    /\ WF_runtimeVars(LeaveLoop) /\ WF_runtimeVars(Top) /\ WF_runtimeVars(LoopThrows)
    /\ WF_runtimeVars(RecoverContinues) /\ WF_runtimeVars(PurgeContinues)
    /\ WF_runtimeVars(Decide) /\ WF_runtimeVars(Wake)
    /\ WF_runtimeVars(BatchStarts) /\ WF_runtimeVars(ClaimFails)
    /\ WF_runtimeVars(BatchEnds)
    /\ \A k \in {"recovery", "purge", "poll"} : WF_runtimeVars(Elapse(k))
    /\ \A j \in BatchJobs : /\ WF_runtimeVars(Send(j) \/ SendRefused(j))
                            /\ WF_runtimeVars(SendSettles(j)) /\ WF_runtimeVars(Finalize(j))

FairRuntime == RuntimeSpec /\ RuntimeFairness

-----------------------------------------------------------------------------
\* "drained" is reported only of a process with nothing under way: no call of
\* the repository or the provider, no session, no loop.  checkDrain looks at
\* two counters and a flag only, at every callback, and exits on the first.
DrainedIsQuiet ==
    exit = "drained" =>
        /\ loop \in {"off", "ended"}
        /\ \A j \in BatchJobs : job[j] \in JobOver

\* Every submitted mail's outcome is passed to finalize unless the drain ran
\* out of time: stopping alone never discards what a provider answered.
OutcomesAreFinalized ==
    (\E j \in BatchJobs : job[j] = "lost") => exit = "expired"

\* Once stop() was called nothing new is begun: no claim, no maintenance, no
\* attempt, no mail, only finalize, and not even that after the exit.
BeginsNothing ==
    [][state # "running" =>
         /\ loop' \in Calling => loop' = loop
         /\ \A j \in BatchJobs : job'[j] \in {"beginning", "sending"} => job'[j] = job[j]
         /\ state = "stopped" =>
              \A j \in BatchJobs : job'[j] = "finalizing" => job[j] = "finalizing"]_runtimeVars

\* What stop() promises: nothing new is begun, and however calls hang, the process
\* stops.  A call that never returns does not hold the loop of a running process
\* for ever either.
Stops ==
    /\ BeginsNothing
    /\ (state = "stopping") ~> (state = "stopped")
    /\ [](loop \in Calling => <>(loop \notin Calling \/ state = "stopped"))

\* The exit code of the process: main's answer to how the runtime ended.
ExitCode(failed) ==
    IF failed \/ exit # "drained" \/ stopReason # "signal" THEN 1 ELSE 0

\* stop() of the process keeps only the first reason, and with it whether the
\* process failed.
ProcessFailed == stopReason = "process_failure"

\* "process failures are safe and nonzero": an uncaught exception before the
\* exit shows in the exit code.
FailureIsNonzero == state = "stopped" /\ fault => ExitCode(ProcessFailed) = 1

-----------------------------------------------------------------------------
\* Why the exit can trust three counters: the loop awaits every session and
\* sessions live only in a batch, so the flow flag alone covers them all.
\* Inductive; proved in EmailOutboxProofs.
FlowCovers ==
    /\ job \in [BatchJobs -> JobStates]
    /\ active \in [flow : BOOLEAN, repository : Int, provider : Int]
    /\ active.flow <=> loop \notin {"off", "ended"}
    /\ loop # "batch" => \A j \in BatchJobs : job[j] \in JobOver
    /\ state = "idle" => loop = "off" /\ \A j \in BatchJobs : job[j] = "none"
    /\ state = "stopped" <=> exit # "none"
    /\ exit \in {"none", "drained", "expired"}
    /\ exit = "drained" => ~active.flow
    /\ state \in {"idle", "running", "stopping", "stopped"}
    /\ OutcomesAreFinalized
=============================================================================
