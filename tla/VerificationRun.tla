-------------------------- MODULE VerificationRun --------------------------
(***************************************************************************)
(* One channel verification session of VerificationService.                *)
(*                                                                         *)
(* Start stores a session and its jobs; a run sends the jobs to workers,   *)
(* each of which probes the channel at most verificationMaxAttempts times  *)
(* a job and records every attempt; the end of the run settles the         *)
(* session, its report and its request logs.  Anyone may ask the session   *)
(* to stop, the process may crash at any step, and a new process resumes   *)
(* what the rows say was running.  Every write of a row is a step of its   *)
(* own, except the transactions, which are one step each.                  *)
(*                                                                         *)
(* One session is modelled: sessions share no rows and no run.  A new      *)
(* process answers its first Start after the first query of                *)
(* resumeRunningSessions, which the constructor has launched before the    *)
(* server listens.  Failing queries and writes are modelled where the      *)
(* session is settled and, as a deleted channel, where it is loaded.       *)
(***************************************************************************)
EXTENDS Integers

CONSTANTS
  JobCount,     \* jobs of the session, in their sequence
  Workers,      \* verificationWorkers goroutines
  MaxAttempts,  \* verificationMaxAttempts
  MaxCrashes    \* bound of the model: crashes of the process

ASSUME JobsAssumption     == JobCount \in Nat \ {0}
ASSUME AttemptsAssumption == MaxAttempts \in Nat \ {0}
ASSUME CrashesAssumption  == MaxCrashes \in Nat

VARIABLES
  session,    \* row: its status, and whether stop_requested_at is set
  jobs,       \* rows: status and attempts_sent of every job
  evidence,   \* number of verification_attempts rows of every job
  report,     \* the session has a report
  logs,       \* outcome of the request log row of every job
  accounted,  \* attempt rows copied to the relay logs and daily statistics
  channelGone,\* the run found the channel or its mapping deleted
  resume,     \* step of resumeRunningSessions; "down" without a process
  starter,    \* step of the Start handler after its transaction
  stopper,    \* step of a Stop handler
  run,        \* runSession: its stage, context and the jobs left to send
  workers,    \* step, job and attempt of every worker
  closing,    \* step of the settlement, and what finalizeSession has read
  probes,     \* history: probes sent for every job
  crashes     \* history: crashes so far

rows    == <<session, jobs, evidence, report, logs, accounted>>
handlers == <<resume, starter, stopper>>
history == <<probes, crashes>>
vars == <<rows, channelGone, handlers, run, workers, closing, history>>

Jobs     == 1..JobCount
NoRun    == [stage |-> "none", canceled |-> FALSE, queue |-> {}]
Idle     == [phase |-> "idle", job |-> 0, attempt |-> 0, answer |-> "none"]
NotClosing == [step |-> "idle", stop |-> FALSE]

Unsettled == {"pending", "running"}
Answers   == {"success", "auth", "retryable", "fatal", "canceled"}
Finished  == {"completed", "stopped"}

SetJob(j, status)  == jobs' = [jobs EXCEPT ![j].status = status]
MoveTo(w, phase)   == workers' = [workers EXCEPT ![w].phase = phase]
Release(w)         == workers' = [workers EXCEPT ![w] = Idle]

-----------------------------------------------------------------------------
(* Starting and resuming. *)

\* The transaction of Start: the session, its jobs and their request logs.
Start ==
  /\ resume \in {"running", "registering", "done"}
  /\ session.status = "none"
  /\ session' = [session EXCEPT !.status = "running"]
  /\ logs' = [j \in Jobs |-> "processing"]
  /\ starter' = "registering"
  /\ UNCHANGED <<jobs, evidence, report, accounted, channelGone, resume, stopper,
                 run, workers, closing, history>>

\* startRun: one run per session at a time.
StartRun == run' = IF run.stage = "none" THEN [NoRun EXCEPT !.stage = "loading"]
                                          ELSE run

StartRegisters ==
  /\ starter = "registering"
  /\ StartRun
  /\ starter' = "idle"
  /\ UNCHANGED <<rows, channelGone, resume, stopper, workers, closing, history>>

\* The first query of resumeRunningSessions: sessions with a stop requested.
ResumeStopped ==
  /\ resume = "stopped"
  /\ IF session.status = "running" /\ session.stop
       THEN /\ resume' = "settling"
            /\ closing' = [closing EXCEPT !.step = "cancelling"]
       ELSE /\ resume' = "running"
            /\ UNCHANGED closing
  /\ UNCHANGED <<rows, channelGone, starter, stopper, run, workers, history>>

ResumeSettled ==
  /\ resume = "settling"
  /\ closing.step = "idle"
  /\ resume' = "running"
  /\ UNCHANGED <<rows, channelGone, starter, stopper, run, workers, closing, history>>

\* The second query: running sessions without a stop requested.
ResumeRunning ==
  /\ resume = "running"
  /\ resume' = IF session.status = "running" /\ ~session.stop
                 THEN "registering" ELSE "done"
  /\ UNCHANGED <<rows, channelGone, starter, stopper, run, workers, closing, history>>

ResumeRegisters ==
  /\ resume = "registering"
  /\ StartRun
  /\ resume' = "done"
  /\ UNCHANGED <<rows, channelGone, starter, stopper, workers, closing, history>>

-----------------------------------------------------------------------------
(* runSession: loading, sending jobs to the workers, joining them. *)

\* The channel or mapping cannot be read: failSession.  It was deleted, and
\* stays so; when it was deleted before this makes no difference.
LoadFails ==
  /\ run.stage = "loading"
  /\ channelGone' = TRUE
  /\ run' = [run EXCEPT !.stage = "settling"]
  /\ closing' = [closing EXCEPT !.step = "failing"]
  /\ UNCHANGED <<rows, handlers, workers, history>>

\* Mutant: a resumed job starts with a fresh budget.
SnapshotAfresh(j) == [job |-> j, sent |-> 0]

Snapshot(j) == [job |-> j, sent |-> jobs[j].sent]

\* The jobs are read once, running ones are made pending again.  No other
\* step touches the jobs of a session while its run is loading.
Load ==
  /\ run.stage = "loading"
  /\ ~channelGone
  /\ LET queue == {Snapshot(j) : j \in {i \in Jobs : jobs[i].status \in Unsettled}}
     IN run' = [run EXCEPT !.stage = IF queue = {} THEN "closed" ELSE "sending",
                           !.queue = queue]
  /\ jobs' = [j \in Jobs |-> IF jobs[j].status = "running"
                               THEN [jobs[j] EXCEPT !.status = "pending"] ELSE jobs[j]]
  /\ UNCHANGED <<session, evidence, report, logs, accounted, channelGone, handlers,
                 workers, closing, history>>

\* Jobs go out in their sequence.  Their channel is not buffered: sending is a
\* rendezvous.
Send(w) ==
  /\ run.stage = "sending"
  /\ workers[w].phase = "idle"
  /\ \E item \in run.queue :
       /\ \A other \in run.queue : item.job <= other.job
       /\ workers' = [workers EXCEPT ![w] = [phase |-> "received", job |-> item.job,
                                             attempt |-> item.sent + 1, answer |-> "none"]]
       /\ run' = [run EXCEPT !.stage = "sent", !.queue = run.queue \ {item}]
  /\ UNCHANGED <<rows, channelGone, handlers, closing, history>>

\* Mutant: the sender does not select on the context.
SendsRegardless == FALSE /\ UNCHANGED vars

SendCanceled ==
  /\ run.stage = "sending"
  /\ run.canceled
  /\ run' = [run EXCEPT !.stage = "closed"]
  /\ UNCHANGED <<rows, channelGone, handlers, workers, closing, history>>

AfterSend ==
  /\ run.stage = "sent"
  /\ run' = [run EXCEPT !.stage = IF session.stop \/ run.queue = {}
                                    THEN "closed" ELSE "sending"]
  /\ UNCHANGED <<rows, channelGone, handlers, workers, closing, history>>

\* Mutant: a stopped session is finalized with its jobs left as they are.
EndingKeepsJobs == "reading"

Ending == IF session.stop THEN "cancelling" ELSE "reading"

WorkersJoined == \A w \in Workers : workers[w].phase \in {"idle", "gone"}

\* close(jobCh), wg.Wait and the choice of how the session ends.
Join ==
  /\ run.stage = "closed"
  /\ WorkersJoined
  /\ run' = [run EXCEPT !.stage = "settling"]
  /\ closing' = [closing EXCEPT !.step = Ending]
  /\ UNCHANGED <<rows, channelGone, handlers, workers, history>>

RunEnds ==
  /\ run.stage = "settling"
  /\ closing.step = "idle"
  /\ run' = NoRun
  /\ workers' = [w \in Workers |-> Idle]
  /\ UNCHANGED <<rows, channelGone, handlers, closing, history>>

-----------------------------------------------------------------------------
(* The workers and runJob. *)

StopSeen == run.canceled \/ session.stop

\* A job received after a stop is left to cancelRemainingJobsAndFinalize.
Receive(w) ==
  /\ workers[w].phase = "received"
  /\ MoveTo(w, IF StopSeen THEN "gone" ELSE "starting")
  /\ UNCHANGED <<rows, channelGone, handlers, run, closing, history>>

\* A job whose budget is spent is not probed again.
StartJob(w) ==
  /\ workers[w].phase = "starting"
  /\ SetJob(workers[w].job, "running")
  /\ IF workers[w].attempt <= MaxAttempts THEN MoveTo(w, "checking") ELSE Release(w)
  /\ UNCHANGED <<session, evidence, report, logs, accounted, channelGone, handlers,
                 run, closing, history>>

CancelJob(w) ==
  /\ SetJob(workers[w].job, "cancelled")
  /\ Release(w)

CheckStop(w) ==
  /\ workers[w].phase = "checking"
  /\ \/ /\ StopSeen
        /\ CancelJob(w)
     \/ /\ ~StopSeen
        /\ MoveTo(w, "probing")
        /\ UNCHANGED jobs
  /\ UNCHANGED <<session, evidence, report, logs, accounted, channelGone, handlers,
                 run, closing, history>>

\* One HTTP attempt.  It fails with context.Canceled only when the run was
\* canceled, perhaps before anything was sent.
Probe(w, answer, sent) ==
  /\ workers[w].phase = "probing"
  /\ answer = "canceled" => run.canceled
  /\ ~sent => answer = "canceled"
  /\ workers' = [workers EXCEPT ![w].phase = "persisting", ![w].answer = answer]
  /\ probes' = IF sent THEN [probes EXCEPT ![workers[w].job] = @ + 1] ELSE probes
  /\ UNCHANGED <<rows, channelGone, handlers, run, closing, crashes>>

\* Mutant: an attempt that was cut short leaves no evidence.
AddEvidenceOfAnswer(w) ==
  evidence' = IF workers[w].answer = "canceled" THEN evidence
              ELSE [evidence EXCEPT ![workers[w].job] = @ + 1]

AddEvidence(w) == evidence' = [evidence EXCEPT ![workers[w].job] = @ + 1]

PersistAttempt(w) ==
  /\ workers[w].phase = "persisting"
  /\ AddEvidence(w)
  /\ MoveTo(w, "counting")
  /\ UNCHANGED <<session, jobs, report, logs, accounted, channelGone, handlers,
                 run, closing, history>>

CountAttempt(w) ==
  /\ workers[w].phase = "counting"
  /\ jobs' = [jobs EXCEPT ![workers[w].job].sent = workers[w].attempt]
  /\ MoveTo(w, "settling")
  /\ UNCHANGED <<session, evidence, report, logs, accounted, channelGone, handlers,
                 run, closing, history>>

\* A cancelled attempt has status 0, which counts as retryable.
Retries(w) == /\ workers[w].answer \in {"retryable", "canceled"}
              /\ workers[w].attempt < MaxAttempts

\* How an attempt ends its job, or not.
SettleAttempt(w) ==
  /\ workers[w].phase = "settling"
  /\ LET j == workers[w].job
         answer == workers[w].answer
     IN IF Retries(w) THEN MoveTo(w, "backoff") /\ UNCHANGED jobs
        ELSE /\ SetJob(j, IF answer = "success" THEN "succeeded" ELSE "error")
             /\ IF answer = "auth" THEN MoveTo(w, "requesting") ELSE Release(w)
  /\ UNCHANGED <<session, evidence, report, logs, accounted, channelGone, handlers,
                 run, closing, history>>

BackoffElapses(w) ==
  /\ workers[w].phase = "backoff"
  /\ workers' = [workers EXCEPT ![w].phase = "checking", ![w].attempt = @ + 1,
                                ![w].answer = "none"]
  /\ UNCHANGED <<rows, channelGone, handlers, run, closing, history>>

BackoffCanceled(w) ==
  /\ workers[w].phase = "backoff"
  /\ run.canceled
  /\ CancelJob(w)
  /\ UNCHANGED <<session, evidence, report, logs, accounted, channelGone, handlers,
                 run, closing, history>>

-----------------------------------------------------------------------------
(* requestStop: the row first, the context second. *)

WriteStop == session' = [session EXCEPT !.stop = TRUE]
CancelRun == run' = IF run.stage = "none" THEN run ELSE [run EXCEPT !.canceled = TRUE]

\* A worker whose channel refused its credentials ends the run.
WorkerWritesStop(w) ==
  /\ workers[w].phase = "requesting"
  /\ WriteStop
  /\ MoveTo(w, "cancelling")
  /\ UNCHANGED <<jobs, evidence, report, logs, accounted, channelGone, handlers,
                 run, closing, history>>

WorkerCancelsRun(w) ==
  /\ workers[w].phase = "cancelling"
  /\ CancelRun
  /\ MoveTo(w, "gone")
  /\ UNCHANGED <<rows, channelGone, handlers, closing, history>>

\* Stop reads the row first; it refuses a session that has ended.
StopReads ==
  /\ resume # "down"
  /\ stopper = "idle"
  /\ session.status = "running"
  /\ stopper' = "writing"
  /\ UNCHANGED <<rows, channelGone, resume, starter, run, workers, closing, history>>

StopWrites ==
  /\ stopper = "writing"
  /\ WriteStop
  /\ stopper' = "cancelling"
  /\ UNCHANGED <<jobs, evidence, report, logs, accounted, channelGone, resume, starter,
                 run, workers, closing, history>>

StopCancels ==
  /\ stopper = "cancelling"
  /\ CancelRun
  /\ stopper' = "idle"
  /\ UNCHANGED <<rows, channelGone, resume, starter, workers, closing, history>>

-----------------------------------------------------------------------------
(* cancelRemainingJobsAndFinalize, finalizeSession and failSession, called *)
(* by the run or by resumeRunningSessions.                                 *)

CancelRemaining ==
  /\ closing.step = "cancelling"
  /\ \/ /\ jobs' = [j \in Jobs |-> IF jobs[j].status \in Unsettled
                                    THEN [jobs[j] EXCEPT !.status = "cancelled"] ELSE jobs[j]]
        /\ closing' = [closing EXCEPT !.step = "reading"]
     \/ /\ closing' = [closing EXCEPT !.step = "failing"]   \* the update failed
        /\ UNCHANGED jobs
  /\ UNCHANGED <<session, evidence, report, logs, accounted, channelGone, handlers,
                 run, workers, history>>

\* The reads of finalizeSession, one of which may fail.
ReadSession(fails) ==
  /\ closing.step = "reading"
  /\ closing' = IF fails THEN [NotClosing EXCEPT !.step = "failing"]
                ELSE [step |-> "writing", stop |-> session.stop]
  /\ UNCHANGED <<rows, channelGone, handlers, run, workers, history>>

\* verificationJobRequestOutcome
RequestOutcome(job, status) ==
  CASE job.status = "succeeded" -> "success"
    [] job.status = "cancelled" -> "canceled"
    [] job.status = "error"     -> "failed"
    [] OTHER -> IF status = "stopped" THEN "canceled" ELSE "failed"

\* Mutant: attempts are copied by every settlement.
CopyAlways ==
  accounted' = [j \in Jobs |-> accounted[j] + evidence[j]]

\* Attempts are copied once, by the settlement that finds no final request.
CopyAttempts ==
  accounted' = IF \A j \in Jobs : logs[j] = "processing"
                 THEN [j \in Jobs |-> accounted[j] + evidence[j]]
                 ELSE accounted

\* persistVerificationSessionLog
PersistLog(status) ==
  /\ logs' = [j \in Jobs |-> RequestOutcome(jobs[j], status)]
  /\ CopyAttempts

\* The transaction of finalizeSession.  The report is created, or kept when a
\* second run of the session settles it again; either way there is one.
Finalize ==
  /\ closing.step = "writing"
  /\ LET status == IF closing.stop THEN "stopped" ELSE "completed"
     IN /\ session' = [session EXCEPT !.status = status]
        /\ PersistLog(status)
  /\ report' = TRUE
  /\ closing' = NotClosing
  /\ UNCHANGED <<jobs, evidence, channelGone, handlers, run, workers, history>>

\* failSession; when its transaction fails too, only the status is written.
FailSession(persisted) ==
  /\ closing.step = "failing"
  /\ session' = [session EXCEPT !.status = "failed"]
  /\ IF persisted THEN PersistLog("failed") ELSE UNCHANGED <<logs, accounted>>
  /\ closing' = NotClosing
  /\ UNCHANGED <<jobs, evidence, report, channelGone, handlers, run, workers, history>>

-----------------------------------------------------------------------------
(* The environment. *)

Crash ==
  /\ resume # "down"
  /\ crashes < MaxCrashes
  /\ crashes' = crashes + 1
  /\ resume' = "down"
  /\ starter' = "idle"
  /\ stopper' = "idle"
  /\ run' = NoRun
  /\ workers' = [w \in Workers |-> Idle]
  /\ closing' = NotClosing
  /\ UNCHANGED <<rows, channelGone, probes>>

Restart ==
  /\ resume = "down"
  /\ resume' = "stopped"
  /\ UNCHANGED <<rows, channelGone, starter, stopper, run, workers, closing, history>>

-----------------------------------------------------------------------------
Init ==
  /\ session = [status |-> "none", stop |-> FALSE]
  /\ jobs = [j \in Jobs |-> [status |-> "pending", sent |-> 0]]
  /\ evidence = [j \in Jobs |-> 0]
  /\ report = FALSE
  /\ logs = [j \in Jobs |-> "none"]
  /\ accounted = [j \in Jobs |-> 0]
  /\ channelGone = FALSE
  /\ resume = "stopped"
  /\ starter = "idle"
  /\ stopper = "idle"
  /\ run = NoRun
  /\ workers = [w \in Workers |-> Idle]
  /\ closing = NotClosing
  /\ probes = [j \in Jobs |-> 0]
  /\ crashes = 0

ResumeStep == ResumeStopped \/ ResumeSettled \/ ResumeRunning \/ ResumeRegisters

RunStep == \/ LoadFails \/ Load \/ SendCanceled \/ AfterSend \/ Join \/ RunEnds
           \/ \E w \in Workers : Send(w)

ClosingStep == \/ CancelRemaining
               \/ \E fails \in BOOLEAN : ReadSession(fails)
               \/ Finalize
               \/ \E persisted \in BOOLEAN : FailSession(persisted)

WorkerStep(w) ==
  \/ Receive(w) \/ StartJob(w) \/ CheckStop(w)
  \/ \E answer \in Answers, sent \in BOOLEAN : Probe(w, answer, sent)
  \/ PersistAttempt(w) \/ CountAttempt(w) \/ SettleAttempt(w)
  \/ BackoffElapses(w) \/ BackoffCanceled(w)
  \/ WorkerWritesStop(w) \/ WorkerCancelsRun(w)

Next ==
  \/ Start \/ StartRegisters
  \/ ResumeStep \/ RunStep \/ ClosingStep
  \/ \E w \in Workers : WorkerStep(w)
  \/ StopReads \/ StopWrites \/ StopCancels
  \/ Crash \/ Restart

Spec == Init /\ [][Next]_vars

\* Goroutines and handlers that can move do; the HTTP client bounds a probe by
\* 310 seconds.  Nobody need start, stop, delete, crash or restart anything.
Fairness ==
  /\ WF_vars(StartRegisters)
  /\ WF_vars(ResumeStep)
  /\ WF_vars(RunStep)
  /\ WF_vars(ClosingStep)
  /\ WF_vars(StopWrites \/ StopCancels)
  /\ \A w \in Workers : WF_vars(WorkerStep(w))

FairSpec == Spec /\ Fairness

-----------------------------------------------------------------------------
(* Properties. *)

\* Every row and every goroutine holds values of the code.
TypeOK ==
  /\ session \in [status : {"none", "running", "failed"} \union Finished, stop : BOOLEAN]
  /\ jobs \in [Jobs -> [status : Unsettled \union {"succeeded", "error", "cancelled"},
                        sent : 0..MaxAttempts]]
  /\ evidence \in [Jobs -> Nat]
  /\ report \in BOOLEAN
  /\ logs \in [Jobs -> {"none", "processing", "success", "failed", "canceled"}]
  /\ accounted \in [Jobs -> Nat]
  /\ channelGone \in BOOLEAN
  /\ resume \in {"down", "stopped", "settling", "running", "registering", "done"}
  /\ starter \in {"idle", "registering"}
  /\ stopper \in {"idle", "writing", "cancelling"}
  /\ run \in [stage : {"none", "loading", "sending", "sent", "closed", "settling"},
              canceled : BOOLEAN, queue : SUBSET [job : Jobs, sent : 0..MaxAttempts]]
  /\ workers \in [Workers -> [phase : {"idle", "received", "starting", "checking",
                                       "probing", "persisting", "counting", "settling",
                                       "backoff", "requesting", "cancelling", "gone"},
                              job : 0..JobCount, attempt : 0..(MaxAttempts + 1),
                              answer : Answers \union {"none"}]]
  /\ closing \in [step : {"idle", "cancelling", "reading", "writing", "failing"},
                  stop : BOOLEAN]
  /\ probes \in [Jobs -> Nat]
  /\ crashes \in 0..MaxCrashes

\* A restart costs a job at most one attempt beyond its budget: attempts
\* counted before the crash are not made again.
BudgetSurvivesRestart == \A j \in Jobs : probes[j] <= MaxAttempts + crashes

\* A job is attempted at most verificationMaxAttempts times, restarts
\* included.
AttemptBudget == \A j \in Jobs : probes[j] <= MaxAttempts

\* An attempt that counts against the budget has left its evidence.
CountedAttemptsTraceable == \A j \in Jobs : jobs[j].sent <= evidence[j]

\* A session that ended with a report has run, failed or cancelled every job,
\* the ones excepted whose last attempt was counted just before a crash.
EndedSessionSettled ==
  session.status \in Finished =>
    \A j \in Jobs : jobs[j].status \in Unsettled => jobs[j].sent = MaxAttempts

\* However often a session is settled, each attempt reaches the relay logs and
\* the statistics once, and the request of a job succeeds when the job did.
AttemptsAccountedOnce ==
  session.status \in Finished =>
    \A j \in Jobs : /\ accounted[j] = evidence[j]
                    /\ logs[j] = "success" <=> jobs[j].status = "succeeded"

\* Every attempt has its evidence, its log and its count, once.
AttemptsAccounted == CountedAttemptsTraceable /\ AttemptsAccountedOnce

\* A stop requested after resumeRunningSessions looked for stopped sessions
\* and before it looked for running ones: no run, and nobody to settle it.
Overlooked == /\ session.status = "running" /\ session.stop
              /\ run.stage = "none" /\ resume = "done" /\ starter = "idle"

\* A started session ends, unless its process does or its stop is overlooked:
\* workers, sender and stops never wait for one another for ever.
SessionEventuallyEnds ==
  session.status = "running" ~>
    (session.status # "running" \/ resume = "down" \/ Overlooked)

=============================================================================
