----------------------- MODULE VerificationRun_proofs -----------------------
(***************************************************************************)
(* A verification keeps its budget, loses no job and accounts for every    *)
(* attempt once, for any numbers of jobs, workers, attempts and crashes.   *)
(*                                                                         *)
(* Inv says where run, resumption and settlement stand to one another      *)
(* (Lifecycle), that nothing is canceled before the row says stop          *)
(* (StopFirst), that a job is with one worker or in the queue (Custody),   *)
(* how probes, evidence and counts of a job relate (Counting), that a run  *)
(* nobody stopped leaves no job behind (NoneLost), and that a session      *)
(* whose logs are final is not probed again (Accounts).                    *)
(***************************************************************************)
EXTENDS VerificationRun, TLAPS

USE JobsAssumption, AttemptsAssumption, CrashesAssumption

Runs     == [stage : {"none", "loading", "sending", "sent", "closed", "settling"},
             canceled : BOOLEAN, queue : SUBSET [job : Jobs, sent : 0..MaxAttempts]]
Sessions == [status : {"none", "running", "failed"} \union Finished, stop : BOOLEAN]
Statuses == Unsettled \union {"succeeded", "error", "cancelled"}
JobRow   == [status : Statuses, sent : 0..MaxAttempts]
JobRows  == [Jobs -> JobRow]
Phases   == {"idle", "received", "starting", "checking", "probing", "persisting",
             "counting", "settling", "backoff", "requesting", "cancelling", "gone"}
WorkerRow == [phase : Phases, job : 0..JobCount, attempt : 0..(MaxAttempts + 1),
              answer : Answers \union {"none"}]
Crew     == [Workers -> WorkerRow]
Settlements == [step : {"idle", "cancelling", "reading", "writing", "failing"},
                stop : BOOLEAN]

\* The phases in which a worker has a job of the run in hand.
InHand == {"received", "starting", "checking", "probing", "persisting", "counting",
           "settling", "backoff"}
Has(w, j)  == workers[w].phase \in InHand /\ workers[w].job = j
Queued(j)  == \E item \in run.queue : item.job = j
Spent(j)   == jobs[j].status \in Unsettled => jobs[j].sent = MaxAttempts
AllSpent   == \A j \in Jobs : Spent(j)
Logged     == \E j \in Jobs : logs[j] \in {"success", "failed", "canceled"}

\* Nothing of the session will be probed any more.
Quiet == session.stop \/ AllSpent \/ channelGone

\* Where the run, the handlers and a settlement stand to one another.
Lifecycle ==
  /\ run.stage \in {"none", "loading", "settling"} => WorkersJoined
  /\ resume \in {"down", "stopped", "settling"} => run.stage = "none" /\ starter = "idle"
  /\ closing.step # "idle" => run.stage = "settling" \/ resume = "settling"
  /\ channelGone => run.stage \in {"none", "loading", "settling"}
  /\ session.status = "none" => /\ run.stage = "none" /\ starter = "idle"
                                /\ resume \notin {"settling", "registering"}

\* A context is canceled, and jobs are cancelled, after the row says stop.
StopFirst ==
  /\ run.canceled => session.stop
  /\ stopper = "cancelling" => session.stop
  /\ closing.step = "cancelling" => session.stop
  /\ \A w \in Workers : workers[w].phase = "cancelling" => session.stop

\* A job is with one worker or in the queue, which knows what it has spent.
Custody ==
  /\ \A w \in Workers : workers[w].phase \in InHand => workers[w].job \in Jobs
  /\ \A w, v \in Workers :
       workers[w].phase \in InHand /\ Has(v, workers[w].job) => v = w
  /\ run.stage \in {"sending", "sent"} => \A item \in run.queue :
       /\ item.sent = jobs[item.job].sent
       /\ jobs[item.job].status = "pending"
       /\ \A w \in Workers : ~Has(w, item.job)

\* How the attempt of a worker relates to what its job has spent.
AttemptOf(w) ==
  LET j == workers[w].job
      n == workers[w].attempt
      phase == workers[w].phase
  IN /\ phase \in {"received", "starting"} =>
          n = jobs[j].sent + 1 /\ jobs[j].status = "pending"
     /\ phase \in {"checking", "probing", "persisting", "counting"} =>
          n = jobs[j].sent + 1 /\ n <= MaxAttempts
     /\ phase \in {"settling", "backoff"} => n = jobs[j].sent
     /\ phase = "backoff" => n < MaxAttempts
     /\ phase = "counting" => n <= evidence[j]

\* A probe counts from the moment it is counted, or while its worker records it.
Probed(j) ==
  \/ probes[j] <= jobs[j].sent + crashes
  \/ /\ probes[j] <= jobs[j].sent + 1 + crashes
     /\ \E w \in Workers : /\ workers[w].phase \in {"persisting", "counting"}
                          /\ workers[w].job = j

\* Probes, evidence and counts of every job agree.
Counting ==
  /\ \A w \in Workers : AttemptOf(w)
  /\ \A j \in Jobs : Probed(j) /\ jobs[j].sent <= evidence[j]

\* No job is lost on the way to the end of a run that nobody stopped.
NoneLost ==
  /\ run.stage \in {"sending", "sent", "closed"} /\ ~session.stop =>
       \A j \in Jobs : Spent(j) \/ Queued(j) \/ \E w \in Workers : Has(w, j)
  /\ run.stage = "closed" /\ ~session.stop => run.queue = {}
  /\ closing.step \in {"reading", "writing"} => AllSpent
  /\ closing.step = "failing" => Quiet
  /\ session.status \in Finished => AllSpent

\* Workers of a run that found the session settled before: they probe nothing.
Silent ==
  \A w \in Workers :
    /\ workers[w].phase \in {"idle", "received", "starting", "gone"}
    /\ workers[w].phase = "starting" => workers[w].attempt > MaxAttempts

\* The logs of a session are settled together, and once.
Accounts ==
  /\ session.status = "none" <=> \A j \in Jobs : logs[j] = "none"
  /\ session.status # "none" /\ ~Logged => \A j \in Jobs : logs[j] = "processing"
  /\ Logged => \A j \in Jobs : logs[j] \in {"success", "failed", "canceled"}
  /\ ~Logged => \A j \in Jobs : accounted[j] = 0
  /\ Logged => Quiet /\ Silent /\ \A j \in Jobs : accounted[j] = evidence[j]
  /\ session.status \in Finished =>
       Logged /\ \A j \in Jobs : logs[j] = "success" <=> jobs[j].status = "succeeded"

Inv == TypeOK /\ Lifecycle /\ StopFirst /\ Custody /\ Counting /\ NoneLost /\ Accounts

-----------------------------------------------------------------------------
(* Steps of handlers, of the sender and of the process that touch no job,  *)
(* no worker and no log.                                                   *)

LEMMA QuietStep ==
  ASSUME Inv, UNCHANGED <<jobs, evidence, logs, accounted, workers, probes, crashes>>,
         session'.status = session.status, session.stop => session'.stop,
         channelGone => channelGone',
         run'.stage \in {"sending", "sent"} =>
           run.stage \in {"sending", "sent"} /\ run'.queue = run.queue
  PROVE  Custody' /\ Counting' /\ Accounts'
<1>1. Custody'
  BY DEF Inv, Custody, Has
<1>2. Counting'
  BY DEF Inv, Counting, AttemptOf, Probed
<1>3. Accounts'
  BY DEF Inv, Accounts, Logged, Quiet, Silent, AllSpent, Spent
<1> QED
  BY <1>1, <1>2, <1>3

LEMMA StartRegistersKeepsInv == ASSUME Inv, StartRegisters PROVE Inv'
<1> USE DEF rows, handlers, history
<1>1. TypeOK'
  <2>1. run' \in Runs
    BY DEF Inv, StartRegisters, StartRun, NoRun, TypeOK, Runs
  <2> QED
    BY <2>1 DEF Inv, StartRegisters, TypeOK, Runs
<1>2. Lifecycle'
  BY DEF Inv, StartRegisters, StartRun, TypeOK, Lifecycle, WorkersJoined, NoRun,
    NotClosing
<1>3. StopFirst'
  BY DEF Inv, StartRegisters, StartRun, TypeOK, StopFirst, NoRun, NotClosing
<1>4. NoneLost'
  BY DEF Inv, StartRegisters, StartRun, TypeOK, NoneLost, Lifecycle, StopFirst,
    WorkersJoined, NoRun, NotClosing, Quiet, AllSpent, Spent, Queued, Has, InHand
<1>5. Custody' /\ Counting' /\ Accounts'
  BY QuietStep DEF Inv, StartRegisters, StartRun, TypeOK, NoRun
<1> QED
  BY <1>1, <1>2, <1>3, <1>4, <1>5 DEF Inv

LEMMA ResumeStoppedKeepsInv == ASSUME Inv, ResumeStopped PROVE Inv'
<1> USE DEF rows, handlers, history
<1>1. TypeOK'
  BY DEF Inv, ResumeStopped, TypeOK, NoRun, NotClosing, Unsettled
<1>2. Lifecycle'
  BY DEF Inv, ResumeStopped, TypeOK, Lifecycle, WorkersJoined, NoRun, NotClosing
<1>3. StopFirst'
  BY DEF Inv, ResumeStopped, TypeOK, StopFirst, NoRun, NotClosing
<1>4. NoneLost'
  BY DEF Inv, ResumeStopped, TypeOK, NoneLost, Lifecycle, StopFirst, WorkersJoined,
    NoRun, NotClosing, Quiet, AllSpent, Spent, Queued, Has, InHand
<1>5. Custody' /\ Counting' /\ Accounts'
  BY QuietStep DEF Inv, ResumeStopped, TypeOK, NoRun
<1> QED
  BY <1>1, <1>2, <1>3, <1>4, <1>5 DEF Inv

LEMMA ResumeSettledKeepsInv == ASSUME Inv, ResumeSettled PROVE Inv'
<1> USE DEF rows, handlers, history
<1>1. TypeOK'
  BY DEF Inv, ResumeSettled, TypeOK, NoRun, NotClosing, Unsettled
<1>2. Lifecycle'
  BY DEF Inv, ResumeSettled, TypeOK, Lifecycle, WorkersJoined, NoRun, NotClosing
<1>3. StopFirst'
  BY DEF Inv, ResumeSettled, TypeOK, StopFirst, NoRun, NotClosing
<1>4. NoneLost'
  BY DEF Inv, ResumeSettled, TypeOK, NoneLost, Lifecycle, StopFirst, WorkersJoined,
    NoRun, NotClosing, Quiet, AllSpent, Spent, Queued, Has, InHand
<1>5. Custody' /\ Counting' /\ Accounts'
  BY QuietStep DEF Inv, ResumeSettled, TypeOK, NoRun
<1> QED
  BY <1>1, <1>2, <1>3, <1>4, <1>5 DEF Inv

LEMMA ResumeRunningKeepsInv == ASSUME Inv, ResumeRunning PROVE Inv'
<1> USE DEF rows, handlers, history
<1>1. TypeOK'
  BY DEF Inv, ResumeRunning, TypeOK, NoRun, NotClosing, Unsettled
<1>2. Lifecycle'
  BY DEF Inv, ResumeRunning, TypeOK, Lifecycle, WorkersJoined, NoRun, NotClosing
<1>3. StopFirst'
  BY DEF Inv, ResumeRunning, TypeOK, StopFirst, NoRun, NotClosing
<1>4. NoneLost'
  BY DEF Inv, ResumeRunning, TypeOK, NoneLost, Lifecycle, StopFirst, WorkersJoined,
    NoRun, NotClosing, Quiet, AllSpent, Spent, Queued, Has, InHand
<1>5. Custody' /\ Counting' /\ Accounts'
  BY QuietStep DEF Inv, ResumeRunning, TypeOK, NoRun
<1> QED
  BY <1>1, <1>2, <1>3, <1>4, <1>5 DEF Inv

LEMMA ResumeRegistersKeepsInv == ASSUME Inv, ResumeRegisters PROVE Inv'
<1> USE DEF rows, handlers, history
<1>1. TypeOK'
  <2>1. run' \in Runs
    BY DEF Inv, ResumeRegisters, StartRun, NoRun, TypeOK, Runs
  <2> QED
    BY <2>1 DEF Inv, ResumeRegisters, TypeOK, Runs
<1>2. Lifecycle'
  BY DEF Inv, ResumeRegisters, StartRun, TypeOK, Lifecycle, WorkersJoined, NoRun,
    NotClosing
<1>3. StopFirst'
  BY DEF Inv, ResumeRegisters, StartRun, TypeOK, StopFirst, NoRun, NotClosing
<1>4. NoneLost'
  BY DEF Inv, ResumeRegisters, StartRun, TypeOK, NoneLost, Lifecycle, StopFirst,
    WorkersJoined, NoRun, NotClosing, Quiet, AllSpent, Spent, Queued, Has, InHand
<1>5. Custody' /\ Counting' /\ Accounts'
  BY QuietStep DEF Inv, ResumeRegisters, StartRun, TypeOK, NoRun
<1> QED
  BY <1>1, <1>2, <1>3, <1>4, <1>5 DEF Inv

LEMMA LoadFailsKeepsInv == ASSUME Inv, LoadFails PROVE Inv'
<1> USE DEF rows, handlers, history
<1>1. TypeOK'
  BY DEF Inv, LoadFails, TypeOK, NoRun, NotClosing, Unsettled
<1>2. Lifecycle'
  BY DEF Inv, LoadFails, TypeOK, Lifecycle, WorkersJoined, NoRun, NotClosing
<1>3. StopFirst'
  BY DEF Inv, LoadFails, TypeOK, StopFirst, NoRun, NotClosing
<1>4. NoneLost'
  BY DEF Inv, LoadFails, TypeOK, NoneLost, Lifecycle, StopFirst, WorkersJoined, NoRun,
    NotClosing, Quiet, AllSpent, Spent, Queued, Has, InHand
<1>5. Custody' /\ Counting' /\ Accounts'
  BY QuietStep DEF Inv, LoadFails, TypeOK, NoRun
<1> QED
  BY <1>1, <1>2, <1>3, <1>4, <1>5 DEF Inv

LEMMA SendCanceledKeepsInv == ASSUME Inv, SendCanceled PROVE Inv'
<1> USE DEF rows, handlers, history
<1>1. TypeOK'
  BY DEF Inv, SendCanceled, TypeOK, NoRun, NotClosing, Unsettled
<1>2. Lifecycle'
  BY DEF Inv, SendCanceled, TypeOK, Lifecycle, WorkersJoined, NoRun, NotClosing
<1>3. StopFirst'
  BY DEF Inv, SendCanceled, TypeOK, StopFirst, NoRun, NotClosing
<1>4. NoneLost'
  BY DEF Inv, SendCanceled, TypeOK, NoneLost, Lifecycle, StopFirst, WorkersJoined,
    NoRun, NotClosing, Quiet, AllSpent, Spent, Queued, Has, InHand
<1>5. Custody' /\ Counting' /\ Accounts'
  BY QuietStep DEF Inv, SendCanceled, TypeOK, NoRun
<1> QED
  BY <1>1, <1>2, <1>3, <1>4, <1>5 DEF Inv

LEMMA AfterSendKeepsInv == ASSUME Inv, AfterSend PROVE Inv'
<1> USE DEF rows, handlers, history
<1>1. TypeOK'
  BY DEF Inv, AfterSend, TypeOK, NoRun, NotClosing, Unsettled
<1>2. Lifecycle'
  BY DEF Inv, AfterSend, TypeOK, Lifecycle, WorkersJoined, NoRun, NotClosing
<1>3. StopFirst'
  BY DEF Inv, AfterSend, TypeOK, StopFirst, NoRun, NotClosing
<1>4. NoneLost'
  BY DEF Inv, AfterSend, TypeOK, NoneLost, Lifecycle, StopFirst, WorkersJoined, NoRun,
    NotClosing, Quiet, AllSpent, Spent, Queued, Has, InHand
<1>5. Custody' /\ Counting' /\ Accounts'
  BY QuietStep DEF Inv, AfterSend, TypeOK, NoRun
<1> QED
  BY <1>1, <1>2, <1>3, <1>4, <1>5 DEF Inv

LEMMA JoinKeepsInv == ASSUME Inv, Join PROVE Inv'
<1> USE DEF rows, handlers, history
<1>1. TypeOK'
  BY DEF Inv, Join, Ending, TypeOK, NoRun, NotClosing, Unsettled
<1>2. Lifecycle'
  BY DEF Inv, Join, Ending, TypeOK, Lifecycle, WorkersJoined, NoRun, NotClosing
<1>3. StopFirst'
  BY DEF Inv, Join, Ending, TypeOK, StopFirst, NoRun, NotClosing
<1>4. NoneLost'
  BY DEF Inv, Join, Ending, TypeOK, NoneLost, Lifecycle, StopFirst, WorkersJoined,
    NoRun, NotClosing, Quiet, AllSpent, Spent, Queued, Has, InHand
<1>5. Custody' /\ Counting' /\ Accounts'
  BY QuietStep DEF Inv, Join, Ending, TypeOK, NoRun
<1> QED
  BY <1>1, <1>2, <1>3, <1>4, <1>5 DEF Inv

LEMMA StopReadsKeepsInv == ASSUME Inv, StopReads PROVE Inv'
<1> USE DEF rows, handlers, history
<1>1. TypeOK'
  BY DEF Inv, StopReads, TypeOK, NoRun, NotClosing, Unsettled
<1>2. Lifecycle'
  BY DEF Inv, StopReads, TypeOK, Lifecycle, WorkersJoined, NoRun, NotClosing
<1>3. StopFirst'
  BY DEF Inv, StopReads, TypeOK, StopFirst, NoRun, NotClosing
<1>4. NoneLost'
  BY DEF Inv, StopReads, TypeOK, NoneLost, Lifecycle, StopFirst, WorkersJoined, NoRun,
    NotClosing, Quiet, AllSpent, Spent, Queued, Has, InHand
<1>5. Custody' /\ Counting' /\ Accounts'
  BY QuietStep DEF Inv, StopReads, TypeOK, NoRun
<1> QED
  BY <1>1, <1>2, <1>3, <1>4, <1>5 DEF Inv

LEMMA StopWritesKeepsInv == ASSUME Inv, StopWrites PROVE Inv'
<1> USE DEF rows, handlers, history
<1>1. TypeOK'
  <2>1. session' \in Sessions
    BY DEF Inv, StopWrites, WriteStop, TypeOK, Sessions
  <2> QED
    BY <2>1 DEF Inv, StopWrites, TypeOK, Sessions
<1>2. Lifecycle'
  BY DEF Inv, StopWrites, WriteStop, TypeOK, Lifecycle, WorkersJoined, NoRun,
    NotClosing
<1>3. StopFirst'
  BY DEF Inv, StopWrites, WriteStop, TypeOK, StopFirst, NoRun, NotClosing
<1>4. NoneLost'
  BY DEF Inv, StopWrites, WriteStop, TypeOK, NoneLost, Lifecycle, StopFirst,
    WorkersJoined, NoRun, NotClosing, Quiet, AllSpent, Spent, Queued, Has, InHand
<1>5. Custody' /\ Counting' /\ Accounts'
  BY QuietStep DEF Inv, StopWrites, WriteStop, TypeOK, NoRun
<1> QED
  BY <1>1, <1>2, <1>3, <1>4, <1>5 DEF Inv

LEMMA StopCancelsKeepsInv == ASSUME Inv, StopCancels PROVE Inv'
<1> USE DEF rows, handlers, history
<1>1. TypeOK'
  <2>1. run' \in Runs
    BY DEF Inv, StopCancels, CancelRun, TypeOK, Runs
  <2> QED
    BY <2>1 DEF Inv, StopCancels, TypeOK, Runs
<1>2. Lifecycle'
  BY DEF Inv, StopCancels, CancelRun, TypeOK, Lifecycle, WorkersJoined, NoRun,
    NotClosing
<1>3. StopFirst'
  BY DEF Inv, StopCancels, CancelRun, TypeOK, StopFirst, NoRun, NotClosing
<1>4. NoneLost'
  BY DEF Inv, StopCancels, CancelRun, TypeOK, NoneLost, Lifecycle, StopFirst,
    WorkersJoined, NoRun, NotClosing, Quiet, AllSpent, Spent, Queued, Has, InHand
<1>5. Custody' /\ Counting' /\ Accounts'
  BY QuietStep DEF Inv, StopCancels, CancelRun, TypeOK, NoRun
<1> QED
  BY <1>1, <1>2, <1>3, <1>4, <1>5 DEF Inv

LEMMA RestartKeepsInv == ASSUME Inv, Restart PROVE Inv'
<1> USE DEF rows, handlers, history
<1>1. TypeOK'
  BY DEF Inv, Restart, TypeOK, NoRun, NotClosing, Unsettled
<1>2. Lifecycle'
  BY DEF Inv, Restart, TypeOK, Lifecycle, WorkersJoined, NoRun, NotClosing
<1>3. StopFirst'
  BY DEF Inv, Restart, TypeOK, StopFirst, NoRun, NotClosing
<1>4. NoneLost'
  BY DEF Inv, Restart, TypeOK, NoneLost, Lifecycle, StopFirst, WorkersJoined, NoRun,
    NotClosing, Quiet, AllSpent, Spent, Queued, Has, InHand
<1>5. Custody' /\ Counting' /\ Accounts'
  BY QuietStep DEF Inv, Restart, TypeOK, NoRun
<1> QED
  BY <1>1, <1>2, <1>3, <1>4, <1>5 DEF Inv

-----------------------------------------------------------------------------
(* What the helpers of the workers do. *)

LEMMA Typed ==
  ASSUME Inv
  PROVE  workers \in Crew /\ jobs \in JobRows
<1>1. workers \in Crew
  BY DEF Inv, TypeOK, Crew, WorkerRow, Phases
<1>2. jobs \in JobRows
  BY DEF Inv, TypeOK, JobRows, JobRow, Statuses
<1> QED
  BY <1>1, <1>2

LEMMA MoveToEffect ==
  ASSUME workers \in Crew, NEW w \in Workers, NEW phase \in Phases, MoveTo(w, phase)
  PROVE  /\ workers' \in Crew
         /\ \A v \in Workers : v # w => workers'[v] = workers[v]
         /\ workers'[w].phase = phase
         /\ workers'[w].job = workers[w].job
         /\ workers'[w].attempt = workers[w].attempt
         /\ workers'[w].answer = workers[w].answer
<1>1. workers' = [workers EXCEPT ![w] = [workers[w] EXCEPT !.phase = phase]]
  BY DEF MoveTo
<1>2. [workers[w] EXCEPT !.phase = phase] \in WorkerRow
  BY DEF Crew, WorkerRow
<1> QED
  BY <1>1, <1>2 DEF Crew, WorkerRow

LEMMA ReleaseEffect ==
  ASSUME workers \in Crew, NEW w \in Workers, Release(w)
  PROVE  /\ workers' \in Crew
         /\ \A v \in Workers : v # w => workers'[v] = workers[v]
         /\ workers'[w].phase = "idle"
<1>1. Idle \in WorkerRow
  BY DEF Idle, WorkerRow, Phases
<1> QED
  BY <1>1 DEF Release, Crew, Idle

LEMMA SetJobEffect ==
  ASSUME jobs \in JobRows, NEW j \in Jobs, NEW status \in Statuses, SetJob(j, status)
  PROVE  /\ jobs' \in JobRows
         /\ \A i \in Jobs : i # j => jobs'[i] = jobs[i]
         /\ jobs'[j].status = status
         /\ jobs'[j].sent = jobs[j].sent
<1>1. jobs' = [jobs EXCEPT ![j] = [jobs[j] EXCEPT !.status = status]]
  BY DEF SetJob
<1>2. [jobs[j] EXCEPT !.status = status] \in JobRow
  BY DEF JobRows, JobRow
<1> QED
  BY <1>1, <1>2 DEF JobRows, JobRow

-----------------------------------------------------------------------------
(* A step of a worker with a job in hand. *)

\* The step concerns one worker and its job, which it may let go when the job
\* is spent or the session is to stop; a settled session is not probed.
Works(w, j) ==
  /\ workers[w].job = j
  /\ workers[w].phase \in InHand
  /\ workers' \in Crew /\ jobs' \in JobRows
  /\ evidence' \in [Jobs -> Nat] /\ probes' \in [Jobs -> Nat]
  /\ \A v \in Workers : v # w => workers'[v] = workers[v]
  /\ \A i \in Jobs : i # j =>
       /\ jobs'[i] = jobs[i]
       /\ evidence'[i] = evidence[i]
       /\ probes'[i] = probes[i]
  /\ workers'[w].phase \in InHand => workers'[w].job = j
  /\ workers'[w].phase \notin InHand => session.stop \/ Spent(j)'
  /\ workers'[w].phase # "cancelling"
  /\ AttemptOf(w)'
  /\ Probed(j)'
  /\ jobs'[j].sent <= evidence'[j]
  /\ Logged =>
       /\ workers'[w].phase \in {"idle", "received", "starting", "gone"}
       /\ workers'[w].phase = "starting" => workers'[w].attempt > MaxAttempts
       /\ evidence' = evidence
       /\ jobs'[j].status = "succeeded" <=> jobs[j].status = "succeeded"
  /\ Spent(j) => Spent(j)'
  /\ UNCHANGED <<session, report, logs, accounted, channelGone, handlers, run, closing,
                 crashes>>

LEMMA WorksKeepsInv ==
  ASSUME Inv, NEW w \in Workers, NEW j \in Jobs, Works(w, j)
  PROVE  Inv'
<1> USE DEF handlers
<1>1. /\ workers[w].job = j
      /\ \A v \in Workers : v # w => ~Has(v, j)
      /\ run.stage \in {"sending", "sent"} =>
           \A item \in run.queue : item.job # j
  BY DEF Inv, Custody, Has, Works
<1>2. TypeOK'
  BY DEF Inv, TypeOK, Works, Crew, WorkerRow, JobRows, JobRow, Phases, Statuses,
    Unsettled
<1>3. Lifecycle'
  BY DEF Inv, Works, Lifecycle, WorkersJoined, InHand
<1>4. StopFirst'
  BY DEF Inv, Works, StopFirst
<1>5. Custody'
  <2>1. ASSUME NEW v \in Workers, workers'[v].phase \in InHand
        PROVE  workers[v].phase \in InHand /\ workers'[v].job = workers[v].job
    BY <2>1 DEF Works
  <2>2. \A v \in Workers : workers'[v].phase \in InHand => workers'[v].job \in Jobs
    BY <2>1 DEF Inv, Custody
  <2>3. \A u, v \in Workers :
          workers'[u].phase \in InHand /\ workers'[v].phase \in InHand
            /\ workers'[v].job = workers'[u].job => v = u
    BY <2>1 DEF Inv, Custody, Has
  <2>4. ASSUME run.stage \in {"sending", "sent"}, NEW item \in run.queue
        PROVE  /\ item.sent = jobs'[item.job].sent
               /\ jobs'[item.job].status = "pending"
               /\ \A v \in Workers : ~Has(v, item.job)'
    <3>1. item.job \in Jobs /\ item.job # j
      BY <1>1, <2>4 DEF Inv, TypeOK
    <3>2. jobs'[item.job] = jobs[item.job]
      BY <3>1 DEF Works
    <3>3. \A v \in Workers : ~Has(v, item.job)'
      BY <2>1, <2>4 DEF Inv, Custody, Has
    <3> QED
      BY <2>4, <3>2, <3>3 DEF Inv, Custody
  <2>5. run' = run
    BY DEF Works
  <2> QED
    BY <2>1, <2>2, <2>3, <2>4, <2>5 DEF Custody, Has
<1>6. Counting'
  <2>1. ASSUME NEW v \in Workers, v # w PROVE AttemptOf(v)'
    <3>1. CASE workers[v].phase \in InHand
      BY <1>1, <2>1, <3>1 DEF Inv, Works, Counting, Custody, AttemptOf, Has
    <3>2. CASE workers[v].phase \notin InHand
      BY <2>1, <3>2 DEF Works, AttemptOf, InHand
    <3> QED
      BY <3>1, <3>2
  <2>2. ASSUME NEW i \in Jobs, i # j
        PROVE  Probed(i)' /\ jobs'[i].sent <= evidence'[i]
    BY <2>2 DEF Inv, Works, Counting, Probed
  <2>3. AttemptOf(w)' /\ Probed(j)'
        /\ jobs'[j].sent <= evidence'[j]
    BY DEF Works
  <2>4. \A v \in Workers : AttemptOf(v)'
    BY <2>1, <2>3
  <2>5. ASSUME NEW i \in Jobs PROVE Probed(i)' /\ jobs'[i].sent <= evidence'[i]
    BY <2>2, <2>3 DEF Probed
  <2> QED
    BY <2>4, <2>5 DEF Counting
<1>7. ASSUME NEW i \in Jobs, Spent(i) PROVE Spent(i)'
  <2>1. CASE i = j
    BY <1>7, <2>1 DEF Works
  <2>2. CASE i # j
    BY <1>7, <2>2 DEF Works, Spent
  <2> QED
    BY <2>1, <2>2
<1>8. Quiet => Quiet'
  BY <1>7 DEF Works, Quiet, AllSpent
<1>9. NoneLost'
  <2>1. ASSUME NEW i \in Jobs, NEW v \in Workers, Has(v, i), ~session.stop
        PROVE  Spent(i)' \/ Has(v, i)'
    <3>1. CASE v = w
      BY <2>1, <3>1 DEF Works, Has
    <3>2. CASE v # w
      BY <2>1, <3>2 DEF Works, Has
    <3> QED
      BY <3>1, <3>2
  <2>2. ASSUME NEW i \in Jobs, Queued(i) PROVE Queued(i)'
    BY <2>2 DEF Works, Queued
  <2>3. AllSpent => AllSpent'
    BY <1>7 DEF AllSpent
  <2>4. session' = session /\ run' = run /\ closing' = closing
    BY DEF Works
  <2>5. ASSUME run.stage \in {"sending", "sent", "closed"}, ~session.stop, NEW i \in Jobs
        PROVE  (Spent(i) \/ Queued(i) \/ \E v \in Workers : Has(v, i))'
    <3>1. Spent(i) \/ Queued(i) \/ \E v \in Workers : Has(v, i)
      BY <2>5 DEF Inv, NoneLost
    <3> QED
      BY <1>7, <2>1, <2>2, <2>5, <3>1
  <2> QED
    BY <1>8, <2>3, <2>4, <2>5 DEF Inv, NoneLost
<1>10. Accounts'
  <2>1. Logged' <=> Logged
    BY DEF Works, Logged
  <2>2. Logged => Silent'
    BY DEF Inv, Works, Accounts, Silent
  <2> QED
    BY <1>1, <1>8, <2>1, <2>2 DEF Inv, Works, Accounts
<1> QED
  BY <1>2, <1>3, <1>4, <1>5, <1>6, <1>9, <1>10 DEF Inv

\* What the invariant says of a worker with a job in hand.
Hand(w, j) ==
  /\ workers[w].job = j
  /\ workers[w].attempt \in Nat
  /\ jobs[j].sent \in 0..MaxAttempts
  /\ evidence \in [Jobs -> Nat] /\ probes \in [Jobs -> Nat] /\ crashes \in Nat
  /\ AttemptOf(w) /\ Probed(j)
  /\ jobs[j].sent <= evidence[j]
  /\ Logged => Quiet /\ Silent
  /\ ~channelGone
  /\ \A v \in Workers : v # w => ~Has(v, j)

LEMMA HandKnown ==
  ASSUME Inv, NEW w \in Workers, workers[w].phase \in InHand
  PROVE  \E j \in Jobs : Hand(w, j)
<1>1. PICK j \in Jobs : workers[w].job = j
  BY DEF Inv, Custody
<1>2. ~channelGone
  BY DEF Inv, Lifecycle, WorkersJoined, InHand
<1>3. crashes \in Nat /\ workers[w].attempt \in Nat /\ jobs[j].sent \in 0..MaxAttempts
  BY Typed DEF Inv, TypeOK, Crew, WorkerRow, JobRows, JobRow
<1>4. \A v \in Workers : v # w => ~Has(v, j)
  BY <1>1 DEF Inv, Custody, Has
<1> QED
  BY <1>1, <1>2, <1>3, <1>4 DEF Hand, Inv, TypeOK, Counting, Accounts

LEMMA ReceiveKeepsInv ==
  ASSUME Inv, NEW w \in Workers, Receive(w)
  PROVE  Inv'
<1>1. workers[w].phase = "received"
  BY DEF Receive
<1>2. PICK j \in Jobs : Hand(w, j)
  BY <1>1, HandKnown DEF InHand
<1> USE <1>1, <1>2, Typed DEF InHand, Hand
<1>3. /\ workers' \in Crew
      /\ \A v \in Workers : v # w => workers'[v] = workers[v]
      /\ workers'[w].phase = IF StopSeen THEN "gone" ELSE "starting"
      /\ workers'[w].job = workers[w].job
      /\ workers'[w].attempt = workers[w].attempt
  BY MoveToEffect DEF Phases, Receive
<1>4. StopSeen => session.stop
  BY DEF Inv, StopFirst, StopSeen
<1>5. UNCHANGED <<session, jobs, evidence, report, logs, accounted, probes, crashes,
                  channelGone, handlers, run, closing>>
  BY DEF Receive, history, rows
<1>6. jobs[j].status = "pending" /\ workers[w].attempt = jobs[j].sent + 1
  BY DEF AttemptOf
<1>7. Logged /\ ~session.stop => workers[w].attempt > MaxAttempts
  BY <1>6 DEF Quiet, AllSpent, Spent, Unsettled
<1>8. AttemptOf(w)'
  BY <1>3, <1>5, <1>6 DEF AttemptOf
<1>9. Probed(j)'
  BY <1>3, <1>5 DEF Probed
<1>10. Spent(j) => Spent(j)'
  BY <1>5 DEF Spent
<1>11. Works(w, j)
  BY <1>3, <1>4, <1>5, <1>7, <1>8, <1>9, <1>10 DEF Works, StopSeen
<1> QED
  BY <1>11, WorksKeepsInv

LEMMA StartJobKeepsInv ==
  ASSUME Inv, NEW w \in Workers, StartJob(w)
  PROVE  Inv'
<1>1. workers[w].phase = "starting"
  BY DEF StartJob
<1>2. PICK j \in Jobs : Hand(w, j)
  BY <1>1, HandKnown DEF InHand
<1> USE <1>1, <1>2, Typed DEF InHand, Hand
<1>3. /\ jobs' \in JobRows
      /\ \A i \in Jobs : i # j => jobs'[i] = jobs[i]
      /\ jobs'[j].status = "running"
      /\ jobs'[j].sent = jobs[j].sent
  BY SetJobEffect DEF StartJob, Statuses, Unsettled
<1>4. UNCHANGED <<session, evidence, report, logs, accounted, probes, crashes,
                  channelGone, handlers, run, closing>>
  BY DEF StartJob, history
<1>5. jobs[j].status = "pending" /\ workers[w].attempt = jobs[j].sent + 1
  BY DEF AttemptOf
<1>6. Spent(j) => Spent(j)'
  BY <1>3, <1>5 DEF Spent, Unsettled
<1>7. CASE workers[w].attempt <= MaxAttempts
  <2>1. /\ workers' \in Crew
        /\ \A v \in Workers : v # w => workers'[v] = workers[v]
        /\ workers'[w].phase = "checking"
        /\ workers'[w].job = workers[w].job
        /\ workers'[w].attempt = workers[w].attempt
    BY <1>7, MoveToEffect DEF StartJob, Phases
  <2>2. AttemptOf(w)'
    BY <1>3, <1>4, <1>5, <1>7, <2>1 DEF AttemptOf
  <2>3. Probed(j)'
    BY <1>3, <1>4, <2>1 DEF Probed
  <2>4. ~Logged
    BY <1>7 DEF Silent
  <2> QED
    BY <1>3, <1>4, <1>6, <2>1, <2>2, <2>3, <2>4, WorksKeepsInv DEF Works
<1>8. CASE workers[w].attempt > MaxAttempts
  <2>1. /\ workers' \in Crew
        /\ \A v \in Workers : v # w => workers'[v] = workers[v]
        /\ workers'[w].phase = "idle"
    BY <1>8, ReleaseEffect DEF StartJob
  <2>2. AttemptOf(w)'
    BY <2>1 DEF AttemptOf
  <2>3. Probed(j)'
    BY <1>3, <1>4, <2>1 DEF Probed
  <2>4. Spent(j)'
    BY <1>3, <1>5, <1>8 DEF Spent
  <2> QED
    BY <1>3, <1>4, <1>5, <1>6, <2>1, <2>2, <2>3, <2>4, WorksKeepsInv DEF Works
<1> QED
  BY <1>7, <1>8

LEMMA CancelJobEffect ==
  ASSUME workers \in Crew, jobs \in JobRows, NEW w \in Workers, NEW j \in Jobs,
         workers[w].job = j, CancelJob(w)
  PROVE  /\ workers' \in Crew /\ jobs' \in JobRows
         /\ \A v \in Workers : v # w => workers'[v] = workers[v]
         /\ workers'[w].phase = "idle"
         /\ \A i \in Jobs : i # j => jobs'[i] = jobs[i]
         /\ jobs'[j].status = "cancelled" /\ jobs'[j].sent = jobs[j].sent
  BY SetJobEffect, ReleaseEffect DEF CancelJob, Statuses

LEMMA CheckStopKeepsInv ==
  ASSUME Inv, NEW w \in Workers, CheckStop(w)
  PROVE  Inv'
<1>1. workers[w].phase = "checking"
  BY DEF CheckStop
<1>2. PICK j \in Jobs : Hand(w, j)
  BY <1>1, HandKnown DEF InHand
<1> USE <1>1, <1>2, Typed DEF InHand, Hand
<1>3. UNCHANGED <<session, evidence, report, logs, accounted, probes, crashes,
                  channelGone, handlers, run, closing>>
  BY DEF CheckStop, history
<1>4. ~Logged
  BY DEF Silent
<1>5. CASE CancelJob(w)
  <2>1. /\ workers' \in Crew /\ jobs' \in JobRows
        /\ \A v \in Workers : v # w => workers'[v] = workers[v]
        /\ workers'[w].phase = "idle"
        /\ \A i \in Jobs : i # j => jobs'[i] = jobs[i]
        /\ jobs'[j].status = "cancelled" /\ jobs'[j].sent = jobs[j].sent
    BY <1>5, CancelJobEffect
  <2>2. AttemptOf(w)'
    BY <2>1 DEF AttemptOf
  <2>3. Probed(j)'
    BY <1>3, <2>1 DEF Probed
  <2>4. Spent(j)'
    BY <2>1 DEF Spent, Unsettled
  <2> QED
    BY <1>3, <1>4, <2>1, <2>2, <2>3, <2>4, WorksKeepsInv DEF Works
<1>6. CASE MoveTo(w, "probing") /\ UNCHANGED jobs
  <2>1. /\ workers' \in Crew
        /\ \A v \in Workers : v # w => workers'[v] = workers[v]
        /\ workers'[w].phase = "probing"
        /\ workers'[w].job = workers[w].job
        /\ workers'[w].attempt = workers[w].attempt
    BY <1>6, MoveToEffect DEF Phases
  <2>2. AttemptOf(w)'
    BY <1>3, <1>6, <2>1 DEF AttemptOf
  <2>3. Probed(j)'
    BY <1>3, <1>6, <2>1 DEF Probed
  <2>4. Spent(j) => Spent(j)'
    BY <1>6 DEF Spent
  <2> QED
    BY <1>3, <1>4, <1>6, <2>1, <2>2, <2>3, <2>4, WorksKeepsInv DEF Works
<1> QED
  BY <1>5, <1>6 DEF CheckStop

LEMMA ProbeKeepsInv ==
  ASSUME Inv, NEW w \in Workers,
         NEW answer \in Answers, NEW sent \in BOOLEAN,
         Probe(w, answer, sent)
  PROVE  Inv'
<1>1. workers[w].phase = "probing"
  BY DEF Probe
<1>2. PICK j \in Jobs : Hand(w, j)
  BY <1>1, HandKnown DEF InHand
<1> USE <1>1, <1>2, Typed DEF InHand, Hand
<1>3. UNCHANGED <<session, jobs, evidence, report, logs, accounted, crashes,
                  channelGone, handlers, run, closing>>
  BY DEF Probe, rows
<1>4. ~Logged
  BY DEF Silent
<1>5. /\ workers' \in Crew
      /\ \A v \in Workers : v # w => workers'[v] = workers[v]
      /\ workers'[w].phase = "persisting"
      /\ workers'[w].job = workers[w].job
      /\ workers'[w].attempt = workers[w].attempt
  <2>1. workers' = [workers EXCEPT
          ![w] = [workers[w] EXCEPT !.phase = "persisting", !.answer = answer]]
    BY DEF Probe
  <2>2. [workers[w] EXCEPT !.phase = "persisting", !.answer = answer] \in WorkerRow
    BY DEF Crew, WorkerRow, Phases
  <2> QED
    BY <2>1, <2>2 DEF Crew, WorkerRow
<1>6. probes' = IF sent THEN [probes EXCEPT ![j] = probes[j] + 1] ELSE probes
  BY DEF Probe
<1>7. /\ probes' \in [Jobs -> Nat]
      /\ \A i \in Jobs : i # j => probes'[i] = probes[i]
      /\ probes'[j] <= probes[j] + 1
  <2>1. CASE sent
    BY <1>6, <2>1
  <2>2. CASE ~sent
    BY <1>6, <2>2
  <2> QED
    BY <2>1, <2>2
<1>8. probes[j] <= jobs[j].sent + crashes
  BY DEF Probed, Has
<1>9. Probed(j)'
  BY <1>3, <1>5, <1>7, <1>8 DEF Probed
<1>10. AttemptOf(w)'
  BY <1>3, <1>5 DEF AttemptOf
<1>11. Spent(j) => Spent(j)'
  BY <1>3 DEF Spent
<1> QED
  BY <1>3, <1>4, <1>5, <1>7, <1>9, <1>10, <1>11, WorksKeepsInv DEF Works

LEMMA PersistAttemptKeepsInv ==
  ASSUME Inv, NEW w \in Workers, PersistAttempt(w)
  PROVE  Inv'
<1>1. workers[w].phase = "persisting"
  BY DEF PersistAttempt
<1>2. PICK j \in Jobs : Hand(w, j)
  BY <1>1, HandKnown DEF InHand
<1> USE <1>1, <1>2, Typed DEF InHand, Hand
<1>3. UNCHANGED <<session, jobs, report, logs, accounted, probes, crashes,
                  channelGone, handlers, run, closing>>
  BY DEF PersistAttempt, history
<1>4. ~Logged
  BY DEF Silent
<1>5. /\ workers' \in Crew
      /\ \A v \in Workers : v # w => workers'[v] = workers[v]
      /\ workers'[w].phase = "counting"
      /\ workers'[w].job = workers[w].job
      /\ workers'[w].attempt = workers[w].attempt
  BY MoveToEffect DEF PersistAttempt, Phases
<1>6. evidence' = [evidence EXCEPT ![j] = evidence[j] + 1]
  BY DEF PersistAttempt, AddEvidence
<1>7. AttemptOf(w)'
  BY <1>3, <1>5, <1>6 DEF AttemptOf
<1>8. Probed(j)'
  BY <1>3, <1>5 DEF Probed
<1>9. Spent(j) => Spent(j)'
  BY <1>3 DEF Spent
<1> QED
  BY <1>3, <1>4, <1>5, <1>6, <1>7, <1>8, <1>9, WorksKeepsInv DEF Works

LEMMA CountAttemptKeepsInv ==
  ASSUME Inv, NEW w \in Workers, CountAttempt(w)
  PROVE  Inv'
<1>1. workers[w].phase = "counting"
  BY DEF CountAttempt
<1>2. PICK j \in Jobs : Hand(w, j)
  BY <1>1, HandKnown DEF InHand
<1> USE <1>1, <1>2, Typed DEF InHand, Hand
<1>3. UNCHANGED <<session, evidence, report, logs, accounted, probes, crashes,
                  channelGone, handlers, run, closing>>
  BY DEF CountAttempt, history
<1>4. ~Logged
  BY DEF Silent
<1>5. /\ workers' \in Crew
      /\ \A v \in Workers : v # w => workers'[v] = workers[v]
      /\ workers'[w].phase = "settling"
      /\ workers'[w].job = workers[w].job
      /\ workers'[w].attempt = workers[w].attempt
  BY MoveToEffect DEF CountAttempt, Phases
<1>6. workers[w].attempt = jobs[j].sent + 1 /\ workers[w].attempt \in 0..MaxAttempts
  BY DEF AttemptOf
<1>7. /\ jobs' \in JobRows
      /\ \A i \in Jobs : i # j => jobs'[i] = jobs[i]
      /\ jobs'[j].status = jobs[j].status
      /\ jobs'[j].sent = workers[w].attempt
  <2>1. jobs' = [jobs EXCEPT ![j] = [jobs[j] EXCEPT !.sent = workers[w].attempt]]
    BY DEF CountAttempt
  <2>2. [jobs[j] EXCEPT !.sent = workers[w].attempt] \in JobRow
    BY <1>6 DEF JobRows, JobRow
  <2> QED
    BY <2>1, <2>2 DEF JobRows, JobRow
<1>8. AttemptOf(w)'
  BY <1>5, <1>6, <1>7 DEF AttemptOf
<1>9. Probed(j)'
  BY <1>3, <1>6, <1>7 DEF Probed
<1>10. jobs'[j].sent <= evidence'[j]
  BY <1>3, <1>7 DEF AttemptOf
<1>11. Spent(j) => Spent(j)'
  BY <1>6, <1>7 DEF Spent
<1> QED
  BY <1>3, <1>4, <1>5, <1>7, <1>8, <1>9, <1>10, <1>11, WorksKeepsInv DEF Works

LEMMA SettleAttemptKeepsInv ==
  ASSUME Inv, NEW w \in Workers, SettleAttempt(w)
  PROVE  Inv'
<1>1. workers[w].phase = "settling"
  BY DEF SettleAttempt
<1>2. PICK j \in Jobs : Hand(w, j)
  BY <1>1, HandKnown DEF InHand
<1> USE <1>1, <1>2, Typed DEF InHand, Hand
<1>3. UNCHANGED <<session, evidence, report, logs, accounted, probes, crashes,
                  channelGone, handlers, run, closing>>
  BY DEF SettleAttempt, history
<1>4. ~Logged
  BY DEF Silent
<1>5. workers[w].attempt = jobs[j].sent
  BY DEF AttemptOf
<1>6. CASE Retries(w)
  <2>1. jobs' = jobs
    BY <1>6 DEF SettleAttempt
  <2>2. /\ workers' \in Crew
        /\ \A v \in Workers : v # w => workers'[v] = workers[v]
        /\ workers'[w].phase = "backoff"
        /\ workers'[w].job = workers[w].job
        /\ workers'[w].attempt = workers[w].attempt
    BY <1>6, MoveToEffect DEF SettleAttempt, Phases
  <2>3. AttemptOf(w)'
    BY <1>5, <1>6, <2>1, <2>2 DEF AttemptOf, Retries
  <2>4. Probed(j)'
    BY <1>3, <2>1 DEF Probed, Has
  <2>5. Spent(j) => Spent(j)'
    BY <2>1 DEF Spent
  <2> QED
    BY <1>3, <1>4, <2>1, <2>2, <2>3, <2>4, <2>5, WorksKeepsInv DEF Works
<1>7. CASE ~Retries(w)
  <2>1. PICK status \in {"succeeded", "error"} : SetJob(j, status)
    BY <1>7 DEF SettleAttempt
  <2>2. /\ jobs' \in JobRows
        /\ \A i \in Jobs : i # j => jobs'[i] = jobs[i]
        /\ jobs'[j].status = status /\ jobs'[j].sent = jobs[j].sent
    BY <2>1, SetJobEffect DEF Statuses
  <2>3. /\ workers' \in Crew
        /\ \A v \in Workers : v # w => workers'[v] = workers[v]
        /\ workers'[w].phase \in {"requesting", "idle"}
    <3>1. CASE workers[w].answer = "auth"
      BY <1>7, <3>1, MoveToEffect DEF SettleAttempt, Phases
    <3>2. CASE workers[w].answer # "auth"
      BY <1>7, <3>2, ReleaseEffect DEF SettleAttempt
    <3> QED
      BY <3>1, <3>2
  <2>4. AttemptOf(w)'
    BY <2>3 DEF AttemptOf
  <2>5. Probed(j)'
    BY <1>3, <2>2 DEF Probed, Has
  <2>6. Spent(j)'
    BY <2>1, <2>2 DEF Spent, Unsettled
  <2> QED
    BY <1>3, <1>4, <2>2, <2>3, <2>4, <2>5, <2>6, WorksKeepsInv DEF Works
<1> QED
  BY <1>6, <1>7

LEMMA BackoffElapsesKeepsInv ==
  ASSUME Inv, NEW w \in Workers, BackoffElapses(w)
  PROVE  Inv'
<1>1. workers[w].phase = "backoff"
  BY DEF BackoffElapses
<1>2. PICK j \in Jobs : Hand(w, j)
  BY <1>1, HandKnown DEF InHand
<1> USE <1>1, <1>2, Typed DEF InHand, Hand
<1>3. UNCHANGED <<session, jobs, evidence, report, logs, accounted, probes, crashes,
                  channelGone, handlers, run, closing>>
  BY DEF BackoffElapses, rows, history
<1>4. ~Logged
  BY DEF Silent
<1>5. workers[w].attempt = jobs[j].sent /\ workers[w].attempt < MaxAttempts
  BY DEF AttemptOf
<1>6. /\ workers' \in Crew
      /\ \A v \in Workers : v # w => workers'[v] = workers[v]
      /\ workers'[w].phase = "checking"
      /\ workers'[w].job = workers[w].job
      /\ workers'[w].attempt = workers[w].attempt + 1
  <2>1. workers' = [workers EXCEPT
          ![w] = [workers[w] EXCEPT !.phase = "checking",
                                    !.attempt = workers[w].attempt + 1, !.answer = "none"]]
    BY DEF BackoffElapses
  <2>2. [workers[w] EXCEPT !.phase = "checking",
                           !.attempt = workers[w].attempt + 1, !.answer = "none"]
         \in WorkerRow
    <3>1. workers[w] \in WorkerRow
      BY DEF Crew
    <3>2. workers[w].attempt + 1 \in 0..(MaxAttempts + 1)
      BY <1>5
    <3> QED
      BY <3>1, <3>2 DEF WorkerRow, Phases
  <2> QED
    BY <2>1, <2>2 DEF Crew, WorkerRow
<1>7. AttemptOf(w)'
  BY <1>3, <1>5, <1>6 DEF AttemptOf
<1>8. Probed(j)'
  BY <1>3 DEF Probed, Has
<1>9. Spent(j) => Spent(j)'
  BY <1>3 DEF Spent
<1> QED
  BY <1>3, <1>4, <1>6, <1>7, <1>8, <1>9, WorksKeepsInv DEF Works

LEMMA BackoffCanceledKeepsInv ==
  ASSUME Inv, NEW w \in Workers, BackoffCanceled(w)
  PROVE  Inv'
<1>1. workers[w].phase = "backoff"
  BY DEF BackoffCanceled
<1>2. PICK j \in Jobs : Hand(w, j)
  BY <1>1, HandKnown DEF InHand
<1> USE <1>1, <1>2, Typed DEF InHand, Hand
<1>3. UNCHANGED <<session, evidence, report, logs, accounted, probes, crashes,
                  channelGone, handlers, run, closing>>
  BY DEF BackoffCanceled, history
<1>4. ~Logged
  BY DEF Silent
<1>5. CancelJob(w)
  BY DEF BackoffCanceled
<1> QED
  <2>1. /\ workers' \in Crew /\ jobs' \in JobRows
        /\ \A v \in Workers : v # w => workers'[v] = workers[v]
        /\ workers'[w].phase = "idle"
        /\ \A i \in Jobs : i # j => jobs'[i] = jobs[i]
        /\ jobs'[j].status = "cancelled" /\ jobs'[j].sent = jobs[j].sent
    BY <1>5, CancelJobEffect
  <2>2. AttemptOf(w)'
    BY <2>1 DEF AttemptOf
  <2>3. Probed(j)'
    BY <1>3, <2>1 DEF Probed
  <2>4. Spent(j)'
    BY <2>1 DEF Spent, Unsettled
  <2> QED
    BY <1>3, <1>4, <2>1, <2>2, <2>3, <2>4, WorksKeepsInv DEF Works

LEMMA WorkerWritesStopKeepsInv ==
  ASSUME Inv, NEW w \in Workers, WorkerWritesStop(w)
  PROVE  Inv'
<1> USE Typed DEF rows, handlers, history
<1>1. /\ workers' \in Crew
      /\ \A v \in Workers : v # w => workers'[v] = workers[v]
      /\ workers[w].phase = "requesting" /\ workers'[w].phase = "cancelling"
      /\ workers'[w].job = workers[w].job
  BY MoveToEffect DEF WorkerWritesStop, Phases
<1>2. UNCHANGED <<jobs, evidence, report, logs, accounted, probes, crashes, channelGone,
                  handlers, run, closing>>
  BY DEF WorkerWritesStop
<1>3. session' \in Sessions /\ session'.status = session.status /\ session'.stop
  BY DEF WorkerWritesStop, WriteStop, Inv, TypeOK, Sessions
<1>4. TypeOK'
  BY <1>1, <1>2, <1>3 DEF Inv, TypeOK, Crew, WorkerRow, Phases, Sessions, Runs
<1>5. Lifecycle'
  BY <1>1, <1>2, <1>3 DEF Inv, Lifecycle, WorkersJoined
<1>6. StopFirst'
  BY <1>1, <1>2, <1>3 DEF Inv, StopFirst
<1>7. Custody'
  BY <1>1, <1>2, <1>3 DEF Inv, Custody, Has, InHand
<1>8. Counting'
  <2>1. \A v \in Workers : AttemptOf(v)'
    BY <1>1, <1>2 DEF Inv, Counting, AttemptOf
  <2>2. \A i \in Jobs : Probed(i)'
    BY <1>1, <1>2 DEF Inv, Counting, Probed
  <2> QED
    BY <1>2, <2>1, <2>2 DEF Inv, Counting
<1>9. NoneLost'
  BY <1>1, <1>2, <1>3 DEF Inv, NoneLost, Quiet, AllSpent, Spent, Queued, Has, InHand
<1>10. Accounts'
  BY <1>1, <1>2, <1>3 DEF Inv, Accounts, Logged, Silent
<1> QED
  BY <1>4, <1>5, <1>6, <1>7, <1>8, <1>9, <1>10 DEF Inv

LEMMA WorkerCancelsRunKeepsInv ==
  ASSUME Inv, NEW w \in Workers, WorkerCancelsRun(w)
  PROVE  Inv'
<1> USE Typed DEF rows, handlers, history
<1>1. /\ workers' \in Crew
      /\ \A v \in Workers : v # w => workers'[v] = workers[v]
      /\ workers[w].phase = "cancelling" /\ workers'[w].phase = "gone"
      /\ workers'[w].job = workers[w].job
  BY MoveToEffect DEF WorkerCancelsRun, Phases
<1>2. UNCHANGED <<session, jobs, evidence, report, logs, accounted, probes, crashes,
                  channelGone, handlers, closing>>
  BY DEF WorkerCancelsRun
<1>3. /\ run' \in Runs /\ run'.stage = run.stage /\ run'.queue = run.queue
      /\ session.stop
  BY DEF WorkerCancelsRun, CancelRun, Inv, TypeOK, Runs, StopFirst
<1>4. TypeOK'
  BY <1>1, <1>2, <1>3 DEF Inv, TypeOK, Crew, WorkerRow, Phases, Sessions, Runs
<1>5. Lifecycle'
  BY <1>1, <1>2, <1>3 DEF Inv, Lifecycle, WorkersJoined
<1>6. StopFirst'
  BY <1>1, <1>2, <1>3 DEF Inv, StopFirst
<1>7. Custody'
  BY <1>1, <1>2, <1>3 DEF Inv, Custody, Has, InHand
<1>8. Counting'
  <2>1. \A v \in Workers : AttemptOf(v)'
    BY <1>1, <1>2 DEF Inv, Counting, AttemptOf
  <2>2. \A i \in Jobs : Probed(i)'
    BY <1>1, <1>2 DEF Inv, Counting, Probed
  <2> QED
    BY <1>2, <2>1, <2>2 DEF Inv, Counting
<1>9. NoneLost'
  BY <1>1, <1>2, <1>3 DEF Inv, NoneLost, Quiet, AllSpent, Spent, Queued, Has, InHand
<1>10. Accounts'
  BY <1>1, <1>2, <1>3 DEF Inv, Accounts, Logged, Silent
<1> QED
  BY <1>4, <1>5, <1>6, <1>7, <1>8, <1>9, <1>10 DEF Inv

LEMMA SendKeepsInv ==
  ASSUME Inv, NEW w \in Workers, Send(w)
  PROVE  Inv'
<1> USE Typed DEF rows, handlers, history
<1>1. PICK item \in run.queue :
        /\ workers' = [workers EXCEPT ![w] = [phase |-> "received", job |-> item.job,
                                             attempt |-> item.sent + 1, answer |-> "none"]]
        /\ run' = [run EXCEPT !.stage = "sent", !.queue = run.queue \ {item}]
  BY DEF Send
<1>2. UNCHANGED <<session, jobs, evidence, report, logs, accounted, probes, crashes,
                  channelGone, handlers, closing>>
  BY DEF Send
<1>3. run.stage = "sending" /\ workers[w].phase = "idle" /\ ~channelGone
  BY DEF Send, Inv, Lifecycle
<1>4. /\ item.job \in Jobs /\ item.sent \in 0..MaxAttempts
      /\ item.sent = jobs[item.job].sent
      /\ jobs[item.job].status = "pending"
      /\ \A v \in Workers : ~Has(v, item.job)
      /\ \A other \in run.queue : other.job = item.job => other = item
  BY <1>3 DEF Inv, TypeOK, Custody
<1>5. /\ workers' \in Crew
      /\ \A v \in Workers : v # w => workers'[v] = workers[v]
      /\ workers'[w].phase = "received" /\ workers'[w].job = item.job
      /\ workers'[w].attempt = item.sent + 1
  <2>1. [phase |-> "received", job |-> item.job,
         attempt |-> item.sent + 1, answer |-> "none"] \in WorkerRow
    BY <1>4 DEF WorkerRow, Phases, Jobs
  <2> QED
    BY <1>1, <2>1 DEF Crew
<1>6. /\ run' \in Runs /\ run'.stage = "sent" /\ run'.canceled = run.canceled
      /\ run'.queue = run.queue \ {item}
  BY <1>1 DEF Inv, TypeOK, Runs
<1>7. TypeOK'
  BY <1>2, <1>5, <1>6 DEF Inv, TypeOK, Crew, WorkerRow, Phases, Runs
<1>8. Lifecycle'
  BY <1>2, <1>3, <1>5, <1>6 DEF Inv, Lifecycle
<1>9. StopFirst'
  BY <1>2, <1>5, <1>6 DEF Inv, StopFirst
<1>10. Custody'
  <2>1. \A v \in Workers : workers'[v].phase \in InHand => workers'[v].job \in Jobs
    BY <1>4, <1>5 DEF Inv, Custody
  <2>2. ASSUME NEW u \in Workers, NEW v \in Workers, workers'[u].phase \in InHand,
               workers'[v].phase \in InHand, workers'[v].job = workers'[u].job
        PROVE  v = u
    BY <1>3, <1>4, <1>5, <2>2 DEF Inv, Custody, Has
  <2>3. ASSUME NEW other \in run.queue, other # item
        PROVE  /\ other.sent = jobs'[other.job].sent
               /\ jobs'[other.job].status = "pending"
               /\ \A v \in Workers : ~Has(v, other.job)'
    <3>1. other.job # item.job
      BY <1>4, <2>3
    <3>2. \A v \in Workers : ~Has(v, other.job)
      BY <1>3 DEF Inv, Custody
    <3>3. \A v \in Workers : ~Has(v, other.job)'
      BY <1>5, <3>1, <3>2 DEF Has
    <3> QED
      BY <1>2, <1>3, <3>3 DEF Inv, Custody
  <2> QED
    BY <1>6, <2>1, <2>2, <2>3 DEF Custody, Has
<1>11. Counting'
  <2>1. ASSUME NEW v \in Workers PROVE AttemptOf(v)'
    <3>1. CASE v = w
      BY <1>2, <1>4, <1>5, <3>1 DEF AttemptOf
    <3>2. CASE v # w
      BY <1>2, <1>5, <3>2 DEF Inv, Counting, AttemptOf
    <3> QED
      BY <3>1, <3>2
  <2>2. \A i \in Jobs : Probed(i)'
    BY <1>2, <1>3, <1>5 DEF Inv, Counting, Probed
  <2> QED
    BY <1>2, <2>1, <2>2 DEF Inv, Counting
<1>12. NoneLost'
  <2>1. ASSUME ~session.stop, NEW i \in Jobs
        PROVE  (Spent(i) \/ Queued(i) \/ \E v \in Workers : Has(v, i))'
    <3>1. Spent(i) \/ Queued(i) \/ \E v \in Workers : Has(v, i)
      BY <1>3, <2>1 DEF Inv, NoneLost
    <3>2. CASE Spent(i)
      BY <1>2, <3>2 DEF Spent
    <3>3. CASE Queued(i)
      BY <1>4, <1>5, <1>6, <3>3 DEF Queued, Has, InHand
    <3>4. CASE \E v \in Workers : Has(v, i)
      BY <1>3, <1>5, <3>4 DEF Has, InHand
    <3> QED
      BY <3>1, <3>2, <3>3, <3>4
  <2> QED
    BY <1>2, <1>6, <2>1 DEF Inv, NoneLost, Quiet, AllSpent, Spent
<1>13. Accounts'
  BY <1>2, <1>5 DEF Inv, Accounts, Logged, Silent, Quiet, AllSpent, Spent
<1> QED
  BY <1>7, <1>8, <1>9, <1>10, <1>11, <1>12, <1>13 DEF Inv

-----------------------------------------------------------------------------
(* The run takes the jobs, and lets its workers go. *)

LEMMA LoadKeepsInv ==
  ASSUME Inv, Load
  PROVE  Inv'
<1> USE Typed DEF rows, handlers, history
<1>1. UNCHANGED <<session, evidence, report, logs, accounted, probes, crashes,
                  channelGone, handlers, workers, closing>>
  BY DEF Load
<1>2. run.stage = "loading" /\ ~channelGone /\ WorkersJoined
  BY DEF Load, Inv, Lifecycle
<1>3. /\ jobs' \in JobRows
      /\ \A j \in Jobs : /\ jobs'[j].sent = jobs[j].sent
                        /\ jobs'[j].status = IF jobs[j].status = "running"
                                                THEN "pending" ELSE jobs[j].status
  <2>1. jobs' = [j \in Jobs |-> IF jobs[j].status = "running"
                                  THEN [jobs[j] EXCEPT !.status = "pending"] ELSE jobs[j]]
    BY DEF Load
  <2>2. \A j \in Jobs : [jobs[j] EXCEPT !.status = "pending"] \in JobRow
    BY DEF JobRows, JobRow, Statuses, Unsettled
  <2> QED
    BY <2>1, <2>2 DEF JobRows, JobRow
<1>4. PICK queue \in SUBSET [job : Jobs, sent : 0..MaxAttempts] :
        /\ queue = {Snapshot(j) : j \in {i \in Jobs : jobs[i].status \in Unsettled}}
        /\ run' = [run EXCEPT !.stage = IF queue = {} THEN "closed" ELSE "sending",
                              !.queue = queue]
  <2>1. {Snapshot(j) : j \in {i \in Jobs : jobs[i].status \in Unsettled}}
          \in SUBSET [job : Jobs, sent : 0..MaxAttempts]
    BY DEF Snapshot, JobRows, JobRow
  <2> QED
    BY <2>1 DEF Load
<1>5. /\ run' \in Runs /\ run'.canceled = run.canceled /\ run'.queue = queue
      /\ run'.stage = IF queue = {} THEN "closed" ELSE "sending"
  BY <1>4 DEF Inv, TypeOK, Runs
<1>6. \A item \in queue : /\ item.job \in Jobs /\ item.sent = jobs[item.job].sent
                          /\ jobs[item.job].status \in Unsettled
  BY <1>4 DEF Snapshot
<1>7. \A j \in Jobs : jobs[j].status \in Unsettled => \E item \in queue : item.job = j
  <2>1. ASSUME NEW j \in Jobs, jobs[j].status \in Unsettled
        PROVE  Snapshot(j) \in queue /\ Snapshot(j).job = j
    BY <1>4, <2>1 DEF Snapshot
  <2> QED
    BY <2>1
<1>8. \A j \in Jobs : Spent(j)' <=> Spent(j)
  BY <1>3 DEF Spent, Unsettled
<1>9. TypeOK'
  BY <1>1, <1>3, <1>5 DEF Inv, TypeOK, JobRows, JobRow, Statuses, Unsettled, Runs
<1>10. Lifecycle'
  BY <1>1, <1>2, <1>5 DEF Inv, Lifecycle
<1>11. StopFirst'
  BY <1>1, <1>5 DEF Inv, StopFirst
<1>12. Custody'
  BY <1>1, <1>2, <1>3, <1>5, <1>6 DEF Inv, Custody, Has, InHand, WorkersJoined,
    Unsettled
<1>13. Counting'
  BY <1>1, <1>2, <1>3 DEF Inv, Counting, AttemptOf, Probed, WorkersJoined
<1>14. NoneLost'
  BY <1>1, <1>5, <1>7, <1>8 DEF Inv, NoneLost, Quiet, AllSpent, Spent, Queued
<1>15. Accounts'
  BY <1>1, <1>3, <1>8 DEF Inv, Accounts, Logged, Silent, Quiet, AllSpent
<1> QED
  BY <1>9, <1>10, <1>11, <1>12, <1>13, <1>14, <1>15 DEF Inv

LEMMA RunEndsKeepsInv ==
  ASSUME Inv, RunEnds
  PROVE  Inv'
<1> USE Typed DEF rows, handlers, history
<1>1. UNCHANGED <<session, jobs, evidence, report, logs, accounted, probes, crashes,
                  channelGone, handlers, closing>>
      /\ run.stage = "settling" /\ WorkersJoined /\ closing.step = "idle"
  BY DEF RunEnds, Inv, Lifecycle
<1>2. /\ workers' \in Crew
      /\ \A w \in Workers : workers'[w].phase = "idle"
  BY DEF RunEnds, Idle, Crew, WorkerRow, Phases
<1>3. run' = NoRun /\ NoRun \in Runs /\ run'.stage = "none" /\ ~run'.canceled
  BY DEF RunEnds, NoRun, Runs
<1>4. TypeOK'
  BY <1>1, <1>2, <1>3 DEF Inv, TypeOK, Crew, WorkerRow, Phases, Runs, NotClosing
<1>5. Lifecycle'
  BY <1>1, <1>2, <1>3 DEF Inv, Lifecycle, WorkersJoined, RunEnds, NotClosing
<1>6. StopFirst'
  BY <1>1, <1>2, <1>3 DEF Inv, StopFirst, RunEnds, NotClosing
<1>7. Custody'
  BY <1>2, <1>3 DEF Custody, Has, InHand
<1>8. Counting'
  <2>1. \A w \in Workers : AttemptOf(w)'
    BY <1>2 DEF AttemptOf
  <2>2. ASSUME NEW j \in Jobs PROVE Probed(j)' /\ jobs'[j].sent <= evidence'[j]
    BY <1>1 DEF Inv, TypeOK, Counting, Probed, JobRows, JobRow, WorkersJoined
  <2> QED
    BY <2>1, <2>2 DEF Counting
<1>9. NoneLost'
  BY <1>1, <1>3 DEF Inv, NoneLost, Quiet, AllSpent, Spent, NotClosing
<1>10. Accounts'
  BY <1>1, <1>2 DEF Inv, Accounts, Logged, Silent, Quiet, AllSpent, Spent
<1> QED
  BY <1>4, <1>5, <1>6, <1>7, <1>8, <1>9, <1>10 DEF Inv

LEMMA CrashKeepsInv ==
  ASSUME Inv, Crash
  PROVE  Inv'
<1> USE Typed DEF rows, handlers, history
<1>1. /\ UNCHANGED <<session, jobs, evidence, report, logs, accounted, probes, channelGone>>
      /\ closing' = NotClosing /\ resume' = "down" /\ starter' = "idle" /\ stopper' = "idle"
      /\ crashes' = crashes + 1 /\ crashes < MaxCrashes
  BY DEF Crash
<1>2. /\ workers' \in Crew
      /\ \A w \in Workers : workers'[w].phase = "idle"
  BY DEF Crash, Idle, Crew, WorkerRow, Phases
<1>3. run' = NoRun /\ NoRun \in Runs /\ run'.stage = "none" /\ ~run'.canceled
  BY DEF Crash, NoRun, Runs
<1>4. TypeOK'
  BY <1>1, <1>2, <1>3 DEF Inv, TypeOK, Crew, WorkerRow, Phases, Runs, NotClosing
<1>5. Lifecycle'
  BY <1>1, <1>2, <1>3 DEF Inv, Lifecycle, WorkersJoined, Crash, NotClosing
<1>6. StopFirst'
  BY <1>1, <1>2, <1>3 DEF Inv, StopFirst, Crash, NotClosing
<1>7. Custody'
  BY <1>2, <1>3 DEF Custody, Has, InHand
<1>8. Counting'
  <2>1. \A w \in Workers : AttemptOf(w)'
    BY <1>2 DEF AttemptOf
  <2>2. ASSUME NEW j \in Jobs PROVE Probed(j)' /\ jobs'[j].sent <= evidence'[j]
    BY <1>1 DEF Inv, TypeOK, Counting, Probed, JobRows, JobRow
  <2> QED
    BY <2>1, <2>2 DEF Counting
<1>9. NoneLost'
  BY <1>1, <1>3 DEF Inv, NoneLost, Quiet, AllSpent, Spent, NotClosing
<1>10. Accounts'
  BY <1>1, <1>2 DEF Inv, Accounts, Logged, Silent, Quiet, AllSpent, Spent
<1> QED
  BY <1>4, <1>5, <1>6, <1>7, <1>8, <1>9, <1>10 DEF Inv

-----------------------------------------------------------------------------
(* Settling a session. *)

\* While a session is settled its workers are at rest.
LEMMA ClosingAtRest ==
  ASSUME Inv, closing.step # "idle"
  PROVE  /\ WorkersJoined
         /\ run.stage \in {"none", "settling"}
         /\ session.status # "none"
  BY DEF Inv, Lifecycle

LEMMA CancelRemainingKeepsInv ==
  ASSUME Inv, CancelRemaining
  PROVE  Inv'
<1> USE Typed DEF rows, handlers, history
<1>1. UNCHANGED <<session, evidence, report, logs, accounted, probes, crashes,
                  channelGone, handlers, run, workers>>
  BY DEF CancelRemaining
<1>2. /\ WorkersJoined /\ session.stop
      /\ run.stage = "settling" \/ resume = "settling"
      /\ run.stage \notin {"sending", "sent", "closed"}
  BY ClosingAtRest DEF CancelRemaining, Inv, StopFirst, Lifecycle
<1>3. /\ closing' \in Settlements /\ closing'.step \in {"reading", "failing"}
  BY DEF CancelRemaining, Inv, TypeOK, Settlements
<1>4. /\ jobs' \in JobRows
      /\ \A j \in Jobs : /\ jobs'[j].sent = jobs[j].sent
                        /\ \/ jobs'[j].status = jobs[j].status
                           \/ jobs[j].status \in Unsettled /\ jobs'[j].status = "cancelled"
      /\ closing'.step = "reading" => \A j \in Jobs : jobs'[j].status \notin Unsettled
  <2>1. CASE jobs' = jobs /\ closing'.step = "failing"
    BY <2>1
  <2>2. CASE jobs' = [j \in Jobs |-> IF jobs[j].status \in Unsettled
                                       THEN [jobs[j] EXCEPT !.status = "cancelled"]
                                       ELSE jobs[j]]
    <3>1. \A j \in Jobs : [jobs[j] EXCEPT !.status = "cancelled"] \in JobRow
      BY DEF JobRows, JobRow, Statuses
    <3>2. \A j \in Jobs : /\ jobs'[j].sent = jobs[j].sent
                         /\ jobs'[j].status = IF jobs[j].status \in Unsettled
                                                 THEN "cancelled" ELSE jobs[j].status
      BY <2>2 DEF JobRows, JobRow
    <3>3. jobs' \in JobRows
      BY <2>2, <3>1 DEF JobRows
    <3> QED
      BY <3>2, <3>3 DEF Unsettled
  <2> QED
    BY <2>1, <2>2 DEF CancelRemaining, Inv, TypeOK
<1>5. TypeOK'
  BY <1>1, <1>3, <1>4 DEF Inv, TypeOK, JobRows, JobRow, Statuses, Unsettled,
    Settlements
<1>6. Lifecycle'
  BY <1>1, <1>2 DEF Inv, Lifecycle, WorkersJoined
<1>7. StopFirst'
  BY <1>1, <1>3 DEF Inv, StopFirst
<1>8. Custody'
  BY <1>1, <1>2 DEF Inv, Custody, Has, InHand, WorkersJoined
<1>9. Counting'
  BY <1>1, <1>2, <1>4 DEF Inv, Counting, AttemptOf, Probed, WorkersJoined
<1>10. NoneLost'
  BY <1>1, <1>2, <1>3, <1>4 DEF Inv, NoneLost, Quiet, AllSpent, Spent, Unsettled
<1>11. Accounts'
  BY <1>1, <1>2, <1>4 DEF Inv, Accounts, Logged, Silent, Quiet, Unsettled
<1> QED
  BY <1>5, <1>6, <1>7, <1>8, <1>9, <1>10, <1>11 DEF Inv

LEMMA ReadSessionKeepsInv ==
  ASSUME Inv, NEW fails \in BOOLEAN, ReadSession(fails)
  PROVE  Inv'
<1> USE DEF rows, handlers, history
<1>1. /\ closing' \in Settlements /\ closing'.step \in {"failing", "writing"}
      /\ closing.step = "reading"
  BY DEF ReadSession, NotClosing, Settlements, Inv, TypeOK
<1>2. UNCHANGED <<session, jobs, evidence, report, logs, accounted, probes, crashes,
                  channelGone, handlers, run, workers>>
  BY DEF ReadSession
<1>3. TypeOK'
  BY <1>1, <1>2 DEF Inv, TypeOK, Settlements
<1>4. Lifecycle' /\ StopFirst'
  BY <1>1, <1>2 DEF Inv, Lifecycle, StopFirst, WorkersJoined
<1>5. NoneLost'
  BY <1>1, <1>2 DEF Inv, NoneLost, Quiet, AllSpent, Spent, Queued, Has
<1>6. Custody' /\ Counting' /\ Accounts'
  BY <1>2, QuietStep
<1> QED
  BY <1>3, <1>4, <1>5, <1>6 DEF Inv

\* The logs tell how every job ended; attempts are copied the first time.
LEMMA PersistLogEffect ==
  ASSUME Inv, session.status # "none", NEW status \in {"failed", "stopped", "completed"},
         PersistLog(status), UNCHANGED <<jobs, evidence>>
  PROVE  /\ logs' \in [Jobs -> {"success", "failed", "canceled"}]
         /\ accounted' = evidence
         /\ \A j \in Jobs : logs'[j] = "success" <=> jobs[j].status = "succeeded"
         /\ Logged'
<1> USE Typed
<1>1. \A j \in Jobs :
        /\ RequestOutcome(jobs[j], status) \in {"success", "failed", "canceled"}
        /\ RequestOutcome(jobs[j], status) = "success" <=> jobs[j].status = "succeeded"
  BY DEF RequestOutcome
<1>2. logs' = [j \in Jobs |-> RequestOutcome(jobs[j], status)]
  BY DEF PersistLog
<1>3. accounted' = evidence
  <2>1. accounted \in [Jobs -> Nat] /\ evidence \in [Jobs -> Nat]
    BY DEF Inv, TypeOK
  <2>2. CASE Logged
    BY <2>1, <2>2 DEF PersistLog, CopyAttempts, Inv, Accounts, Logged
  <2>3. CASE ~Logged
    BY <2>1, <2>3 DEF PersistLog, CopyAttempts, Inv, Accounts
  <2> QED
    BY <2>2, <2>3
<1>4. 1 \in Jobs
  BY DEF Jobs
<1> QED
  BY <1>1, <1>2, <1>3, <1>4 DEF Logged

LEMMA FinalizeKeepsInv ==
  ASSUME Inv, Finalize
  PROVE  Inv'
<1> USE Typed DEF rows, handlers, history
<1>1. /\ closing.step = "writing" /\ closing' = NotClosing
      /\ UNCHANGED <<jobs, evidence, probes, crashes, channelGone, handlers, run, workers>>
      /\ report' = TRUE
  BY DEF Finalize
<1>2. WorkersJoined /\ session.status # "none"
      /\ run.stage \notin {"sending", "sent", "closed"}
  BY <1>1, ClosingAtRest
<1>3. /\ session' \in Sessions /\ session'.status \in Finished
      /\ session'.stop = session.stop /\ session'.status # "none"
  BY DEF Finalize, Inv, TypeOK, Sessions, Finished
<1>4. /\ logs' \in [Jobs -> {"success", "failed", "canceled"}]
      /\ accounted' = evidence
      /\ \A j \in Jobs : logs'[j] = "success" <=> jobs[j].status = "succeeded"
      /\ Logged'
  BY <1>1, <1>2, PersistLogEffect DEF Finalize
<1>5. AllSpent
  BY <1>1 DEF Inv, NoneLost
<1>6. TypeOK'
  BY <1>1, <1>3, <1>4 DEF Inv, TypeOK, Sessions, NotClosing
<1>7. Lifecycle' /\ StopFirst'
  BY <1>1, <1>2, <1>3 DEF Inv, Lifecycle, StopFirst, WorkersJoined, NotClosing
<1>8. Custody'
  BY <1>1 DEF Inv, Custody, Has
<1>9. Counting'
  BY <1>1 DEF Inv, Counting, AttemptOf, Probed
<1>10. NoneLost'
  BY <1>1, <1>2, <1>5 DEF NoneLost, AllSpent, Spent, NotClosing
<1>11. Accounts'
  <2>1. Quiet' /\ Silent'
    BY <1>1, <1>2, <1>5 DEF Quiet, AllSpent, Spent, Silent, WorkersJoined
  <2>2. \E j \in Jobs : logs'[j] # "none"
    BY <1>4 DEF Logged
  <2> QED
    BY <1>1, <1>3, <1>4, <2>1, <2>2 DEF Accounts
<1> QED
  BY <1>6, <1>7, <1>8, <1>9, <1>10, <1>11 DEF Inv

LEMMA FailSessionKeepsInv ==
  ASSUME Inv, NEW persisted \in BOOLEAN, FailSession(persisted)
  PROVE  Inv'
<1> USE Typed DEF rows, handlers, history
<1>1. /\ closing.step = "failing" /\ closing' = NotClosing
      /\ UNCHANGED <<jobs, evidence, report, probes, crashes, channelGone, handlers, run,
                     workers>>
  BY DEF FailSession
<1>2. WorkersJoined /\ session.status # "none"
      /\ run.stage \notin {"sending", "sent", "closed"}
  BY <1>1, ClosingAtRest
<1>3. session' \in Sessions /\ session'.status = "failed" /\ session'.stop = session.stop
  BY DEF FailSession, Inv, TypeOK, Sessions
<1>4. Quiet' /\ Silent'
  BY <1>1, <1>2, <1>3 DEF Inv, NoneLost, Quiet, AllSpent, Spent, Silent, WorkersJoined
<1>5. Lifecycle' /\ StopFirst'
  BY <1>1, <1>2, <1>3 DEF Inv, Lifecycle, StopFirst, WorkersJoined, NotClosing
<1>6. Custody'
  BY <1>1 DEF Inv, Custody, Has
<1>7. Counting'
  BY <1>1 DEF Inv, Counting, AttemptOf, Probed
<1>8. NoneLost'
  BY <1>1, <1>2, <1>3 DEF NoneLost, NotClosing, Finished
<1>9. CASE persisted
  <2>1. /\ logs' \in [Jobs -> {"success", "failed", "canceled"}]
        /\ accounted' = evidence
        /\ Logged'
    BY <1>1, <1>2, <1>9, PersistLogEffect DEF FailSession
  <2>2. TypeOK'
    BY <1>1, <1>3, <2>1 DEF Inv, TypeOK, Sessions, NotClosing
  <2>3. \E j \in Jobs : logs'[j] # "none"
    BY <2>1 DEF Logged
  <2>4. Accounts'
    BY <1>1, <1>3, <1>4, <2>1, <2>3 DEF Accounts, Finished
  <2> QED
    BY <1>5, <1>6, <1>7, <1>8, <2>2, <2>4 DEF Inv
<1>10. CASE ~persisted
  <2>1. UNCHANGED <<logs, accounted>>
    BY <1>10 DEF FailSession
  <2>2. TypeOK'
    BY <1>1, <1>3, <2>1 DEF Inv, TypeOK, Sessions, NotClosing
  <2>3. Accounts'
    BY <1>1, <1>2, <1>3, <1>4, <2>1 DEF Inv, Accounts, Logged, Finished
  <2> QED
    BY <1>5, <1>6, <1>7, <1>8, <2>2, <2>3 DEF Inv
<1> QED
  BY <1>9, <1>10

LEMMA StartKeepsInv ==
  ASSUME Inv, Start
  PROVE  Inv'
<1> USE DEF rows, handlers, history
<1>1. /\ UNCHANGED <<jobs, evidence, report, accounted, probes, crashes, channelGone, resume,
                     stopper, run, workers, closing>>
      /\ starter' = "registering" /\ session.status = "none"
      /\ resume \in {"running", "registering", "done"}
  BY DEF Start
<1>2. session' \in Sessions /\ session'.status = "running" /\ session'.stop = session.stop
  BY DEF Start, Inv, TypeOK, Sessions
<1>3. logs' = [j \in Jobs |-> "processing"] /\ ~Logged /\ ~Logged' /\ 1 \in Jobs
  BY <1>1 DEF Start, Inv, Accounts, Logged, Jobs
<1>4. TypeOK'
  BY <1>1, <1>2, <1>3 DEF Inv, TypeOK, Sessions
<1>5. Lifecycle' /\ StopFirst'
  BY <1>1, <1>2 DEF Inv, Lifecycle, StopFirst, WorkersJoined
<1>6. Custody'
  BY <1>1 DEF Inv, Custody, Has
<1>7. Counting'
  BY <1>1 DEF Inv, Counting, AttemptOf, Probed
<1>8. NoneLost'
  BY <1>1, <1>2 DEF Inv, NoneLost, Quiet, AllSpent, Spent, Queued, Has, Finished
<1>9. Accounts'
  BY <1>1, <1>2, <1>3 DEF Inv, Accounts, Finished
<1> QED
  BY <1>4, <1>5, <1>6, <1>7, <1>8, <1>9 DEF Inv

-----------------------------------------------------------------------------
LEMMA InitInv == Init => Inv
<1> SUFFICES ASSUME Init PROVE Inv
  OBVIOUS
<1> USE DEF Init
<1>1. TypeOK
  <2>1. NoRun \in Runs /\ NotClosing \in Settlements /\ Idle \in WorkerRow
    BY DEF NoRun, Runs, NotClosing, Settlements, Idle, WorkerRow, Phases
  <2>2. /\ session \in Sessions /\ jobs \in JobRows
        /\ crashes \in 0..MaxCrashes
    BY DEF Sessions, JobRows, JobRow, Statuses, Unsettled
  <2>3. workers \in Crew /\ run \in Runs /\ closing \in Settlements
    BY <2>1 DEF Crew
  <2>4. /\ evidence \in [Jobs -> Nat] /\ accounted \in [Jobs -> Nat]
        /\ probes \in [Jobs -> Nat]
        /\ logs \in [Jobs -> {"none", "processing", "success", "failed", "canceled"}]
    OBVIOUS
  <2>5. /\ report \in BOOLEAN /\ channelGone \in BOOLEAN
        /\ resume \in {"down", "stopped", "settling", "running", "registering", "done"}
        /\ starter \in {"idle", "registering"}
        /\ stopper \in {"idle", "writing", "cancelling"}
    OBVIOUS
  <2> HIDE DEF Init
  <2> QED
    BY <2>2, <2>3, <2>4, <2>5 DEF TypeOK, Sessions, JobRows, JobRow, Statuses, Runs,
      Crew, WorkerRow, Phases, Settlements
<1>2. Lifecycle /\ StopFirst /\ Custody
  BY DEF Lifecycle, StopFirst, Custody, WorkersJoined, NoRun, Idle, NotClosing, Has,
    InHand
<1>3. Counting /\ NoneLost
  BY DEF Counting, NoneLost, AttemptOf, Probed, NoRun, Idle, NotClosing, Finished
<1>4. Accounts
  BY DEF Accounts, Logged, Finished, Jobs
<1> QED
  BY <1>1, <1>2, <1>3, <1>4 DEF Inv

LEMMA WorkerStepKeepsInv ==
  ASSUME Inv, NEW w \in Workers, WorkerStep(w)
  PROVE  Inv'
  BY ReceiveKeepsInv, StartJobKeepsInv, CheckStopKeepsInv, ProbeKeepsInv,
    PersistAttemptKeepsInv, CountAttemptKeepsInv, SettleAttemptKeepsInv,
    BackoffElapsesKeepsInv, BackoffCanceledKeepsInv, WorkerWritesStopKeepsInv,
    WorkerCancelsRunKeepsInv DEF WorkerStep

LEMMA StepInv == Inv /\ [Next]_vars => Inv'
<1> SUFFICES ASSUME Inv, [Next]_vars PROVE Inv'
  OBVIOUS
<1>1. CASE Start \/ StartRegisters
  BY <1>1, StartKeepsInv, StartRegistersKeepsInv
<1>2. CASE ResumeStep
  BY <1>2, ResumeStoppedKeepsInv, ResumeSettledKeepsInv, ResumeRunningKeepsInv,
    ResumeRegistersKeepsInv DEF ResumeStep
<1>3. CASE RunStep
  BY <1>3, LoadFailsKeepsInv, LoadKeepsInv, SendCanceledKeepsInv, AfterSendKeepsInv,
    JoinKeepsInv, RunEndsKeepsInv, SendKeepsInv DEF RunStep
<1>4. CASE ClosingStep
  BY <1>4, CancelRemainingKeepsInv, ReadSessionKeepsInv, FinalizeKeepsInv,
    FailSessionKeepsInv DEF ClosingStep
<1>5. CASE \E w \in Workers : WorkerStep(w)
  BY <1>5, WorkerStepKeepsInv
<1>6. CASE StopReads \/ StopWrites \/ StopCancels
  BY <1>6, StopReadsKeepsInv, StopWritesKeepsInv, StopCancelsKeepsInv
<1>7. CASE Crash \/ Restart
  BY <1>7, CrashKeepsInv, RestartKeepsInv
<1>8. CASE UNCHANGED vars
  BY <1>8 DEF vars, rows, handlers, history, Inv, TypeOK, Lifecycle, WorkersJoined,
    StopFirst, Custody, Has, Counting, AttemptOf, Probed, NoneLost, Quiet, AllSpent,
    Spent, Queued, Accounts, Logged, Silent
<1> QED
  BY <1>1, <1>2, <1>3, <1>4, <1>5, <1>6, <1>7, <1>8 DEF Next

LEMMA Invariance == Spec => []Inv
  BY InitInv, StepInv, PTL DEF Spec

\* Every row, goroutine and handler holds values of the code.
THEOREM TypeCorrect == Spec => []TypeOK
<1>1. Inv => TypeOK
  BY DEF Inv
<1> QED
  BY <1>1, Invariance, PTL

\* A crash costs a job at most one probe beyond verificationMaxAttempts.
THEOREM BudgetHolds == Spec => []BudgetSurvivesRestart
<1>1. Inv => BudgetSurvivesRestart
  <2> SUFFICES ASSUME Inv, NEW j \in Jobs PROVE probes[j] <= MaxAttempts + crashes
    BY DEF BudgetSurvivesRestart
  <2>1. /\ jobs[j].sent \in 0..MaxAttempts /\ probes[j] \in Nat /\ crashes \in Nat
    BY DEF Inv, TypeOK
  <2>2. CASE probes[j] <= jobs[j].sent + crashes
    BY <2>1, <2>2
  <2>3. CASE /\ probes[j] <= jobs[j].sent + 1 + crashes
             /\ \E w \in Workers : workers[w].phase \in {"persisting", "counting"}
                                  /\ workers[w].job = j
    <3>1. PICK w \in Workers : workers[w].phase \in {"persisting", "counting"}
                              /\ workers[w].job = j
      BY <2>3
    <3>2. jobs[j].sent + 1 <= MaxAttempts
      BY <3>1 DEF Inv, Counting, AttemptOf
    <3> QED
      BY <2>1, <2>3, <3>2
  <2> QED
    BY <2>2, <2>3 DEF Inv, Counting, Probed
<1> QED
  BY <1>1, Invariance, PTL

\* Counted attempts left their evidence, and however often a session is settled
\* each reaches the logs and the statistics once.
THEOREM AttemptsTold == Spec => []AttemptsAccounted
<1>1. Inv => AttemptsAccounted
  BY DEF Inv, Counting, Accounts, AttemptsAccounted, CountedAttemptsTraceable,
    AttemptsAccountedOnce
<1> QED
  BY <1>1, Invariance, PTL

\* Nobody who sends, runs or cancels jobs loses one on the way to the report.
THEOREM SettledWhenEnded == Spec => []EndedSessionSettled
<1>1. Inv => EndedSessionSettled
  BY DEF Inv, NoneLost, AllSpent, Spent, EndedSessionSettled
<1> QED
  BY <1>1, Invariance, PTL

=============================================================================
