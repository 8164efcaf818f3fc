----------------------------- MODULE MCRecovery -----------------------------
(* What has to come right by itself, one component in each behaviour: the  *)
(* database of an older version that a process finds when it starts, a     *)
(* verification that its predecessor did not finish, and the circuit of a  *)
(* channel that is edited meanwhile.  One worker, so that a sender with a  *)
(* job left can wait for workers that have gone; one model with one        *)
(* mapping, and one edit at a time.                                        *)
EXTENDS Upgrade

CONSTANTS o1, o2, o3, o4, o5, n1, n2, s1, s2, s3, Workers, chat, mapping, NoMapping, Attempts

VARIABLES part, session, jobs, evidence, report, logs, accounted, channelGone,
          resume, starter, stopper, run, workers, closing, probes, stops,
          channel, mappingState, mappingEnabled, circuitDisabled, models, pending, attempt,
          edit, editsLeft

Verification == INSTANCE VerificationRun WITH
  JobCount <- 2, MaxAttempts <- 2, MaxCrashes <- 1, crashes <- stops

verificationVars == <<session, jobs, evidence, report, logs, accounted, channelGone,
                      resume, starter, stopper, run, workers, closing, probes, stops>>

Circuit == INSTANCE ChannelEdit WITH
  Models <- {chat}, Mappings <- {mapping}, ModelOf <- [m \in {mapping} |-> chat],
  FailureThreshold <- 2, TemporaryTicks <- 1, ExtendedTicks <- 2, MaxEdits <- 2

circuitVars == <<channel, mappingState, mappingEnabled, circuitDisabled, models, pending, attempt,
                 edit, editsLeft>>

MCDay     == [r \in Requests |-> CASE r \in {o1, o2, o3} -> "edge" [] r = o4 -> "old"
                                   [] r \in {o5, n1} -> "recent" [] OTHER -> "today"]
MCReply   == [r \in Requests |-> CASE r \in {o1, o4, n2} -> "good" [] r = o2 -> "masked"
                                   [] r = o5 -> "canceled" [] OTHER -> "error"]
MCTries   == [r \in Requests |-> IF r \in {o1, o3, n2} THEN 2 ELSE 1]
MCSession == [r \in Requests |-> CASE r \in {o3, o5} -> s2 [] r \in {o4, n2} -> s3 [] OTHER -> s1]
MCSource  == [s \in Sessions |-> CASE s = s1 -> "user" [] s = s2 -> "subagent" [] OTHER -> ""]
MCStates  == [s \in Sessions |-> CASE s = s1 -> "recent" [] s = s2 -> "none" [] OTHER -> "expired"]
MCDropped == [d \in Days |->
  IF d = "before" THEN [requests |-> 3, success |-> 2, canceled |-> 0, cost |-> 2, duration |-> 3]
  ELSE NoStat]

\* While one component is at work the others stay in an initial state.
MCInit == /\ Init /\ Verification!Init /\ Circuit!EditInit
          /\ part \in {"upgrade", "verification", "circuit"}
          /\ part # "upgrade" => applied = {}
          /\ part # "circuit" => channel.enabled
MCNext ==
  \/ part = "upgrade" /\ Next /\ UNCHANGED <<part, verificationVars, circuitVars>>
  \/ part = "verification" /\ Verification!Next /\ UNCHANGED <<part, vars, circuitVars>>
  \/ part = "circuit" /\ Circuit!EditNext /\ UNCHANGED <<part, vars, verificationVars>>
MCSpec == MCInit /\ [][MCNext]_<<part, vars, verificationVars, circuitVars>>

\* The fairness of the component at work.
AtWork(component, step) == part = component /\ step

MCFairSpec ==
  /\ MCSpec
  /\ WF_vars(AtWork("upgrade", Migrate))
  /\ WF_circuitVars(AtWork("circuit", Circuit!EditTick))
  /\ WF_verificationVars(AtWork("verification", Verification!StartRegisters))
  /\ WF_verificationVars(AtWork("verification", Verification!ResumeStep))
  /\ WF_verificationVars(AtWork("verification", Verification!RunStep))
  /\ WF_verificationVars(AtWork("verification", Verification!ClosingStep))
  /\ WF_verificationVars(AtWork("verification",
                                Verification!StopWrites \/ Verification!StopCancels))
  /\ \A w \in Workers :
       WF_verificationVars(AtWork("verification", Verification!WorkerStep(w)))

\* Upgrade: a process that does not crash again serves in the end.
MCStartUpCompletes == part = "upgrade" => StartUpCompletes

\* VerificationRun: a started session ends, unless its process does or its
\* stop is overlooked.
SessionEventuallyEnds == part = "verification" => Verification!SessionEventuallyEnds

\* ChannelEdit: no circuit stays open, whatever stale rows are saved.
CircuitEventuallyElapses == part = "circuit" => Circuit!CircuitEventuallyElapses
=============================================================================
