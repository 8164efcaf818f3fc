---------------------------- MODULE RelayRequest ----------------------------
(***************************************************************************)
(* One relayed request: RelayWithTrace and the attempts it makes.          *)
(*                                                                         *)
(* The route plan is a list of candidates.  The relay checks each one just *)
(* before use, sends at most three attempts, and either passes an upstream *)
(* response to the client or returns one public error.  Each attempt ends  *)
(* with at most one verdict on its channel (the input of ChannelCircuit)   *)
(* and one attempt log; each request ends with one request log, and only a *)
(* successful one is billed.  The client may go away at any moment: that   *)
(* cancels the context of the upstream calls and of the queries, but not   *)
(* of the records, which use context.WithoutCancel.                        *)
(***************************************************************************)
EXTENDS Integers, Sequences

CONSTANTS
  MaxCandidates,      \* bound of the model: candidates of a plan
  ConfiguredAttempts  \* gateway.max_attempts; 0 when not configured

ASSUME CandidatesAssumption == MaxCandidates \in Nat
ASSUME AttemptsAssumption   == ConfiguredAttempts \in Nat

VARIABLES
  stage,        \* where RelayWithTrace is
  plan,         \* length of the plan, and whether previous_response_id pins it
  index,        \* candidate under consideration
  attempts,     \* execution.attempts
  clientGone,   \* the request's context is canceled
  response,     \* class of the upstream response being read
  stream,       \* terminal event seen; usable output seen or not needed
  error,        \* error of the attempt being settled
  dnsRun,       \* consecutiveDNSErrors
  header,       \* a response header was sent to the client
  attemptLog,   \* execution.attemptLogs
  outcome,      \* outcome of the request log row
  recordings,   \* calls of recordRequest
  reply,        \* how RelayWithTrace returned: nil after an upstream response,
                \* or the kind of public error
  billed,       \* billable calls of addUsage
  routes        \* session affinity updates, in order

vars == <<stage, plan, index, attempts, clientGone, response, stream, error,
          dnsRun, header, attemptLog, outcome, recordings, reply, billed, routes>>

progress == <<plan, index, attempts>>
answer   == <<header, reply>>
ledger   == <<outcome, recordings, billed>>

-----------------------------------------------------------------------------
Least(a, b) == IF a < b THEN a ELSE b

MaxAttempts ==
  Least(IF ConfiguredAttempts > 0 THEN Least(ConfiguredAttempts, 3) ELSE 3, plan.length)

LastAttempt == attempts = MaxAttempts \/ index = plan.length

\* How an application failure in a response body is classified.  A failure
\* the request itself caused is not retried and does not blame the channel.
Failures      == {"ordinary", "empty", "unavailable", "rejected"}
ShouldRetry(f) == f # "rejected"
Penalizes(f)   == f # "rejected"
FailureVerdict(f) == IF f = "unavailable" THEN "unavailable" ELSE "failure"
VerdictOf(f)   == IF Penalizes(f) THEN FailureVerdict(f) ELSE "responsive"

\* A call or a read fails with context.Canceled only when the client is gone.
\* Mutant: the upstream call does not follow the client's context.
PossibleWithoutContext(cause) == cause # "canceled"

Possible(cause) == cause = "canceled" => clientGone

\* What errors.Is and errors.As tell apart later.
ErrorOf(f) == IF f = "empty" THEN "empty" ELSE "other"

\* Classes of buffered status: 2xx; 3xx, 404, 408, 429 and 5xx; the statuses
\* and bodies of upstreamChannelFailure; 403 model_not_allowed; other 4xx.
Statuses    == {"ok", "retryable", "credential", "modelDenied", "client"}
Refusals    == {"retryable", "credential", "modelDenied"}
ReadErrors  == {"canceled", "other"}
CallErrors  == {"canceled", "dns", "other"}
Outcomes    == {"success", "failed", "canceled"}

\* relayRequestOutcome of an upstream failure that is passed on: a status 499
\* or an error code request_canceled of the upstream counts as canceled.
FailureOutcomes == {"failed", "canceled"}

RefusalVerdict(status) == CASE status = "credential"  -> "unavailable"
                            [] status = "modelDenied" -> "responsive"
                            [] OTHER                  -> "failure"

\* The attempt log keeps the error that ended the attempt: the one the loop
\* acts on, or the one the stream was finished with.
LogAttempt(result, verdict, cause) ==
  attemptLog' = Append(attemptLog, [candidate |-> index, outcome |-> result,
                                    verdict |-> verdict, error |-> cause])

\* recordRequest, then the return of RelayWithTrace.
Conclude(result, how) ==
  /\ stage' = "done"
  /\ outcome' = result
  /\ recordings' = recordings + 1
  /\ reply' = how

PublicError(result, code) == /\ Conclude(result, code)
                             /\ UNCHANGED <<header, billed>>

\* Mutant: a failed attempt writes the request log already.
ReturnErrorRecorded(cause) == /\ stage' = "settling"
                              /\ error' = cause
                              /\ recordings' = recordings + 1
                              /\ UNCHANGED <<answer, outcome, billed>>

\* An attempt that returns an error to the loop of RelayWithTrace.
ReturnError(cause) == /\ stage' = "settling"
                      /\ error' = cause
                      /\ UNCHANGED <<answer, ledger>>

\* writeBufferedResponse; a failed write means that the client is gone.
WriteResponse(result, bill, writeFails) ==
  /\ header' = TRUE
  /\ Conclude(IF writeFails THEN "canceled" ELSE result, "upstream")
  /\ billed' = IF bill /\ ~writeFails THEN billed + 1 ELSE billed
  /\ UNCHANGED error

RememberRoute == routes' = Append(routes, index)

-----------------------------------------------------------------------------
(* The loop of RelayWithTrace. *)

\* A plan pinned to the channel of a previous response has one candidate.
PlanRoute(length, affinity) ==
  /\ stage = "planning"
  /\ ~clientGone
  /\ affinity => length = 1
  /\ plan' = [length |-> length, affinity |-> affinity]
  /\ index' = 1
  /\ stage' = "choosing"
  /\ UNCHANGED <<attempts, clientGone, response, stream, error, dnsRun, answer,
                 attemptLog, ledger, routes>>

PlanFails ==
  /\ stage = "planning"
  /\ PublicError("failed", "unroutable")
  /\ UNCHANGED <<progress, clientGone, response, stream, error, dnsRun,
                 attemptLog, routes>>

Choosing == stage = "choosing" /\ index <= plan.length /\ attempts < MaxAttempts

UseCandidate ==
  /\ Choosing
  /\ ~clientGone
  /\ attempts' = attempts + 1
  /\ stage' = "awaiting"
  /\ UNCHANGED <<plan, index, clientGone, response, stream, error, dnsRun,
                 answer, attemptLog, ledger, routes>>

SkipCandidate ==
  /\ Choosing
  /\ ~clientGone
  /\ ~plan.affinity
  /\ index' = index + 1
  /\ UNCHANGED <<stage, plan, attempts, clientGone, response, stream, error,
                 dnsRun, answer, attemptLog, ledger, routes>>

\* The pinned candidate is unavailable, or the query fails: it does once the
\* client is gone.
ChoiceFails ==
  /\ Choosing
  /\ PublicError("failed", "unroutable")
  /\ UNCHANGED <<progress, clientGone, response, stream, error, dnsRun,
                 attemptLog, routes>>

OutOfCandidates ==
  /\ stage = "choosing"
  /\ ~Choosing
  /\ PublicError("failed", CASE attempts = 0    -> "unavailable"
                             [] dnsRun >= 3     -> "dns"
                             [] error = "empty" -> "empty"
                             [] OTHER           -> "exhausted")
  /\ UNCHANGED <<progress, clientGone, response, stream, error, dnsRun,
                 attemptLog, routes>>

NextDNSRun == IF error = "dns" THEN dnsRun + 1 ELSE 0

Settle ==
  /\ stage = "settling"
  /\ IF clientGone \/ error = "canceled"
     THEN /\ PublicError("canceled", "canceled")
          /\ UNCHANGED <<index, dnsRun>>
     ELSE /\ dnsRun' = NextDNSRun
          /\ IF plan.affinity
             THEN PublicError("failed", "unavailable") /\ UNCHANGED index
             ELSE /\ stage' = "choosing"
                  /\ index' = index + 1
                  /\ UNCHANGED <<answer, ledger>>
  /\ UNCHANGED <<plan, attempts, clientGone, response, stream, error,
                 attemptLog, routes>>

-----------------------------------------------------------------------------
(* performAttempt. *)

PreparationFails(cause) ==
  /\ stage = "awaiting"
  /\ Possible(cause)
  /\ LogAttempt("failed", "none", cause)
  /\ ReturnError(cause)
  /\ UNCHANGED <<progress, clientGone, response, stream, dnsRun, routes>>

\* Mutant: a call the client canceled counts as a failure of the channel.
CallVerdictOfAny(canceled, cause) == IF cause = "dns" THEN "none" ELSE "failure"

CallVerdict(canceled, cause) == IF canceled \/ cause = "dns" THEN "none" ELSE "failure"

CallFails(cause) ==
  /\ stage = "awaiting"
  /\ Possible(cause)
  /\ LET canceled == clientGone \/ cause = "canceled"
     IN /\ LogAttempt(IF canceled THEN "canceled" ELSE "failed",
                      CallVerdict(canceled, cause), cause)
        /\ IF canceled THEN RememberRoute ELSE UNCHANGED routes
  /\ ReturnError(cause)
  /\ UNCHANGED <<progress, clientGone, response, stream, dnsRun>>

ResponseArrives(status) ==
  /\ stage = "awaiting"
  /\ stage' = "reading"
  /\ response' = status
  /\ UNCHANGED <<progress, clientGone, stream, error, dnsRun, answer,
                 attemptLog, ledger, routes>>

StreamArrives(outputNeeded) ==
  /\ stage = "awaiting"
  /\ stage' = "streaming"
  /\ stream' = [terminal |-> FALSE, usable |-> ~outputNeeded]
  /\ UNCHANGED <<progress, clientGone, response, error, dnsRun, answer,
                 attemptLog, ledger, routes>>

(* Buffered responses. *)

Read == /\ stage = "reading"
        /\ UNCHANGED <<progress, clientGone, response, stream, dnsRun>>

\* The body could not be read to its end.
BodyReadFails(cause) ==
  /\ Read
  /\ Possible(cause)
  /\ LogAttempt("failed",
                IF response \in Refusals THEN RefusalVerdict(response) ELSE "failure", cause)
  /\ ReturnError(cause)
  /\ UNCHANGED routes

\* A status that lets the loop try another candidate; the last attempt's is
\* passed on, unless the plan is pinned.
StatusRefused(writeFails, result) ==
  /\ Read
  /\ response \in Refusals
  /\ LogAttempt("failed", RefusalVerdict(response), "other")
  /\ IF LastAttempt /\ ~plan.affinity
     THEN WriteResponse(result, FALSE, writeFails)
     ELSE ReturnError("other")
  /\ UNCHANGED routes

\* A 2xx body that reports an application failure.
BodyReportsFailure(f, writeFails, result) ==
  /\ Read
  /\ response = "ok"
  /\ LogAttempt("failed", VerdictOf(f), ErrorOf(f))
  /\ IF ShouldRetry(f) THEN ReturnError(ErrorOf(f)) ELSE WriteResponse(result, FALSE, writeFails)
  /\ UNCHANGED routes

ResponseDelivered(writeFails) ==
  /\ Read
  /\ response = "ok"
  /\ LogAttempt(IF writeFails THEN "canceled" ELSE "success", "success",
                IF writeFails THEN "other" ELSE "none")
  /\ WriteResponse("success", TRUE, writeFails)
  /\ RememberRoute

\* The upstream blames the request; trying elsewhere would not help.
ClientErrorDelivered(writeFails, result) ==
  /\ Read
  /\ response = "client"
  /\ LogAttempt(IF writeFails THEN "canceled" ELSE "failed", "responsive", "other")
  /\ WriteResponse(result, FALSE, writeFails)
  /\ UNCHANGED routes

(* Streams.  The header goes out with the first event that is forwarded,  *)
(* which commits the relay to this attempt.                                *)

\* Mutant: the flag is never set.
NeverCommitted == FALSE

Committed == header

Streaming == /\ stage = "streaming"
             /\ UNCHANGED <<progress, clientGone, response, dnsRun>>

\* finishStream, reached with the header sent.
FinishStream(cause, downstream, logged) ==
  LET failed   == cause \in Failures
      cleared  == IF stream'.terminal /\ ~downstream /\ ~failed THEN "none" ELSE cause
      canceled == \/ downstream
                  \/ ~stream'.terminal /\ (clientGone \/ cleared = "canceled")
      success  == stream'.terminal /\ cleared = "none" /\ ~canceled
      result   == IF canceled THEN "canceled" ELSE IF success THEN "success" ELSE "failed"
      verdict  == IF cleared = "none" \/ canceled THEN "success"
                  ELSE IF failed THEN VerdictOf(cause) ELSE "failure"
  IN /\ LogAttempt(result, verdict, IF canceled THEN "canceled"
                                    ELSE IF failed THEN ErrorOf(cause) ELSE cleared)
     /\ Conclude(IF failed /\ ~canceled THEN logged ELSE result, "upstream")
     /\ billed' = IF success THEN billed + 1 ELSE billed
     /\ IF success \/ (canceled /\ ~failed) THEN RememberRoute ELSE UNCHANGED routes
     /\ UNCHANGED error

\* A first event that is a retryable failure without output is not forwarded.
FirstEventFails(f) ==
  /\ Streaming
  /\ ~Committed
  /\ ShouldRetry(f)
  /\ LogAttempt("failed", FailureVerdict(f), ErrorOf(f))
  /\ ReturnError(ErrorOf(f))
  /\ UNCHANGED <<stream, routes>>

EventForwarded(terminal, usable) ==
  /\ Streaming
  /\ header' = TRUE
  /\ stream' = [terminal |-> stream.terminal \/ terminal, usable |-> stream.usable \/ usable]
  /\ UNCHANGED <<stage, error, reply, attemptLog, ledger, routes>>

\* The client cannot be written to.
EventUndeliverable(terminal) ==
  /\ Streaming
  /\ header' = TRUE
  /\ stream' = [stream EXCEPT !.terminal = @ \/ terminal]
  /\ FinishStream("other", TRUE, "canceled")

\* A failure event that is forwarded: not retryable, or after the header, or
\* carrying output of its own.
EventFails(f, withOutput, terminal, logged) ==
  /\ Streaming
  /\ Committed \/ withOutput \/ ~ShouldRetry(f)
  /\ header' = TRUE
  /\ stream' = [stream EXCEPT !.terminal = @ \/ terminal]
  /\ FinishStream(f, FALSE, logged)

\* The stream ends after its terminal event, or at an end of file or a read
\* error at any point.  A clean end without a terminal event is unexpected,
\* and one without usable output is a failure.
StreamEnds(cause) ==
  /\ Streaming
  /\ Possible(cause)
  /\ Committed
  /\ UNCHANGED <<header, stream>>
  /\ FinishStream(CASE cause # "eof"      -> cause
                    [] ~stream.terminal   -> "other"
                    [] ~stream.usable     -> "empty"
                    [] OTHER              -> "none", FALSE, "failed")

\* It ends before any event.
StreamEndsEmpty(cause) ==
  /\ Streaming
  /\ Possible(cause)
  /\ ~Committed
  /\ LET canceled == cause # "eof" /\ (clientGone \/ cause = "canceled")
     IN /\ LogAttempt(IF canceled THEN "canceled" ELSE "failed",
                      IF canceled THEN "none" ELSE "failure",
                      IF cause = "eof" THEN "other" ELSE cause)
        /\ IF canceled THEN RememberRoute ELSE UNCHANGED routes
  /\ ReturnError(IF cause = "eof" THEN "other" ELSE cause)
  /\ UNCHANGED stream

-----------------------------------------------------------------------------
ClientLeaves ==
  /\ ~clientGone
  /\ stage # "done"
  /\ clientGone' = TRUE
  /\ UNCHANGED <<stage, progress, response, stream, error, dnsRun, answer,
                 attemptLog, ledger, routes>>

Init ==
  /\ stage = "planning"
  /\ plan = [length |-> 0, affinity |-> FALSE]
  /\ index = 0 /\ attempts = 0 /\ dnsRun = 0
  /\ clientGone = FALSE
  /\ response = "none" /\ error = "none" /\ reply = "none"
  /\ stream = [terminal |-> FALSE, usable |-> FALSE]
  /\ header = FALSE
  /\ attemptLog = <<>> /\ routes = <<>>
  /\ outcome = "processing"
  /\ recordings = 0 /\ billed = 0

LoopStep ==
  \/ \E n \in 1 .. MaxCandidates, pin \in BOOLEAN : PlanRoute(n, pin)
  \/ PlanFails \/ UseCandidate \/ SkipCandidate \/ ChoiceFails
  \/ OutOfCandidates \/ Settle

CallStep ==
  \/ \E cause \in CallErrors : PreparationFails(cause) \/ CallFails(cause)
  \/ \E status \in Statuses : ResponseArrives(status)
  \/ \E needed \in BOOLEAN : StreamArrives(needed)

ReadStep ==
  \/ \E cause \in ReadErrors : BodyReadFails(cause)
  \/ \E writeFails \in BOOLEAN :
       \/ ResponseDelivered(writeFails)
       \/ \E result \in FailureOutcomes :
            \/ StatusRefused(writeFails, result)
            \/ \E f \in Failures : BodyReportsFailure(f, writeFails, result)
            \/ ClientErrorDelivered(writeFails, result)

StreamStep ==
  \/ \E f \in Failures : FirstEventFails(f)
  \/ \E terminal, usable \in BOOLEAN : EventForwarded(terminal, usable)
  \/ \E terminal \in BOOLEAN : EventUndeliverable(terminal)
  \/ \E f \in Failures, withOutput, terminal \in BOOLEAN, logged \in FailureOutcomes :
       EventFails(f, withOutput, terminal, logged)
  \/ \E cause \in ReadErrors \cup {"eof"} : StreamEnds(cause) \/ StreamEndsEmpty(cause)

Next == LoopStep \/ CallStep \/ ReadStep \/ StreamStep \/ ClientLeaves

Spec == Init /\ [][Next]_vars

\* The gateway's own steps are taken; a call ends, at the latest by the
\* response-header timeout, and so does the reading of a body, by the idle
\* timeout.  A stream lasts as long as the upstream feeds it, until the
\* cancellation of the context closes it.
Fairness ==
  /\ WF_vars(LoopStep)
  /\ WF_vars(CallStep)
  /\ WF_vars(ReadStep)
  /\ WF_vars(StreamEnds("canceled") \/ StreamEndsEmpty("canceled"))

FairSpec == Spec /\ Fairness

-----------------------------------------------------------------------------
(* Properties. *)

Stages   == {"planning", "choosing", "awaiting", "reading", "streaming", "settling", "done"}
Verdicts == {"none", "success", "responsive", "failure", "unavailable"}
Causes   == {"none", "canceled", "dns", "empty", "other"}
Codes    == {"unroutable", "unavailable", "canceled", "dns", "empty", "exhausted"}

AttemptRecords == [candidate : 1 .. MaxCandidates, outcome : Outcomes,
                   verdict : Verdicts, error : Causes]

\* Every variable keeps its type.
TypeOK ==
  /\ stage \in Stages
  /\ plan \in [length : 0 .. MaxCandidates, affinity : BOOLEAN]
  /\ index \in 0 .. MaxCandidates + 1
  /\ attempts \in Nat /\ dnsRun \in Nat /\ recordings \in Nat /\ billed \in Nat
  /\ clientGone \in BOOLEAN /\ header \in BOOLEAN
  /\ response \in Statuses \cup {"none"}
  /\ stream \in [terminal : BOOLEAN, usable : BOOLEAN]
  /\ error \in Causes
  /\ attemptLog \in Seq(AttemptRecords)
  /\ outcome \in Outcomes \cup {"processing"}
  /\ reply \in Codes \cup {"none", "upstream"}
  /\ routes \in Seq(1 .. MaxCandidates)

Done    == stage = "done"
Current == attemptLog[Len(attemptLog)]

\* Every request ends with exactly one request log, whatever failed, and
\* every attempt with exactly one attempt log, in plan order.
RecordedOnce ==
  /\ recordings = IF Done THEN 1 ELSE 0
  /\ Done <=> outcome # "processing"
  /\ Len(attemptLog) = attempts - IF stage \in {"awaiting", "reading", "streaming"} THEN 1 ELSE 0
  /\ \A i, j \in 1 .. Len(attemptLog) : i < j => attemptLog[i].candidate < attemptLog[j].candidate

\* The client gets an upstream response or a public error, never a piece of
\* one followed by the other: the error body finds the header unsent.
OneAnswer ==
  /\ reply \in Codes => ~header
  /\ reply = "upstream" => header
  /\ Done <=> reply # "none"

\* A call is billed once, and exactly when its last attempt succeeded and the
\* request is logged as a success; canceled or failed calls never are.
BilledIffSuccess ==
  /\ billed = IF outcome = "success" THEN 1 ELSE 0
  /\ outcome = "success" <=> (attemptLog # <<>> /\ Current.outcome = "success")
  /\ \A i \in 1 .. Len(attemptLog) - 1 : attemptLog[i].outcome = "failed"

\* Whatever failed, a request is answered, recorded and billed once.
SettledOnce == RecordedOnce /\ OneAnswer /\ BilledIffSuccess

\* A verdict agrees with the attempt: success is reported for a success, no
\* failure for an attempt logged as canceled, nothing for a DNS error.
VerdictMatchesOutcome ==
  \A i \in 1 .. Len(attemptLog) :
    LET a == attemptLog[i]
    IN /\ a.outcome = "success" => a.verdict = "success"
       /\ a.outcome = "canceled" => a.verdict \notin {"failure", "unavailable"}
       /\ a.error = "dns" => a.verdict = "none"

\* Once a response header is sent the relay stays with the attempt: it
\* neither switches the candidate nor starts another attempt.
NoSwitchAfterHeader == [][header => index' = index /\ attempts' = attempts]_vars

\* Every request ends, unless its client stays and the upstream streams on
\* for ever.
EventuallyAnswered ==
  <>Done \/ <>[](stage = "streaming" /\ ~clientGone)

\* The client's departure is not held against the channel.
CancellationNeverPenalizes ==
  \A i \in 1 .. Len(attemptLog) :
    attemptLog[i].error = "canceled" => attemptLog[i].verdict \notin {"failure", "unavailable"}
=============================================================================
