---------------------------- MODULE Relay_proofs ----------------------------
(***************************************************************************)
(* A relayed request is answered, recorded and billed once, and it never   *)
(* leaves an attempt whose header was sent, for any number of candidates   *)
(* and any configured number of attempts.  A plan by priority keeps the    *)
(* priorities for any channels, the bodies of a request's attempts differ  *)
(* as their channels do and tell all of the conversation for any requests, *)
(* and the forms of an answer agree and hold all of it, whatever the       *)
(* upstream says.                                                          *)
(***************************************************************************)
EXTENDS RelayRequest, RouteOrder, RequestBody, ChatAnswer,
        SequenceTheorems, FiniteSetTheorems, WellFoundedInduction, TLAPS

Attempting == stage \in {"awaiting", "reading", "streaming"}

\* Where the relay stands in its plan, and when a header may be out.
Position ==
  /\ stage = "planning" => attempts = 0 /\ attemptLog = <<>>
  /\ stage = "choosing" => index \in 1 .. plan.length + 1
  /\ Attempting \/ stage = "settling" => index \in 1 .. plan.length
  /\ header => stage \in {"streaming", "done"}
  /\ stage = "reading" => response \in Statuses

\* The attempts made so far: those before the current one failed, and what
\* is settled is the current candidate's, canceled only if Settle sees why.
History ==
  /\ stage \in {"planning", "choosing"} \/ Attempting =>
       \A i \in 1 .. Len(attemptLog) :
         attemptLog[i].outcome = "failed" /\ attemptLog[i].candidate < index
  /\ stage = "settling" =>
       /\ attemptLog # <<>>
       /\ Current.outcome # "success"
       /\ Current.outcome = "canceled" => clientGone \/ error = "canceled"
       /\ \A i \in 1 .. Len(attemptLog) : attemptLog[i].candidate <= index

Inv == TypeOK /\ Position /\ History /\ RecordedOnce /\ OneAnswer /\ BilledIffSuccess

-----------------------------------------------------------------------------
(* The end of an attempt. *)

\* One record more: the others keep their places.
LEMMA OneRecordMore ==
  ASSUME TypeOK, NEW r \in AttemptRecords, attemptLog' = Append(attemptLog, r)
  PROVE  /\ attemptLog' \in Seq(AttemptRecords)
         /\ Len(attemptLog) \in Nat
         /\ Len(attemptLog') = Len(attemptLog) + 1
         /\ attemptLog' # <<>>
         /\ Current' = r
         /\ \A i \in 1 .. Len(attemptLog) : attemptLog'[i] = attemptLog[i]
         /\ attemptLog'[Len(attemptLog) + 1] = r
<1>1. attemptLog \in Seq(AttemptRecords)
  BY DEF TypeOK
<1>2. QED
  BY <1>1, AppendProperties DEF Current

\* A session's route is remembered or left alone.
LEMMA RoutesTyped ==
  ASSUME TypeOK, index \in 1 .. MaxCandidates, routes' = routes \/ RememberRoute
  PROVE  routes' \in Seq(1 .. MaxCandidates)
<1>1. routes \in Seq(1 .. MaxCandidates)
  BY DEF TypeOK
<1>2. Append(routes, index) \in Seq(1 .. MaxCandidates)
  BY <1>1, AppendProperties
<1>3. QED
  BY <1>1, <1>2 DEF RememberRoute

\* What every end of an attempt leaves of the history, whatever it recorded.
LEMMA AttemptLogged ==
  ASSUME Inv, Attempting, NEW r \in AttemptRecords, r.candidate = index,
         attemptLog' = Append(attemptLog, r)
  PROVE  /\ attemptLog' \in Seq(AttemptRecords)
         /\ Len(attemptLog') = attempts
         /\ attemptLog' # <<>>
         /\ Current' = r
         /\ \A i \in 1 .. Len(attemptLog') : attemptLog'[i].candidate <= index
         /\ \A i, j \in 1 .. Len(attemptLog') :
              i < j => attemptLog'[i].candidate < attemptLog'[j].candidate
         /\ \A i \in 1 .. Len(attemptLog') - 1 : attemptLog'[i].outcome = "failed"
<1> USE DEF Inv
<1>1. /\ \A i \in 1 .. Len(attemptLog) :
           attemptLog[i].outcome = "failed" /\ attemptLog[i].candidate < index
      /\ Len(attemptLog) = attempts - 1
      /\ \A i, j \in 1 .. Len(attemptLog) :
           i < j => attemptLog[i].candidate < attemptLog[j].candidate
  BY DEF History, RecordedOnce, Attempting
<1>2. index \in Nat /\ attempts \in Nat
  BY DEF TypeOK
<1>3. /\ attemptLog' \in Seq(AttemptRecords) /\ Len(attemptLog) \in Nat
      /\ Len(attemptLog') = Len(attemptLog) + 1 /\ attemptLog' # <<>> /\ Current' = r
      /\ \A i \in 1 .. Len(attemptLog) : attemptLog'[i] = attemptLog[i]
      /\ attemptLog'[Len(attemptLog) + 1] = r
  BY OneRecordMore
<1>4. \A i \in 1 .. Len(attemptLog') : i \in 1 .. Len(attemptLog) \/ i = Len(attemptLog) + 1
  BY <1>3
<1>5. \A i \in 1 .. Len(attemptLog) : attemptLog[i].candidate \in Nat
  <2>1. attemptLog \in Seq(AttemptRecords)
    BY DEF TypeOK
  <2>2. \A i \in 1 .. Len(attemptLog) : attemptLog[i] \in AttemptRecords
    BY <2>1
  <2>3. QED
    BY <2>2 DEF AttemptRecords
<1>6. \A i \in 1 .. Len(attemptLog') : attemptLog'[i].candidate <= index
  BY <1>1, <1>2, <1>3, <1>4, <1>5
<1>7. \A i, j \in 1 .. Len(attemptLog') :
        i < j => attemptLog'[i].candidate < attemptLog'[j].candidate
  BY <1>1, <1>2, <1>3, <1>4, <1>5
<1>8. \A i \in 1 .. Len(attemptLog') - 1 : attemptLog'[i].outcome = "failed"
  BY <1>1, <1>3
<1>9. QED
  BY <1>1, <1>2, <1>3, <1>6, <1>7, <1>8

-----------------------------------------------------------------------------
(* What the actions that end an attempt have in common: one record, whose  *)
(* verdict agrees with its outcome, and either an error for the loop or an *)
(* answer for the client.                                                  *)

Agrees(r) ==
  /\ r.outcome = "success" => r.verdict = "success"
  /\ r.outcome = "canceled" => r.verdict \notin {"failure", "unavailable"}
  /\ r.error = "dns" => r.verdict = "none"

\* The error is canceled, or the client is gone, if the record is canceled.
Returned(r) ==
  /\ ~header
  /\ r.outcome # "success"
  /\ \E cause \in Causes : /\ ReturnError(cause)
                           /\ r.outcome = "canceled" => clientGone \/ cause = "canceled"

\* The request is billed exactly when the record says success.
Answered(r) ==
  /\ header' = TRUE
  /\ error' = error
  /\ \E result \in Outcomes :
       /\ Conclude(result, "upstream")
       /\ result = "success" <=> r.outcome = "success"
       /\ billed' = IF result = "success" THEN billed + 1 ELSE billed

AttemptEnds(r) ==
  /\ Attempting
  /\ r.candidate = index
  /\ Agrees(r)
  /\ attemptLog' = Append(attemptLog, r)
  /\ UNCHANGED <<plan, index, attempts, clientGone, response, dnsRun>>
  /\ stream' \in [terminal : BOOLEAN, usable : BOOLEAN]
  /\ (routes' = routes) \/ RememberRoute
  /\ Returned(r) \/ Answered(r)

\* The attempt returns an error to the loop.
LEMMA AttemptReturnsError ==
  ASSUME Inv, NEW r \in AttemptRecords, AttemptEnds(r), Returned(r)
  PROVE  Inv'
<1> USE DEF Inv
<1> PICK cause \in Causes : /\ ReturnError(cause)
                            /\ r.outcome = "canceled" => clientGone \/ cause = "canceled"
  BY DEF Returned
<1>1. /\ Attempting /\ Len(attemptLog') = attempts /\ attemptLog' # <<>> /\ Current' = r
      /\ attemptLog' \in Seq(AttemptRecords)
      /\ \A i \in 1 .. Len(attemptLog') : attemptLog'[i].candidate <= index
      /\ \A i, j \in 1 .. Len(attemptLog') :
           i < j => attemptLog'[i].candidate < attemptLog'[j].candidate
      /\ \A i \in 1 .. Len(attemptLog') - 1 : attemptLog'[i].outcome = "failed"
  BY AttemptLogged DEF AttemptEnds
<1>2. /\ stage' = "settling" /\ error' = cause
      /\ UNCHANGED <<plan, index, attempts, clientGone, response, dnsRun, header, reply,
                     outcome, recordings, billed>>
      /\ ~header /\ r.outcome # "success"
  BY DEF AttemptEnds, Returned, ReturnError, answer, ledger
<1>3. TypeOK'
  <2>1. index \in 1 .. MaxCandidates
    BY <1>1, CandidatesAssumption DEF TypeOK, Position
  <2>2. routes' \in Seq(1 .. MaxCandidates)
    BY <2>1, RoutesTyped DEF AttemptEnds
  <2>3. QED
    BY <1>1, <1>2, <2>2 DEF AttemptEnds, TypeOK, Stages
<1>4. Position'
  BY <1>1, <1>2 DEF Position, Attempting
<1>5. History'
  BY <1>1, <1>2 DEF History, Attempting
<1>6. RecordedOnce'
  <2>1. attempts \in Nat
    BY DEF TypeOK
  <2>2. QED
    BY <1>1, <1>2, <2>1 DEF RecordedOnce, Done, Attempting
<1>7. OneAnswer'
  BY <1>1, <1>2 DEF OneAnswer, Done, Attempting
<1>8. BilledIffSuccess'
  <2>1. outcome = "processing"
    BY <1>1 DEF RecordedOnce, Done, Attempting
  <2>2. QED
    BY <1>1, <1>2, <2>1 DEF BilledIffSuccess
<1>9. QED
  BY <1>3, <1>4, <1>5, <1>6, <1>7, <1>8

\* The attempt answers the client with an upstream response, which ends the
\* request; it is billed exactly when the record says success.
LEMMA AttemptAnswers ==
  ASSUME Inv, NEW r \in AttemptRecords, AttemptEnds(r), Answered(r)
  PROVE  Inv'
<1> USE DEF Inv
<1> PICK result \in Outcomes :
      /\ Conclude(result, "upstream")
      /\ result = "success" <=> r.outcome = "success"
      /\ billed' = IF result = "success" THEN billed + 1 ELSE billed
  BY DEF Answered
<1>1. /\ Attempting /\ Len(attemptLog') = attempts /\ attemptLog' # <<>> /\ Current' = r
      /\ attemptLog' \in Seq(AttemptRecords)
      /\ \A i, j \in 1 .. Len(attemptLog') :
           i < j => attemptLog'[i].candidate < attemptLog'[j].candidate
      /\ \A i \in 1 .. Len(attemptLog') - 1 : attemptLog'[i].outcome = "failed"
  BY AttemptLogged DEF AttemptEnds
<1>2. /\ stage' = "done" /\ reply' = "upstream" /\ outcome' = result /\ header' = TRUE
      /\ recordings' = recordings + 1
      /\ UNCHANGED <<plan, index, attempts, clientGone, response, dnsRun, error>>
  BY DEF AttemptEnds, Answered, Conclude
<1>3. outcome = "processing" /\ recordings = 0 /\ billed = 0
  BY <1>1 DEF Attempting, RecordedOnce, Done, BilledIffSuccess
<1>4. TypeOK'
  <2>1. index \in 1 .. MaxCandidates
    BY <1>1, CandidatesAssumption DEF TypeOK, Position
  <2>2. routes' \in Seq(1 .. MaxCandidates)
    BY <2>1, RoutesTyped DEF AttemptEnds
  <2>3. QED
    BY <1>1, <1>2, <1>3, <2>2 DEF AttemptEnds, TypeOK, Stages
<1>5. Position' /\ History'
  BY <1>2 DEF Position, History, Attempting
<1>6. RecordedOnce'
  <2>1. attempts \in Nat
    BY DEF TypeOK
  <2>2. QED
    BY <1>1, <1>2, <1>3, <2>1 DEF RecordedOnce, Done, Outcomes
<1>7. OneAnswer'
  BY <1>2 DEF OneAnswer, Done, Codes
<1>8. BilledIffSuccess'
  BY <1>1, <1>2, <1>3 DEF BilledIffSuccess
<1>9. QED
  BY <1>4, <1>5, <1>6, <1>7, <1>8

\* Either way the invariant holds, and the new verdict agrees with its record.
LEMMA EndKeepsInv ==
  ASSUME Inv, NEW r \in AttemptRecords, AttemptEnds(r)
  PROVE  Inv' /\ (VerdictMatchesOutcome => VerdictMatchesOutcome')
<1>1. Inv'
  BY AttemptReturnsError, AttemptAnswers DEF AttemptEnds
<1>2. ASSUME VerdictMatchesOutcome PROVE VerdictMatchesOutcome'
  <2>1. /\ \A i \in 1 .. Len(attemptLog) : attemptLog'[i] = attemptLog[i]
        /\ Len(attemptLog) \in Nat /\ Len(attemptLog') = Len(attemptLog) + 1
        /\ attemptLog'[Len(attemptLog) + 1] = r
    BY OneRecordMore DEF AttemptEnds, Inv
  <2>2. \A i \in 1 .. Len(attemptLog) : Agrees(attemptLog[i])
    BY <1>2 DEF VerdictMatchesOutcome, Agrees
  <2>3. \A i \in 1 .. Len(attemptLog') : Agrees(attemptLog'[i])
    <3> SUFFICES ASSUME NEW i \in 1 .. Len(attemptLog') PROVE Agrees(attemptLog'[i])
      OBVIOUS
    <3>1. CASE i \in 1 .. Len(attemptLog)
      BY <2>1, <2>2, <3>1
    <3>2. CASE i = Len(attemptLog) + 1
      BY <2>1, <3>2 DEF AttemptEnds
    <3>3. QED
      BY <2>1, <3>1, <3>2
  <2>4. QED
    BY <2>3 DEF VerdictMatchesOutcome, Agrees
<1>3. QED
  BY <1>1, <1>2

-----------------------------------------------------------------------------
(* The actions that end an attempt do. *)

Record(result, verdict, cause) ==
  [candidate |-> index, outcome |-> result, verdict |-> verdict, error |-> cause]

\* The record of an attempt is about the current candidate.
LEMMA RecordTyped ==
  ASSUME Inv, Attempting, NEW result \in Outcomes, NEW verdict \in Verdicts, NEW cause \in Causes
  PROVE  /\ Record(result, verdict, cause) \in AttemptRecords
         /\ Record(result, verdict, cause).candidate = index
         /\ Record(result, verdict, cause).outcome = result
         /\ Record(result, verdict, cause).verdict = verdict
         /\ Record(result, verdict, cause).error = cause
         /\ LogAttempt(result, verdict, cause)
              => attemptLog' = Append(attemptLog, Record(result, verdict, cause))
<1>1. index \in 1 .. MaxCandidates
  BY CandidatesAssumption DEF Inv, Position, TypeOK
<1>2. QED
  BY <1>1 DEF Record, AttemptRecords, LogAttempt

\* An attempt that never got a response to pass on, or kept it for itself.
LEMMA EndsWithError ==
  ASSUME Inv, Attempting, ~header,
         NEW result \in {"failed", "canceled"}, NEW verdict \in Verdicts, NEW logged \in Causes,
         NEW cause \in Causes,
         LogAttempt(result, verdict, logged), ReturnError(cause),
         result = "canceled" => clientGone \/ cause = "canceled",
         result = "canceled" => verdict \notin {"failure", "unavailable"},
         logged = "dns" => verdict = "none",
         UNCHANGED <<plan, index, attempts, clientGone, response, stream, dnsRun>>,
         (routes' = routes) \/ RememberRoute
  PROVE  \E r \in AttemptRecords : AttemptEnds(r)
<1> DEFINE r == Record(result, verdict, logged)
<1>1. /\ r \in AttemptRecords /\ r.candidate = index /\ r.outcome = result
      /\ r.verdict = verdict /\ r.error = logged
      /\ attemptLog' = Append(attemptLog, r)
  BY RecordTyped DEF Outcomes
<1> HIDE DEF r
<1>2. Agrees(r) /\ Returned(r)
  BY <1>1 DEF Agrees, Returned
<1>3. stream' \in [terminal : BOOLEAN, usable : BOOLEAN]
  BY DEF Inv, TypeOK
<1>4. QED
  BY <1>1, <1>2, <1>3 DEF AttemptEnds

\* An attempt whose response reached the client, or was on its way.
LEMMA EndsWithAnswer ==
  ASSUME Inv, Attempting,
         NEW result \in Outcomes, NEW verdict \in Verdicts, NEW logged \in Causes,
         NEW final \in Outcomes,
         LogAttempt(result, verdict, logged), Conclude(final, "upstream"),
         final = "success" <=> result = "success",
         billed' = IF final = "success" THEN billed + 1 ELSE billed,
         header' = TRUE, error' = error,
         result = "success" => verdict = "success",
         result = "canceled" => verdict \notin {"failure", "unavailable"},
         logged # "dns",
         UNCHANGED <<plan, index, attempts, clientGone, response, dnsRun>>,
         stream' \in [terminal : BOOLEAN, usable : BOOLEAN],
         (routes' = routes) \/ RememberRoute
  PROVE  \E r \in AttemptRecords : AttemptEnds(r)
<1> DEFINE r == Record(result, verdict, logged)
<1>1. /\ r \in AttemptRecords /\ r.candidate = index /\ r.outcome = result
      /\ r.verdict = verdict /\ r.error = logged
      /\ attemptLog' = Append(attemptLog, r)
  BY RecordTyped
<1> HIDE DEF r
<1>2. Agrees(r) /\ Answered(r)
  BY <1>1 DEF Agrees, Answered
<1>3. QED
  BY <1>1, <1>2 DEF AttemptEnds

USE DEF progress

\* Failures of the call and of reading a body.
LEMMA CallEnds ==
  ASSUME Inv,
         \/ \E cause \in CallErrors : PreparationFails(cause) \/ CallFails(cause)
         \/ \E cause \in ReadErrors : BodyReadFails(cause)
         \/ \E cause \in ReadErrors \cup {"eof"} : StreamEndsEmpty(cause)
         \/ \E f \in Failures : FirstEventFails(f)
  PROVE  \E r \in AttemptRecords : AttemptEnds(r)
<1> USE DEF Inv
<1>1. ASSUME NEW cause \in CallErrors, PreparationFails(cause) PROVE \E r \in AttemptRecords : AttemptEnds(r)
  <2>1. Attempting /\ ~header /\ cause \in Causes /\ "none" \in Verdicts
    BY <1>1 DEF PreparationFails, Attempting, Position, CallErrors, Causes, Verdicts
  <2>2. QED
    BY <1>1, <2>1, EndsWithError DEF PreparationFails
<1>2. ASSUME NEW cause \in CallErrors, CallFails(cause) PROVE \E r \in AttemptRecords : AttemptEnds(r)
  <2> DEFINE canceled == clientGone \/ cause = "canceled"
             result   == IF canceled THEN "canceled" ELSE "failed"
             verdict  == CallVerdict(canceled, cause)
  <2>1. Attempting /\ ~header /\ cause \in Causes
    BY <1>2 DEF CallFails, Attempting, Position, CallErrors, Causes
  <2>2. /\ verdict \in Verdicts
        /\ canceled => verdict = "none"
        /\ cause = "dns" => verdict = "none"
    BY DEF CallVerdict, Verdicts
  <2>3. /\ LogAttempt(result, verdict, cause) /\ ReturnError(cause)
        /\ UNCHANGED <<plan, index, attempts, clientGone, response, stream, dnsRun>>
        /\ (routes' = routes) \/ RememberRoute
    BY <1>2 DEF CallFails
  <2> HIDE DEF verdict
  <2>4. QED
    BY <2>1, <2>2, <2>3, EndsWithError
<1>3. ASSUME NEW cause \in ReadErrors, BodyReadFails(cause) PROVE \E r \in AttemptRecords : AttemptEnds(r)
  <2> DEFINE verdict == IF response \in Refusals THEN RefusalVerdict(response) ELSE "failure"
  <2>1. /\ Attempting /\ ~header /\ cause \in Causes /\ cause # "dns" /\ verdict \in Verdicts
    BY <1>3 DEF BodyReadFails, Read, Attempting, Position, ReadErrors, Causes, Verdicts,
                RefusalVerdict
  <2>2. /\ LogAttempt("failed", verdict, cause) /\ ReturnError(cause) /\ routes' = routes
        /\ UNCHANGED <<plan, index, attempts, clientGone, response, stream, dnsRun>>
    BY <1>3 DEF BodyReadFails, Read
  <2> HIDE DEF verdict
  <2>3. QED
    BY <2>1, <2>2, EndsWithError
<1>4. ASSUME NEW cause \in ReadErrors \cup {"eof"}, StreamEndsEmpty(cause)
      PROVE  \E r \in AttemptRecords : AttemptEnds(r)
  <2> DEFINE canceled == cause # "eof" /\ (clientGone \/ cause = "canceled")
             result   == IF canceled THEN "canceled" ELSE "failed"
             verdict  == IF canceled THEN "none" ELSE "failure"
             seen     == IF cause = "eof" THEN "other" ELSE cause
  <2>1. /\ Attempting /\ ~header /\ seen \in Causes /\ seen # "dns" /\ verdict \in Verdicts
        /\ canceled => clientGone \/ seen = "canceled"
    BY <1>4 DEF StreamEndsEmpty, Streaming, Committed, Attempting, ReadErrors, Causes, Verdicts
  <2>2. /\ LogAttempt(result, verdict, seen) /\ ReturnError(seen)
        /\ UNCHANGED <<plan, index, attempts, clientGone, response, stream, dnsRun>>
        /\ (routes' = routes) \/ RememberRoute
    BY <1>4 DEF StreamEndsEmpty, Streaming
  <2> HIDE DEF seen
  <2>3. QED
    BY <2>1, <2>2, EndsWithError
<1>5. ASSUME NEW f \in Failures, FirstEventFails(f) PROVE \E r \in AttemptRecords : AttemptEnds(r)
  <2>1. /\ Attempting /\ ~header /\ ErrorOf(f) \in Causes /\ ErrorOf(f) # "dns"
        /\ FailureVerdict(f) \in Verdicts
    BY <1>5 DEF FirstEventFails, Streaming, Committed, Attempting, ErrorOf, FailureVerdict,
                Causes, Verdicts
  <2>2. /\ LogAttempt("failed", FailureVerdict(f), ErrorOf(f)) /\ ReturnError(ErrorOf(f))
        /\ UNCHANGED <<plan, index, attempts, clientGone, response, stream, dnsRun, routes>>
    BY <1>5 DEF FirstEventFails, Streaming
  <2>3. QED
    BY <2>1, <2>2, EndsWithError
<1>6. QED
  BY <1>1, <1>2, <1>3, <1>4, <1>5

\* Buffered responses: refused, passed on, or delivered.
LEMMA BufferedEnds ==
  ASSUME Inv, NEW writeFails \in BOOLEAN, NEW result \in FailureOutcomes,
         \/ ResponseDelivered(writeFails)
         \/ StatusRefused(writeFails, result)
         \/ \E f \in Failures : BodyReportsFailure(f, writeFails, result)
         \/ ClientErrorDelivered(writeFails, result)
  PROVE  \E r \in AttemptRecords : AttemptEnds(r)
<1> USE DEF Inv
<1>1. /\ Read /\ Attempting /\ ~header
      /\ UNCHANGED <<plan, index, attempts, clientGone, response, stream, dnsRun>>
      /\ stream' \in [terminal : BOOLEAN, usable : BOOLEAN]
  BY DEF ResponseDelivered, StatusRefused, BodyReportsFailure, ClientErrorDelivered, Read,
         Attempting, Position, TypeOK
\* writeBufferedResponse of anything but a success.
<1>2. ASSUME NEW logged \in {"failed", "canceled"}, NEW verdict \in Verdicts, NEW cause \in Causes,
             cause # "dns", logged = "canceled" => verdict \notin {"failure", "unavailable"},
             LogAttempt(logged, verdict, cause), WriteResponse(result, FALSE, writeFails),
             routes' = routes
      PROVE  \E r \in AttemptRecords : AttemptEnds(r)
  <2> DEFINE final == IF writeFails THEN "canceled" ELSE result
  <2>1. final \in Outcomes /\ final # "success" /\ logged \in Outcomes /\ logged # "success"
    BY DEF FailureOutcomes, Outcomes
  <2>2. /\ Conclude(final, "upstream") /\ header' = TRUE /\ error' = error
        /\ billed' = billed
    BY <1>2 DEF WriteResponse
  <2> HIDE DEF final
  <2>3. QED
    BY <1>1, <1>2, <2>1, <2>2, EndsWithAnswer
<1>3. CASE ResponseDelivered(writeFails)
  <2> DEFINE final == IF writeFails THEN "canceled" ELSE "success"
             cause == IF writeFails THEN "other" ELSE "none"
  <2>1. final \in Outcomes /\ cause \in Causes /\ cause # "dns" /\ "success" \in Verdicts
    BY DEF Outcomes, Causes, Verdicts
  <2>2. /\ LogAttempt(final, "success", cause) /\ Conclude(final, "upstream")
        /\ header' = TRUE /\ error' = error /\ RememberRoute
        /\ billed' = IF final = "success" THEN billed + 1 ELSE billed
    BY <1>3 DEF ResponseDelivered, WriteResponse
  <2> HIDE DEF final, cause
  <2>3. QED
    BY <1>1, <2>1, <2>2, EndsWithAnswer
<1>4. CASE StatusRefused(writeFails, result)
  <2>1. /\ RefusalVerdict(response) \in Verdicts /\ "other" \in Causes
        /\ LogAttempt("failed", RefusalVerdict(response), "other") /\ routes' = routes
        /\ WriteResponse(result, FALSE, writeFails) \/ ReturnError("other")
    BY <1>4 DEF StatusRefused, RefusalVerdict, Verdicts, Causes
  <2>2. CASE WriteResponse(result, FALSE, writeFails)
    BY <1>2, <2>1, <2>2
  <2>3. CASE ReturnError("other")
    BY <1>1, <2>1, <2>3, EndsWithError
  <2>4. QED
    BY <2>1, <2>2, <2>3
<1>5. ASSUME NEW f \in Failures, BodyReportsFailure(f, writeFails, result)
      PROVE  \E r \in AttemptRecords : AttemptEnds(r)
  <2>1. /\ VerdictOf(f) \in Verdicts /\ ErrorOf(f) \in Causes /\ ErrorOf(f) # "dns"
        /\ LogAttempt("failed", VerdictOf(f), ErrorOf(f)) /\ routes' = routes
        /\ WriteResponse(result, FALSE, writeFails) \/ ReturnError(ErrorOf(f))
    BY <1>5 DEF BodyReportsFailure, VerdictOf, FailureVerdict, ErrorOf, Verdicts, Causes
  <2>2. CASE WriteResponse(result, FALSE, writeFails)
    BY <1>2, <2>1, <2>2
  <2>3. CASE ReturnError(ErrorOf(f))
    BY <1>1, <2>1, <2>3, EndsWithError
  <2>4. QED
    BY <2>1, <2>2, <2>3
<1>6. CASE ClientErrorDelivered(writeFails, result)
  <2> DEFINE logged == IF writeFails THEN "canceled" ELSE "failed"
  <2>1. /\ "responsive" \in Verdicts /\ "other" \in Causes
        /\ LogAttempt(logged, "responsive", "other") /\ routes' = routes
        /\ WriteResponse(result, FALSE, writeFails)
    BY <1>6 DEF ClientErrorDelivered, Verdicts, Causes
  <2>2. QED
    BY <1>2, <2>1
<1>7. QED
  BY <1>3, <1>4, <1>5, <1>6

\* finishStream, however the stream came to its end.
LEMMA FinishStreamEnds ==
  ASSUME Inv, Streaming, NEW cause \in Failures \cup {"canceled", "other", "none"},
         NEW downstream \in BOOLEAN, NEW logged \in FailureOutcomes,
         stream' \in [terminal : BOOLEAN, usable : BOOLEAN], header' = TRUE,
         FinishStream(cause, downstream, logged)
  PROVE  \E r \in AttemptRecords : AttemptEnds(r)
<1> DEFINE failed   == cause \in Failures
           cleared  == IF stream'.terminal /\ ~downstream /\ ~failed THEN "none" ELSE cause
           canceled == \/ downstream
                       \/ ~stream'.terminal /\ (clientGone \/ cleared = "canceled")
           success  == stream'.terminal /\ cleared = "none" /\ ~canceled
           result   == IF canceled THEN "canceled" ELSE IF success THEN "success" ELSE "failed"
           verdict  == IF cleared = "none" \/ canceled THEN "success"
                       ELSE IF failed THEN VerdictOf(cause) ELSE "failure"
           seen     == IF canceled THEN "canceled" ELSE IF failed THEN ErrorOf(cause) ELSE cleared
           final    == IF failed /\ ~canceled THEN logged ELSE result
<1>1. /\ LogAttempt(result, verdict, seen) /\ Conclude(final, "upstream")
      /\ billed' = IF success THEN billed + 1 ELSE billed
      /\ error' = error
      /\ (routes' = routes) \/ RememberRoute
  BY Zenon DEF FinishStream
<1>2. "none" \notin Failures
  BY DEF Failures
<1>3. /\ result \in Outcomes /\ final \in Outcomes
      /\ final = "success" <=> result = "success"
      /\ final = "success" <=> success
  BY <1>2 DEF FailureOutcomes, Outcomes
<1>4. verdict \in Verdicts
  BY DEF VerdictOf, FailureVerdict, Verdicts
<1>5. seen \in Causes /\ seen # "dns"
  BY DEF ErrorOf, Causes, Failures
<1>6. /\ result = "success" => verdict = "success"
      /\ result = "canceled" => verdict \notin {"failure", "unavailable"}
  OBVIOUS
<1>7. /\ Attempting
      /\ UNCHANGED <<plan, index, attempts, clientGone, response, dnsRun>>
  BY DEF Streaming, Attempting
<1>8. billed' = IF final = "success" THEN billed + 1 ELSE billed
  BY <1>1, <1>3
<1> HIDE DEF result, verdict, seen, final, success, canceled, cleared, failed
<1>9. QED
  BY <1>1, <1>3, <1>4, <1>5, <1>6, <1>7, <1>8, EndsWithAnswer

\* Streams: the client cannot be written to, a failure is forwarded, or the
\* stream ends.
LEMMA StreamFinishes ==
  ASSUME Inv,
         \/ \E terminal \in BOOLEAN : EventUndeliverable(terminal)
         \/ \E f \in Failures, withOutput, terminal \in BOOLEAN, logged \in FailureOutcomes :
              EventFails(f, withOutput, terminal, logged)
         \/ \E cause \in ReadErrors \cup {"eof"} : StreamEnds(cause)
  PROVE  \E r \in AttemptRecords : AttemptEnds(r)
<1>1. stream \in [terminal : BOOLEAN, usable : BOOLEAN] /\ header \in BOOLEAN
  BY DEF Inv, TypeOK
<1>2. ASSUME NEW terminal \in BOOLEAN, EventUndeliverable(terminal)
      PROVE  \E r \in AttemptRecords : AttemptEnds(r)
  <2>1. Streaming /\ stream' \in [terminal : BOOLEAN, usable : BOOLEAN] /\ header' = TRUE
    BY <1>1, <1>2 DEF EventUndeliverable
  <2>2. FinishStream("other", TRUE, "canceled") /\ "canceled" \in FailureOutcomes
    BY <1>2 DEF EventUndeliverable, FailureOutcomes
  <2>3. QED
    BY <2>1, <2>2, FinishStreamEnds
<1>3. ASSUME NEW f \in Failures, NEW withOutput \in BOOLEAN, NEW terminal \in BOOLEAN,
             NEW logged \in FailureOutcomes, EventFails(f, withOutput, terminal, logged)
      PROVE  \E r \in AttemptRecords : AttemptEnds(r)
  <2>1. /\ Streaming /\ stream' \in [terminal : BOOLEAN, usable : BOOLEAN] /\ header' = TRUE
        /\ FinishStream(f, FALSE, logged)
    BY <1>1, <1>3 DEF EventFails
  <2>2. QED
    BY <2>1, FinishStreamEnds
<1>4. ASSUME NEW cause \in ReadErrors \cup {"eof"}, StreamEnds(cause)
      PROVE  \E r \in AttemptRecords : AttemptEnds(r)
  <2> DEFINE seen == CASE cause # "eof"    -> cause
                       [] ~stream.terminal -> "other"
                       [] ~stream.usable   -> "empty"
                       [] OTHER            -> "none"
  <2>1. /\ Streaming /\ stream' \in [terminal : BOOLEAN, usable : BOOLEAN] /\ header' = TRUE
        /\ FinishStream(seen, FALSE, "failed") /\ "failed" \in FailureOutcomes
    BY <1>1, <1>4 DEF StreamEnds, Committed, FailureOutcomes
  <2>2. seen \in Failures \cup {"canceled", "other", "none"}
    BY DEF ReadErrors, Failures
  <2> HIDE DEF seen
  <2>3. QED
    BY <2>1, <2>2, FinishStreamEnds
<1>5. QED
  BY <1>2, <1>3, <1>4

-----------------------------------------------------------------------------
(* The other steps. *)

\* While an attempt goes on, only what was received changes.
LEMMA AttemptGoesOn ==
  ASSUME Inv,
         \/ \E status \in Statuses : ResponseArrives(status)
         \/ \E needed \in BOOLEAN : StreamArrives(needed)
         \/ \E terminal, seen \in BOOLEAN : EventForwarded(terminal, seen)
  PROVE  Inv' /\ attemptLog' = attemptLog
<1> USE DEF Inv, answer, ledger
<1>1. /\ Attempting
      /\ UNCHANGED <<plan, index, attempts, clientGone, error, dnsRun, reply, attemptLog,
                     outcome, recordings, billed, routes>>
  BY DEF ResponseArrives, StreamArrives, EventForwarded, Streaming, Attempting
<1> DEFINE Arrived  == /\ stage \in {"reading", "streaming"}
                       /\ response \in Statuses \cup {"none"}
                       /\ header \in BOOLEAN
                       /\ stream \in [terminal : BOOLEAN, usable : BOOLEAN]
                       /\ stage = "reading" => response \in Statuses /\ ~header
<1>2. Arrived'
  <2>1. ASSUME NEW status \in Statuses, ResponseArrives(status) PROVE Arrived'
    BY <2>1 DEF ResponseArrives, TypeOK, Position
  <2>2. ASSUME NEW needed \in BOOLEAN, StreamArrives(needed) PROVE Arrived'
    BY <2>2 DEF StreamArrives, TypeOK, Position
  <2>3. ASSUME NEW terminal \in BOOLEAN, NEW seen \in BOOLEAN, EventForwarded(terminal, seen)
        PROVE Arrived'
    BY <2>3 DEF EventForwarded, Streaming, TypeOK
  <2>4. QED
    BY <2>1, <2>2, <2>3
<1>3. TypeOK'
  <2>1. stage' \in Stages
    BY <1>2 DEF Stages
  <2>2. QED
    BY <1>1, <1>2, <2>1 DEF TypeOK
<1>4. Position' /\ History'
  BY <1>1, <1>2 DEF Position, History, Attempting, Current
<1>5. RecordedOnce' /\ OneAnswer' /\ BilledIffSuccess'
  BY <1>1, <1>2 DEF RecordedOnce, OneAnswer, BilledIffSuccess, Attempting, Done, Current, Codes
<1>6. QED
  BY <1>1, <1>3, <1>4, <1>5

\* A public error ends a request that has sent nothing; if an attempt was
\* made, its record is no success.
LEMMA PublicErrorKeepsInv ==
  ASSUME Inv, stage \in {"planning", "choosing", "settling"},
         NEW result \in {"failed", "canceled"}, NEW code \in Codes,
         PublicError(result, code),
         UNCHANGED <<plan, index, attempts, clientGone, response, stream, error, attemptLog, routes>>,
         dnsRun' \in Nat
  PROVE  Inv'
<1> USE DEF Inv
<1>1. /\ stage' = "done" /\ outcome' = result /\ reply' = code /\ recordings' = recordings + 1
      /\ header' = header /\ billed' = billed
      /\ UNCHANGED <<plan, index, attempts, clientGone, response, stream, error, attemptLog, routes>>
  BY DEF PublicError, Conclude
<1>2. /\ ~header /\ outcome = "processing" /\ recordings = 0 /\ billed = 0
      /\ Len(attemptLog) = attempts
  BY DEF Position, RecordedOnce, BilledIffSuccess, Done, TypeOK
<1>3. attemptLog # <<>> => Current.outcome # "success"
  <2>1. CASE stage = "settling"
    BY <2>1 DEF History
  <2>2. CASE stage # "settling"
    <3>1. \A i \in 1 .. Len(attemptLog) : attemptLog[i].outcome = "failed"
      BY <2>2 DEF History
    <3>2. attemptLog # <<>> => Len(attemptLog) \in 1 .. Len(attemptLog)
      BY DEF TypeOK
    <3>3. QED
      BY <3>1, <3>2 DEF Current
  <2>3. QED
    BY <2>1, <2>2
<1>4. TypeOK'
  BY <1>1, <1>2 DEF TypeOK, Stages, Outcomes
<1>5. Position' /\ History'
  BY <1>1, <1>2 DEF Position, History, Attempting
<1>6. RecordedOnce'
  <2>1. Len(attemptLog') = attempts' /\ attempts' \in Nat
    BY <1>1, <1>2 DEF TypeOK
  <2>2. \A i, j \in 1 .. Len(attemptLog) :
          i < j => attemptLog[i].candidate < attemptLog[j].candidate
    BY DEF RecordedOnce
  <2>3. QED
    BY <1>1, <1>2, <2>1, <2>2 DEF RecordedOnce, Done
<1>7. OneAnswer'
  BY <1>1, <1>2 DEF OneAnswer, Done, Codes
<1>8. BilledIffSuccess'
  <2>1. \A i \in 1 .. Len(attemptLog) - 1 : attemptLog[i].outcome = "failed"
    BY DEF BilledIffSuccess
  <2>2. Current' = Current /\ attemptLog' = attemptLog
    BY <1>1 DEF Current
  <2>3. outcome' # "success" /\ billed' = 0
    BY <1>1, <1>2
  <2>4. QED
    BY <1>3, <2>1, <2>2, <2>3 DEF BilledIffSuccess
<1>9. QED
  BY <1>4, <1>5, <1>6, <1>7, <1>8

\* The other steps of the loop answer nothing and record nothing.
LEMMA LoopKeepsInv ==
  ASSUME Inv, LoopStep
  PROVE  Inv' /\ attemptLog' = attemptLog
<1> USE DEF Inv
<1> DEFINE Quiet == /\ ~header
                    /\ UNCHANGED <<answer, attemptLog, ledger>>
                    /\ UNCHANGED <<clientGone, response, stream, error, routes>>
\* Whoever leaves the stage alone answers nothing.
<1>1. ASSUME Quiet, stage' \in {"choosing", "awaiting"},
             stage \in {"planning", "choosing", "settling"},
             attempts' = attempts + (IF stage' = "awaiting" THEN 1 ELSE 0),
             stage = "planning" \/ index' >= index,
             stage = "settling" => index' > index /\ ~clientGone /\ error # "canceled",
             index' \in 1 .. plan'.length + 1, stage' = "awaiting" => index' <= plan'.length,
             plan' \in [length : 0 .. MaxCandidates, affinity : BOOLEAN], dnsRun' \in Nat
      PROVE  Inv'
  <2>1. /\ UNCHANGED <<header, reply, outcome, recordings, billed, attemptLog, clientGone,
                       response, stream, error, routes>>
        /\ ~header
    BY <1>1 DEF answer, ledger
  <2>2. index' \in Nat /\ plan'.length \in 0 .. MaxCandidates /\ index \in Nat /\ attempts \in Nat
    BY <1>1, CandidatesAssumption, AttemptsAssumption DEF TypeOK
  <2>3. TypeOK'
    BY <1>1, <2>1, <2>2, CandidatesAssumption DEF TypeOK, Stages
  <2>4. Position'
    BY <1>1, <2>1, <2>2 DEF Position, Attempting
  <2>5. \A i \in 1 .. Len(attemptLog) :
          attemptLog[i].outcome = "failed" /\ attemptLog[i].candidate < index'
    <3>1. \A i \in 1 .. Len(attemptLog) : attemptLog[i].candidate \in Nat
      <4>1. attemptLog \in Seq(AttemptRecords)
        BY DEF TypeOK
      <4>2. \A i \in 1 .. Len(attemptLog) : attemptLog[i] \in AttemptRecords
        BY <4>1
      <4>3. QED
        BY <4>2 DEF AttemptRecords
    <3>2. CASE stage # "settling"
      <4>1. CASE stage = "planning"
        BY <4>1 DEF Position
      <4>2. CASE stage = "choosing"
        BY <1>1, <2>2, <3>1, <4>2 DEF History
      <4>3. QED
        BY <1>1, <3>2, <4>1, <4>2
    <3>3. CASE stage = "settling"
      <4>1. \A i \in 1 .. Len(attemptLog) : attemptLog[i].candidate <= index
        BY <3>3 DEF History
      <4>2. Current.outcome = "failed"
        <5>1. Current.outcome # "success" /\ Current.outcome # "canceled" /\ attemptLog # <<>>
          BY <1>1, <3>3 DEF History
        <5>2. Current \in AttemptRecords
          BY <5>1 DEF Current, TypeOK
        <5>3. QED
          BY <5>1, <5>2 DEF AttemptRecords, Outcomes
      <4>3. \A i \in 1 .. Len(attemptLog) : i \in 1 .. Len(attemptLog) - 1 \/ i = Len(attemptLog)
        BY DEF TypeOK
      <4>4. QED
        BY <1>1, <2>2, <3>1, <3>3, <4>1, <4>2, <4>3 DEF BilledIffSuccess, Current
    <3>4. QED
      BY <3>2, <3>3
  <2>6. History'
    BY <1>1, <2>1, <2>5 DEF History, Attempting
  <2>7. RecordedOnce'
    <3>1. Len(attemptLog) = attempts /\ ~Done
      BY <1>1, <2>2 DEF RecordedOnce, Done
    <3>2. QED
      BY <1>1, <2>1, <2>2, <3>1 DEF RecordedOnce, Done
  <2>8. OneAnswer' /\ BilledIffSuccess'
    BY <1>1, <2>1 DEF OneAnswer, BilledIffSuccess, Done, Current, Codes
  <2>9. QED
    BY <2>3, <2>4, <2>6, <2>7, <2>8
<1>2. attemptLog' = attemptLog
  BY DEF LoopStep, PlanRoute, PlanFails, UseCandidate, SkipCandidate, ChoiceFails,
         OutOfCandidates, Settle
<1>3. ASSUME NEW n \in 1 .. MaxCandidates, NEW pin \in BOOLEAN, PlanRoute(n, pin) PROVE Inv'
  <2>1. /\ Quiet /\ stage = "planning" /\ stage' = "choosing" /\ dnsRun' = dnsRun
        /\ attempts' = attempts /\ index' = 1 /\ plan' = [length |-> n, affinity |-> pin]
    BY <1>3 DEF PlanRoute, Position
  <2>2. plan' \in [length : 0 .. MaxCandidates, affinity : BOOLEAN] /\ plan'.length = n
    BY <2>1
  <2>3. QED
    BY <1>1, <2>1, <2>2 DEF TypeOK
<1>4. CASE PlanFails
  BY <1>4, PublicErrorKeepsInv DEF PlanFails, Codes, TypeOK
<1>5. CASE UseCandidate
  <2>1. /\ Quiet /\ stage = "choosing" /\ stage' = "awaiting" /\ index \in 1 .. plan.length
        /\ attempts' = attempts + 1 /\ UNCHANGED <<plan, index, dnsRun>>
    BY <1>5 DEF UseCandidate, Choosing, Position
  <2>2. QED
    BY <1>1, <2>1 DEF TypeOK
<1>6. CASE SkipCandidate
  <2>1. /\ Quiet /\ stage = "choosing" /\ stage' = "choosing" /\ index \in 1 .. plan.length
        /\ index' = index + 1 /\ UNCHANGED <<plan, attempts, dnsRun>>
    BY <1>6 DEF SkipCandidate, Choosing, Position
  <2>2. QED
    BY <1>1, <2>1 DEF TypeOK
<1>7. CASE ChoiceFails
  BY <1>7, PublicErrorKeepsInv DEF ChoiceFails, Choosing, Codes, TypeOK
<1>8. CASE OutOfCandidates
  <2> DEFINE code == CASE attempts = 0    -> "unavailable"
                       [] dnsRun >= 3     -> "dns"
                       [] error = "empty" -> "empty"
                       [] OTHER           -> "exhausted"
  <2>1. /\ stage = "choosing" /\ PublicError("failed", code) /\ dnsRun' = dnsRun
        /\ UNCHANGED <<plan, index, attempts, clientGone, response, stream, error, attemptLog, routes>>
    BY <1>8 DEF OutOfCandidates
  <2>2. code \in Codes /\ dnsRun \in Nat
    BY DEF Codes, TypeOK
  <2> HIDE DEF code
  <2>3. QED
    BY <2>1, <2>2, PublicErrorKeepsInv
<1>9. CASE Settle
  <2>1. stage = "settling" /\ ~header /\ index \in 1 .. plan.length /\ dnsRun \in Nat
    BY <1>9 DEF Settle, Position, TypeOK
  <2>2. /\ UNCHANGED <<plan, attempts, clientGone, response, stream, error, attemptLog, routes>>
        /\ dnsRun' \in Nat
    BY <1>9, <2>1 DEF Settle, NextDNSRun
  <2>3. CASE clientGone \/ error = "canceled"
    BY <1>9, <2>1, <2>2, <2>3, PublicErrorKeepsInv DEF Settle, Codes
  <2>4. CASE ~(clientGone \/ error = "canceled") /\ plan.affinity
    BY <1>9, <2>1, <2>2, <2>4, PublicErrorKeepsInv DEF Settle, Codes
  <2>5. CASE ~(clientGone \/ error = "canceled") /\ ~plan.affinity
    <3>1. Quiet /\ stage' = "choosing" /\ index' = index + 1
      BY <1>9, <2>1, <2>2, <2>5 DEF Settle
    <3>2. QED
      BY <1>1, <2>1, <2>2, <2>5, <3>1 DEF TypeOK
  <2>6. QED
    BY <2>3, <2>4, <2>5
<1>10. QED
  BY <1>2, <1>3, <1>4, <1>5, <1>6, <1>7, <1>8, <1>9 DEF LoopStep

-----------------------------------------------------------------------------
(* The invariant and what follows from it. *)

LEMMA InitInv == Init => Inv /\ VerdictMatchesOutcome
<1> SUFFICES ASSUME Init PROVE Inv /\ VerdictMatchesOutcome
  OBVIOUS
<1>1. TypeOK
  <2>1. attemptLog \in Seq(AttemptRecords) /\ routes \in Seq(1 .. MaxCandidates)
    BY DEF Init
  <2>2. plan \in [length : 0 .. MaxCandidates, affinity : BOOLEAN]
    BY CandidatesAssumption DEF Init
  <2>3. stream \in [terminal : BOOLEAN, usable : BOOLEAN] /\ index \in 0 .. MaxCandidates + 1
    BY CandidatesAssumption DEF Init
  <2>4. /\ clientGone \in BOOLEAN /\ header \in BOOLEAN /\ stage \in Stages /\ error \in Causes
        /\ attempts \in Nat /\ dnsRun \in Nat /\ recordings \in Nat /\ billed \in Nat
        /\ response \in Statuses \cup {"none"} /\ outcome \in Outcomes \cup {"processing"}
        /\ reply \in Codes \cup {"none", "upstream"}
    BY DEF Init, Stages, Causes
  <2>5. QED
    BY <2>1, <2>2, <2>3, <2>4 DEF TypeOK
<1>2. Position /\ History
  BY DEF Init, Position, History, Attempting
<1>3. RecordedOnce /\ OneAnswer /\ BilledIffSuccess /\ VerdictMatchesOutcome
  <2>1. attemptLog = <<>> /\ Len(attemptLog) = 0
    BY DEF Init
  <2>2. VerdictMatchesOutcome
    BY <2>1 DEF VerdictMatchesOutcome
  <2>3. RecordedOnce
    <3>1. \A i, j \in 1 .. Len(attemptLog) :
            i < j => attemptLog[i].candidate < attemptLog[j].candidate
      BY <2>1
    <3>2. /\ stage = "planning" /\ recordings = 0 /\ outcome = "processing"
          /\ Len(attemptLog) = 0 /\ attempts = 0
      BY <2>1 DEF Init
    <3>3. ~Done /\ recordings = IF Done THEN 1 ELSE 0
      BY <3>2 DEF Done
    <3>4. Len(attemptLog) = attempts - IF stage \in {"awaiting", "reading", "streaming"} THEN 1 ELSE 0
      <4>1. (IF stage \in {"awaiting", "reading", "streaming"} THEN 1 ELSE 0) = 0 /\ 0 = 0 - 0
        BY <3>2
      <4>2. QED
        BY <3>2, <4>1
    <3>5. QED
      BY <3>1, <3>2, <3>3, <3>4, Zenon DEF RecordedOnce
  <2>4. OneAnswer
    BY DEF Init, OneAnswer, Done, Codes
  <2>5. BilledIffSuccess
    BY <2>1 DEF Init, BilledIffSuccess
  <2>6. QED
    BY <2>2, <2>3, <2>4, <2>5
<1>4. QED
  BY <1>1, <1>2, <1>3 DEF Inv

LEMMA StepInv ==
  ASSUME Inv, VerdictMatchesOutcome, [Next]_vars
  PROVE  Inv' /\ VerdictMatchesOutcome'
<1>1. ASSUME Inv', attemptLog' = attemptLog PROVE Inv' /\ VerdictMatchesOutcome'
  BY <1>1 DEF VerdictMatchesOutcome
<1>2. ASSUME \E r \in AttemptRecords : AttemptEnds(r) PROVE Inv' /\ VerdictMatchesOutcome'
  BY <1>2, EndKeepsInv
<1>3. CASE LoopStep
  BY <1>1, <1>3, LoopKeepsInv
<1>4. CASE CallStep
  BY <1>1, <1>2, <1>4, CallEnds, AttemptGoesOn DEF CallStep
<1>5. CASE ReadStep
  <2>1. CASE \E cause \in ReadErrors : BodyReadFails(cause)
    BY <1>2, <2>1, CallEnds
  <2>2. CASE \E writeFails \in BOOLEAN : ResponseDelivered(writeFails)
    <3>1. "failed" \in FailureOutcomes
      BY DEF FailureOutcomes
    <3>2. QED
      BY <1>2, <2>2, <3>1, BufferedEnds
  <2>3. CASE \E writeFails \in BOOLEAN, result \in FailureOutcomes :
               \/ StatusRefused(writeFails, result)
               \/ \E f \in Failures : BodyReportsFailure(f, writeFails, result)
               \/ ClientErrorDelivered(writeFails, result)
    BY <1>2, <2>3, BufferedEnds
  <2>4. ReadStep <=>
          \/ \E cause \in ReadErrors : BodyReadFails(cause)
          \/ \E writeFails \in BOOLEAN : ResponseDelivered(writeFails)
          \/ \E writeFails \in BOOLEAN, result \in FailureOutcomes :
               \/ StatusRefused(writeFails, result)
               \/ \E f \in Failures : BodyReportsFailure(f, writeFails, result)
               \/ ClientErrorDelivered(writeFails, result)
    BY Zenon DEF ReadStep
  <2>5. QED
    BY <1>5, <2>1, <2>2, <2>3, <2>4
<1>6. CASE StreamStep
  <2>1. CASE \/ \E f \in Failures : FirstEventFails(f)
             \/ \E cause \in ReadErrors \cup {"eof"} : StreamEndsEmpty(cause)
    BY <1>2, <2>1, CallEnds
  <2>2. CASE \E terminal, seen \in BOOLEAN : EventForwarded(terminal, seen)
    BY <1>1, <2>2, AttemptGoesOn
  <2>3. CASE \/ \E terminal \in BOOLEAN : EventUndeliverable(terminal)
             \/ \E f \in Failures, withOutput, terminal \in BOOLEAN, logged \in FailureOutcomes :
                  EventFails(f, withOutput, terminal, logged)
             \/ \E cause \in ReadErrors \cup {"eof"} : StreamEnds(cause)
    BY <1>2, <2>3, StreamFinishes
  <2>4. QED
    BY <1>6, <2>1, <2>2, <2>3, Zenon DEF StreamStep
<1>7. CASE ClientLeaves
  <2>1. /\ clientGone' = TRUE
        /\ UNCHANGED <<stage, plan, index, attempts, response, stream, error, dnsRun, header,
                       reply, attemptLog, outcome, recordings, billed, routes>>
    BY <1>7 DEF ClientLeaves, answer, ledger
  <2>2. QED
    BY <1>1, <2>1 DEF Inv, TypeOK, Position, History, RecordedOnce, OneAnswer, BilledIffSuccess,
                      Attempting, Done, Current
<1>8. CASE UNCHANGED vars
  BY <1>1, <1>8 DEF vars, Inv, TypeOK, Position, History, RecordedOnce, OneAnswer,
                    BilledIffSuccess, Attempting, Done, Current
<1>9. QED
  BY <1>3, <1>4, <1>5, <1>6, <1>7, <1>8 DEF Next

LEMMA Invariance == Spec => [](Inv /\ VerdictMatchesOutcome)
<1>1. Inv /\ VerdictMatchesOutcome /\ [Next]_vars => (Inv /\ VerdictMatchesOutcome)'
  BY StepInv
<1>2. QED
  BY InitInv, <1>1, PTL DEF Spec

\* Every variable of a relayed request keeps its type.
THEOREM TypeCorrect == Spec => []TypeOK
<1>1. Inv => TypeOK
  BY DEF Inv
<1>2. QED
  BY Invariance, <1>1, PTL

\* However its attempts fail, and whenever its client leaves, a request is
\* answered, recorded and billed once, and its attempts are recorded once
\* each in the order of the plan.
THEOREM Settlement == Spec => []SettledOnce
<1>1. Inv => SettledOnce
  BY DEF Inv, SettledOnce
<1>2. QED
  BY Invariance, <1>1, PTL

\* What a channel is told about an attempt agrees with the attempt's record.
THEOREM HonestVerdicts == Spec => []VerdictMatchesOutcome
  BY Invariance, PTL

\* Once a response header is sent no step changes the candidate or starts
\* another attempt.
THEOREM Commitment == Spec => NoSwitchAfterHeader
<1>1. ASSUME Inv, [Next]_vars PROVE [header => index' = index /\ attempts' = attempts]_vars
  <2> SUFFICES ASSUME header, Next PROVE index' = index /\ attempts' = attempts
    BY <1>1
  <2>1. stage \in {"streaming", "done"}
    BY <1>1 DEF Inv, Position
  <2>2. CASE LoopStep
    BY <2>1, <2>2 DEF LoopStep, PlanRoute, PlanFails, UseCandidate, SkipCandidate, ChoiceFails,
                      OutOfCandidates, Settle, Choosing
  <2>3. CASE CallStep
    BY <2>1, <2>3 DEF CallStep, PreparationFails, CallFails, ResponseArrives, StreamArrives
  <2>4. CASE ReadStep
    BY <2>1, <2>4 DEF ReadStep, BodyReadFails, ResponseDelivered, StatusRefused,
                      BodyReportsFailure, ClientErrorDelivered, Read
  <2>5. CASE StreamStep
    BY <2>5 DEF StreamStep, FirstEventFails, EventForwarded, EventUndeliverable, EventFails,
                StreamEnds, StreamEndsEmpty, Streaming
  <2>6. CASE ClientLeaves
    BY <2>6 DEF ClientLeaves
  <2>7. QED
    BY <2>2, <2>3, <2>4, <2>5, <2>6 DEF Next
<1>2. Inv /\ [Next]_vars => [header => index' = index /\ attempts' = attempts]_vars
  BY <1>1
<1>3. QED
  BY Invariance, <1>2, PTL DEF Spec, NoSwitchAfterHeader

-----------------------------------------------------------------------------
(* Route planning: the plan of a strategy by priority. *)

\* The order of a strategy is strict and total.
LEMMA StrategyOrders ==
  ASSUME setup \in Setups
  PROVE  /\ \A a \in Candidates : ~ByStrategy(a, a)
         /\ \A a, b \in Candidates : a # b => ByStrategy(a, b) \/ ByStrategy(b, a)
         /\ \A a, b, c \in Candidates : ByStrategy(a, b) /\ ByStrategy(b, c) => ByStrategy(a, c)
<1>1. \A a \in Candidates : Rank(a) \in Int
  <2> TAKE a \in Candidates
  <2>1. setup.cost \in [Candidates -> Nat]
    BY SetupsAssumption
  <2>2. setup.efficiency \in [Candidates -> Nat]
    BY SetupsAssumption
  <2>3. setup.priority \in [Candidates -> Int]
    BY SetupsAssumption
  <2>4. setup.cost[a] \in Int /\ setup.efficiency[a] \in Int /\ setup.priority[a] \in Int
    BY <2>1, <2>2, <2>3
  <2>5. QED
    BY <2>4 DEF Rank
<1>2. \A a \in Candidates : a \in Int
  BY SetupsAssumption
<1>3. QED
  BY <1>1, <1>2 DEF ByStrategy

\* The members of C before one of them.
Ahead(C, c) == {d \in C : ByStrategy(d, c)}

\* Everything has another number of members before it.
LEMMA AheadGrows ==
  ASSUME setup \in Setups, NEW C \in SUBSET Candidates, NEW a \in C, NEW b \in C, ByStrategy(a, b)
  PROVE  Cardinality(Ahead(C, a)) < Cardinality(Ahead(C, b))
<1>1. Ahead(C, a) \subseteq Ahead(C, b)
  BY StrategyOrders DEF Ahead
<1>2. a \in Ahead(C, b) /\ a \notin Ahead(C, a)
  BY StrategyOrders DEF Ahead
<1>3. IsFiniteSet(Ahead(C, b))
  BY SetupsAssumption, FS_Subset DEF Ahead
<1>4. /\ Cardinality(Ahead(C, a)) <= Cardinality(Ahead(C, b))
      /\ Cardinality(Ahead(C, b)) = Cardinality(Ahead(C, a)) => Ahead(C, b) = Ahead(C, a)
      /\ IsFiniteSet(Ahead(C, a))
  BY <1>1, <1>3, FS_Subset
<1>5. Cardinality(Ahead(C, a)) \in Nat /\ Cardinality(Ahead(C, b)) \in Nat
  BY <1>3, <1>4, FS_CardinalityType
<1>6. QED
  BY <1>2, <1>4, <1>5

\* So every place is taken.
LEMMA PlacesTaken ==
  ASSUME setup \in Setups, NEW C \in SUBSET Candidates
  PROVE  /\ Cardinality(C) \in Nat
         /\ \A n \in 1..Cardinality(C) : \E c \in C : Cardinality(Ahead(C, c)) = n - 1
         /\ \A c \in C : Cardinality(Ahead(C, c)) \in 0..Cardinality(C) - 1
<1> DEFINE size  == Cardinality(C)
           place == [c \in C |-> Cardinality(Ahead(C, c))]
<1>1. IsFiniteSet(C)
  BY SetupsAssumption, FS_Subset
<1>2. size \in Nat
  BY <1>1, FS_CardinalityType
<1>3. \A c \in C : Cardinality(Ahead(C, c)) \in 0..size - 1
  <2> TAKE c \in C
  <2>1. Ahead(C, c) \subseteq C \ {c}
    BY StrategyOrders DEF Ahead
  <2>2. IsFiniteSet(C \ {c}) /\ Cardinality(C \ {c}) = size - 1
    BY <1>1, FS_RemoveElement
  <2>3. IsFiniteSet(Ahead(C, c)) /\ Cardinality(Ahead(C, c)) <= size - 1
    BY <2>1, <2>2, FS_Subset
  <2>4. Cardinality(Ahead(C, c)) \in Nat
    BY <2>3, FS_CardinalityType
  <2>5. QED
    BY <1>2, <2>3, <2>4
<1>4. \A a, b \in C : place[a] = place[b] => a = b
  <2> SUFFICES ASSUME NEW a \in C, NEW b \in C, a # b PROVE place[a] # place[b]
    OBVIOUS
  <2>1. CASE ByStrategy(a, b)
    <3>1. Cardinality(Ahead(C, a)) < Cardinality(Ahead(C, b))
      BY <2>1, AheadGrows
    <3>2. QED
      BY <1>2, <1>3, <3>1
  <2>2. CASE ByStrategy(b, a)
    <3>1. Cardinality(Ahead(C, b)) < Cardinality(Ahead(C, a))
      BY <2>2, AheadGrows
    <3>2. QED
      BY <1>2, <1>3, <3>1
  <2>3. QED
    BY <2>1, <2>2, StrategyOrders
<1>5. place \in Injection(C, 0..size - 1)
  BY <1>3, <1>4 DEF Injection, IsInjective
<1>6. IsFiniteSet(0..size - 1) /\ Cardinality(0..size - 1) = size
  <2>1. /\ IsFiniteSet(0..size - 1)
        /\ Cardinality(0..size - 1) = IF 0 > size - 1 THEN 0 ELSE (size - 1) - 0 + 1
    BY <1>2, FS_Interval
  <2>2. QED
    BY <1>2, <2>1
<1>7. place \in Surjection(C, 0..size - 1)
  BY <1>5, <1>6, FS_Injection
<1>8. \A n \in 1..size : \E c \in C : Cardinality(Ahead(C, c)) = n - 1
  <2> TAKE n \in 1..size
  <2>1. n - 1 \in 0..size - 1
    BY <1>2
  <2>2. PICK c \in C : place[c] = n - 1
    BY <1>7, <2>1 DEF Surjection
  <2>3. QED
    BY <2>2
<1>9. QED
  BY <1>2, <1>3, <1>8

\* A sorted list has everything once, in the order of the strategy.
LEMMA SortedByStrategy ==
  ASSUME setup \in Setups, NEW C \in SUBSET Candidates
  PROVE  /\ Cardinality(C) \in Nat /\ Sorted(C) \in [1..Cardinality(C) -> C]
         /\ \A i, j \in 1..Cardinality(C) : i < j => ByStrategy(Sorted(C)[i], Sorted(C)[j])
         /\ \A c \in C : \E i \in 1..Cardinality(C) : Sorted(C)[i] = c
<1> DEFINE size == Cardinality(C)
           Place(c) == Cardinality(Ahead(C, c))
           s == Sorted(C)
<1>1. /\ size \in Nat
      /\ \A n \in 1..size : \E c \in C : Place(c) = n - 1
      /\ \A c \in C : Place(c) \in 0..size - 1
  BY PlacesTaken
<1>2. s = [n \in 1..size |-> CHOOSE c \in C : Place(c) = n - 1]
  BY DEF Sorted, Arranged, Ahead
<1>3. \A n \in 1..size : s[n] \in C /\ Place(s[n]) = n - 1
  BY <1>1, <1>2
<1>4. \A a, b \in C : ByStrategy(a, b) => Place(a) < Place(b)
  BY AheadGrows
<1> HIDE DEF Place, s
<1>5. s \in [1..size -> C]
  BY <1>2, <1>3
<1>6. \A i, j \in 1..size : i < j => ByStrategy(s[i], s[j])
  <2> SUFFICES ASSUME NEW i \in 1..size, NEW j \in 1..size, i < j PROVE ByStrategy(s[i], s[j])
    OBVIOUS
  <2>1. Place(s[i]) = i - 1 /\ Place(s[j]) = j - 1 /\ s[i] \in C /\ s[j] \in C
    BY <1>3
  <2>2. Place(s[i]) < Place(s[j])
    BY <1>1, <2>1
  <2>3. s[i] # s[j] /\ ~ByStrategy(s[j], s[i])
    BY <1>1, <1>4, <2>1, <2>2
  <2>4. QED
    BY <2>1, <2>3, StrategyOrders
<1>7. \A c \in C : \E i \in 1..size : s[i] = c
  <2> TAKE c \in C
  <2>1. Place(c) + 1 \in 1..size
    BY <1>1
  <2>2. s[Place(c) + 1] \in C /\ Place(s[Place(c) + 1]) = Place(c)
    BY <1>1, <1>3, <2>1
  <2>3. s[Place(c) + 1] = c
    <3>1. \A a, b \in C : a # b => Place(a) # Place(b)
      BY <1>1, <1>4, StrategyOrders
    <3>2. QED
      BY <2>2, <3>1
  <2>4. QED
    BY <2>1, <2>3
<1>8. QED
  BY <1>1, <1>5, <1>6, <1>7 DEF s

\* Only what is eligible can be drawn.
LEMMA WorthOfEligible ==
  ASSUME NEW C, NEW c \in C, c \notin Eligible(C)
  PROVE  Expectation(C)[c] = 0
<1>1. Balanced(C)[c] = 0
  BY DEF Balanced
<1>2. c \notin Cold(C)
  BY DEF Cold
<1>3. Explored(C, Balanced(C))[c] = 0
  <2> DEFINE b == Balanced(C)
  <2>1. b[c] = 0
    BY <1>1
  <2> HIDE DEF b
  <2>2. Explored(C, b)[c] = 0
    <3>1. CASE Cold(C) = {}
      BY <2>1, <3>1 DEF Explored
    <3>2. CASE Cold(C) # {}
      <4>1. Explored(C, b)[c] = (4 * b[c]) \div 5 + 0
        BY <1>2, <3>2 DEF Explored
      <4>2. QED
        BY <2>1, <4>1
    <3>3. QED
      BY <3>1, <3>2
  <2>3. QED
    BY <2>2 DEF b
<1>4. QED
  BY <1>3 DEF Expectation

Prioritized == setup.strategy = "priority_weighted"

\* In a list that is sorted by priority, the first is of the highest.
LEMMA SortedByPriority ==
  ASSUME setup \in Setups, Prioritized, NEW C \in SUBSET Candidates, C # {}
  PROVE  /\ \A i, j \in 1..Cardinality(C) :
              i < j => setup.priority[Sorted(C)[i]] >= setup.priority[Sorted(C)[j]]
         /\ \A c \in Eligible(C), d \in C : setup.priority[c] >= setup.priority[d]
<1> DEFINE size == Cardinality(C)
           s == Sorted(C)
           P(c) == setup.priority[c]
<1>1. /\ size \in Nat /\ s \in [1..size -> C]
      /\ \A i, j \in 1..size : i < j => ByStrategy(s[i], s[j])
      /\ \A c \in C : \E i \in 1..size : s[i] = c
  BY SortedByStrategy
<1>2. \A c \in C : P(c) \in Int
  BY SetupsAssumption
<1>3. \A c, d \in C : ByStrategy(c, d) => P(c) >= P(d)
  BY <1>2 DEF ByStrategy, Rank, Prioritized
<1>4. \A i, j \in 1..size : i < j => P(s[i]) >= P(s[j])
  BY <1>1, <1>3
<1>5. \A d \in C : P(s[1]) >= P(d)
  <2> TAKE d \in C
  <2>1. PICK i \in 1..size : s[i] = d
    BY <1>1
  <2>2. 1 \in 1..size /\ s[1] \in C
    BY <1>1
  <2>3. CASE i = 1
    BY <1>2, <2>1, <2>3
  <2>4. CASE i # 1
    BY <1>1, <1>4, <2>1, <2>2, <2>4
  <2>5. QED
    BY <2>3, <2>4
<1>6. s[1] \in C
  <2>1. PICK c : c \in C
    OBVIOUS
  <2>2. 1 \in 1..size
    BY <1>1, <2>1
  <2>3. QED
    BY <1>1, <2>2
<1>7. \A d \in C : TopPriority(C) >= P(d)
  <2> DEFINE S == {P(d) : d \in C}
  <2>1. P(s[1]) \in S /\ \A x \in S : P(s[1]) >= x
    BY <1>5, <1>6
  <2>2. \A x \in S : Max(S) >= x
    BY <2>1 DEF Max
  <2>3. QED
    BY <2>2 DEF TopPriority
<1>8. \A c \in Eligible(C), d \in C : P(c) >= P(d)
  BY <1>7 DEF Eligible, Prioritized
<1>9. QED
  BY <1>4, <1>8

ByPriority(o) == \A i, j \in DOMAIN o : i < j => setup.priority[o[i]] >= setup.priority[o[j]]

\* Whatever is drawn.
LEMMA DrawnByPriority ==
  ASSUME setup \in Setups, Prioritized, NEW C \in SUBSET Candidates, C # {}, NEW o \in Drawn(C)
  PROVE  ByPriority(o)
<1> DEFINE size == Cardinality(C)
           s == Sorted(C)
<1>1. size \in Nat /\ s \in [1..size -> C]
  BY SortedByStrategy
<1>2. \A i, j \in 1..size : i < j => setup.priority[s[i]] >= setup.priority[s[j]]
  BY SortedByPriority
<1>3. CASE o = s
  BY <1>1, <1>2, <1>3 DEF ByPriority
<1>4. ASSUME NEW c \in C, Expectation(C)[c] > 0, o = ToFront(c, s) PROVE ByPriority(o)
  <2>1. c \in Eligible(C)
    BY <1>4, WorthOfEligible
  <2>2. \A d \in C : setup.priority[c] >= setup.priority[d]
    BY <2>1, SortedByPriority
  <2> HIDE DEF s, size
  <2> DEFINE place == CHOOSE i \in DOMAIN s : s[i] = c
  <2>3. place \in 1..size
    <3>1. \E i \in 1..size : s[i] = c
      BY SortedByStrategy DEF s, size
    <3>2. QED
      BY <1>1, <3>1
  <2>4. o = [i \in 1..size |-> CASE i = 1              -> c
                                  [] i \in 2 .. place   -> s[i - 1]
                                  [] i > 1 /\ i > place -> s[i]]
    BY <1>1, <1>4 DEF ToFront
  <2> HIDE DEF place
  <2>5. \A i \in 1..size : i > 1 =>
          /\ i - 1 \in 1..size
          /\ i <= place => o[i] = s[i - 1]
          /\ i > place => o[i] = s[i]
    BY <1>1, <2>3, <2>4
  <2>6. ASSUME NEW i \in 1..size, NEW j \in 1..size, i < j
        PROVE  setup.priority[o[i]] >= setup.priority[o[j]]
    <3>1. o[j] \in C
      BY <1>1, <2>3, <2>5, <2>6
    <3>2. CASE i = 1
      <4>1. o[i] = c
        BY <2>4, <3>2
      <4>2. QED
        BY <2>2, <3>1, <4>1
    <3>3. CASE i > 1 /\ j <= place
      <4>1. o[i] = s[i - 1] /\ o[j] = s[j - 1] /\ i - 1 \in 1..size /\ j - 1 \in 1..size /\ i - 1 < j - 1
        BY <1>1, <2>3, <2>5, <2>6, <3>3
      <4>2. QED
        BY <1>2, <4>1
    <3>4. CASE i > 1 /\ i <= place /\ j > place
      <4>1. o[i] = s[i - 1] /\ o[j] = s[j] /\ i - 1 \in 1..size /\ i - 1 < j
        BY <1>1, <2>3, <2>5, <2>6, <3>4
      <4>2. QED
        BY <1>2, <4>1
    <3>5. CASE i > 1 /\ i > place
      <4>1. o[i] = s[i] /\ o[j] = s[j]
        BY <1>1, <2>3, <2>5, <2>6, <3>5
      <4>2. QED
        BY <1>2, <2>6, <4>1
    <3>6. QED
      BY <1>1, <2>3, <3>2, <3>3, <3>4, <3>5
  <2>7. DOMAIN o = 1..size
    BY <2>4
  <2>8. QED
    BY <2>6, <2>7 DEF ByPriority
<1>5. QED
  BY <1>3, <1>4 DEF Drawn

OrderInv == setup \in Setups /\ usable \subseteq Candidates /\ PriorityNeverBypassed

\* A request begins with a pinned candidate or in the order of the priorities.
LEMMA PlanByPriority ==
  ASSUME OrderInv, Plan
  PROVE  PriorityNeverBypassed'
<1>1. PICK pin \in Candidates \cup {None} : \E o \in Orders(usable, pin) :
        begun' = [order |-> o, pin |-> pin]
  BY DEF Plan
<1>2. PICK o \in Orders(usable, pin) : begun' = [order |-> o, pin |-> pin]
  BY <1>1
<1>3. /\ begun'.order = o /\ begun'.pin = pin /\ setup' = setup
      /\ usable # {} /\ usable \in SUBSET Candidates /\ setup \in Setups
  BY <1>2 DEF Plan, OrderInv
<1>4. CASE pin \in usable
  <2> DEFINE s == ByExpectation(usable)
  <2>1. o = ToFront(pin, s)
    BY <1>2, <1>4 DEF Orders
  <2>2. DOMAIN s = 1..Cardinality(usable)
    BY DEF ByExpectation, Arranged
  <2>3. 1 \in 1..Cardinality(usable)
    <3>1. Cardinality(usable) \in Nat /\ \E i \in 1..Cardinality(usable) : Sorted(usable)[i] = pin
      BY <1>3, <1>4, SortedByStrategy
    <3>2. QED
      BY <3>1
  <2> HIDE DEF s
  <2>4. 1 \in DOMAIN o /\ o[1] = pin
    BY <2>1, <2>2, <2>3 DEF ToFront
  <2>5. pin \in ToSet(o)
    BY <2>4 DEF ToSet
  <2>6. begun'.pin \in ToSet(begun'.order)
    BY <1>3, <2>5
  <2>7. QED
    BY <2>6 DEF PriorityNeverBypassed, ToSet
<1>5. CASE pin \notin usable
  <2>1. o \in Drawn(usable)
    BY <1>2, <1>5 DEF Orders
  <2>2. Prioritized => ByPriority(o)
    BY <1>3, <2>1, DrawnByPriority
  <2>3. QED
    BY <1>3, <2>2 DEF PriorityNeverBypassed, Prioritized, ByPriority
<1>6. QED
  BY <1>4, <1>5

\* What a request that nothing pins tries is in the order of the priorities.
THEOREM PrioritiesKept == OrderSpec => []PriorityNeverBypassed
<1>1. OrderInit => OrderInv
  BY DEF OrderInit, OrderInv, PriorityNeverBypassed, NoPlan
<1>2. OrderInv /\ [OrderNext]_orderVars => OrderInv'
  <2> SUFFICES ASSUME OrderInv, [OrderNext]_orderVars PROVE OrderInv'
    OBVIOUS
  <2>1. setup' = setup
    BY DEF OrderNext, Plan, Skip, Age, Attempt, Switch, orderVars
  <2>2. usable' \subseteq Candidates
    BY DEF OrderInv, OrderNext, Plan, Skip, Age, Attempt, Switch, orderVars
  <2>3. PriorityNeverBypassed'
    <3>1. CASE Plan
      BY <3>1, PlanByPriority
    <3>2. CASE begun' = begun
      BY <2>1, <3>2 DEF OrderInv, PriorityNeverBypassed, ToSet
    <3>3. QED
      BY <3>1, <3>2 DEF OrderNext, Skip, Age, Attempt, Switch, orderVars
  <2>4. QED
    BY <2>1, <2>2, <2>3 DEF OrderInv
<1>3. OrderInv => PriorityNeverBypassed
  BY DEF OrderInv
<1>4. QED
  BY <1>1, <1>2, <1>3, PTL DEF OrderSpec

-----------------------------------------------------------------------------
(* The bodies of the attempts. *)

\* A sequence is one of its members.
LEMMA SeqOfMembers ==
  ASSUME NEW T, NEW s \in Seq(T)
  PROVE  s \in Seq(ToSet(s))
<1>1. Len(s) \in Nat /\ DOMAIN s = 1..Len(s) /\ s \in [1..Len(s) -> T]
  OBVIOUS
<1>2. \A i \in 1..Len(s) : s[i] \in ToSet(s)
  BY <1>1 DEF ToSet
<1>3. QED
  BY <1>1, <1>2

\* A client's request, before or after the options of one attempt have been put into it.
Values(v) == /\ v = [field \in DOMAIN v |-> v[field]]
             /\ {"endpoint", "given", "stream", "conversation", "options"} \subseteq DOMAIN v

\* Requests that differ in their options at most.
SameButOptions(v, w) ==
  /\ DOMAIN v = DOMAIN w
  /\ \A field \in DOMAIN v : field # "options" => v[field] = w[field]

BodyInv ==
  /\ Values(payload)
  /\ asked # <<>> => Values(asked[1]) /\ SameButOptions(payload, asked[1])
  /\ asked = <<>> => sent = <<>>
  /\ sent \in Seq(ToSet(sent))
  /\ AttemptsAlike

\* Options and stream overwritten, such requests are the same.
LEMMA SameOverwritten ==
  ASSUME NEW v, NEW w, Values(v), Values(w), SameButOptions(v, w)
  PROVE  /\ v.endpoint = w.endpoint /\ v.given = w.given
         /\ [v EXCEPT !.options = "absent"] = [w EXCEPT !.options = "absent"]
         /\ [v EXCEPT !.options = "absent", !.stream = TRUE] = [w EXCEPT !.options = "absent", !.stream = TRUE]
<1>1. v.endpoint = w.endpoint /\ v.given = w.given
  BY DEF Values, SameButOptions
<1>2. [v EXCEPT !.options = "absent"] = [w EXCEPT !.options = "absent"]
  BY DEF Values, SameButOptions
<1> DEFINE p == [v EXCEPT !.options = "absent"]
           q == [w EXCEPT !.options = "absent"]
<1>3. [p EXCEPT !.stream = TRUE] = [q EXCEPT !.stream = TRUE]
  BY <1>2
<1>4. QED
  BY <1>1, <1>2, <1>3

\* The body of a ChatGPT OAuth channel does not depend on the options at all.
LEMMA OAuthBodiesSame ==
  ASSUME NEW v, NEW w, Values(v), Values(w), SameButOptions(v, w)
  PROVE  ChatGPTOAuthRequestBody(v) = ChatGPTOAuthRequestBody(w)
BY SameOverwritten DEF ChatGPTOAuthRequestBody

\* The body of an API-key channel is the request, but for its options.
LEMMA UpstreamBody ==
  ASSUME NEW v, Values(v), NEW channel
  PROVE  /\ Values(UpstreamRequestBody(v, channel))
         /\ SameButOptions(UpstreamRequestBody(v, channel), v)
  BY DEF UpstreamRequestBody, Values, SameButOptions

\* A body is not a refusal.
LEMMA NotRefused ==
  ASSUME NEW v, Values(v)
  PROVE  v # Refused
<1>1. DOMAIN Refused = {"refused"}
  BY DEF Refused
<1>2. "options" \in DOMAIN v
  BY DEF Values
<1>3. QED
  BY <1>1, <1>2

\* A body without its options, and what a channel makes of requests that differ in
\* them.
Plainly(body) == IF body = Refused THEN body ELSE [body EXCEPT !.options = "absent"]

LEMMA BodiesAlike ==
  ASSUME NEW v, NEW w, Values(v), Values(w), SameButOptions(v, w), NEW channel
  PROVE  Plainly(Body(v, channel)) = Plainly(Body(w, channel))
<1>1. CASE channel.oauth
  BY <1>1, OAuthBodiesSame DEF Body
<1>2. CASE ~channel.oauth
  <2> DEFINE b == UpstreamRequestBody(v, channel)
             d == UpstreamRequestBody(w, channel)
  <2>1. /\ Values(b) /\ SameButOptions(b, v)
        /\ Values(d) /\ SameButOptions(d, w)
    BY UpstreamBody
  <2>2. Body(v, channel) = b /\ Body(w, channel) = d
    BY <1>2 DEF Body
  <2> HIDE DEF b, d
  <2>3. SameButOptions(b, d)
    BY <2>1 DEF SameButOptions
  <2>4. b # Refused /\ d # Refused
    BY <2>1, NotRefused
  <2>5. [b EXCEPT !.options = "absent"] = [d EXCEPT !.options = "absent"]
    BY <2>1, <2>3, SameOverwritten
  <2>6. QED
    BY <2>2, <2>4, <2>5 DEF Plainly
<1>3. QED
  BY <1>1, <1>2

\* What an attempt leaves of the request.
LEMMA PayloadKept ==
  ASSUME NEW channel, SendBody(channel), Values(payload)
  PROVE  Values(payload') /\ SameButOptions(payload', payload)
<1>1. CASE payload' = payload
  BY <1>1 DEF Values, SameButOptions
<1>2. CASE payload' = [payload EXCEPT !.options = Body(payload, channel).options]
  BY <1>2 DEF Values, SameButOptions
<1>3. QED
  BY <1>1, <1>2 DEF SendBody, Clone

\* One attempt more: the others keep their places.
LEMMA OneBodyMore ==
  ASSUME sent \in Seq(ToSet(sent)), NEW r, sent' = Append(sent, r)
  PROVE  /\ sent' \in Seq(ToSet(sent)')
         /\ \A n \in DOMAIN sent' : sent'[n] = r \/ (n \in DOMAIN sent /\ sent'[n] = sent[n])
<1> DEFINE T == ToSet(sent) \cup {r}
<1>1. sent \in Seq(T)
  <2>1. \A i \in 1..Len(sent) : sent[i] \in T
    BY DEF ToSet
  <2>2. sent \in [1..Len(sent) -> T] /\ Len(sent) \in Nat
    BY <2>1, SeqDef
  <2>3. QED
    BY <2>2, SeqDef
<1>2. /\ sent' \in Seq(T)
      /\ Len(sent') = Len(sent) + 1
      /\ \A i \in 1..Len(sent) : sent'[i] = sent[i]
      /\ sent'[Len(sent) + 1] = r
  BY <1>1, AppendProperties
<1>3. DOMAIN sent' = 1..Len(sent') /\ DOMAIN sent = 1..Len(sent) /\ Len(sent) \in Nat
  BY <1>1, <1>2
<1>4. ToSet(sent') = ToSet(sent)'
  BY DEF ToSet
<1>5. sent' \in Seq(ToSet(sent)')
  BY <1>2, <1>4, SeqOfMembers
<1>6. \A n \in DOMAIN sent' : sent'[n] = r \/ (n \in DOMAIN sent /\ sent'[n] = sent[n])
  BY <1>2, <1>3
<1>7. QED
  BY <1>5, <1>6

\* The invariant of the bodies is inductive.
LEMMA AttemptsAlikeStep == BodyInv /\ [BodyNext]_bodyVars => BodyInv'
<1> SUFFICES ASSUME BodyInv, [BodyNext]_bodyVars PROVE BodyInv'
  OBVIOUS
<1>1. AttemptsAlike <=> \A n \in DOMAIN sent :
                          Plainly(sent[n].body) = Plainly(Body(asked[1], sent[n].channel))
  BY DEF AttemptsAlike, Plainly
<1>2. AttemptsAlike' <=> \A n \in DOMAIN sent' :
                           Plainly(sent'[n].body) = Plainly(Body(asked'[1], sent'[n].channel))
  BY DEF AttemptsAlike, Plainly
<1>3. ASSUME NEW m, Say(m) PROVE BodyInv'
  <2>1. /\ asked = <<>> /\ UNCHANGED <<asked, sent>>
        /\ payload' = [payload EXCEPT !.conversation = Append(@, m)]
    BY <1>3 DEF Say
  <2>2. Values(payload')
    BY <2>1 DEF BodyInv, Values
  <2>3. sent' \in Seq(ToSet(sent)')
    BY <2>1 DEF BodyInv, ToSet
  <2>4. QED
    BY <1>1, <1>2, <2>1, <2>2, <2>3 DEF BodyInv
<1>4. CASE ParseRelayPayload
  <2>1. asked' = <<payload>> /\ asked = <<>> /\ UNCHANGED <<payload, sent>>
    BY <1>4 DEF ParseRelayPayload
  <2>2. sent = <<>> /\ sent' = <<>>
    BY <2>1 DEF BodyInv
  <2>3. asked' # <<>> /\ asked'[1] = payload'
    BY <2>1
  <2>4. Values(payload') /\ SameButOptions(payload', payload')
    BY <2>1 DEF BodyInv, Values, SameButOptions
  <2>5. sent' \in Seq(ToSet(sent)')
    BY <2>1 DEF BodyInv, ToSet
  <2>6. AttemptsAlike'
    BY <1>2, <2>2
  <2>7. QED
    BY <2>2, <2>3, <2>4, <2>5, <2>6 DEF BodyInv
<1>5. ASSUME NEW channel \in Channels, SendBody(channel) PROVE BodyInv'
  <2>0. PICK r : r = [channel |-> channel, body |-> Body(payload, channel)]
    OBVIOUS
  <2>1. asked # <<>> /\ asked' = asked /\ sent' = Append(sent, r)
    BY <1>5, <2>0 DEF SendBody
  <2>2. Values(payload') /\ SameButOptions(payload', payload)
    BY <1>5, PayloadKept DEF BodyInv
  <2>3. Values(asked[1]) /\ SameButOptions(payload, asked[1])
    BY <2>1 DEF BodyInv
  <2>4. SameButOptions(payload', asked'[1])
    BY <2>1, <2>2, <2>3 DEF SameButOptions
  <2>5. Plainly(r.body) = Plainly(Body(asked[1], r.channel))
    BY <2>0, <2>3, BodiesAlike DEF BodyInv
  <2>6. /\ sent' \in Seq(ToSet(sent)')
        /\ \A n \in DOMAIN sent' : sent'[n] = r \/ (n \in DOMAIN sent /\ sent'[n] = sent[n])
    BY <2>1, OneBodyMore DEF BodyInv
  <2>7. AttemptsAlike'
    <3> SUFFICES ASSUME NEW n \in DOMAIN sent'
                 PROVE  Plainly(sent'[n].body) = Plainly(Body(asked'[1], sent'[n].channel))
      BY <1>2
    <3>1. CASE sent'[n] = r
      BY <2>1, <2>5, <3>1
    <3>2. CASE n \in DOMAIN sent /\ sent'[n] = sent[n]
      BY <1>1, <2>1, <3>2 DEF BodyInv
    <3>3. QED
      BY <2>6, <3>1, <3>2
  <2>8. QED
    BY <2>1, <2>2, <2>3, <2>4, <2>6, <2>7 DEF BodyInv
<1>6. CASE UNCHANGED bodyVars
  <2>1. payload' = payload /\ asked' = asked /\ sent' = sent
    BY <1>6 DEF bodyVars
  <2>2. QED
    BY <1>1, <1>2, <2>1 DEF BodyInv, ToSet
<1>7. QED
  BY <1>3, <1>4, <1>5, <1>6 DEF BodyNext

LEMMA BodyStarts == BodyInit => BodyInv
<1> SUFFICES ASSUME BodyInit PROVE BodyInv
  OBVIOUS
<1>1. payload \in Requests
  BY WishesAssumption DEF BodyInit
<1>2. Values(payload)
  BY <1>1 DEF Values, Requests
<1>3. sent \in Seq(ToSet(sent)) /\ DOMAIN sent = {}
  BY DEF BodyInit
<1>4. QED
  BY <1>2, <1>3 DEF BodyInit, BodyInv, AttemptsAlike

\* What a channel is sent follows from the request and the channel, whatever channels have
\* been tried before.
THEOREM BodiesDoNotDrift == BodySpec => []AttemptsAlike
<1>1. BodyInv => AttemptsAlike
  BY DEF BodyInv
<1>2. QED
  BY <1>1, BodyStarts, AttemptsAlikeStep, PTL DEF BodySpec

-----------------------------------------------------------------------------
(* Lists put together from lists. *)

Smaller == {p \in Nat \X Nat : p[1] < p[2]}

\* Induction: a set of numbers has a least one.
LEMMA LeastNumber ==
  ASSUME NEW T, T \subseteq Nat, T # {}
  PROVE  \E n \in T : \A m \in T : n <= m
<1>1. IsWellFoundedOn(Smaller, Nat)
  <2>1. Smaller = OpToRel(<, Nat)
    BY DEF OpToRel, Smaller
  <2>2. QED
    BY <2>1, NatLessThanWellFounded, Zenon
<1>2. PICK n \in T : \A m \in T : ~(<<m, n>> \in Smaller)
  BY <1>1, WFMin, Zenon
<1>3. ASSUME NEW m \in T PROVE n <= m
  <2>1. m \in Nat /\ n \in Nat
    OBVIOUS
  <2>2. m < n => <<m, n>> \in Smaller
    BY <2>1 DEF Smaller
  <2>3. QED
    BY <1>2, <2>1, <2>2
<1>4. QED
  BY <1>3

\* What FlattenSeq computes: the list after each of its parts.
NextJoined(seqs, g, i) == IF i = 1 THEN seqs[i] ELSE g[i - 1] \o seqs[i]
Joined(seqs) == CHOOSE g : g = [i \in 1..Len(seqs) |-> NextJoined(seqs, g, i)]

LEMMA FlattenIsJoined ==
  ASSUME NEW seqs
  PROVE  FlattenSeq(seqs) = IF Len(seqs) = 0 THEN seqs ELSE Joined(seqs)[Len(seqs)]
  BY DEF FlattenSeq, Joined, NextJoined

\* The recursion is well founded, and Joined is the function it defines.
LEMMA JoinedEquation ==
  ASSUME NEW seqs, Len(seqs) \in Nat
  PROVE  \A i \in 1..Len(seqs) : Joined(seqs)[i] = NextJoined(seqs, Joined(seqs), i)
<1> DEFINE At == 1..Len(seqs)
           Solves(g, k) == /\ g = [n \in At |-> g[n]]
                           /\ \A n \in At : n < k => g[n] = NextJoined(seqs, g, n)
           Unsolved == {k \in Nat : ~ \E g : Solves(g, k)}
<1>0. At \subseteq Nat /\ \A n \in At : n # 1 => n - 1 \in At
  OBVIOUS
<1>1. Unsolved = {}
  <2> SUFFICES ASSUME Unsolved # {} PROVE FALSE
    OBVIOUS
  <2>1. PICK k \in Unsolved : \A j \in Unsolved : k <= j
    <3>1. Unsolved \subseteq Nat
      OBVIOUS
    <3> HIDE DEF Unsolved
    <3>2. QED
      BY <3>1, LeastNumber
  <2>2. k # 0
    <3>1. Solves([n \in At |-> {}], 0)
      BY <1>0
    <3>2. QED
      BY <3>1
  <2>3. PICK g : Solves(g, k - 1)
    <3>1. k - 1 \in Nat /\ ~(k <= k - 1)
      BY <2>2
    <3>2. k - 1 \notin Unsolved
      BY <2>1, <3>1
    <3>3. QED
      BY <3>1, <3>2
  <2> DEFINE next == [n \in At |-> IF n < k - 1 THEN g[n] ELSE NextJoined(seqs, g, n)]
  <2>4. \A n \in At : next[n] = IF n < k - 1 THEN g[n] ELSE NextJoined(seqs, g, n)
    OBVIOUS
  <2>5. next = [n \in At |-> next[n]]
    OBVIOUS
  <2> HIDE DEF next
  <2>6. ASSUME NEW n \in At, n < k
        PROVE  next[n] = NextJoined(seqs, next, n)
    <3>1. next[n] = NextJoined(seqs, g, n)
      BY <2>3, <2>4
    <3>2. n # 1 => n - 1 \in At /\ n - 1 < k - 1 /\ next[n - 1] = g[n - 1]
      BY <1>0, <2>4, <2>6
    <3>3. QED
      BY <3>1, <3>2, Zenon DEF NextJoined
  <2>7. Solves(next, k)
    BY <2>5, <2>6
  <2>8. QED
    BY <2>7
<1>2. PICK g : Solves(g, Len(seqs) + 1)
  <2>1. Len(seqs) + 1 \in Nat
    OBVIOUS
  <2>2. QED
    BY <1>1, <2>1
<1>3. \A n \in At : n < Len(seqs) + 1
  OBVIOUS
<1>4. g = [n \in At |-> NextJoined(seqs, g, n)]
  BY <1>2, <1>3
<1>5. Joined(seqs) = [n \in At |-> NextJoined(seqs, Joined(seqs), n)]
  <2> DEFINE P(f) == f = [n \in At |-> NextJoined(seqs, f, n)]
  <2>1. P(g)
    BY <1>4
  <2>2. Joined(seqs) = CHOOSE f : P(f)
    BY DEF Joined
  <2> HIDE DEF P
  <2>3. P(Joined(seqs))
    BY <2>1, <2>2, Zenon
  <2>4. QED
    BY <2>3 DEF P
<1>6. QED
  BY <1>5

\* The members of what is put together are members of the parts.
LEMMA JoinedType ==
  ASSUME NEW S, NEW seqs \in Seq(Seq(S))
  PROVE  \A i \in 1..Len(seqs) : Joined(seqs)[i] \in Seq(S)
<1> DEFINE Bad == {i \in 1..Len(seqs) : Joined(seqs)[i] \notin Seq(S)}
<1>0. Len(seqs) \in Nat /\ \A i \in 1..Len(seqs) : seqs[i] \in Seq(S)
  OBVIOUS
<1>1. SUFFICES ASSUME Bad # {} PROVE FALSE
  OBVIOUS
<1>2. PICK i \in Bad : \A j \in Bad : i <= j
  <2>1. Bad \subseteq Nat
    OBVIOUS
  <2> HIDE DEF Bad
  <2>2. QED
    BY <1>1, <2>1, LeastNumber
<1>3. i \in 1..Len(seqs) /\ Joined(seqs)[i] = NextJoined(seqs, Joined(seqs), i) /\ seqs[i] \in Seq(S)
  BY <1>0, JoinedEquation
<1>4. CASE i = 1
  BY <1>2, <1>3, <1>4 DEF NextJoined
<1>5. CASE i # 1
  <2>1. i - 1 \in 1..Len(seqs) /\ ~(i <= i - 1)
    BY <1>3, <1>5
  <2>2. Joined(seqs)[i - 1] \in Seq(S)
    BY <1>2, <2>1
  <2>3. Joined(seqs)[i] = Joined(seqs)[i - 1] \o seqs[i]
    BY <1>3, <1>5 DEF NextJoined
  <2>4. Joined(seqs)[i] \in Seq(S)
    BY <1>3, <2>2, <2>3, ConcatProperties
  <2>5. QED
    BY <1>2, <2>4
<1>6. QED
  BY <1>4, <1>5

LEMMA FlattenType ==
  ASSUME NEW S, NEW seqs \in Seq(Seq(S))
  PROVE  FlattenSeq(seqs) \in Seq(S)
<1>1. CASE Len(seqs) = 0
  <2>1. seqs = <<>>
    BY <1>1, EmptySeq
  <2>2. FlattenSeq(seqs) = <<>>
    BY <1>1, <2>1, FlattenIsJoined
  <2>3. QED
    BY <2>2
<1>2. CASE Len(seqs) # 0
  <2>1. Len(seqs) \in 1..Len(seqs)
    BY <1>2
  <2>2. QED
    BY <1>2, <2>1, FlattenIsJoined, JoinedType
<1>3. QED
  BY <1>1, <1>2

\* A further part comes last.
LEMMA FlattenGrows ==
  ASSUME NEW S, NEW seqs \in Seq(Seq(S)), NEW x \in Seq(S)
  PROVE  FlattenSeq(Append(seqs, x)) = FlattenSeq(seqs) \o x
<1> DEFINE n == Len(seqs)
           t == Append(seqs, x)
           Differ == {i \in 1..n : Joined(t)[i] # Joined(seqs)[i]}
<1>1. /\ n \in Nat /\ t \in Seq(Seq(S)) /\ Len(t) = n + 1
      /\ \A i \in 1..n : t[i] = seqs[i]
      /\ t[n + 1] = x
  BY AppendProperties
<1> HIDE DEF t
<1>2. \A i \in 1..n + 1 : Joined(t)[i] = NextJoined(t, Joined(t), i)
  BY <1>1, JoinedEquation
<1>3. \A i \in 1..n : Joined(seqs)[i] = NextJoined(seqs, Joined(seqs), i)
  BY <1>1, JoinedEquation
<1>4. Differ = {}
  <2> SUFFICES ASSUME Differ # {} PROVE FALSE
    OBVIOUS
  <2>1. PICK i \in Differ : \A j \in Differ : i <= j
    <3>1. Differ \subseteq Nat
      OBVIOUS
    <3> HIDE DEF Differ
    <3>2. QED
      BY <3>1, LeastNumber
  <2>2. i \in 1..n /\ i \in 1..n + 1 /\ t[i] = seqs[i]
    BY <1>1
  <2>3. Joined(t)[i] = NextJoined(t, Joined(t), i) /\ Joined(seqs)[i] = NextJoined(seqs, Joined(seqs), i)
    BY <1>2, <1>3, <2>2
  <2>4. i # 1 => Joined(t)[i - 1] = Joined(seqs)[i - 1]
    <3>1. i # 1 => i - 1 \in 1..n /\ ~(i <= i - 1)
      BY <1>1, <2>2
    <3>2. QED
      BY <2>1, <3>1
  <2>5. Joined(t)[i] = Joined(seqs)[i]
    BY <2>2, <2>3, <2>4 DEF NextJoined
  <2>6. QED
    BY <2>1, <2>5
<1>5. FlattenSeq(t) = NextJoined(t, Joined(t), n + 1)
  <2>1. FlattenSeq(t) = Joined(t)[n + 1]
    BY <1>1, FlattenIsJoined
  <2>2. QED
    BY <1>1, <1>2, <2>1
<1>6. CASE n = 0
  <2>1. FlattenSeq(seqs) = <<>>
    BY <1>6, FlattenIsJoined, EmptySeq
  <2>2. FlattenSeq(t) = x
    BY <1>1, <1>5, <1>6 DEF NextJoined
  <2>3. <<>> \o x = x
    OBVIOUS
  <2>4. QED
    BY <2>1, <2>2, <2>3 DEF t
<1>7. CASE n # 0
  <2>1. FlattenSeq(t) = Joined(t)[n] \o x
    BY <1>1, <1>5, <1>7 DEF NextJoined
  <2>2. Joined(t)[n] = Joined(seqs)[n]
    <3>1. n \in 1..n
      BY <1>1, <1>7
    <3>2. QED
      BY <1>4, <3>1
  <2>3. FlattenSeq(seqs) = Joined(seqs)[n]
    BY <1>7, FlattenIsJoined
  <2>4. QED
    BY <2>1, <2>2, <2>3 DEF t
<1>8. QED
  BY <1>6, <1>7

\* The last part has become longer at its end, and so has the list.
LEMMA FlattenLast ==
  ASSUME NEW S, NEW seqs \in Seq(Seq(S)), NEW x \in Seq(S), NEW c \in S
  PROVE  FlattenSeq(Append(seqs, Append(x, c))) = Append(FlattenSeq(Append(seqs, x)), c)
<1> DEFINE l == FlattenSeq(seqs)
<1>1. l \in Seq(S) /\ Append(x, c) \in Seq(S)
  BY FlattenType
<1>2. /\ FlattenSeq(Append(seqs, Append(x, c))) = l \o Append(x, c)
      /\ FlattenSeq(Append(seqs, x)) = l \o x
  BY <1>1, FlattenGrows
<1> HIDE DEF l
<1>3. l \o Append(x, c) = Append(l \o x, c)
  BY <1>1
<1>4. QED
  BY <1>2, <1>3

\* A list of n parts.
Parts(n, S) == [1..n -> Seq(S)]

\* A list of parts, and one that has a part more.
LEMMA PartMore ==
  ASSUME NEW S, NEW n \in Nat, NEW f, NEW g,
         f \in Parts(n, S), NEW m, m = n + 1, g \in Parts(m, S), \A i \in 1..n : g[i] = f[i]
  PROVE  FlattenSeq(g) = FlattenSeq(f) \o g[m] /\ FlattenSeq(f) \in Seq(S)
<1>0. f \in [1..n -> Seq(S)] /\ g \in [1..n + 1 -> Seq(S)]
  BY DEF Parts
<1>1. f \in Seq(Seq(S)) /\ Len(f) = n
  BY <1>0
<1>2. g \in Seq(Seq(S)) /\ Len(g) = n + 1
  BY <1>0
<1>3. g[n + 1] \in Seq(S)
  BY <1>0
<1> DEFINE x == g[n + 1]
           t == Append(f, x)
<1>4. t \in Seq(Seq(S)) /\ Len(t) = n + 1 /\ (\A i \in 1..n : t[i] = f[i]) /\ t[n + 1] = x
  BY <1>1, <1>3, AppendProperties
<1> HIDE DEF t
<1>5. t = g
  <2>1. \A i \in 1..n + 1 : t[i] = g[i]
    BY <1>4
  <2>2. QED
    BY <1>2, <1>4, <2>1, SeqEqual
<1>6. FlattenSeq(t) = FlattenSeq(f) \o x /\ FlattenSeq(f) \in Seq(S)
  BY <1>1, <1>3, FlattenGrows, FlattenType DEF t
<1>7. QED
  BY <1>5, <1>6

\* The last part has become longer at its end, and so has the list.
Longer(S, m, f, g, c) ==
  /\ m \in Nat \ {0} /\ c \in S /\ f \in Parts(m, S) /\ g \in Parts(m, S)
  /\ \A i \in 1..m : i # m => g[i] = f[i]
  /\ g[m] = Append(f[m], c)

LEMMA PartLonger ==
  ASSUME NEW S, NEW m, NEW f, NEW g, NEW c, Longer(S, m, f, g, c)
  PROVE  FlattenSeq(g) = Append(FlattenSeq(f), c)
<1> DEFINE n == m - 1
           h == [i \in 1..n |-> f[i]]
           x == f[m]
           y == Append(x, c)
<1>0. /\ m \in Nat \ {0} /\ c \in S /\ f \in [1..m -> Seq(S)] /\ g \in [1..m -> Seq(S)]
      /\ \A i \in 1..m : i # m => g[i] = f[i]
      /\ g[m] = y
  BY DEF Longer, Parts
<1>1. n \in Nat /\ m = n + 1 /\ m \in 1..m /\ \A i \in 1..n : i \in 1..m /\ i # m
  BY <1>0
<1>2. /\ h \in Seq(Seq(S)) /\ Len(h) = n
      /\ \A i \in 1..n : h[i] = f[i] /\ h[i] = g[i]
  <2>1. h \in [1..n -> Seq(S)] /\ \A i \in 1..n : h[i] = f[i]
    BY <1>0, <1>1
  <2>2. \A i \in 1..n : h[i] = g[i]
    BY <1>0, <1>1, <2>1
  <2> HIDE DEF h, n
  <2>3. h \in Seq(Seq(S)) /\ Len(h) = n
    BY <1>1, <2>1
  <2>4. QED
    BY <2>1, <2>2, <2>3
<1>3. x \in Seq(S) /\ y \in Seq(S) /\ f[m] = x /\ g[m] = y
  BY <1>0, <1>1
<1>4. f \in Seq(Seq(S)) /\ g \in Seq(Seq(S)) /\ Len(f) = m /\ Len(g) = m
  BY <1>0
<1> HIDE DEF h, n
<1>5. \A z \in Seq(S) :
        /\ Append(h, z) \in Seq(Seq(S)) /\ Len(Append(h, z)) = m /\ Append(h, z)[m] = z
        /\ \A i \in 1..n : Append(h, z)[i] = h[i]
  BY <1>1, <1>2, AppendProperties
<1>6. \A i \in 1..m : i = m \/ i \in 1..n
  BY <1>1
<1> HIDE DEF x, y
<1>7. f = Append(h, x)
  <2>1. \A i \in 1..m : f[i] = Append(h, x)[i]
    BY <1>2, <1>3, <1>5, <1>6
  <2>2. QED
    BY <1>3, <1>4, <1>5, <2>1, SeqEqual
<1>8. g = Append(h, y)
  <2>1. \A i \in 1..m : g[i] = Append(h, y)[i]
    BY <1>2, <1>3, <1>5, <1>6
  <2>2. QED
    BY <1>3, <1>4, <1>5, <2>1, SeqEqual
<1>9. FlattenSeq(Append(h, y)) = Append(FlattenSeq(Append(h, x)), c)
  BY <1>0, <1>2, <1>3, FlattenLast DEF y
<1>10. QED
  BY <1>7, <1>8, <1>9

-----------------------------------------------------------------------------
(* Lists put together from lists: their members and their order. *)

\* What stands earlier in a list is related to what stands later.
Ordered(s, R) == \A i, j \in 1..Len(s) : i < j => <<s[i], s[j]>> \in R

\* The members of two lists joined.
LEMMA TwoMembers ==
  ASSUME NEW S, NEW x \in Seq(S), NEW y \in Seq(S)
  PROVE  \A z : z \in ToSet(x \o y) <=> z \in ToSet(x) \/ z \in ToSet(y)
<1> DEFINE t == x \o y
<1>1. /\ t \in Seq(S) /\ Len(t) = Len(x) + Len(y)
      /\ \A i \in 1..Len(t) : t[i] = IF i <= Len(x) THEN x[i] ELSE y[i - Len(x)]
  BY ConcatProperties
<1>2. Len(x) \in Nat /\ Len(y) \in Nat /\ DOMAIN x = 1..Len(x) /\ DOMAIN y = 1..Len(y) /\ DOMAIN t = 1..Len(t)
  BY <1>1
<1> HIDE DEF t
<1>3. ASSUME NEW z \in ToSet(t) PROVE z \in ToSet(x) \/ z \in ToSet(y)
  <2>1. PICK i \in 1..Len(t) : z = t[i]
    BY <1>2, <1>3 DEF ToSet
  <2>2. CASE i <= Len(x)
    <3>1. i \in 1..Len(x) /\ z = x[i]
      BY <1>1, <1>2, <2>1, <2>2
    <3>2. QED
      BY <1>2, <3>1 DEF ToSet
  <2>3. CASE ~(i <= Len(x))
    <3>1. i - Len(x) \in 1..Len(y) /\ z = y[i - Len(x)]
      BY <1>1, <1>2, <2>1, <2>3
    <3>2. QED
      BY <1>2, <3>1 DEF ToSet
  <2>4. QED
    BY <2>2, <2>3
<1>4. ASSUME NEW z \in ToSet(x) PROVE z \in ToSet(t)
  <2>1. PICK i \in 1..Len(x) : z = x[i]
    BY <1>2, <1>4 DEF ToSet
  <2>2. i \in 1..Len(t) /\ z = t[i]
    BY <1>1, <1>2, <2>1
  <2>3. QED
    BY <1>2, <2>2 DEF ToSet
<1>5. ASSUME NEW z \in ToSet(y) PROVE z \in ToSet(t)
  <2>1. PICK i \in 1..Len(y) : z = y[i]
    BY <1>2, <1>5 DEF ToSet
  <2>2. i + Len(x) \in 1..Len(t) /\ z = t[i + Len(x)]
    <3>1. i + Len(x) \in 1..Len(t) /\ ~(i + Len(x) <= Len(x)) /\ (i + Len(x)) - Len(x) = i
      BY <1>1, <1>2, <2>1
    <3>2. QED
      BY <1>1, <2>1, <3>1
  <2>3. QED
    BY <1>2, <2>2 DEF ToSet
<1>6. QED
  BY <1>3, <1>4, <1>5 DEF t

\* Two lists in order, one before the other, are one in order.
LEMMA TwoOrdered ==
  ASSUME NEW S, NEW x \in Seq(S), NEW y \in Seq(S), NEW R,
         Ordered(x, R), Ordered(y, R), \A p \in ToSet(x), q \in ToSet(y) : <<p, q>> \in R
  PROVE  Ordered(x \o y, R)
<1> DEFINE t == x \o y
<1>1. /\ t \in Seq(S) /\ Len(t) = Len(x) + Len(y)
      /\ \A i \in 1..Len(t) : t[i] = IF i <= Len(x) THEN x[i] ELSE y[i - Len(x)]
  BY ConcatProperties
<1>2. Len(x) \in Nat /\ Len(y) \in Nat /\ DOMAIN x = 1..Len(x) /\ DOMAIN y = 1..Len(y) /\ DOMAIN t = 1..Len(t)
  BY <1>1
<1> HIDE DEF t
<1>3. SUFFICES ASSUME NEW i \in 1..Len(t), NEW j \in 1..Len(t), i < j PROVE <<t[i], t[j]>> \in R
  BY DEF Ordered, t
<1>4. CASE j <= Len(x)
  <2>1. i \in 1..Len(x) /\ j \in 1..Len(x) /\ t[i] = x[i] /\ t[j] = x[j]
    BY <1>1, <1>2, <1>3, <1>4
  <2>2. QED
    BY <1>3, <2>1 DEF Ordered
<1>5. CASE ~(i <= Len(x))
  <2> DEFINE a == i - Len(x)
             b == j - Len(x)
  <2>1. a \in 1..Len(y) /\ b \in 1..Len(y) /\ a < b /\ t[i] = y[a] /\ t[j] = y[b]
    BY <1>1, <1>2, <1>3, <1>5
  <2> HIDE DEF a, b
  <2>2. QED
    BY <2>1 DEF Ordered
<1>6. CASE i <= Len(x) /\ ~(j <= Len(x))
  <2> DEFINE b == j - Len(x)
  <2>1. i \in 1..Len(x) /\ b \in 1..Len(y) /\ t[i] = x[i] /\ t[j] = y[b]
    BY <1>1, <1>2, <1>3, <1>6
  <2> HIDE DEF b
  <2>2. x[i] \in ToSet(x) /\ y[b] \in ToSet(y)
    BY <1>2, <2>1 DEF ToSet
  <2>3. QED
    BY <2>1, <2>2
<1>7. QED
  BY <1>4, <1>5, <1>6

\* The parts of a list up to the m-th, and what is said of the list they make.
Upto(f, m) == [i \in 1..m |-> f[i]]

\* Each part more is joined to what the parts before it make.
LEMMA PartsUpto ==
  ASSUME NEW S, NEW n \in Nat, NEW f, f \in Parts(n, S)
  PROVE  /\ FlattenSeq(Upto(f, 0)) = <<>>
         /\ \A m \in 1..n : /\ FlattenSeq(Upto(f, m)) = FlattenSeq(Upto(f, m - 1)) \o f[m]
                            /\ FlattenSeq(Upto(f, m - 1)) \in Seq(S) /\ f[m] \in Seq(S)
         /\ Upto(f, n) = f
<1>1. f \in [1..n -> Seq(S)]
  BY DEF Parts
<1>2. FlattenSeq(Upto(f, 0)) = <<>>
  <2>1. Upto(f, 0) = <<>>
    BY DEF Upto
  <2>2. Len(<<>>) = 0
    OBVIOUS
  <2>3. FlattenSeq(<<>>) = <<>>
    BY <2>2, FlattenIsJoined
  <2>4. QED
    BY <2>1, <2>3
<1>3. ASSUME NEW m \in 1..n
      PROVE  /\ FlattenSeq(Upto(f, m)) = FlattenSeq(Upto(f, m - 1)) \o f[m]
             /\ FlattenSeq(Upto(f, m - 1)) \in Seq(S) /\ f[m] \in Seq(S)
  <2> DEFINE k == m - 1
             a == Upto(f, k)
             b == Upto(f, m)
  <2>1. k \in Nat /\ m = k + 1 /\ m \in Nat
    OBVIOUS
  <2>2. a \in Parts(k, S) /\ b \in Parts(m, S) /\ \A i \in 1..k : b[i] = a[i]
    BY <1>1, <2>1 DEF Parts, Upto
  <2>3. b[m] = f[m] /\ f[m] \in Seq(S)
    BY <1>1, <2>1 DEF Upto
  <2> HIDE DEF k, a, b
  <2>4. FlattenSeq(b) = FlattenSeq(a) \o b[m] /\ FlattenSeq(a) \in Seq(S)
    BY <2>1, <2>2, PartMore
  <2>5. QED
    BY <2>3, <2>4 DEF a, b, k
<1>4. Upto(f, n) = f
  BY <1>1 DEF Upto
<1>5. QED
  BY <1>2, <1>3, <1>4

\* A list has the members of its parts, and no others.
LEMMA FlattenMembers ==
  ASSUME NEW S, NEW n \in Nat, NEW f, f \in Parts(n, S)
  PROVE  \A z : z \in ToSet(FlattenSeq(f)) <=> \E i \in 1..n : z \in ToSet(f[i])
<1> DEFINE Gathers(m) == \A z : z \in ToSet(FlattenSeq(Upto(f, m))) <=> \E i \in 1..m : z \in ToSet(f[i])
           Bad == {m \in 0..n : ~ Gathers(m)}
<1>1. Bad = {}
  <2> SUFFICES ASSUME Bad # {} PROVE FALSE
    OBVIOUS
  <2>1. PICK m \in Bad : \A k \in Bad : m <= k
    <3>1. Bad \subseteq Nat
      OBVIOUS
    <3> HIDE DEF Bad
    <3>2. QED
      BY <3>1, LeastNumber
  <2>2. CASE m = 0
    <3>1. FlattenSeq(Upto(f, 0)) = <<>>
      BY PartsUpto
    <3>2. ToSet(<<>>) = {}
      BY DEF ToSet
    <3>3. Gathers(0)
      BY <3>1, <3>2
    <3>4. QED
      BY <2>1, <2>2, <3>3
  <2>3. CASE m # 0
    <3>1. m \in 1..n /\ m - 1 \in 0..n /\ ~(m <= m - 1) /\ 1..m = (1..m - 1) \cup {m}
      BY <2>1, <2>3
    <3>2. Gathers(m - 1)
      BY <2>1, <3>1
    <3>3. /\ FlattenSeq(Upto(f, m)) = FlattenSeq(Upto(f, m - 1)) \o f[m]
          /\ FlattenSeq(Upto(f, m - 1)) \in Seq(S) /\ f[m] \in Seq(S)
      BY <3>1, PartsUpto
    <3>4. \A z : z \in ToSet(FlattenSeq(Upto(f, m)))
                   <=> z \in ToSet(FlattenSeq(Upto(f, m - 1))) \/ z \in ToSet(f[m])
      BY <3>3, TwoMembers
    <3>5. Gathers(m)
      BY <3>1, <3>2, <3>4, Zenon
    <3>6. QED
      BY <2>1, <3>5
  <2>4. QED
    BY <2>2, <2>3
<1>2. n \in 0..n
  OBVIOUS
<1>3. Gathers(n)
  BY <1>1, <1>2
<1>4. Upto(f, n) = f
  BY PartsUpto
<1>5. QED
  BY <1>3, <1>4

\* A list is in order when each part is, and the parts are.
LEMMA FlattenOrdered ==
  ASSUME NEW S, NEW n \in Nat, NEW f, f \in Parts(n, S), NEW R,
         \A i \in 1..n : Ordered(f[i], R),
         \A i, j \in 1..n : i < j => \A p \in ToSet(f[i]), q \in ToSet(f[j]) : <<p, q>> \in R
  PROVE  Ordered(FlattenSeq(f), R)
<1> DEFINE Good(m) == Ordered(FlattenSeq(Upto(f, m)), R)
           Bad == {m \in 0..n : ~ Good(m)}
<1>1. Bad = {}
  <2> SUFFICES ASSUME Bad # {} PROVE FALSE
    OBVIOUS
  <2>1. PICK m \in Bad : \A k \in Bad : m <= k
    <3>1. Bad \subseteq Nat
      OBVIOUS
    <3> HIDE DEF Bad
    <3>2. QED
      BY <3>1, LeastNumber
  <2>2. CASE m = 0
    <3>1. FlattenSeq(Upto(f, 0)) = <<>>
      BY PartsUpto
    <3>2. Ordered(<<>>, R)
      BY DEF Ordered
    <3>3. Good(0)
      BY <3>1, <3>2
    <3>4. QED
      BY <2>1, <2>2, <3>3
  <2>3. CASE m # 0
    <3>1. m \in 1..n /\ m - 1 \in 0..n /\ m - 1 \in Nat /\ ~(m <= m - 1) /\ \A i \in 1..m - 1 : i \in 1..n /\ i < m
      BY <2>1, <2>3
    <3> DEFINE x == FlattenSeq(Upto(f, m - 1))
               y == f[m]
               e == Upto(f, m - 1)
    <3>2. Ordered(x, R) /\ Ordered(y, R)
      BY <2>1, <3>1
    <3>3. FlattenSeq(Upto(f, m)) = x \o y /\ x \in Seq(S) /\ y \in Seq(S)
      <4>1. \A k \in 1..n : /\ FlattenSeq(Upto(f, k)) = FlattenSeq(Upto(f, k - 1)) \o f[k]
                            /\ FlattenSeq(Upto(f, k - 1)) \in Seq(S) /\ f[k] \in Seq(S)
        BY PartsUpto
      <4>2. QED
        BY <3>1, <4>1
    <3>4. e \in Parts(m - 1, S) /\ \A i \in 1..m - 1 : e[i] = f[i]
      <4>1. \A i \in 1..m - 1 : f[i] \in Seq(S)
        BY <3>1 DEF Parts
      <4>2. QED
        BY <4>1 DEF Parts, Upto
    <3>5. \A z : z \in ToSet(FlattenSeq(e)) <=> \E i \in 1..m - 1 : z \in ToSet(e[i])
      <4> DEFINE k == m - 1
      <4>1. k \in Nat /\ e \in Parts(k, S)
        BY <3>1, <3>4
      <4> HIDE DEF k, e
      <4>2. \A z : z \in ToSet(FlattenSeq(e)) <=> \E i \in 1..k : z \in ToSet(e[i])
        BY <4>1, FlattenMembers
      <4>3. QED
        BY <4>2 DEF k
    <3>6. \A p \in ToSet(x), q \in ToSet(y) : <<p, q>> \in R
      BY <3>1, <3>4, <3>5
    <3> HIDE DEF x, y, e
    <3>7. Ordered(x \o y, R)
      BY <3>2, <3>3, <3>6, TwoOrdered
    <3>8. QED
      BY <2>1, <3>3, <3>7
  <2>4. QED
    BY <2>2, <2>3
<1>2. n \in 0..n
  OBVIOUS
<1>3. Good(n)
  BY <1>1, <1>2
<1>4. Upto(f, n) = f
  BY PartsUpto
<1>5. QED
  BY <1>3, <1>4

-----------------------------------------------------------------------------
(* What becomes of a message. *)

Types      == {"message", "function_call", "function_call_output"}
Ids        == STRING \cup {""}
InputItems == [type : Types, at : Nat \X Nat, id : Ids]
InOrder    == {p \in InputItems \X InputItems : Precedes(p[1].at, p[2].at)}
Places(list) == {item.at : item \in ToSet(list)}

\* Items that stand for the i-th message, in order.
Standing(list, i) ==
  /\ list \in Seq(InputItems) /\ Ordered(list, InOrder)
  /\ \A item \in ToSet(list) : item.at[1] = i

Speaking(m) == \/ m.content = "text" /\ m.role \notin {"tool", "function", "untyped"}
               \/ m.role \in {"tool", "function"} /\ m.id # ""

\* They tell all it says, but for what instructions tell.
Conveys(list, m, i, roles) ==
  /\ Standing(list, i)
  /\ Speaking(m) => <<i, 0>> \in Places(list) \/ (m.role \in roles /\ m.content = "text")
  /\ \A j \in DOMAIN m.calls : m.calls[j].name # "" => <<i, j>> \in Places(list)

\* No item stands nowhere, and one item where it comes from.
LEMMA NoItem ==
  ASSUME NEW i
  PROVE  Standing(<<>>, i) /\ Places(<<>>) = {}
  BY DEF Standing, Ordered, ToSet, Places

LEMMA OneItem ==
  ASSUME NEW x \in InputItems, NEW i, x.at[1] = i
  PROVE  Standing(<<x>>, i) /\ Places(<<x>>) = {x.at}
<1>1. ToSet(<<x>>) = {x}
  BY DEF ToSet
<1>2. Ordered(<<x>>, InOrder)
  BY DEF Ordered
<1>3. QED
  BY <1>1, <1>2 DEF Standing, Places

\* An item that depends on a condition.
LEMMA PerhapsItem ==
  ASSUME NEW c, NEW type \in Types, NEW i \in Nat, NEW j \in Nat, NEW id \in Ids
  PROVE  /\ Standing(If(c, Item(type, i, j, id)), i)
         /\ Places(If(c, Item(type, i, j, id))) \subseteq {<<i, j>>}
         /\ c => <<i, j>> \in Places(If(c, Item(type, i, j, id)))
<1> DEFINE x == Item(type, i, j, id)
<1>1. x \in InputItems /\ x.at = <<i, j>> /\ x.at[1] = i
  BY DEF InputItems, Item
<1> HIDE DEF x
<1>2. Standing(<<x>>, i) /\ Places(<<x>>) = {x.at}
  BY <1>1, OneItem
<1>3. Standing(<<>>, i) /\ Places(<<>>) = {}
  BY NoItem
<1>4. If(c, x) = IF c THEN <<x>> ELSE <<>>
  BY DEF If
<1>5. CASE c
  BY <1>1, <1>2, <1>4, <1>5 DEF x
<1>6. CASE ~c
  BY <1>3, <1>4, <1>6 DEF x
<1>7. QED
  BY <1>5, <1>6

\* The calls of a message become items in the order in which they are made.
LEMMA CallsListed ==
  ASSUME NEW m \in Utterance, NEW i \in Nat
  PROVE  /\ Standing(CallItems(m, i), i)
         /\ \A item \in ToSet(CallItems(m, i)) : item.at[2] # 0
         /\ \A j \in DOMAIN m.calls : m.calls[j].name # "" => <<i, j>> \in Places(CallItems(m, i))
<1> DEFINE n == Len(m.calls)
           f == [j \in DOMAIN m.calls |-> If(m.calls[j].name # "", Item("function_call", i, j, m.calls[j].id))]
<1>1. n \in Nat /\ DOMAIN m.calls = 1..n /\ \A j \in 1..n : m.calls[j].id \in Ids /\ j \in Nat /\ j # 0
  <2> DEFINE calls == m.calls
             C     == [id : STRING, name : STRING]
  <2>1. calls \in Seq(C)
    BY DEF Utterance
  <2>2. \A call \in C : call.id \in Ids
    BY DEF Ids
  <2> HIDE DEF calls, C
  <2>3. Len(calls) \in Nat /\ DOMAIN calls = 1..Len(calls) /\ \A j \in 1..Len(calls) : calls[j] \in C
    BY <2>1
  <2>4. QED
    BY <2>2, <2>3 DEF calls
<1>2. ASSUME NEW j \in 1..n
      PROVE  /\ Standing(f[j], i) /\ Places(f[j]) \subseteq {<<i, j>>}
             /\ m.calls[j].name # "" => <<i, j>> \in Places(f[j])
  <2> DEFINE c == m.calls[j].name # ""
             id == m.calls[j].id
  <2>1. f[j] = If(c, Item("function_call", i, j, id)) /\ id \in Ids /\ j \in Nat
    BY <1>1
  <2>2. "function_call" \in Types
    BY DEF Types
  <2> HIDE DEF f, id
  <2>3. /\ Standing(If(c, Item("function_call", i, j, id)), i)
        /\ Places(If(c, Item("function_call", i, j, id))) \subseteq {<<i, j>>}
        /\ c => <<i, j>> \in Places(If(c, Item("function_call", i, j, id)))
    BY <2>1, <2>2, PerhapsItem
  <2>4. QED
    BY <2>1, <2>3
<1>3. CallItems(m, i) = FlattenSeq(f) /\ DOMAIN f = 1..n /\ f = [j \in DOMAIN f |-> f[j]]
  BY <1>1 DEF CallItems
<1> HIDE DEF f, n
<1>4. f \in Parts(n, InputItems)
  BY <1>2, <1>3 DEF Parts, Standing
<1>5. \A x : x \in ToSet(FlattenSeq(f)) <=> \E j \in 1..n : x \in ToSet(f[j])
  BY <1>1, <1>4, FlattenMembers
<1>6. \A j \in 1..n : \A x \in ToSet(f[j]) : x \in InputItems /\ x.at = <<i, j>>
  <2> SUFFICES ASSUME NEW j \in 1..n, NEW x \in ToSet(f[j]) PROVE x \in InputItems /\ x.at = <<i, j>>
    OBVIOUS
  <2>1. x.at \in Places(f[j])
    BY DEF Places
  <2>2. f[j] \in Seq(InputItems)
    BY <1>2 DEF Standing
  <2>3. x \in InputItems
    BY <2>2 DEF ToSet
  <2>4. QED
    BY <1>2, <2>1, <2>3
<1>7. Ordered(FlattenSeq(f), InOrder)
  <2>1. \A j \in 1..n : Ordered(f[j], InOrder)
    BY <1>2 DEF Standing
  <2>2. ASSUME NEW j \in 1..n, NEW k \in 1..n, j < k, NEW p \in ToSet(f[j]), NEW q \in ToSet(f[k])
        PROVE  <<p, q>> \in InOrder
    <3>1. Precedes(p.at, q.at)
      BY <1>6, <2>2 DEF Precedes
    <3>2. QED
      BY <1>6, <3>1 DEF InOrder
  <2>3. QED
    BY <1>1, <1>4, <2>1, <2>2, FlattenOrdered
<1>8. FlattenSeq(f) \in Seq(InputItems)
  <2>1. f \in Seq(Seq(InputItems))
    BY <1>1, <1>4 DEF Parts
  <2>2. QED
    BY <2>1, FlattenType
<1>9. Standing(CallItems(m, i), i)
  BY <1>3, <1>5, <1>6, <1>7, <1>8 DEF Standing
<1>10. \A item \in ToSet(CallItems(m, i)) : item.at[2] # 0
  BY <1>1, <1>3, <1>5, <1>6
<1>11. \A j \in DOMAIN m.calls : m.calls[j].name # "" => <<i, j>> \in Places(CallItems(m, i))
  BY <1>1, <1>2, <1>3, <1>5 DEF Places
<1>12. QED
  BY <1>9, <1>10, <1>11

\* An assistant's text, then its calls.
LEMMA AssistantTold ==
  ASSUME NEW m \in Utterance, NEW i \in Nat
  PROVE  /\ Standing(AssistantItems(m, i), i)
         /\ m.content = "text" => <<i, 0>> \in Places(AssistantItems(m, i))
         /\ \A j \in DOMAIN m.calls : m.calls[j].name # "" => <<i, j>> \in Places(AssistantItems(m, i))
<1> DEFINE x == If(m.content = "text", Item("message", i, 0, ""))
           y == CallItems(m, i)
<1>1. /\ Standing(x, i) /\ Places(x) \subseteq {<<i, 0>>}
      /\ m.content = "text" => <<i, 0>> \in Places(x)
  <2>1. "message" \in Types /\ "" \in Ids /\ 0 \in Nat
    BY DEF Types, Ids
  <2>2. QED
    BY <2>1, PerhapsItem
<1>2. /\ Standing(y, i)
      /\ \A item \in ToSet(y) : item.at[2] # 0
      /\ \A j \in DOMAIN m.calls : m.calls[j].name # "" => <<i, j>> \in Places(y)
  BY CallsListed
<1>3. AssistantItems(m, i) = x \o y
  BY DEF AssistantItems
<1> HIDE DEF x, y
<1>4. x \in Seq(InputItems) /\ y \in Seq(InputItems) /\ Ordered(x, InOrder) /\ Ordered(y, InOrder)
  BY <1>1, <1>2 DEF Standing
<1>5. \A z : z \in ToSet(x \o y) <=> z \in ToSet(x) \/ z \in ToSet(y)
  BY <1>4, TwoMembers
<1>6. ASSUME NEW p \in ToSet(x), NEW q \in ToSet(y) PROVE <<p, q>> \in InOrder
  <2>1. p \in InputItems /\ q \in InputItems
    BY <1>4 DEF ToSet
  <2>2. p.at = <<i, 0>>
    BY <1>1 DEF Places
  <2>3. q.at[1] = i /\ q.at[2] # 0 /\ q.at[2] \in Nat
    BY <1>2, <2>1 DEF Standing, InputItems
  <2>4. QED
    BY <2>1, <2>2, <2>3 DEF InOrder, Precedes
<1>7. Ordered(x \o y, InOrder)
  BY <1>4, <1>6, TwoOrdered
<1>8. x \o y \in Seq(InputItems)
  BY <1>4
<1>9. Standing(x \o y, i)
  BY <1>1, <1>2, <1>5, <1>7, <1>8 DEF Standing
<1>10. Places(x) \subseteq Places(x \o y) /\ Places(y) \subseteq Places(x \o y)
  BY <1>5 DEF Places
<1>11. QED
  BY <1>1, <1>2, <1>3, <1>9, <1>10

\* A message without calls.
LEMMA Silent ==
  ASSUME NEW m, m.calls = <<>>
  PROVE  \A j : j \notin DOMAIN m.calls
  OBVIOUS

\* A message of a chat request, an item of a Responses request, and the text that is a whole input.
LEMMA MessageTold ==
  ASSUME NEW m \in Utterance, NEW i \in Nat, m.calls # <<>> => m.role = "assistant"
  PROVE  Conveys(ItemsOf(m, i), m, i, {"system", "developer"})
<1>0. /\ "function_call_output" \in Types /\ "message" \in Types /\ "" \in Ids /\ 0 \in Nat
      /\ m.id \in Ids /\ m.content \in {"text", "blank", "null"}
  BY DEF Utterance, Types, Ids
<1>1. CASE m.role \in {"system", "developer"}
  <2>1. ItemsOf(m, i) = <<>>
    BY <1>1 DEF ItemsOf
  <2>2. m.calls = <<>>
    BY <1>1
  <2>3. QED
    BY <1>1, <2>1, <2>2, NoItem, Silent DEF Conveys, Speaking
<1>2. CASE m.role \in {"tool", "function"}
  <2> DEFINE l == If(m.id # "", Item("function_call_output", i, 0, m.id))
  <2>1. ItemsOf(m, i) = l
    BY <1>2 DEF ItemsOf
  <2>2. Standing(l, i) /\ (m.id # "" => <<i, 0>> \in Places(l))
    BY <1>0, PerhapsItem
  <2>3. m.calls = <<>>
    BY <1>2
  <2> HIDE DEF l
  <2>4. QED
    BY <1>2, <2>1, <2>2, <2>3, Silent DEF Conveys, Speaking
<1>3. CASE m.role = "assistant"
  <2>1. ItemsOf(m, i) = AssistantItems(m, i)
    BY <1>3 DEF ItemsOf
  <2>2. /\ Standing(AssistantItems(m, i), i)
        /\ m.content = "text" => <<i, 0>> \in Places(AssistantItems(m, i))
        /\ \A j \in DOMAIN m.calls : m.calls[j].name # "" => <<i, j>> \in Places(AssistantItems(m, i))
    BY AssistantTold
  <2>3. QED
    BY <1>3, <2>1, <2>2 DEF Conveys, Speaking
<1>4. CASE m.role \notin {"system", "developer", "tool", "function", "assistant"}
  <2> DEFINE l == If(m.content # "null", Item("message", i, 0, ""))
  <2>1. ItemsOf(m, i) = l
    BY <1>4 DEF ItemsOf
  <2>2. Standing(l, i) /\ (m.content # "null" => <<i, 0>> \in Places(l))
    BY <1>0, PerhapsItem
  <2>3. m.calls = <<>>
    BY <1>4
  <2> HIDE DEF l
  <2>4. QED
    BY <1>4, <2>1, <2>2, <2>3, Silent DEF Conveys, Speaking
<1>5. QED
  BY <1>1, <1>2, <1>3, <1>4

LEMMA InputTold ==
  ASSUME NEW m \in Utterance, NEW i \in Nat, m.calls = <<>>
  PROVE  Conveys(InputItem(m, i), m, i, {"system"})
<1> DEFINE type == IF m.role \in {"function_call", "function_call_output"} THEN m.role ELSE "message"
           c == m.role \notin {"system", "untyped"}
           l == If(c, Item(type, i, 0, m.id))
<1>0. type \in Types /\ 0 \in Nat /\ m.id \in Ids
  BY DEF Utterance, Types, Ids
<1>1. InputItem(m, i) = l
  BY DEF InputItem
<1> HIDE DEF type, c
<1>2. Standing(l, i) /\ (c => <<i, 0>> \in Places(l))
  BY <1>0, PerhapsItem
<1> HIDE DEF l
<1>3. QED
  BY <1>1, <1>2, Silent DEF Conveys, Speaking, c

LEMMA TextTold ==
  ASSUME NEW m \in Utterance, NEW i \in Nat, m.calls = <<>>, m.role = "user"
  PROVE  Conveys(UserItem(m, i), m, i, {})
<1> DEFINE l == If(m.content = "text", Item("message", i, 0, ""))
<1>0. "message" \in Types /\ "" \in Ids /\ 0 \in Nat
  BY DEF Types, Ids
<1>1. UserItem(m, i) = l
  BY DEF UserItem
<1>2. Standing(l, i) /\ (m.content = "text" => <<i, 0>> \in Places(l))
  BY <1>0, PerhapsItem
<1> HIDE DEF l
<1>3. QED
  BY <1>1, <1>2, Silent DEF Conveys, Speaking

-----------------------------------------------------------------------------
(* What becomes of a request. *)

\* A client's request, whatever its options: its conversation...
Conversing(v) ==
  /\ v = [field \in DOMAIN v |-> v[field]]
  /\ DOMAIN v = {"endpoint", "given", "stream", "conversation", "instructions", "input", "tools",
                 "functions", "choice", "call", "reasoning", "effort", "encrypted", "format",
                 "options"}
  /\ v.instructions = <<>> /\ v.input = <<>>
  /\ v.given = "messages" => v.endpoint = "chat"
  /\ v.conversation = <<>> \/ (v.given \in DOMAIN Utterances /\ v.conversation \in Seq(Utterances[v.given]))

\* ...and the tools it describes.
Described == [shape : {"nested", "flat", "builtin", "bare"}, name : STRING]

Describing(v) ==
  /\ v.tools \in Seq(Described) /\ v.functions \in Seq(STRING)
  /\ v.choice \in ToolChoices /\ v.call \in ToolChoices

\* The body tells all the request says, in order.
Telling(v, body) ==
  /\ Ordered(body.input, InOrder)
  /\ body.input \in Seq(InputItems)
  /\ Said(v) \subseteq Places(body.input) \cup {<<i, 0>> : i \in ToSet(body.instructions)}
  /\ \A i \in ToSet(body.instructions) : v.conversation[i].role \in {"system", "developer"}

\* The instructions among the messages.
InstructionsOf(said, roles) ==
  FlattenSeq([i \in DOMAIN said |-> If(said[i].role \in roles /\ said[i].content = "text", i)])

\* They are the texts of the roles looked for, all of them.
LEMMA InstructionsFound ==
  ASSUME NEW M, NEW said \in Seq(M), NEW roles
  PROVE  \A i : i \in ToSet(InstructionsOf(said, roles))
                  <=> i \in DOMAIN said /\ said[i].role \in roles /\ said[i].content = "text"
<1> DEFINE n == Len(said)
           f == [i \in DOMAIN said |-> If(said[i].role \in roles /\ said[i].content = "text", i)]
           S == Nat
<1>1. n \in Nat /\ DOMAIN said = 1..n /\ \A i \in 1..n : i \in S
  OBVIOUS
<1>2. ASSUME NEW i \in 1..n
      PROVE  /\ f[i] \in Seq(S)
             /\ \A x : x \in ToSet(f[i]) <=> x = i /\ said[i].role \in roles /\ said[i].content = "text"
  <2> DEFINE c == said[i].role \in roles /\ said[i].content = "text"
  <2>1. f[i] = IF c THEN <<i>> ELSE <<>>
    BY <1>1 DEF If
  <2> HIDE DEF f, c, S
  <2>2. ToSet(<<i>>) = {i} /\ ToSet(<<>>) = {}
    BY DEF ToSet
  <2>3. <<i>> \in Seq(S) /\ <<>> \in Seq(S)
    BY <1>1
  <2>4. f[i] \in Seq(S) /\ \A x : x \in ToSet(f[i]) <=> x = i /\ c
    BY <2>1, <2>2, <2>3
  <2>5. QED
    BY <2>4 DEF c
<1>3. InstructionsOf(said, roles) = FlattenSeq(f) /\ DOMAIN f = 1..n /\ f = [i \in DOMAIN f |-> f[i]]
  BY <1>1 DEF InstructionsOf
<1> HIDE DEF f, n, S
<1>4. f \in Parts(n, S)
  BY <1>2, <1>3 DEF Parts
<1>5. \A x : x \in ToSet(FlattenSeq(f)) <=> \E i \in 1..n : x \in ToSet(f[i])
  BY <1>1, <1>4, FlattenMembers
<1>6. QED
  BY <1>1, <1>2, <1>3, <1>5

\* Parts that stand for the messages, one each.
LEMMA PartsTell ==
  ASSUME NEW n \in Nat, NEW items, items = [i \in 1..n |-> items[i]],
         \A i \in 1..n : Standing(items[i], i)
  PROVE  /\ FlattenSeq(items) \in Seq(InputItems)
         /\ Ordered(FlattenSeq(items), InOrder)
         /\ \A i \in 1..n : Places(items[i]) \subseteq Places(FlattenSeq(items))
<1>1. items \in Parts(n, InputItems)
  BY DEF Parts, Standing
<1>2. \A x : x \in ToSet(FlattenSeq(items)) <=> \E i \in 1..n : x \in ToSet(items[i])
  BY <1>1, FlattenMembers
<1>3. FlattenSeq(items) \in Seq(InputItems)
  <2>1. items \in Seq(Seq(InputItems))
    BY <1>1 DEF Parts
  <2>2. QED
    BY <2>1, FlattenType
<1>4. \A i \in 1..n : \A x \in ToSet(items[i]) : x \in InputItems /\ x.at[1] = i
  <2> SUFFICES ASSUME NEW i \in 1..n, NEW x \in ToSet(items[i]) PROVE x \in InputItems /\ x.at[1] = i
    OBVIOUS
  <2>1. items[i] \in Seq(InputItems) /\ x.at[1] = i
    BY DEF Standing
  <2>2. QED
    BY <2>1 DEF ToSet
<1>5. Ordered(FlattenSeq(items), InOrder)
  <2>1. \A i \in 1..n : Ordered(items[i], InOrder)
    BY DEF Standing
  <2>2. ASSUME NEW i \in 1..n, NEW j \in 1..n, i < j, NEW p \in ToSet(items[i]), NEW q \in ToSet(items[j])
        PROVE  <<p, q>> \in InOrder
    <3>1. Precedes(p.at, q.at)
      BY <1>4, <2>2 DEF Precedes
    <3>2. QED
      BY <1>4, <3>1 DEF InOrder
  <2>3. QED
    BY <1>1, <2>1, <2>2, FlattenOrdered
<1>6. \A i \in 1..n : Places(items[i]) \subseteq Places(FlattenSeq(items))
  BY <1>2 DEF Places
<1>7. QED
  BY <1>3, <1>5, <1>6

\* What a request keeps when its conversation becomes input.
Untouched(v, w) ==
  /\ w = [field \in DOMAIN w |-> w[field]] /\ DOMAIN w = DOMAIN v
  /\ \A field \in {"endpoint", "tools", "functions", "choice", "call"} : w[field] = v[field]

\* What is said stands in a message, or in a call of one.
LEMMA SaidWhere ==
  ASSUME NEW v, NEW p \in Said(v)
  PROVE  \/ \E i \in DOMAIN v.conversation : p = <<i, 0>> /\ Speaking(v.conversation[i])
         \/ \E i \in DOMAIN v.conversation : \E j \in DOMAIN v.conversation[i].calls :
              p = <<i, j>> /\ v.conversation[i].calls[j].name # ""
  BY Zenon DEF Said, Speaking

\* The items and the instructions of a conversation tell all of it.
LEMMA WithInputTells ==
  ASSUME NEW v, Conversing(v), NEW roles, roles \subseteq {"system", "developer"},
         NEW items, items = [i \in DOMAIN v.conversation |-> items[i]],
         \A i \in DOMAIN v.conversation : Conveys(items[i], v.conversation[i], i, roles)
  PROVE  Telling(v, WithInput(v, roles, items)) /\ Untouched(v, WithInput(v, roles, items))
<1> DEFINE said == v.conversation
           n    == Len(said)
           w    == WithInput(v, roles, items)
           ins  == InstructionsOf(said, roles)
<1>1. PICK M : said \in Seq(M)
  <2>1. CASE said = <<>>
    <3>1. said \in Seq({})
      BY <2>1
    <3>2. QED
      BY <3>1
  <2>2. QED
    BY <2>1 DEF Conversing
<1>2. n \in Nat /\ DOMAIN said = 1..n
  BY <1>1
<1>3. /\ w.input = FlattenSeq(items)
      /\ w.instructions = IF ins = <<>> THEN v.instructions ELSE ins
      /\ Untouched(v, w)
  BY DEF WithInput, InstructionsOf, Conversing, Untouched
<1>4. v.instructions = <<>>
  BY DEF Conversing
<1>5. \A i : i \in ToSet(ins) <=> i \in DOMAIN said /\ said[i].role \in roles /\ said[i].content = "text"
  BY <1>1, InstructionsFound
<1>6. \A i \in 1..n : Standing(items[i], i)
  BY <1>2 DEF Conveys
<1>7. /\ FlattenSeq(items) \in Seq(InputItems)
      /\ Ordered(FlattenSeq(items), InOrder)
      /\ \A i \in 1..n : Places(items[i]) \subseteq Places(FlattenSeq(items))
  <2>1. items = [i \in 1..n |-> items[i]]
    BY <1>2
  <2> HIDE DEF n
  <2>2. QED
    BY <1>2, <1>6, <2>1, PartsTell
<1> HIDE DEF w, ins
<1>8. w.instructions = ins
  BY <1>3, <1>4
<1>9. ASSUME NEW p \in Said(v)
      PROVE  p \in Places(w.input) \cup {<<i, 0>> : i \in ToSet(w.instructions)}
  <2>1. CASE \E i \in DOMAIN said : p = <<i, 0>> /\ Speaking(said[i])
    <3>1. PICK i \in DOMAIN said : p = <<i, 0>> /\ Speaking(said[i])
      BY <2>1
    <3>2. CASE <<i, 0>> \in Places(items[i])
      BY <1>2, <1>3, <1>7, <3>1, <3>2
    <3>3. CASE said[i].role \in roles /\ said[i].content = "text"
      BY <1>5, <1>8, <3>1, <3>3
    <3>4. QED
      BY <3>1, <3>2, <3>3 DEF Conveys
  <2>2. CASE \E i \in DOMAIN said : \E j \in DOMAIN said[i].calls :
                p = <<i, j>> /\ said[i].calls[j].name # ""
    BY <1>2, <1>3, <1>7, <2>2 DEF Conveys
  <2>3. QED
    BY <1>9, <2>1, <2>2, SaidWhere
<1>10. \A i \in ToSet(w.instructions) : said[i].role \in {"system", "developer"}
  BY <1>5, <1>8
<1>11. Telling(v, w)
  BY <1>3, <1>7, <1>9, <1>10 DEF Telling
<1>12. QED
  BY <1>3, <1>11 DEF w

\* So does the conversion, of each form.
LEMMA ConvertedTells ==
  ASSUME NEW v, Conversing(v), v.given # "odd"
  PROVE  Telling(v, Converted(v)) /\ Untouched(v, Converted(v))
<1> DEFINE said == v.conversation
<1>1. CASE v.given = "messages"
  <2> DEFINE items == [i \in DOMAIN said |-> ItemsOf(said[i], i)]
             w     == WithInput(v, {"system", "developer"}, items)
  <2>1. Converted(v) = w
    BY <1>1 DEF Converted, Conversing
  <2>2. \A i \in DOMAIN said : Conveys(items[i], said[i], i, {"system", "developer"})
    <3> SUFFICES ASSUME NEW i \in DOMAIN said PROVE Conveys(items[i], said[i], i, {"system", "developer"})
      OBVIOUS
    <3>1. v.given \in DOMAIN Utterances /\ said \in Seq(Utterances[v.given])
      BY DEF Conversing
    <3>2. i \in Nat /\ said[i] \in Utterances[v.given]
      BY <3>1
    <3>3. said[i] \in Utterance /\ (said[i].calls # <<>> => said[i].role = "assistant")
      BY <3>1, <3>2, UtterancesAssumption
    <3> HIDE DEF said
    <3>4. Conveys(ItemsOf(said[i], i), said[i], i, {"system", "developer"})
      BY <3>2, <3>3, MessageTold
    <3>5. QED
      BY <3>4
  <2>3. items = [i \in DOMAIN said |-> items[i]]
    OBVIOUS
  <2> HIDE DEF items
  <2>4. Telling(v, w) /\ Untouched(v, w)
    BY <2>2, <2>3, WithInputTells
  <2>5. QED
    BY <2>1, <2>4
<1>2. CASE v.given = "input"
  <2> DEFINE items == [i \in DOMAIN said |-> InputItem(said[i], i)]
             w     == WithInput(v, {"system"}, items)
  <2>1. Converted(v) = w
    BY <1>2 DEF Converted, Conversing
  <2>2. \A i \in DOMAIN said : Conveys(items[i], said[i], i, {"system"})
    <3> SUFFICES ASSUME NEW i \in DOMAIN said PROVE Conveys(items[i], said[i], i, {"system"})
      OBVIOUS
    <3>1. v.given \in DOMAIN Utterances /\ said \in Seq(Utterances[v.given])
      BY DEF Conversing
    <3>2. i \in Nat /\ said[i] \in Utterances[v.given]
      BY <3>1
    <3>3. said[i] \in Utterance /\ said[i].calls = <<>>
      BY <1>2, <3>1, <3>2, UtterancesAssumption
    <3> HIDE DEF said
    <3>4. Conveys(InputItem(said[i], i), said[i], i, {"system"})
      BY <3>2, <3>3, InputTold
    <3>5. QED
      BY <3>4
  <2>3. items = [i \in DOMAIN said |-> items[i]]
    OBVIOUS
  <2> HIDE DEF items
  <2>4. Telling(v, w) /\ Untouched(v, w)
    BY <2>2, <2>3, WithInputTells
  <2>5. QED
    BY <2>1, <2>4
<1>3. CASE v.given = "string"
  <2> DEFINE items == [i \in DOMAIN said |-> UserItem(said[i], i)]
             w     == WithInput(v, {}, items)
  <2>1. Converted(v) = w
    BY <1>3 DEF Converted, Conversing
  <2>2. \A i \in DOMAIN said : Conveys(items[i], said[i], i, {})
    <3> SUFFICES ASSUME NEW i \in DOMAIN said PROVE Conveys(items[i], said[i], i, {})
      OBVIOUS
    <3>1. v.given \in DOMAIN Utterances /\ said \in Seq(Utterances[v.given])
      BY DEF Conversing
    <3>2. i \in Nat /\ said[i] \in Utterances[v.given]
      BY <3>1
    <3>3. said[i] \in Utterance /\ said[i].calls = <<>> /\ said[i].role = "user"
      BY <1>3, <3>1, <3>2, UtterancesAssumption
    <3> HIDE DEF said
    <3>4. Conveys(UserItem(said[i], i), said[i], i, {})
      BY <3>2, <3>3, TextTold
    <3>5. QED
      BY <3>4
  <2>3. items = [i \in DOMAIN said |-> items[i]]
    OBVIOUS
  <2> HIDE DEF items
  <2>4. Telling(v, w) /\ Untouched(v, w)
    BY <2>2, <2>3, WithInputTells
  <2>5. QED
    BY <2>1, <2>4
<1>4. CASE v.given \notin {"messages", "input", "string"}
  <2> DEFINE w == [v EXCEPT !.given = "input"]
  <2>1. Converted(v) = w
    BY <1>4 DEF Converted, Conversing
  <2>2. said = <<>>
    BY <1>4, UtterancesAssumption DEF Conversing
  <2>3. w.input = <<>> /\ w.instructions = <<>> /\ Untouched(v, w)
    BY DEF Conversing, Untouched
  <2>4. Said(v) = {}
    BY <2>2 DEF Said
  <2>5. Ordered(<<>>, InOrder) /\ <<>> \in Seq(InputItems) /\ ToSet(<<>>) = {}
    BY DEF Ordered, ToSet
  <2> HIDE DEF w
  <2>6. Telling(v, w)
    BY <2>3, <2>4, <2>5 DEF Telling
  <2>7. QED
    BY <2>1, <2>3, <2>6
<1>5. QED
  BY <1>1, <1>2, <1>3, <1>4

-----------------------------------------------------------------------------
(* The body of a ChatGPT OAuth channel. *)

\* The tool a client wants called.
Wanted(v) == IF v.choice.form = "absent" THEN v.call ELSE v.choice

Offered(v, name) == \/ Tool("nested", name) \in ToSet(v.tools)
                    \/ name \in ToSet(v.functions)

ChoosesOffered(v, body) ==
  (v.endpoint = "chat" /\ Wanted(v).form \in {"nested", "name"}) =>
    (Offered(v, Wanted(v).name) /\ Wanted(v).name # "" =>
       /\ body.choice = Named("flat", Wanted(v).name)
       /\ Tool("flat", Wanted(v).name) \in ToSet(body.tools))

\* Lists of one member, and the members of a list.
LEMMA OneListed ==
  ASSUME NEW S, NEW x \in S
  PROVE  <<x>> \in Seq(S) /\ <<>> \in Seq(S) /\ ToSet(<<x>>) = {x}
<1>1. ToSet(<<x>>) = {x}
  BY DEF ToSet
<1>2. QED
  BY <1>1

LEMMA ListedMembers ==
  ASSUME NEW S, NEW s \in Seq(S)
  PROVE  Len(s) \in Nat /\ DOMAIN s = 1..Len(s) /\ \A i \in 1..Len(s) : s[i] \in S
  OBVIOUS

\* A list of tools or of functions is flattened, the named ones with it.
LEMMA PartsFlattened ==
  ASSUME NEW n \in Nat, NEW f, f = [i \in 1..n |-> f[i]], NEW S, \A i \in 1..n : f[i] \in Seq(S)
  PROVE  FlattenSeq(f) \in Seq(S) /\ \A i \in 1..n : ToSet(f[i]) \subseteq ToSet(FlattenSeq(f))
<1>1. f \in Parts(n, S)
  BY DEF Parts
<1>2. \A x : x \in ToSet(FlattenSeq(f)) <=> \E i \in 1..n : x \in ToSet(f[i])
  BY <1>1, FlattenMembers
<1>3. FlattenSeq(f) \in Seq(S)
  <2>1. f \in Seq(Seq(S))
    BY <1>1 DEF Parts
  <2>2. QED
    BY <2>1, FlattenType
<1>4. QED
  BY <1>2, <1>3

\* A tool that a chat request describes is in the body, in its flat form.
LEMMA NestedFlattened ==
  ASSUME NEW x, NEW name, x = Tool("nested", name)
  PROVE  ChatTool(x) = ChatFunction(name)
<1>1. x.shape = "nested" /\ x.name = name
  BY DEF Tool
<1>2. QED
  BY <1>1 DEF ChatTool

LEMMA ToolsOffered ==
  ASSUME NEW v, Describing(v), NEW name \in STRING, name # "", Offered(v, name)
  PROVE  Tool("flat", name) \in ToSet(ChatTools(v))
<1> DEFINE tools == v.tools
           functions == v.functions
           n == Len(tools)
           k == Len(functions)
           f == [i \in DOMAIN tools |-> ChatTool(tools[i])]
           g == [i \in DOMAIN functions |-> ChatFunction(functions[i])]
           S == Described \cup [shape : {"flat"}, name : STRING]
           t == Tool("flat", name)
<1>1. tools \in Seq(Described) /\ functions \in Seq(STRING)
  BY DEF Describing
<1>2. ChatTools(v) = FlattenSeq(f) \o FlattenSeq(g)
  BY DEF ChatTools
<1>3. \A x \in STRING : ChatFunction(x) \in Seq(S) /\ (x # "" => ToSet(ChatFunction(x)) = {Tool("flat", x)})
  <2> SUFFICES ASSUME NEW x \in STRING
               PROVE  ChatFunction(x) \in Seq(S) /\ (x # "" => ToSet(ChatFunction(x)) = {Tool("flat", x)})
    OBVIOUS
  <2> DEFINE y == Tool("flat", x)
  <2>1. y \in S
    BY DEF Tool
  <2>2. ChatFunction(x) = IF x # "" THEN <<y>> ELSE <<>>
    BY DEF ChatFunction, If
  <2> HIDE DEF y, S
  <2>3. <<y>> \in Seq(S) /\ <<>> \in Seq(S) /\ ToSet(<<y>>) = {y}
    BY <2>1, OneListed
  <2>4. QED
    BY <2>2, <2>3 DEF y
<1>4. \A x \in Described : ChatTool(x) \in Seq(S)
  <2> SUFFICES ASSUME NEW x \in Described PROVE ChatTool(x) \in Seq(S)
    OBVIOUS
  <2>1. x \in S /\ x.name \in STRING
    BY DEF Described
  <2> HIDE DEF S
  <2>2. ChatFunction(x.name) \in Seq(S)
    BY <1>3, <2>1
  <2>3. <<x>> \in Seq(S) /\ <<>> \in Seq(S)
    BY <2>1, OneListed
  <2>4. QED
    BY <2>2, <2>3 DEF ChatTool, If
<1>5. n \in Nat /\ k \in Nat /\ DOMAIN tools = 1..n /\ DOMAIN functions = 1..k
  BY <1>1, ListedMembers
<1>6. /\ f = [i \in 1..n |-> f[i]] /\ \A i \in 1..n : f[i] = ChatTool(tools[i])
      /\ g = [i \in 1..k |-> g[i]] /\ \A i \in 1..k : g[i] = ChatFunction(functions[i])
  BY <1>5
<1>7. /\ \A i \in 1..n : tools[i] \in Described
      /\ \A i \in 1..k : functions[i] \in STRING
  BY <1>1, ListedMembers
<1> HIDE DEF tools, functions, n, k, f, g, S
<1>8. (\A i \in 1..n : f[i] \in Seq(S)) /\ (\A i \in 1..k : g[i] \in Seq(S))
  BY <1>3, <1>4, <1>6, <1>7
<1>9. FlattenSeq(f) \in Seq(S) /\ \A i \in 1..n : ToSet(f[i]) \subseteq ToSet(FlattenSeq(f))
  BY <1>5, <1>6, <1>8, PartsFlattened
<1>10. FlattenSeq(g) \in Seq(S) /\ \A i \in 1..k : ToSet(g[i]) \subseteq ToSet(FlattenSeq(g))
  BY <1>5, <1>6, <1>8, PartsFlattened
<1>11. \A z : z \in ToSet(FlattenSeq(f) \o FlattenSeq(g)) <=> z \in ToSet(FlattenSeq(f)) \/ z \in ToSet(FlattenSeq(g))
  BY <1>9, <1>10, TwoMembers
<1>12. ToSet(ChatFunction(name)) = {t}
  BY <1>3
<1>13. CASE Tool("nested", name) \in ToSet(v.tools)
  <2>1. PICK i \in 1..n : tools[i] = Tool("nested", name)
    BY <1>5, <1>13 DEF ToSet, tools
  <2>2. ChatTool(tools[i]) = ChatFunction(name)
    BY <2>1, NestedFlattened
  <2>3. ToSet(f[i]) = {t}
    BY <1>6, <1>12, <2>2
  <2>4. QED
    BY <1>2, <1>9, <1>11, <2>3
<1>14. CASE name \in ToSet(v.functions)
  <2>1. PICK i \in 1..k : functions[i] = name
    BY <1>5, <1>14 DEF ToSet, functions
  <2>2. ToSet(g[i]) = {t}
    BY <1>6, <1>12, <2>1
  <2>3. QED
    BY <1>2, <1>10, <1>11, <2>2
<1>15. QED
  BY <1>13, <1>14 DEF Offered

SaidIn(said) ==
  {<<i, 0>> : i \in {i \in DOMAIN said :
      \/ said[i].content = "text" /\ said[i].role \notin {"tool", "function", "untyped"}
      \/ said[i].role \in {"tool", "function"} /\ said[i].id # ""}}
  \cup UNION {{<<i, j>> : j \in {j \in DOMAIN said[i].calls : said[i].calls[j].name # ""}} : i \in DOMAIN said}

\* What is said depends on the conversation alone.
LEMMA SaidBySame ==
  ASSUME NEW v, NEW w, v.conversation = w.conversation, NEW body, Telling(w, body)
  PROVE  Telling(v, body)
<1>1. \A r : Said(r) = SaidIn(r.conversation)
  BY Zenon DEF Said, SaidIn
<1>2. QED
  BY <1>1 DEF Telling

\* A body that tells the same.
LEMMA ToldBySame ==
  ASSUME NEW v, NEW b, NEW c, b.input = c.input, b.instructions = c.instructions, Telling(v, b)
  PROVE  Telling(v, c)
  BY DEF Telling

Fields(v) == /\ v = [field \in DOMAIN v |-> v[field]]
             /\ DOMAIN v = {"endpoint", "given", "stream", "conversation", "instructions", "input", "tools",
                            "functions", "choice", "call", "reasoning", "effort", "encrypted", "format",
                 "options"}

\* The rest of the conversion of a chat request leaves input and instructions alone.
LEMMA ChatRest ==
  ASSUME NEW w, Fields(w)
  PROVE  LET b == EnsureChatGPTReasoningInclude(NormalizeChatGPTChatOptions(NormalizeChatGPTChatTools(w)))
         IN  /\ b.input = w.input /\ b.instructions = w.instructions
             /\ b.tools = ChatTools(w) /\ b.choice = ChatChoice(w)
<1> DEFINE p == NormalizeChatGPTChatTools(w)
           q == NormalizeChatGPTChatOptions(p)
           b == EnsureChatGPTReasoningInclude(q)
<1>1. /\ Fields(p) /\ p.input = w.input /\ p.instructions = w.instructions
      /\ p.tools = ChatTools(w) /\ p.choice = ChatChoice(w)
  BY DEF Fields, NormalizeChatGPTChatTools
<1> HIDE DEF p
<1>2. /\ Fields(q) /\ q.input = p.input /\ q.instructions = p.instructions
      /\ q.tools = p.tools /\ q.choice = p.choice
  BY <1>1 DEF Fields, NormalizeChatGPTChatOptions
<1> HIDE DEF q
<1>3. /\ b.input = q.input /\ b.instructions = q.instructions
      /\ b.tools = q.tools /\ b.choice = q.choice
  BY <1>2 DEF Fields, EnsureChatGPTReasoningInclude
<1> HIDE DEF b
<1>4. QED
  BY <1>1, <1>2, <1>3 DEF b, p, q

\* Legacy tools and functions are rewritten; what the request says is not.
LEMMA LegacyAsks ==
  ASSUME NEW v, Conversing(v)
  PROVE  /\ Conversing(NormalizeChatGPTLegacyTools(v))
         /\ NormalizeChatGPTLegacyTools(v).given = v.given
         /\ NormalizeChatGPTLegacyTools(v).conversation = v.conversation
  BY DEF Conversing, NormalizeChatGPTLegacyTools

\* The bodies of chat requests, and of Responses requests.
LEMMA ChatTold ==
  ASSUME NEW v, Conversing(v), Describing(v), v.endpoint = "chat", v.given # "odd"
  PROVE  Telling(v, ChatGPTOAuthRequestBody(v)) /\ ChoosesOffered(v, ChatGPTOAuthRequestBody(v))
<1> DEFINE kept == [v EXCEPT !.options = "absent", !.stream = TRUE]
           w    == Converted(kept)
           b    == EnsureChatGPTReasoningInclude(NormalizeChatGPTChatOptions(NormalizeChatGPTChatTools(w)))
<1>1. ChatGPTOAuthRequestBody(v) = b
  BY DEF ChatGPTOAuthRequestBody
<1>2. /\ Conversing(kept)
      /\ kept.endpoint = v.endpoint /\ kept.given = v.given /\ kept.conversation = v.conversation
      /\ kept.tools = v.tools /\ kept.functions = v.functions /\ kept.choice = v.choice /\ kept.call = v.call
  BY DEF Conversing
<1> HIDE DEF kept
<1>3. Telling(kept, w) /\ Untouched(kept, w)
  BY <1>2, ConvertedTells
<1>4. Fields(w) /\ w.tools = v.tools /\ w.functions = v.functions /\ w.choice = v.choice /\ w.call = v.call
  BY <1>2, <1>3 DEF Untouched, Fields, Conversing
<1> HIDE DEF w
<1>5. /\ b.input = w.input /\ b.instructions = w.instructions
      /\ b.tools = ChatTools(w) /\ b.choice = ChatChoice(w)
  BY <1>4, ChatRest
<1> HIDE DEF b
<1>6. Telling(v, b)
  <2>1. Telling(v, w)
    BY <1>2, <1>3, SaidBySame
  <2>2. QED
    BY <1>5, <2>1, ToldBySame
<1>7. ChoosesOffered(v, b)
  <2> DEFINE wanted == Wanted(v)
  <2>1. SUFFICES ASSUME wanted.form \in {"nested", "name"}, Offered(v, wanted.name), wanted.name # ""
                 PROVE  b.choice = Named("flat", wanted.name) /\ Tool("flat", wanted.name) \in ToSet(b.tools)
    BY DEF ChoosesOffered
  <2>2. ChatTools(w) = ChatTools(v)
    BY <1>4 DEF ChatTools
  <2>3. ChatChoice(w) = Named("flat", wanted.name)
    <3>1. wanted = IF w.choice.form = "absent" THEN w.call ELSE w.choice
      BY <1>4 DEF Wanted
    <3> HIDE DEF wanted
    <3>2. QED
      BY <2>1, <3>1 DEF ChatChoice
  <2>4. wanted.name \in STRING
    <3>1. wanted \in ToolChoices
      BY DEF Describing, Wanted
    <3> HIDE DEF wanted
    <3>2. wanted \in [form : {"absent", "mode"}] \/ wanted \in [form : {"name", "nested"}, name : STRING]
      BY <3>1 DEF ToolChoices
    <3>3. QED
      BY <2>1, <3>2
  <2> HIDE DEF wanted
  <2>5. Tool("flat", wanted.name) \in ToSet(ChatTools(v))
    BY <2>1, <2>4, ToolsOffered
  <2>6. QED
    BY <1>5, <2>2, <2>3, <2>5
<1>8. QED
  BY <1>1, <1>6, <1>7

LEMMA ResponsesTold ==
  ASSUME NEW v, Conversing(v), v.endpoint = "responses", v.given # "odd"
  PROVE  Telling(v, ChatGPTOAuthRequestBody(v)) /\ ChoosesOffered(v, ChatGPTOAuthRequestBody(v))
<1> DEFINE kept == [v EXCEPT !.options = "absent", !.stream = TRUE]
           u    == NormalizeChatGPTLegacyTools(kept)
           w    == Converted(u)
           b    == EnsureChatGPTReasoningInclude(w)
<1>1. ChatGPTOAuthRequestBody(v) = b
  BY DEF ChatGPTOAuthRequestBody
<1>2. Conversing(kept) /\ kept.given = v.given /\ kept.conversation = v.conversation
  BY DEF Conversing
<1> HIDE DEF kept
<1>3. Conversing(u) /\ u.given = v.given /\ u.conversation = v.conversation
  BY <1>2, LegacyAsks
<1> HIDE DEF u
<1>4. Telling(u, w) /\ Untouched(u, w)
  BY <1>3, ConvertedTells
<1>5. Fields(w)
  BY <1>3, <1>4 DEF Untouched, Fields, Conversing
<1> HIDE DEF w
<1>6. b.input = w.input /\ b.instructions = w.instructions
  BY <1>5 DEF Fields, EnsureChatGPTReasoningInclude
<1> HIDE DEF b
<1>7. Telling(v, b)
  <2>1. Telling(v, w)
    BY <1>3, <1>4, SaidBySame
  <2>2. QED
    BY <1>6, <2>1, ToldBySame
<1>8. ChoosesOffered(v, b)
  BY DEF ChoosesOffered
<1>9. QED
  BY <1>1, <1>7, <1>8

\* A body that is no refusal tells what the request says.
LEMMA BodyTells ==
  ASSUME NEW v, Conversing(v), Describing(v), ChatGPTOAuthRequestBody(v) # Refused
  PROVE  Telling(v, ChatGPTOAuthRequestBody(v)) /\ ChoosesOffered(v, ChatGPTOAuthRequestBody(v))
<1>1. v.endpoint \notin {"chat", "responses"} \/ v.given = "odd" => ChatGPTOAuthRequestBody(v) = Refused
  BY Zenon DEF ChatGPTOAuthRequestBody
<1>2. QED
  BY <1>1, ChatTold, ResponsesTold

-----------------------------------------------------------------------------
(* The bodies of a request's attempts tell what it says. *)

TellInv ==
  /\ Conversing(payload) /\ Describing(payload)
  /\ asked # <<>> => Conversing(asked[1]) /\ Describing(asked[1])
  /\ \A n \in DOMAIN sent : sent[n].channel.oauth => sent[n].body = ChatGPTOAuthRequestBody(asked[1])

\* A wish is a request, and has no conversation yet.
LEMMA WishAsks ==
  ASSUME NEW w \in Wishes
  PROVE  Conversing(w) /\ Describing(w)
<1>1. w \in Requests /\ (w.given = "messages" => w.endpoint = "chat")
  BY WishesAssumption, UtterancesAssumption
<1>2. Conversing(w)
  BY <1>1 DEF Requests, Conversing
<1>3. Describing(w)
  BY <1>1 DEF Requests, Describing, Described
<1>4. QED
  BY <1>2, <1>3

\* Neither a further message nor other options make it another kind of request.
LEMMA SayAsks ==
  ASSUME NEW v, Conversing(v), Describing(v), v.given \in DOMAIN Utterances,
         NEW m \in Utterances[v.given],
         NEW w, w = [v EXCEPT !.conversation = Append(@, m)]
  PROVE  Conversing(w) /\ Describing(w)
<1> DEFINE said == v.conversation
           M    == Utterances[v.given]
<1>1. Append(said, m) \in Seq(M)
  <2>1. said = <<>> \/ said \in Seq(M)
    BY DEF Conversing
  <2> HIDE DEF said, M
  <2>2. m \in M
    BY DEF M
  <2>3. <<>> \in Seq(M)
    OBVIOUS
  <2>4. said \in Seq(M)
    BY <2>1, <2>3
  <2>5. QED
    BY <2>2, <2>4, AppendProperties
<1>2. /\ w = [field \in DOMAIN w |-> w[field]] /\ DOMAIN w = DOMAIN v
      /\ w.conversation = Append(said, m)
      /\ \A field \in DOMAIN v : field # "conversation" => w[field] = v[field]
  BY DEF Conversing
<1> HIDE DEF said, M
<1>3. w.given = v.given
  BY <1>2 DEF Conversing
<1>4. Conversing(w)
  BY <1>1, <1>2, <1>3 DEF Conversing, M
<1>5. Describing(w)
  BY <1>2 DEF Conversing, Describing
<1>6. QED
  BY <1>4, <1>5

LEMMA OptionsAsk ==
  ASSUME NEW v, Conversing(v), Describing(v), NEW w, Values(w), SameButOptions(w, v)
  PROVE  Conversing(w) /\ Describing(w)
<1>1. /\ w = [field \in DOMAIN w |-> w[field]] /\ DOMAIN w = DOMAIN v
      /\ \A field \in DOMAIN v : field # "options" => w[field] = v[field]
  BY DEF Values, SameButOptions
<1>2. Conversing(w)
  BY <1>1 DEF Conversing
<1>3. Describing(w)
  BY <1>1 DEF Conversing, Describing
<1>4. QED
  BY <1>2, <1>3

\* The invariant is inductive, beside the one of the bodies.
LEMMA TellStep == BodyInv /\ TellInv /\ [BodyNext]_bodyVars => TellInv'
<1> SUFFICES ASSUME BodyInv, TellInv, [BodyNext]_bodyVars PROVE TellInv'
  OBVIOUS
<1>1. /\ Conversing(payload) /\ Describing(payload)
      /\ asked # <<>> => Conversing(asked[1]) /\ Describing(asked[1])
      /\ \A n \in DOMAIN sent : sent[n].channel.oauth => sent[n].body = ChatGPTOAuthRequestBody(asked[1])
  BY DEF TellInv
<1>2. /\ Conversing(payload') /\ Describing(payload')
      /\ asked' # <<>> => Conversing(asked'[1]) /\ Describing(asked'[1])
      /\ \A n \in DOMAIN sent' : sent'[n].channel.oauth => sent'[n].body = ChatGPTOAuthRequestBody(asked'[1])
      => TellInv'
  BY DEF TellInv
<1>3. ASSUME NEW m, Say(m) PROVE TellInv'
  <2>1. /\ asked = <<>> /\ asked' = asked /\ sent' = sent
        /\ payload.given \in DOMAIN Utterances /\ m \in Utterances[payload.given]
        /\ payload' = [payload EXCEPT !.conversation = Append(@, m)]
    BY <1>3 DEF Say
  <2>2. Conversing(payload') /\ Describing(payload')
    BY <1>1, <2>1, SayAsks
  <2>3. QED
    BY <1>1, <1>2, <2>1, <2>2
<1>4. ASSUME ParseRelayPayload PROVE TellInv'
  <2>1. asked = <<>> /\ asked' = <<payload>> /\ payload' = payload /\ sent' = sent /\ asked'[1] = payload
    BY <1>4 DEF ParseRelayPayload
  <2>2. DOMAIN sent' = {}
    BY <2>1 DEF BodyInv
  <2>3. QED
    BY <1>1, <1>2, <2>1, <2>2
<1>5. ASSUME NEW channel \in Channels, SendBody(channel) PROVE TellInv'
  <2>0. PICK r : r = [channel |-> channel, body |-> Body(payload, channel)]
    OBVIOUS
  <2>1. sent' = Append(sent, r) /\ asked' = asked /\ asked # <<>>
    BY <1>5, <2>0 DEF SendBody
  <2>2. Values(payload') /\ SameButOptions(payload', payload)
    BY <1>5, PayloadKept DEF BodyInv
  <2>3. Conversing(payload') /\ Describing(payload')
    BY <1>1, <2>2, OptionsAsk
  <2>4. r.channel.oauth => r.body = ChatGPTOAuthRequestBody(asked[1])
    <3>1. r.channel = channel /\ r.body = Body(payload, channel)
      BY <2>0
    <3>2. ChatGPTOAuthRequestBody(payload) = ChatGPTOAuthRequestBody(asked[1])
      BY <2>1, OAuthBodiesSame DEF BodyInv
    <3>3. QED
      BY <3>1, <3>2 DEF Body
  <2>5. \A n \in DOMAIN sent' : sent'[n] = r \/ (n \in DOMAIN sent /\ sent'[n] = sent[n])
    BY <2>1, OneBodyMore DEF BodyInv
  <2>6. \A n \in DOMAIN sent' : sent'[n].channel.oauth => sent'[n].body = ChatGPTOAuthRequestBody(asked'[1])
    BY <1>1, <2>1, <2>4, <2>5
  <2>7. QED
    BY <1>1, <1>2, <2>1, <2>3, <2>6
<1>6. ASSUME UNCHANGED bodyVars PROVE TellInv'
  BY <1>1, <1>2, <1>6 DEF bodyVars
<1>7. QED
  BY <1>3, <1>4, <1>5, <1>6 DEF BodyNext

\* It implies the property.
LEMMA TellingConverts == BodyInv /\ TellInv => RequestConverted
<1> SUFFICES ASSUME BodyInv, TellInv, NEW body \in ResponsesBodies
             PROVE  LET request == asked[1]
                        chosen  == IF request.choice.form = "absent" THEN request.call ELSE request.choice
                        Offers(name) == \/ Tool("nested", name) \in ToSet(request.tools)
                                        \/ name \in ToSet(request.functions)
                    IN  /\ \A i, j \in DOMAIN body.input : i < j => Precedes(body.input[i].at, body.input[j].at)
                        /\ Said(request) \subseteq {item.at : item \in ToSet(body.input)}
                                                    \cup {<<i, 0>> : i \in ToSet(body.instructions)}
                        /\ \A i \in ToSet(body.instructions) :
                             request.conversation[i].role \in {"system", "developer"}
                        /\ (request.endpoint = "chat" /\ chosen.form \in {"nested", "name"}) =>
                             (Offers(chosen.name) /\ chosen.name # "" =>
                                /\ body.choice = Named("flat", chosen.name)
                                /\ Tool("flat", chosen.name) \in ToSet(body.tools))
  BY DEF RequestConverted
<1> DEFINE v == asked[1]
<1>1. PICK n \in DOMAIN sent : sent[n].channel.oauth /\ sent[n].body # Refused /\ body = sent[n].body
  BY DEF ResponsesBodies, ToSet
<1>2. asked # <<>>
  BY <1>1 DEF BodyInv
<1>3. Conversing(v) /\ Describing(v) /\ body = ChatGPTOAuthRequestBody(v) /\ body # Refused
  BY <1>1, <1>2 DEF TellInv
<1>4. Telling(v, body) /\ ChoosesOffered(v, body)
  BY <1>3, BodyTells
<1> HIDE DEF v
<1>5. \A i, j \in DOMAIN body.input : i < j => Precedes(body.input[i].at, body.input[j].at)
  <2>1. body.input \in Seq(InputItems) /\ Ordered(body.input, InOrder)
    BY <1>4 DEF Telling
  <2>2. DOMAIN body.input = 1..Len(body.input)
    BY <2>1
  <2>3. SUFFICES ASSUME NEW i \in 1..Len(body.input), NEW j \in 1..Len(body.input), i < j
                 PROVE  Precedes(body.input[i].at, body.input[j].at)
    BY <2>2
  <2>4. <<body.input[i], body.input[j]>> \in InOrder
    BY <2>1, <2>3 DEF Ordered
  <2>5. QED
    BY <2>4 DEF InOrder
<1>6. /\ Said(v) \subseteq {item.at : item \in ToSet(body.input)} \cup {<<i, 0>> : i \in ToSet(body.instructions)}
      /\ \A i \in ToSet(body.instructions) : v.conversation[i].role \in {"system", "developer"}
  BY <1>4 DEF Telling, Places
<1>7. (v.endpoint = "chat" /\ Wanted(v).form \in {"nested", "name"}) =>
        (Offered(v, Wanted(v).name) /\ Wanted(v).name # "" =>
           /\ body.choice = Named("flat", Wanted(v).name)
           /\ Tool("flat", Wanted(v).name) \in ToSet(body.tools))
  BY <1>4 DEF ChoosesOffered
<1>8. QED
  BY <1>5, <1>6, <1>7, Zenon DEF v, Wanted, Offered

\* What a conversation says reaches a ChatGPT OAuth channel once and in its order, and a
\* tool that is wanted by name is described and chosen in the upstream's form: for any
\* wishes and any conversations (ChatGPTOAuthRequestBody).
THEOREM ConversationsReachTheUpstream == BodySpec => []RequestConverted
<1>1. BodyInit => BodyInv
  BY BodyStarts
<1>2. BodyInit => TellInv
  <2> SUFFICES ASSUME BodyInit PROVE TellInv
    OBVIOUS
  <2>1. payload \in Wishes /\ asked = <<>> /\ sent = <<>>
    BY DEF BodyInit
  <2>2. Conversing(payload) /\ Describing(payload)
    BY <2>1, WishAsks
  <2>3. DOMAIN sent = {}
    BY <2>1
  <2>4. QED
    BY <2>1, <2>2, <2>3 DEF TellInv
<1>3. BodyInv /\ TellInv => RequestConverted
  BY TellingConverts
<1>4. QED
  BY <1>1, <1>2, <1>3, AttemptsAlikeStep, TellStep, PTL DEF BodySpec

-----------------------------------------------------------------------------
(* The answer of a ChatGPT OAuth channel: lists of chunks. *)

\* One member more: the others keep their places.
LEMMA OneMore ==
  ASSUME NEW s, s \in Seq(ToSet(s)), NEW c
  PROVE  /\ Append(s, c) \in Seq(ToSet(Append(s, c)))
         /\ Len(s) \in Nat /\ DOMAIN s = 1..Len(s)
         /\ Len(Append(s, c)) = Len(s) + 1 /\ DOMAIN Append(s, c) = 1..Len(s) + 1
         /\ \A i \in 1..Len(s) : Append(s, c)[i] = s[i]
         /\ Append(s, c)[Len(s) + 1] = c
<1> DEFINE T == ToSet(s) \cup {c}
<1>1. s \in Seq(T)
  <2>1. \A i \in 1..Len(s) : s[i] \in T
    BY DEF ToSet
  <2>2. s \in [1..Len(s) -> T] /\ Len(s) \in Nat
    BY <2>1
  <2>3. QED
    BY <2>2
<1>2. /\ Append(s, c) \in Seq(T)
      /\ Len(Append(s, c)) = Len(s) + 1
      /\ \A i \in 1..Len(s) : Append(s, c)[i] = s[i]
      /\ Append(s, c)[Len(s) + 1] = c
  BY <1>1, AppendProperties
<1>3. Append(s, c) \in Seq(ToSet(Append(s, c)))
  BY <1>2, SeqOfMembers
<1>4. QED
  BY <1>1, <1>2, <1>3

\* Short lists joined.
LEMMA TwoJoined ==
  ASSUME NEW b, NEW c
  PROVE  <<b>> \o <<c>> = <<b, c>>
<1> DEFINE T == {b, c}
           s == <<b>> \o <<c>>
           t == <<b, c>>
<1>1. <<b>> \in Seq(T) /\ <<c>> \in Seq(T) /\ t \in Seq(T)
  OBVIOUS
<1>2. Len(<<b>>) = 1 /\ Len(<<c>>) = 1 /\ Len(t) = 2 /\ t[1] = b /\ t[2] = c
  OBVIOUS
<1>3. s \in Seq(T) /\ s[1] = b /\ s[2] = c /\ Len(s) = 2
  BY <1>1, <1>2, ConcatProperties
<1> HIDE DEF T, s, t
<1>4. \A i \in 1..Len(s) : s[i] = t[i]
  BY <1>2, <1>3
<1>5. s = t
  BY <1>1, <1>2, <1>3, <1>4, SeqEqual
<1>6. QED
  BY <1>5 DEF s, t

\* The same of three members.
LEMMA ThreeJoined ==
  ASSUME NEW b, NEW c, NEW d
  PROVE  <<b>> \o <<c, d>> = <<b, c, d>>
<1> DEFINE T == {b, c, d}
           s == <<b>> \o <<c, d>>
           t == <<b, c, d>>
<1>1. <<b>> \in Seq(T) /\ <<c, d>> \in Seq(T) /\ t \in Seq(T)
  OBVIOUS
<1>2. Len(<<b>>) = 1 /\ Len(<<c, d>>) = 2 /\ Len(t) = 3 /\ t[1] = b /\ t[2] = c /\ t[3] = d
  OBVIOUS
<1>3. s \in Seq(T) /\ s[1] = b /\ s[2] = c /\ s[3] = d /\ Len(s) = 3
  BY <1>1, <1>2, ConcatProperties
<1> HIDE DEF T, s, t
<1>4. \A i \in 1..Len(s) : s[i] = t[i]
  BY <1>2, <1>3
<1>5. s = t
  BY <1>1, <1>2, <1>3, <1>4, SeqEqual
<1>6. QED
  BY <1>5 DEF s, t

-----------------------------------------------------------------------------
(* The chunks of an event. *)

\* A recursion that is over after three steps.
LEMMA StreamedStepwise ==
  ASSUME NEW chunks, Len(chunks) \in 0..3
  PROVE  /\ Len(chunks) = 0 => Streamed(chunks) = relay
         /\ Len(chunks) = 1 => Streamed(chunks) = Forward(relay, chunks[1])
         /\ Len(chunks) = 2 => Streamed(chunks) = Forward(Forward(relay, chunks[1]), chunks[2])
         /\ Len(chunks) = 3 => Streamed(chunks) =
                                 Forward(Forward(Forward(relay, chunks[1]), chunks[2]), chunks[3])
<1> DEFINE length == Len(chunks)
           first  == Forward(relay, chunks[1])
           second == Forward(first, chunks[2])
           third  == Forward(second, chunks[3])
           Course(g) == g = [n \in 0..length |-> IF n = 0 THEN relay ELSE Forward(g[n - 1], chunks[n])]
           after  == CHOOSE g : Course(g)
           value(n) == CASE n = 0 -> relay [] n = 1 -> first [] n = 2 -> second [] n = 3 -> third
           course == [n \in 0..length |-> value(n)]
<1>1. Streamed(chunks) = after[length]
  BY DEF Streamed
<1>2. \A n \in 0..length : course[n] = IF n = 0 THEN relay ELSE Forward(course[n - 1], chunks[n])
  <2> TAKE n \in 0..length
  <2>1. n \in {0, 1, 2, 3}
    OBVIOUS
  <2>2. CASE n = 0
    BY <2>2
  <2>3. CASE n = 1
    <3>1. course[1] = first /\ course[0] = relay
      BY <2>3 DEF value
    <3>2. QED
      BY <2>3, <3>1
  <2>4. CASE n = 2
    <3>1. course[2] = second /\ course[1] = first
      BY <2>4
    <3>2. QED
      BY <2>4, <3>1
  <2>5. CASE n = 3
    <3>1. course[3] = third /\ course[2] = second
      BY <2>5
    <3>2. QED
      BY <2>5, <3>1
  <2>6. QED
    BY <2>1, <2>2, <2>3, <2>4, <2>5
<1>3. Course(course)
  <2> DEFINE again == [n \in 0..length |-> IF n = 0 THEN relay ELSE Forward(course[n - 1], chunks[n])]
  <2>1. DOMAIN course = 0..length /\ DOMAIN again = 0..length
    OBVIOUS
  <2>2. \A n \in 0..length : course[n] = again[n]
    BY <1>2
  <2>3. course = again
    <3> HIDE DEF again
    <3> DEFINE step(n) == IF n = 0 THEN relay ELSE Forward(course[n - 1], chunks[n])
    <3>1. again = [n \in 0..length |-> step(n)]
      BY DEF again
    <3>2. \A n \in 0..length : value(n) = step(n)
      BY <1>2
    <3> HIDE DEF value, step
    <3>3. course = [n \in 0..length |-> step(n)]
      BY <3>2
    <3>4. QED
      BY <3>1, <3>3
  <2>4. QED
    BY <2>3
<1>4. Course(after)
  <2> HIDE DEF Course
  <2>1. \E g : Course(g)
    BY <1>3
  <2>2. QED
    BY <2>1
<1>5. \A n \in 0..length : after[n] = IF n = 0 THEN relay ELSE Forward(after[n - 1], chunks[n])
  <2> HIDE DEF after
  <2>1. QED
    BY <1>4
<1> HIDE DEF after, Course, course
<1>6. /\ after[0] = relay
      /\ length >= 1 => after[1] = first
      /\ length >= 2 => after[2] = Forward(after[1], chunks[2])
      /\ length >= 3 => after[3] = Forward(after[2], chunks[3])
  <2>1. 0 \in 0..length
    OBVIOUS
  <2>2. after[0] = relay
    BY <1>5, <2>1
  <2>3. ASSUME length >= 1 PROVE after[1] = first
    <3>1. 1 \in 0..length /\ 1 - 1 = 0 /\ 1 # 0
      BY <2>3
    <3>2. after[1] = Forward(after[1 - 1], chunks[1])
      BY <1>5, <3>1
    <3>3. QED
      BY <2>2, <3>1, <3>2
  <2>4. ASSUME length >= 2 PROVE after[2] = Forward(after[1], chunks[2])
    <3>1. 2 \in 0..length /\ 2 - 1 = 1 /\ 2 # 0
      BY <2>4
    <3>2. after[2] = Forward(after[2 - 1], chunks[2])
      BY <1>5, <3>1
    <3>3. QED
      BY <3>1, <3>2
  <2>5. ASSUME length >= 3 PROVE after[3] = Forward(after[2], chunks[3])
    <3>1. 3 \in 0..length /\ 3 - 1 = 2 /\ 3 # 0
      BY <2>5
    <3>2. after[3] = Forward(after[3 - 1], chunks[3])
      BY <1>5, <3>1
    <3>3. QED
      BY <3>1, <3>2
  <2>6. QED
    BY <2>2, <2>3, <2>4, <2>5
<1>7. CASE length = 0
  BY <1>1, <1>6, <1>7
<1>8. CASE length = 1
  BY <1>1, <1>6, <1>8
<1>9. CASE length = 2
  BY <1>1, <1>6, <1>9
<1>10. CASE length = 3
  BY <1>1, <1>6, <1>10
<1>11. QED
  BY <1>7, <1>8, <1>9, <1>10

\* What the stream has come to once the role has been sent.
Opened == IF converter.role THEN relay ELSE Forward(relay, RoleChunk)

\* Streamed, for each list that Convert makes.
LEMMA StreamedOpened ==
  ASSUME NEW e
  PROVE  /\ Streamed(<<>>) = relay
         /\ \A c : Streamed(<<c>>) = Forward(relay, c)
         /\ Streamed(EnsureRole(e)) = Opened
         /\ \A c : Streamed(EnsureRole(e) \o <<c>>) = Forward(Opened, c)
         /\ \A c, d : Streamed(EnsureRole(e) \o <<c, d>>) = Forward(Forward(Opened, c), d)
<1>1. Streamed(<<>>) = relay
  <2>1. Len(<<>>) = 0
    OBVIOUS
  <2>2. QED
    BY <2>1, StreamedStepwise
<1>2. ASSUME NEW c PROVE Streamed(<<c>>) = Forward(relay, c)
  <2>1. Len(<<c>>) = 1 /\ <<c>>[1] = c
    OBVIOUS
  <2>2. QED
    BY <2>1, StreamedStepwise
<1>3. ASSUME NEW c, NEW d PROVE Streamed(<<c, d>>) = Forward(Forward(relay, c), d)
  <2>1. Len(<<c, d>>) = 2 /\ <<c, d>>[1] = c /\ <<c, d>>[2] = d
    OBVIOUS
  <2>2. QED
    BY <2>1, StreamedStepwise
<1>4. ASSUME NEW b, NEW c, NEW d
      PROVE  Streamed(<<b, c, d>>) = Forward(Forward(Forward(relay, b), c), d)
  <2>1. Len(<<b, c, d>>) = 3 /\ <<b, c, d>>[1] = b /\ <<b, c, d>>[2] = c /\ <<b, c, d>>[3] = d
    OBVIOUS
  <2>2. QED
    BY <2>1, StreamedStepwise
<1>5. CASE converter.role
  <2>1. EnsureRole(e) = <<>> /\ Opened = relay
    BY <1>5 DEF EnsureRole, Opened
  <2>2. \A c : <<>> \o <<c>> = <<c>>
    OBVIOUS
  <2>3. \A c, d : <<>> \o <<c, d>> = <<c, d>>
    OBVIOUS
  <2>4. QED
    BY <1>1, <1>2, <1>3, <2>1, <2>2, <2>3
<1>6. CASE ~converter.role
  <2> DEFINE b == RoleChunk
  <2>1. EnsureRole(e) = <<b>> /\ Opened = Forward(relay, b)
    BY <1>6 DEF EnsureRole, Opened
  <2> HIDE DEF b
  <2>2. \A c : <<b>> \o <<c>> = <<b, c>>
    BY TwoJoined
  <2>3. \A c, d : <<b>> \o <<c, d>> = <<b, c, d>>
    BY ThreeJoined
  <2>4. \A c : Streamed(EnsureRole(e) \o <<c>>) = Forward(Opened, c)
    BY <1>3, <2>1, <2>2
  <2>5. ASSUME NEW c, NEW d
        PROVE  Streamed(EnsureRole(e) \o <<c, d>>) = Forward(Forward(Opened, c), d)
    <3>1. EnsureRole(e) \o <<c, d>> = <<b, c, d>>
      BY <2>1, <2>3
    <3>2. Streamed(<<b, c, d>>) = Forward(Forward(Forward(relay, b), c), d)
      BY <1>4
    <3>3. QED
      BY <2>1, <3>1, <3>2
  <2>6. Streamed(EnsureRole(e)) = Opened
    BY <1>2, <2>1
  <2>7. QED
    BY <1>1, <1>2, <2>4, <2>5, <2>6
<1>7. QED
  BY <1>5, <1>6

-----------------------------------------------------------------------------
(* The chunks a client has received. *)

Deltas == {"message", "refusal", "reasoning"}
Output == Deltas \cup {"header", "arguments"}

HeadersIn(got) == {p \in 1..Len(got) : got[p].kind = "header"}

\* A chat stream that has not ended.
Framed(got) ==
  /\ got \in Seq(ToSet(got))
  /\ \A p \in 1..Len(got) :
       /\ got[p].kind \in Output \cup {"role"}
       /\ got[p].kind = "role" <=> p = 1
       /\ got[p].kind = "arguments" =>
            \E q \in 1..p : got[q].kind = "header" /\ got[q].tool = got[p].tool
       /\ got[p].kind = "header" =>
            got[p].tool = Cardinality({q \in 1..(p - 1) : got[q].kind = "header"})

\* What may be sent next.
Fits(c, got) ==
  /\ c.kind \in Output \cup {"role"}
  /\ c.kind = "role" <=> got = <<>>
  /\ c.kind = "arguments" => \E q \in HeadersIn(got) : got[q].tool = c.tool
  /\ c.kind = "header" => c.tool = Cardinality(HeadersIn(got))

\* A chat stream and one that is longer by a chunk that fits.
Grown(got, c) ==
  LET more == Append(got, c) IN
  /\ Framed(more) /\ more # <<>>
  /\ Cardinality(HeadersIn(got)) \in Nat
  /\ Cardinality(HeadersIn(more)) = IF c.kind = "header" THEN Cardinality(HeadersIn(got)) + 1
                                                       ELSE Cardinality(HeadersIn(got))
  /\ \A q \in HeadersIn(got) : q \in HeadersIn(more) /\ more[q] = got[q]
  /\ c.kind = "header" => Len(got) + 1 \in HeadersIn(more) /\ more[Len(got) + 1] = c

\* A chunk that fits keeps the chat stream.
LEMMA FramedGrows ==
  ASSUME NEW got, Framed(got), NEW c, Fits(c, got)
  PROVE  Grown(got, c)
<1> DEFINE more == Append(got, c)
           n    == Len(got)
<1>1. /\ more \in Seq(ToSet(more)) /\ n \in Nat
      /\ Len(more) = n + 1
      /\ \A i \in 1..n : more[i] = got[i]
      /\ more[n + 1] = c
  BY OneMore DEF Framed
<1>2. got = <<>> <=> n = 0
  BY EmptySeq DEF Framed
<1>3. more # <<>>
  BY <1>1, EmptySeq
<1> HIDE DEF more
<1>4. IsFiniteSet(HeadersIn(got)) /\ Cardinality(HeadersIn(got)) \in Nat
  <2>1. IsFiniteSet(1..n) /\ HeadersIn(got) \subseteq 1..n
    BY <1>1, FS_Interval DEF HeadersIn
  <2>2. QED
    BY <2>1, FS_Subset, FS_CardinalityType
<1>5. HeadersIn(more) = IF c.kind = "header" THEN HeadersIn(got) \cup {n + 1} ELSE HeadersIn(got)
  BY <1>1 DEF HeadersIn
<1>6. n + 1 \notin HeadersIn(got)
  BY <1>1 DEF HeadersIn
<1>7. Cardinality(HeadersIn(more)) =
        IF c.kind = "header" THEN Cardinality(HeadersIn(got)) + 1 ELSE Cardinality(HeadersIn(got))
  BY <1>4, <1>5, <1>6, FS_AddElement
<1>8. /\ \A q \in HeadersIn(got) : q \in HeadersIn(more) /\ more[q] = got[q]
      /\ c.kind = "header" => n + 1 \in HeadersIn(more) /\ more[n + 1] = c
  BY <1>1, <1>5 DEF HeadersIn
<1>9. Framed(more)
  <2> SUFFICES ASSUME NEW p \in 1..Len(more)
               PROVE  /\ more[p].kind \in Output \cup {"role"}
                      /\ more[p].kind = "role" <=> p = 1
                      /\ more[p].kind = "arguments" =>
                           \E q \in 1..p : more[q].kind = "header" /\ more[q].tool = more[p].tool
                      /\ more[p].kind = "header" =>
                           more[p].tool = Cardinality({q \in 1..(p - 1) : more[q].kind = "header"})
    BY <1>1 DEF Framed
  <2>1. CASE p \in 1..n
    <3>1. {q \in 1..(p - 1) : more[q].kind = "header"} = {q \in 1..(p - 1) : got[q].kind = "header"}
      BY <1>1, <2>1
    <3>2. \A q \in 1..p : more[q] = got[q]
      BY <1>1, <2>1
    <3>3. more[p] = got[p]
      BY <1>1, <2>1
    <3>4. /\ got[p].kind \in Output \cup {"role"}
          /\ got[p].kind = "role" <=> p = 1
          /\ got[p].kind = "arguments" =>
               \E q \in 1..p : got[q].kind = "header" /\ got[q].tool = got[p].tool
          /\ got[p].kind = "header" =>
               got[p].tool = Cardinality({q \in 1..(p - 1) : got[q].kind = "header"})
      BY <2>1 DEF Framed
    <3>5. QED
      BY <3>1, <3>2, <3>3, <3>4
  <2>2. CASE p = n + 1
    <3>1. more[p] = c
      BY <1>1, <2>2
    <3>2. c.kind = "role" <=> p = 1
      BY <1>1, <1>2, <2>2 DEF Fits
    <3>3. ASSUME c.kind = "arguments"
          PROVE  \E q \in 1..p : more[q].kind = "header" /\ more[q].tool = c.tool
      <4>1. PICK q \in HeadersIn(got) : got[q].tool = c.tool
        BY <3>3 DEF Fits
      <4>2. q \in 1..p /\ more[q] = got[q] /\ got[q].kind = "header"
        BY <1>1, <2>2, <4>1 DEF HeadersIn
      <4>3. QED
        BY <4>1, <4>2
    <3>4. ASSUME c.kind = "header"
          PROVE  c.tool = Cardinality({q \in 1..(p - 1) : more[q].kind = "header"})
      <4>1. {q \in 1..(p - 1) : more[q].kind = "header"} = HeadersIn(got)
        BY <1>1, <2>2 DEF HeadersIn
      <4>2. QED
        BY <3>4, <4>1 DEF Fits
    <3>5. QED
      BY <3>1, <3>2, <3>3, <3>4 DEF Fits
  <2>3. QED
    BY <1>1, <2>1, <2>2
<1>10. QED
  BY <1>1, <1>3, <1>4, <1>7, <1>8, <1>9 DEF more, Grown

\* The loop of streamResponse before the end of the stream.
Open(r) ==
  /\ DOMAIN r = {"committed", "usable", "terminal", "result", "received"}
  /\ r.result = "open" /\ ~r.terminal
  /\ r.committed <=> r.received # <<>>
  /\ Framed(r.received)

\* What the loop makes of a chunk that fits.
LEMMA ChunkForwarded ==
  ASSUME NEW r, Open(r), NEW c, Fits(c, r.received)
  PROVE  /\ Open(Forward(r, c))
         /\ Forward(r, c).received = Append(r.received, c)
         /\ Forward(r, c).usable <=> (r.usable \/ c.kind \in Output)
<1> DEFINE written == [r EXCEPT !.received = Append(@, c), !.committed = TRUE,
                                !.usable = @ \/ HasOutput(c),
                                !.terminal = @ \/ c.kind \in {"finish", "done"}]
<1>1. c.kind \notin {"raw", "finish", "done"}
  BY DEF Fits, Output, Deltas
<1>2. /\ DOMAIN written = {"committed", "usable", "terminal", "result", "received"}
      /\ written.result = "open" /\ written.received = Append(r.received, c)
      /\ written.committed = TRUE
      /\ written.usable = (r.usable \/ HasOutput(c))
      /\ written.terminal = (r.terminal \/ c.kind \in {"finish", "done"})
  BY DEF Open
<1>3. ~written.terminal
  BY <1>1, <1>2 DEF Open
<1>4. Forward(r, c) = written
  <2> HIDE DEF written
  <2>1. Forward(r, c) = IF written.terminal /\ (~wait \/ c.kind = "done")
                        THEN [written EXCEPT !.result = Concluded(written)] ELSE written
    BY <1>1 DEF Forward, Open, written
  <2>2. QED
    BY <1>3, <2>1
<1>5. HasOutput(c) <=> c.kind \in Output
  BY DEF HasOutput, Output, Deltas
<1> HIDE DEF written
<1>6. written.usable <=> (r.usable \/ c.kind \in Output)
  BY <1>2, <1>5
<1>7. written.committed <=> written.received # <<>>
  BY <1>2, FramedGrows DEF Open, Grown
<1>8. Framed(written.received)
  BY <1>2, FramedGrows DEF Open, Grown
<1>9. Open(written)
  BY <1>2, <1>3, <1>7, <1>8 DEF Open
<1>10. QED
  BY <1>2, <1>4, <1>6, <1>9

-----------------------------------------------------------------------------
(* The answer before its end. *)

\* The records that the steps update have their fields.
Items == Seq([kind : Kinds, parts : Seq(Nat)])

Shape ==
  /\ DOMAIN up = {"stage", "items", "fragments"}
  /\ up.items \in Items /\ up.fragments \in Nat
  /\ "result" \in DOMAIN chat
  /\ DOMAIN gathered = {"items", "result"}

\* An item that says something.
Speaks(item) == item.kind = "tool" \/ item.parts # <<>>

\* What the stream converter has sent, and what it knows about it.
Converting ==
  /\ converter.role <=> relay.received # <<>>
  /\ converter.next = Cardinality(HeadersIn(relay.received))
  /\ \A i \in DOMAIN converter.toolOf :
       \E q \in HeadersIn(relay.received) : relay.received[q].tool = converter.toolOf[i]

\* Whatever has been said was output, and has been gathered.
Heard ==
  /\ \A i \in DOMAIN up.items : Speaks(up.items[i]) => relay.usable
  /\ DOMAIN gathered.items = DOMAIN up.items
  /\ \A i \in DOMAIN up.items : /\ gathered.items[i].kind = up.items[i].kind
                                 /\ gathered.items[i].parts = up.items[i].parts

AnswerOpen ==
  /\ up.stage \in {"asked", "open"}
  /\ Open(relay) /\ Converting /\ Heard
  /\ chat.result = "open" /\ gathered.result = "open"

AnswerInv ==
  /\ Shape
  /\ AnswerOpen \/ (up.stage \notin {"asked", "open"} /\ StreamFramed /\ VerdictsAgree)

\* The role has been sent, and nothing else has changed.
LEMMA OpenedOpen ==
  ASSUME AnswerOpen
  PROVE  /\ Open(Opened) /\ Opened.received # <<>>
         /\ Opened.usable <=> relay.usable
         /\ HeadersIn(Opened.received) = HeadersIn(relay.received)
         /\ \A q \in HeadersIn(relay.received) : Opened.received[q] = relay.received[q]
<1>1. CASE converter.role
  BY <1>1 DEF Opened, AnswerOpen, Converting
<1>2. CASE ~converter.role
  <2> DEFINE c == RoleChunk
             got == relay.received
  <2>1. got = <<>> /\ Framed(got) /\ Open(relay)
    BY <1>2 DEF AnswerOpen, Converting, Open
  <2>2. c.kind = "role"
    BY DEF RoleChunk
  <2> HIDE DEF c
  <2>3. Fits(c, got)
    BY <2>1, <2>2 DEF Fits, Output, Deltas
  <2>4. Opened = Forward(relay, c)
    BY <1>2 DEF Opened, c
  <2>5. /\ Open(Opened) /\ Opened.received = Append(got, c)
        /\ Opened.usable <=> (relay.usable \/ c.kind \in Output)
    BY <2>1, <2>3, <2>4, ChunkForwarded
  <2>6. c.kind \notin Output
    BY <2>2 DEF Output, Deltas
  <2>7. Append(got, c) # <<>>
    BY <2>1, <2>3, FramedGrows DEF Grown
  <2>8. HeadersIn(got) = {}
    BY <2>1 DEF HeadersIn
  <2>9. HeadersIn(Append(got, c)) = {}
    <3>1. Len(Append(got, c)) = 1 /\ Append(got, c)[1] = c
      <4>1. Len(got) = 0
        BY <2>1
      <4>2. Len(Append(got, c)) = Len(got) + 1 /\ Append(got, c)[Len(got) + 1] = c
        BY <2>1, OneMore DEF Framed
      <4>3. QED
        BY <4>1, <4>2
    <3>2. QED
      BY <2>2, <3>1 DEF HeadersIn
  <2>10. QED
    BY <2>5, <2>6, <2>7, <2>8, <2>9
<1>3. QED
  BY <1>1, <1>2

\* What Convert makes of each event, and whether it sends the role.
LEMMA Conversions ==
  ASSUME NEW e, e.type \in {"created", "added", "delta", "done"}
  PROVE  /\ e.type = "created" => Convert(e) = EnsureRole(e)
         /\ e.type = "added" /\ e.kind = "tool" =>
              Convert(e) = EnsureRole(e) \o <<HeaderChunk(converter.next, e.index)>>
         /\ e.type = "added" /\ e.kind # "tool" => Convert(e) = <<>>
         /\ e.type = "delta" /\ e.kind # "tool" =>
              Convert(e) = EnsureRole(e) \o <<DeltaChunk(e.kind, e.part)>>
         /\ e.type = "delta" /\ e.kind = "tool" /\ ToolKnown(e) =>
              Convert(e) = <<ArgumentsChunk(converter.toolOf[e.index], e.part)>>
         /\ e.type = "delta" /\ e.kind = "tool" /\ ~ToolKnown(e) => Convert(e) = <<>>
         /\ e.type = "done" => Convert(e) = <<>>
<1>1. CASE e.type = "created"
  BY <1>1 DEF Convert, Failed
<1>2. CASE e.type = "added"
  BY <1>2 DEF Convert, Failed
<1>3. CASE e.type = "delta" /\ e.kind # "tool"
  BY <1>3 DEF Convert, Failed
<1>4. CASE e.type = "delta" /\ e.kind = "tool"
  BY <1>4 DEF Convert, Failed
<1>5. CASE e.type = "done"
  BY <1>5 DEF Convert, Failed
<1>6. QED
  BY <1>1, <1>2, <1>3, <1>4, <1>5

\* The role counts as sent where Convert sends it, or it was sent before.
LEMMA RoleSentWhen ==
  ASSUME NEW e
  PROVE  /\ Convert(e) = EnsureRole(e) => RoleSent(e)
         /\ \A c : Convert(e) = EnsureRole(e) \o <<c>> => RoleSent(e)
         /\ Convert(e) = <<>> => (RoleSent(e) <=> converter.role)
         /\ \A c : Convert(e) = <<c>> /\ c.kind # "role" => (RoleSent(e) <=> converter.role)
<1> DEFINE b == RoleChunk
<1>1. CASE converter.role
  BY <1>1 DEF RoleSent
<1>2. CASE ~converter.role
  <2>1. EnsureRole(e) = <<b>>
    BY <1>2 DEF EnsureRole
  <2>2. b.kind = "role"
    BY DEF RoleChunk
  <2> HIDE DEF b
  <2>3. b \in ToSet(<<b>>)
    BY DEF ToSet
  <2>4. \A c : b \in ToSet(<<b, c>>)
    <3> TAKE c
    <3>1. 1 \in DOMAIN <<b, c>> /\ <<b, c>>[1] = b
      OBVIOUS
    <3>2. QED
      BY <3>1 DEF ToSet
  <2>5. ASSUME NEW c, Convert(e) = EnsureRole(e) \o <<c>> PROVE RoleSent(e)
    <3>1. Convert(e) = <<b, c>>
      BY <2>1, <2>5, TwoJoined
    <3>2. QED
      BY <2>2, <2>4, <3>1 DEF RoleSent
  <2>6. ASSUME Convert(e) = EnsureRole(e) PROVE RoleSent(e)
    BY <2>1, <2>2, <2>3, <2>6 DEF RoleSent
  <2>7. ASSUME Convert(e) = <<>> PROVE ~RoleSent(e)
    BY <1>2, <2>7 DEF RoleSent, ToSet
  <2>8. ASSUME NEW c, Convert(e) = <<c>>, c.kind # "role" PROVE ~RoleSent(e)
    <3>1. ToSet(<<c>>) = {c}
      BY DEF ToSet
    <3>2. QED
      BY <1>2, <2>8, <3>1 DEF RoleSent
  <2>9. QED
    BY <1>2, <2>5, <2>6, <2>7, <2>8
<1>3. QED
  BY <1>1, <1>2

\* What becomes of the relay when an event is no end.
Onward(e, r) ==
  /\ Open(r)
  /\ RoleSent(e) <=> r.received # <<>>
  /\ Cardinality(HeadersIn(r.received)) = IF AddsTool(e) THEN converter.next + 1 ELSE converter.next
  /\ \A q \in HeadersIn(relay.received) : q \in HeadersIn(r.received) /\ r.received[q] = relay.received[q]
  /\ AddsTool(e) => \E q \in HeadersIn(r.received) : r.received[q].tool = converter.next
  /\ relay.usable => r.usable
  /\ AddsTool(e) \/ (e.type = "delta" /\ e.kind # "tool") => r.usable

\* An event that is no end leaves the loop running.
LEMMA EventStreamed ==
  ASSUME AnswerOpen, NEW e, e.type \in {"created", "added", "delta", "done"},
         e.type \in {"added", "delta"} => e.kind \in Kinds
  PROVE  Onward(e, Streamed(Convert(e)))
<1> DEFINE n == converter.next
<1>0. /\ Open(relay) /\ (converter.role <=> relay.received # <<>>)
      /\ n = Cardinality(HeadersIn(relay.received))
      /\ \A i \in DOMAIN converter.toolOf :
           \E q \in HeadersIn(relay.received) : relay.received[q].tool = converter.toolOf[i]
  BY DEF AnswerOpen, Converting
<1>1. /\ Open(Opened) /\ Opened.received # <<>>
      /\ Opened.usable <=> relay.usable
      /\ HeadersIn(Opened.received) = HeadersIn(relay.received)
      /\ \A q \in HeadersIn(relay.received) : Opened.received[q] = relay.received[q]
  BY OpenedOpen
<1>8. /\ e.type = "created" => Convert(e) = EnsureRole(e)
      /\ e.type = "added" /\ e.kind = "tool" =>
           Convert(e) = EnsureRole(e) \o <<HeaderChunk(converter.next, e.index)>>
      /\ e.type = "added" /\ e.kind # "tool" => Convert(e) = <<>>
      /\ e.type = "delta" /\ e.kind # "tool" =>
           Convert(e) = EnsureRole(e) \o <<DeltaChunk(e.kind, e.part)>>
      /\ e.type = "delta" /\ e.kind = "tool" /\ ToolKnown(e) =>
           Convert(e) = <<ArgumentsChunk(converter.toolOf[e.index], e.part)>>
      /\ e.type = "delta" /\ e.kind = "tool" /\ ~ToolKnown(e) => Convert(e) = <<>>
      /\ e.type = "done" => Convert(e) = <<>>
  BY Conversions
<1>2. CASE e.type = "created"
  <2>1. Convert(e) = EnsureRole(e)
    BY <1>2, <1>8
  <2>2. Streamed(Convert(e)) = Opened /\ RoleSent(e) /\ ~AddsTool(e) /\ e.type # "delta"
    BY <1>2, <2>1, StreamedOpened, RoleSentWhen DEF AddsTool
  <2>3. QED
    BY <1>0, <1>1, <2>2 DEF Onward
<1>3. CASE e.type = "added" /\ e.kind = "tool"
  <2> DEFINE c == HeaderChunk(n, e.index)
             r == Forward(Opened, c)
  <2>1. c.kind = "header" /\ c.tool = n
    BY DEF HeaderChunk
  <2>2. Convert(e) = EnsureRole(e) \o <<c>>
    BY <1>3, <1>8
  <2>3. Streamed(Convert(e)) = r /\ RoleSent(e) /\ AddsTool(e)
    BY <1>3, <2>2, StreamedOpened, RoleSentWhen DEF AddsTool
  <2> HIDE DEF c
  <2>4. Fits(c, Opened.received)
    BY <1>0, <1>1, <2>1 DEF Fits, Output, Deltas
  <2>5. /\ Open(r) /\ r.received = Append(Opened.received, c)
        /\ r.usable <=> (Opened.usable \/ c.kind \in Output)
    BY <1>1, <2>4, ChunkForwarded
  <2>6. c.kind \in Output
    BY <2>1 DEF Output
  <2>7. Framed(Opened.received)
    BY <1>1 DEF Open
  <2>12. Grown(Opened.received, c)
    BY <2>4, <2>7, FramedGrows
  <2> HIDE DEF r
  <2>8. /\ r.received # <<>>
        /\ Cardinality(HeadersIn(r.received)) = n + 1
        /\ \A q \in HeadersIn(Opened.received) :
             q \in HeadersIn(r.received) /\ r.received[q] = Opened.received[q]
    BY <1>0, <1>1, <2>1, <2>5, <2>12 DEF Grown
  <2>10. \E q \in HeadersIn(r.received) : r.received[q].tool = n
    <3>1. /\ Len(Opened.received) + 1 \in HeadersIn(r.received)
          /\ r.received[Len(Opened.received) + 1] = c
      BY <2>1, <2>5, <2>12 DEF Grown
    <3>2. QED
      BY <2>1, <3>1
  <2>11. QED
    BY <1>1, <2>3, <2>5, <2>6, <2>8, <2>10 DEF Onward
<1>4. CASE e.type = "delta" /\ e.kind # "tool"
  <2> DEFINE c == DeltaChunk(e.kind, e.part)
             r == Forward(Opened, c)
  <2>1. c.kind = e.kind /\ e.kind \in Deltas
    BY <1>4 DEF DeltaChunk, Kinds, Deltas
  <2>2. Convert(e) = EnsureRole(e) \o <<c>>
    BY <1>4, <1>8
  <2>3. Streamed(Convert(e)) = r /\ RoleSent(e) /\ ~AddsTool(e)
    BY <1>4, <2>2, StreamedOpened, RoleSentWhen DEF AddsTool
  <2> HIDE DEF c
  <2>4. Fits(c, Opened.received) /\ c.kind # "header" /\ c.kind \in Output
    BY <1>1, <2>1 DEF Fits, Output, Deltas
  <2>5. /\ Open(r) /\ r.received = Append(Opened.received, c)
        /\ r.usable <=> (Opened.usable \/ c.kind \in Output)
    BY <1>1, <2>4, ChunkForwarded
  <2>6. Framed(Opened.received)
    BY <1>1 DEF Open
  <2>12. Grown(Opened.received, c)
    BY <2>4, <2>6, FramedGrows
  <2> HIDE DEF r
  <2>7. /\ r.received # <<>>
        /\ Cardinality(HeadersIn(r.received)) = n
        /\ \A q \in HeadersIn(Opened.received) :
             q \in HeadersIn(r.received) /\ r.received[q] = Opened.received[q]
    BY <1>0, <1>1, <2>4, <2>5, <2>12 DEF Grown
  <2>8. QED
    BY <1>1, <2>3, <2>4, <2>5, <2>7 DEF Onward
<1>5. CASE e.type = "delta" /\ e.kind = "tool" /\ ToolKnown(e)
  <2> DEFINE c == ArgumentsChunk(converter.toolOf[e.index], e.part)
             r == Forward(relay, c)
  <2>1. c.kind = "arguments" /\ c.tool = converter.toolOf[e.index]
    BY DEF ArgumentsChunk
  <2>2. Convert(e) = <<c>>
    BY <1>5, <1>8
  <2>3. Streamed(Convert(e)) = r /\ (RoleSent(e) <=> converter.role) /\ ~AddsTool(e)
    BY <1>5, <2>1, <2>2, StreamedOpened, RoleSentWhen DEF AddsTool
  <2> HIDE DEF c
  <2>4. PICK h \in HeadersIn(relay.received) : relay.received[h].tool = c.tool
    BY <1>0, <1>5, <2>1 DEF ToolKnown
  <2>5. relay.received # <<>>
    BY <2>4 DEF HeadersIn
  <2>6. Fits(c, relay.received) /\ c.kind # "header" /\ c.kind \in Output
    BY <2>1, <2>4, <2>5 DEF Fits, Output, Deltas
  <2>7. /\ Open(r) /\ r.received = Append(relay.received, c)
        /\ r.usable <=> (relay.usable \/ c.kind \in Output)
    BY <1>0, <2>6, ChunkForwarded
  <2>8. Framed(relay.received)
    BY <1>0 DEF Open
  <2>12. Grown(relay.received, c)
    BY <2>6, <2>8, FramedGrows
  <2> HIDE DEF r
  <2>9. /\ r.received # <<>>
        /\ Cardinality(HeadersIn(r.received)) = n
        /\ \A p \in HeadersIn(relay.received) :
             p \in HeadersIn(r.received) /\ r.received[p] = relay.received[p]
    BY <1>0, <2>6, <2>7, <2>12 DEF Grown
  <2>10. QED
    BY <1>0, <1>5, <2>3, <2>5, <2>6, <2>7, <2>9 DEF Onward
<1>6. CASE \/ e.type = "added" /\ e.kind # "tool"
           \/ e.type = "delta" /\ e.kind = "tool" /\ ~ToolKnown(e)
           \/ e.type = "done"
  <2>1. Convert(e) = <<>>
    BY <1>6, <1>8
  <2>2. Streamed(Convert(e)) = relay /\ (RoleSent(e) <=> converter.role) /\ ~AddsTool(e)
    BY <1>6, <2>1, StreamedOpened, RoleSentWhen DEF AddsTool
  <2>3. ~(e.type = "delta" /\ e.kind # "tool")
    BY <1>6
  <2>4. QED
    BY <1>0, <2>2, <2>3 DEF Onward
<1>7. QED
  BY <1>2, <1>3, <1>4, <1>5, <1>6

-----------------------------------------------------------------------------
(* The buffered forms. *)

\* Observing sets nothing of the result.
LEMMA Observed ==
  ASSUME NEW e, e.type \in {"created", "added", "delta", "done"} \cup Ends,
         "result" \in DOMAIN chat, NEW verdict
  PROVE  /\ [Observe(e) EXCEPT !.result = verdict].result = verdict
         /\ "result" \in DOMAIN [Observe(e) EXCEPT !.result = verdict]
<1>1. DOMAIN Observe(e) = DOMAIN chat
  <2>1. CASE e.type \in {"created", "done"}
    <3>1. Observe(e) = chat
      BY <2>1 DEF Observe, Ends
    <3>2. QED
      BY <3>1
  <2>2. CASE e.type = "added" /\ (e.kind # "tool" \/ e.index \in DOMAIN chat.toolOf)
    <3>1. Observe(e) = chat
      BY <2>2 DEF Observe, Ends
    <3>2. QED
      BY <3>1
  <2>3. CASE e.type = "added" /\ ~(e.kind # "tool" \/ e.index \in DOMAIN chat.toolOf)
    BY <2>3 DEF Observe, Ends
  <2>4. CASE e.type = "delta" /\ e.kind # "tool"
    BY <2>4 DEF Observe, Ends
  <2>5. CASE e.type = "delta" /\ e.kind = "tool"
    BY <2>5 DEF Observe, Ends
  <2>6. CASE e.type \in Ends
    <3>1. Observe(e) = ObserveResponse(e)
      BY <2>6 DEF Observe, Ends
    <3>2. DOMAIN ObserveResponse(e) = DOMAIN chat
      BY DEF ObserveResponse
    <3>3. QED
      BY <3>1, <3>2
  <2>7. QED
    BY <2>1, <2>2, <2>3, <2>4, <2>5, <2>6
<1> DEFINE o == Observe(e)
<1>2. "result" \in DOMAIN o
  BY <1>1
<1> HIDE DEF o
<1>3. [o EXCEPT !.result = verdict].result = verdict /\ "result" \in DOMAIN [o EXCEPT !.result = verdict]
  BY <1>2
<1>4. QED
  BY <1>3 DEF o

\* The items gathered, event by event.
LEMMA GatheredItems ==
  ASSUME NEW e, DOMAIN gathered = {"items", "result"}
  PROVE  /\ e.type = "created" => Gather(e).items = gathered.items
         /\ e.type = "added" => Gather(e).items = Merged(e, <<>>)
         /\ e.type = "delta" => Gather(e).items = Merged(e, Append(PartsOf(e.index), e.part))
         /\ e.type = "done" => Gather(e).items = Merged(e, up.items[e.index].parts)
         /\ e.type \in Ends =>
              Gather(e).items = IF e.output THEN [i \in DOMAIN gathered.items \cup DOMAIN up.items |->
                                                    up.items[i]]
                                ELSE gathered.items
         /\ e.type \in {"created", "added", "delta", "done"} \cup Ends =>
              DOMAIN Gather(e) = {"items", "result"}
<1>1. CASE e.type = "created"
  BY <1>1 DEF Gather, Ends
<1>2. CASE e.type = "added"
  BY <1>2 DEF Gather, Ends
<1>3. CASE e.type = "delta"
  BY <1>3 DEF Gather, Ends
<1>4. CASE e.type = "done"
  BY <1>4 DEF Gather, Ends
<1>5. CASE e.type \in Ends
  BY <1>5 DEF Gather, Ends
<1>6. CASE e.type \notin {"created", "added", "delta", "done"} \cup Ends
  BY <1>6
<1>7. QED
  BY <1>1, <1>2, <1>3, <1>4, <1>5, <1>6

\* An event that is no end.
LEMMA EventTaken ==
  ASSUME Shape, AnswerOpen, NEW e, e.type \in {"created", "added", "delta", "done"},
         e.type \in {"added", "delta"} => e.kind \in Kinds,
         Consume(e)
  PROVE  /\ Onward(e, relay') /\ Converting'
         /\ "result" \in DOMAIN chat' /\ chat'.result = "open"
         /\ DOMAIN gathered' = {"items", "result"} /\ gathered'.result = "open"
         /\ gathered'.items = Gather(e).items
<1>1. /\ relay' = Streamed(Convert(e)) /\ converter' = ConverterAfter(e)
      /\ chat' = [Observe(e) EXCEPT !.result = ChatResult(e)]
      /\ gathered' = [Gather(e) EXCEPT !.result = ResponseResult(e)]
  BY DEF Consume
<1>2. Onward(e, relay')
  BY <1>1, EventStreamed
<1>3. ChatResult(e) = "open" /\ ResponseResult(e) = "open"
  BY DEF ChatResult, ResponseResult, Failed
<1>4. "result" \in DOMAIN chat' /\ chat'.result = "open"
  BY <1>1, <1>3, Observed DEF Shape
<1>5. DOMAIN gathered' = {"items", "result"} /\ gathered'.result = "open" /\ gathered'.items = Gather(e).items
  <2> DEFINE g == Gather(e)
  <2>1. DOMAIN g = {"items", "result"}
    BY GatheredItems DEF Shape
  <2>2. gathered' = [g EXCEPT !.result = "open"]
    BY <1>1, <1>3
  <2> HIDE DEF g
  <2>3. DOMAIN gathered' = {"items", "result"} /\ gathered'.result = "open" /\ gathered'.items = g.items
    BY <2>1, <2>2
  <2>4. QED
    BY <2>3 DEF g
<1>6. Converting'
  <2>1. /\ converter'.role = RoleSent(e)
        /\ converter'.next = IF AddsTool(e) THEN converter.next + 1 ELSE converter.next
        /\ converter'.toolOf = IF AddsTool(e) THEN Positions(e) ELSE converter.toolOf
    BY <1>1 DEF ConverterAfter
  <2>2. converter'.role <=> relay'.received # <<>>
    BY <1>2, <2>1 DEF Onward
  <2>3. converter'.next = Cardinality(HeadersIn(relay'.received))
    BY <1>2, <2>1 DEF Onward
  <2>4. ASSUME NEW i \in DOMAIN converter'.toolOf
        PROVE  \E q \in HeadersIn(relay'.received) : relay'.received[q].tool = converter'.toolOf[i]
    <3>1. CASE AddsTool(e) /\ i = e.index
      <4>1. converter'.toolOf[i] = converter.next
        BY <2>1, <2>4, <3>1 DEF Positions
      <4>2. QED
        BY <1>2, <3>1, <4>1 DEF Onward
    <3>2. CASE ~(AddsTool(e) /\ i = e.index)
      <4>1. i \in DOMAIN converter.toolOf /\ converter'.toolOf[i] = converter.toolOf[i]
        BY <2>1, <2>4, <3>2 DEF Positions
      <4>2. PICK q \in HeadersIn(relay.received) : relay.received[q].tool = converter.toolOf[i]
        BY <4>1 DEF AnswerOpen, Converting
      <4>3. q \in HeadersIn(relay'.received) /\ relay'.received[q] = relay.received[q]
        BY <1>2, <4>2 DEF Onward
      <4>4. QED
        BY <4>1, <4>2, <4>3
    <3>3. QED
      BY <3>1, <3>2
  <2>5. HeadersIn(relay.received)' = HeadersIn(relay'.received)
    BY DEF HeadersIn
  <2>6. QED
    BY <2>2, <2>3, <2>4, <2>5 DEF Converting
<1>7. QED
  BY <1>2, <1>4, <1>5, <1>6

\* What an open answer promises.
LEMMA OpenAnswers ==
  ASSUME AnswerOpen
  PROVE  StreamFramed /\ VerdictsAgree
<1> DEFINE got == relay.received
<1>1. Framed(got) /\ relay.result = "open" /\ gathered.result = "open"
  BY DEF AnswerOpen, Open
<1>2. VerdictsAgree
  <2>1. chat.result = "open"
    BY DEF AnswerOpen
  <2>2. QED
    BY <1>1, <2>1 DEF VerdictsAgree
<1>3. DOMAIN got = 1..Len(got)
  BY <1>1, OneMore DEF Framed
<1>4. ASSUME NEW p \in 1..Len(got)
      PROVE  /\ got[p].kind = "role" <=> p = 1 /\ got[1].kind # "raw"
             /\ got[p].kind = "arguments" =>
                  \E q \in 1..p : got[q].kind = "header" /\ got[q].tool = got[p].tool
             /\ got[p].kind # "finish"
             /\ got[p].kind = "header" => got[p].tool = Cardinality(HeadersBefore(p))
  <2>1. /\ got[p].kind \in Output \cup {"role"}
        /\ got[p].kind = "role" <=> p = 1
        /\ got[p].kind = "arguments" =>
             \E q \in 1..p : got[q].kind = "header" /\ got[q].tool = got[p].tool
        /\ got[p].kind = "header" =>
             got[p].tool = Cardinality({q \in 1..(p - 1) : got[q].kind = "header"})
    BY <1>1 DEF Framed
  <2>2. got[p].kind # "finish" /\ got[p].kind # "raw"
    BY <2>1 DEF Output, Deltas
  <2>3. HeadersBefore(p) = {q \in 1..(p - 1) : got[q].kind = "header"}
    BY DEF HeadersBefore
  <2>4. QED
    BY <2>1, <2>2, <2>3
<1>5. QED
  BY <1>2, <1>3, <1>4 DEF StreamFramed

-----------------------------------------------------------------------------
(* The end. *)

\* StreamFramed of a list of chunks, of an answer that was completed or was not.
Framing(got, end) ==
  /\ got \in Seq(ToSet(got))
  /\ \A p \in 1..Len(got) :
       /\ got[p].kind = "role" <=> p = 1 /\ got[1].kind # "raw"
       /\ got[p].kind = "arguments" =>
            \E q \in 1..p : got[q].kind = "header" /\ got[q].tool = got[p].tool
       /\ got[p].kind = "finish" => /\ end = "completed"
                                    /\ \A q \in 1..Len(got) : q > p => got[q].kind = "done"
       /\ got[p].kind = "header" =>
            got[p].tool = Cardinality({q \in 1..(p - 1) : got[q].kind = "header"})

\* A chat stream that has not ended is framed.
LEMMA FramedIsFraming ==
  ASSUME NEW got, Framed(got), NEW end
  PROVE  Framing(got, end) /\ \A p \in 1..Len(got) : got[p].kind # "finish"
<1>1. ASSUME NEW p \in 1..Len(got)
      PROVE  /\ got[p].kind = "role" <=> p = 1 /\ got[1].kind # "raw"
             /\ got[p].kind = "arguments" =>
                  \E q \in 1..p : got[q].kind = "header" /\ got[q].tool = got[p].tool
             /\ got[p].kind # "finish"
             /\ got[p].kind = "header" =>
                  got[p].tool = Cardinality({q \in 1..(p - 1) : got[q].kind = "header"})
  <2>1. /\ got[p].kind \in Output \cup {"role"}
        /\ got[p].kind = "role" <=> p = 1
        /\ got[p].kind = "arguments" =>
             \E q \in 1..p : got[q].kind = "header" /\ got[q].tool = got[p].tool
        /\ got[p].kind = "header" =>
             got[p].tool = Cardinality({q \in 1..(p - 1) : got[q].kind = "header"})
    BY DEF Framed
  <2>2. got[p].kind # "finish" /\ got[p].kind # "raw"
    BY <2>1 DEF Output, Deltas
  <2>3. QED
    BY <2>1, <2>2
<1>2. got \in Seq(ToSet(got))
  BY DEF Framed
<1>3. QED
  BY <1>1, <1>2 DEF Framing

\* A last chunk: a finish reason, [DONE] behind it, or the event of an error.
LEMMA FramingGrows ==
  ASSUME NEW got, NEW end, Framing(got, end), NEW c,
         c.kind \in {"finish", "done", "raw"},
         c.kind # "raw" => end = "completed" /\ got # <<>>,
         (\E p \in 1..Len(got) : got[p].kind = "finish") => c.kind = "done"
  PROVE  Framing(Append(got, c), end) /\ Append(got, c) # <<>>
<1> DEFINE more == Append(got, c)
           n    == Len(got)
<1>1. /\ more \in Seq(ToSet(more)) /\ n \in Nat
      /\ Len(more) = n + 1
      /\ \A i \in 1..n : more[i] = got[i]
      /\ more[n + 1] = c
  BY OneMore DEF Framing
<1>2. got = <<>> <=> n = 0
  BY EmptySeq DEF Framing
<1>3. more # <<>>
  BY <1>1, EmptySeq
<1> HIDE DEF more
<1>4. ASSUME NEW p \in 1..Len(more)
      PROVE  /\ more[p].kind = "role" <=> p = 1 /\ more[1].kind # "raw"
             /\ more[p].kind = "arguments" =>
                  \E q \in 1..p : more[q].kind = "header" /\ more[q].tool = more[p].tool
             /\ more[p].kind = "finish" => end = "completed"
             /\ more[p].kind = "finish" => \A q \in 1..Len(more) : q > p => more[q].kind = "done"
             /\ more[p].kind = "header" =>
                  more[p].tool = Cardinality({q \in 1..(p - 1) : more[q].kind = "header"})
  <2>1. CASE p \in 1..n
    <3>1. {q \in 1..(p - 1) : more[q].kind = "header"} = {q \in 1..(p - 1) : got[q].kind = "header"}
      BY <1>1, <2>1
    <3>2. \A q \in 1..p : more[q] = got[q]
      BY <1>1, <2>1
    <3>3. more[p] = got[p] /\ more[1] = got[1]
      BY <1>1, <2>1
    <3>4. /\ got[p].kind = "role" <=> p = 1 /\ got[1].kind # "raw"
          /\ got[p].kind = "arguments" =>
               \E q \in 1..p : got[q].kind = "header" /\ got[q].tool = got[p].tool
          /\ got[p].kind = "finish" => /\ end = "completed"
                                       /\ \A q \in 1..n : q > p => got[q].kind = "done"
          /\ got[p].kind = "header" =>
               got[p].tool = Cardinality({q \in 1..(p - 1) : got[q].kind = "header"})
      BY <2>1 DEF Framing
    <3>5. ASSUME got[p].kind = "finish", NEW q \in 1..Len(more), q > p
          PROVE  more[q].kind = "done"
      <4>1. CASE q \in 1..n
        BY <1>1, <3>4, <3>5, <4>1
      <4>2. CASE q = n + 1
        BY <1>1, <2>1, <3>5, <4>2
      <4>3. QED
        BY <1>1, <4>1, <4>2
    <3>6. QED
      BY <3>1, <3>2, <3>3, <3>4, <3>5
  <2>2. CASE p = n + 1
    <3>1. more[p] = c
      BY <1>1, <2>2
    <3>2. more[p].kind \notin {"role", "arguments", "header"}
      BY <3>1
    <3>3. p = 1 => more[1].kind = "raw"
      BY <1>1, <1>2, <2>2
    <3>4. more[p].kind = "finish" => end = "completed"
      BY <3>1
    <3>5. \A q \in 1..Len(more) : ~(q > p)
      BY <1>1, <2>2
    <3>6. QED
      BY <3>2, <3>3, <3>4, <3>5
  <2>3. QED
    BY <1>1, <2>1, <2>2
<1>5. Framing(more, end)
  BY <1>1, <1>4 DEF Framing
<1>6. QED
  BY <1>3, <1>5 DEF more

\* What the framing of the chunks means for the answer they end.
LEMMA FramingSuffices ==
  ASSUME NEW end, Framing(relay'.received, end),
         end = "completed" => up'.stage = "completed"
  PROVE  /\ StreamFramed'
         /\ end # "completed" => ~\E c \in ToSet(relay'.received) : c.kind = "finish"
<1> DEFINE got == relay'.received
<1>1. DOMAIN got = 1..Len(got)
  BY OneMore DEF Framing
<1>2. ASSUME NEW p \in 1..Len(got)
      PROVE  /\ got[p].kind = "role" <=> p = 1 /\ got[1].kind # "raw"
             /\ got[p].kind = "arguments" =>
                  \E q \in 1..p : got[q].kind = "header" /\ got[q].tool = got[p].tool
             /\ got[p].kind = "finish" => end = "completed" /\ up'.stage = "completed"
             /\ got[p].kind = "finish" => \A q \in 1..Len(got) : q > p => got[q].kind = "done"
             /\ got[p].kind = "header" => got[p].tool = Cardinality(HeadersBefore(p)')
  <2>1. HeadersBefore(p)' = {q \in 1..(p - 1) : got[q].kind = "header"}
    BY DEF HeadersBefore
  <2>2. QED
    BY <2>1 DEF Framing
<1>3. StreamFramed'
  BY <1>1, <1>2 DEF StreamFramed
<1>4. ASSUME NEW c \in ToSet(got), c.kind = "finish" PROVE end = "completed"
  <2>1. PICK p \in 1..Len(got) : got[p] = c
    BY <1>1 DEF ToSet
  <2>2. QED
    BY <1>2, <1>4, <2>1
<1>5. QED
  BY <1>3, <1>4

\* A last chunk, forwarded: the fields of the relay that is left.
LEMMA LastForwarded ==
  ASSUME NEW r, NEW c, r.result = "open",
         DOMAIN r = {"committed", "usable", "terminal", "result", "received"},
         c.kind \in {"finish", "done"}
  PROVE  /\ DOMAIN Forward(r, c) = {"committed", "usable", "terminal", "result", "received"}
         /\ Forward(r, c).received = Append(r.received, c)
         /\ Forward(r, c).usable <=> r.usable \/ HasOutput(c)
         /\ wait /\ c.kind = "finish" => Forward(r, c).result = "open"
         /\ ~wait \/ c.kind = "done" =>
              Forward(r, c).result = IF r.usable \/ HasOutput(c) THEN "success" ELSE "failed"
<1> DEFINE written == [r EXCEPT !.received = Append(@, c), !.committed = TRUE,
                                !.usable = @ \/ HasOutput(c),
                                !.terminal = @ \/ c.kind \in {"finish", "done"}]
<1>1. /\ DOMAIN written = {"committed", "usable", "terminal", "result", "received"}
      /\ written.result = "open" /\ written.received = Append(r.received, c)
      /\ written.committed = TRUE
      /\ written.usable = (r.usable \/ HasOutput(c))
      /\ written.terminal = (r.terminal \/ c.kind \in {"finish", "done"})
  OBVIOUS
<1>2. written.terminal = TRUE
  BY <1>1
<1> HIDE DEF written
<1>3. Forward(r, c) = IF written.terminal /\ (~wait \/ c.kind = "done")
                      THEN [written EXCEPT !.result = Concluded(written)] ELSE written
  BY DEF Forward, written
<1>4. Concluded(written) = IF written.usable THEN "success" ELSE "failed"
  BY <1>1, <1>2 DEF Concluded
<1>5. CASE ~wait \/ c.kind = "done"
  <2>1. Forward(r, c) = [written EXCEPT !.result = Concluded(written)]
    BY <1>2, <1>3, <1>5
  <2>2. QED
    BY <1>1, <1>2, <1>4, <1>5, <2>1
<1>6. CASE ~(~wait \/ c.kind = "done")
  <2>1. Forward(r, c) = written
    BY <1>3, <1>6
  <2>2. QED
    BY <1>1, <1>2, <1>6, <2>1
<1>7. QED
  BY <1>5, <1>6

\* The last event of a completed answer.
LEMMA CompletedTaken ==
  ASSUME Shape, AnswerOpen, NEW e, e.type = "completed", Consume(e),
         up'.stage = "completed", up'.items = up.items
  PROVE  /\ StreamFramed' /\ VerdictsAgree'
         /\ "result" \in DOMAIN chat' /\ DOMAIN gathered' = {"items", "result"}
<1> DEFINE c == FinishChunk(IF converter.next > 0 THEN "tool_calls" ELSE "stop")
           d == DoneSentinel
           f == Forward(Opened, c)
           last == IF relay.usable THEN "success" ELSE "failed"
<1>1. /\ relay' = Streamed(Convert(e))
      /\ chat' = [Observe(e) EXCEPT !.result = ChatResult(e)]
      /\ gathered' = [Gather(e) EXCEPT !.result = ResponseResult(e)]
  BY DEF Consume
<1>2. Convert(e) = EnsureRole(e) \o <<c, d>>
  BY DEF Convert, Failed
<1>3. c.kind = "finish" /\ d.kind = "done" /\ ~HasOutput(c) /\ ~HasOutput(d)
  BY DEF FinishChunk, DoneSentinel, HasOutput
<1> HIDE DEF c, d
<1>4. relay' = Forward(f, d)
  BY <1>1, <1>2, StreamedOpened
<1>5. Open(Opened) /\ Opened.received # <<>> /\ (Opened.usable <=> relay.usable)
  BY OpenedOpen
<1>6. /\ DOMAIN f = {"committed", "usable", "terminal", "result", "received"}
      /\ f.received = Append(Opened.received, c)
      /\ f.usable <=> Opened.usable \/ HasOutput(c)
      /\ wait => f.result = "open"
      /\ ~wait => f.result = IF Opened.usable \/ HasOutput(c) THEN "success" ELSE "failed"
  <2>1. Opened.result = "open" /\ DOMAIN Opened = {"committed", "usable", "terminal", "result", "received"}
    BY <1>5 DEF Open
  <2>2. QED
    BY <1>3, <2>1, LastForwarded
<1> HIDE DEF f
<1>7. f.usable <=> relay.usable
  BY <1>3, <1>5, <1>6
<1>8. Framing(Opened.received, "completed") /\ \A p \in 1..Len(Opened.received) : Opened.received[p].kind # "finish"
  BY <1>5, FramedIsFraming DEF Open
<1>9. Framing(f.received, "completed") /\ f.received # <<>>
  BY <1>3, <1>5, <1>6, <1>8, FramingGrows
<1>10. Framing(relay'.received, "completed") /\ relay'.result = last
  <2>1. CASE wait
    <3>1. /\ relay'.received = Append(f.received, d)
          /\ relay'.result = IF f.usable \/ HasOutput(d) THEN "success" ELSE "failed"
      <4>1. f.result = "open" /\ d.kind \in {"finish", "done"}
        BY <1>3, <1>6, <2>1
      <4>2. /\ Forward(f, d).received = Append(f.received, d)
            /\ Forward(f, d).result = IF f.usable \/ HasOutput(d) THEN "success" ELSE "failed"
        BY <1>3, <1>6, <4>1, LastForwarded
      <4>3. QED
        BY <1>4, <4>2
    <3>2. Framing(Append(f.received, d), "completed")
      BY <1>3, <1>9, FramingGrows
    <3>3. QED
      BY <1>3, <1>7, <3>1, <3>2
  <2>2. CASE ~wait
    <3>1. f.result = last /\ f.result # "open"
      BY <1>3, <1>5, <1>6, <2>2
    <3>2. Forward(f, d) = f
      BY <3>1 DEF Forward
    <3>3. QED
      BY <1>4, <1>9, <3>1, <3>2
  <2>3. QED
    BY <2>1, <2>2
<1>11. StreamFramed'
  BY <1>10, FramingSuffices
<1>12. ChatResult(e) = "success" /\ ResponseResult(e) = IF Usable(Gather(e).items) THEN "success" ELSE "retry"
  BY DEF ChatResult, ResponseResult, Failed
<1>13. chat'.result = "success" /\ "result" \in DOMAIN chat'
  BY <1>1, <1>12, Observed DEF Shape, Ends
<1>14. DOMAIN gathered' = {"items", "result"} /\ gathered'.result = ResponseResult(e)
  <2> DEFINE g == Gather(e)
  <2>1. DOMAIN g = {"items", "result"}
    BY GatheredItems DEF Shape, Ends
  <2> HIDE DEF g
  <2>2. gathered' = [g EXCEPT !.result = ResponseResult(e)]
    BY <1>1 DEF g
  <2>3. QED
    BY <2>1, <2>2
<1>15. /\ \A j \in DOMAIN up.items : Speaks(up.items[j]) => relay.usable
       /\ DOMAIN gathered.items = DOMAIN up.items
       /\ \A j \in DOMAIN up.items : /\ gathered.items[j].kind = up.items[j].kind
                                      /\ gathered.items[j].parts = up.items[j].parts
       /\ \A j \in DOMAIN up.items : up.items[j].kind \in Kinds
  <2> DEFINE T == [kind : Kinds, parts : Seq(Nat)]
  <2>1. up.items \in Seq(T)
    BY DEF Shape, Items
  <2>2. \A j \in DOMAIN up.items : up.items[j] \in T
    <3> HIDE DEF T
    <3>1. QED
      BY <2>1
  <2>3. \A j \in DOMAIN up.items : up.items[j].kind \in Kinds
    BY <2>2
  <2>4. QED
    BY <2>3 DEF AnswerOpen, Heard
<1>16. Usable(Gather(e).items) <=> ~OnlyReasoned
  <2> DEFINE items == Gather(e).items
  <2>1. items = IF e.output THEN [i \in DOMAIN gathered.items \cup DOMAIN up.items |-> up.items[i]]
                ELSE gathered.items
    BY GatheredItems DEF Shape, Ends
  <2> HIDE DEF items
  <2>2. /\ DOMAIN items = DOMAIN up.items
        /\ \A j \in DOMAIN up.items : items[j].kind = up.items[j].kind /\ items[j].parts = up.items[j].parts
    <3>1. CASE e.output
      BY <1>15, <2>1, <3>1
    <3>2. CASE ~e.output
      BY <1>15, <2>1, <3>2
    <3>3. QED
      BY <3>1, <3>2
  <2>3. Usable(items) <=> \E j \in DOMAIN up.items :
          \/ up.items[j].kind = "tool"
          \/ up.items[j].kind \in {"message", "refusal"} /\ up.items[j].parts # <<>>
    BY <2>2 DEF Usable
  <2>4. OnlyReasoned <=> \A j \in DOMAIN up.items :
          up.items[j].kind # "tool" /\ (up.items[j].kind = "reasoning" \/ up.items[j].parts = <<>>)
    BY DEF OnlyReasoned, ToSet
  <2>5. \A j \in DOMAIN up.items :
          (\/ up.items[j].kind = "tool"
           \/ up.items[j].kind \in {"message", "refusal"} /\ up.items[j].parts # <<>>)
          <=> ~(up.items[j].kind # "tool" /\ (up.items[j].kind = "reasoning" \/ up.items[j].parts = <<>>))
    BY <1>15 DEF Kinds
  <2>6. Usable(items) <=> ~OnlyReasoned
    BY <2>3, <2>4, <2>5
  <2>7. QED
    BY <2>6 DEF items
<1>17. OnlyReasoned' = OnlyReasoned /\ SaidNothing' = SaidNothing
  BY DEF OnlyReasoned, SaidNothing, ToSet
<1>18. ~relay.usable => SaidNothing
  <2>1. ASSUME ~relay.usable, NEW item \in ToSet(up.items)
        PROVE  item.kind # "tool" /\ item.parts = <<>>
    <3>1. PICK j \in DOMAIN up.items : up.items[j] = item
      BY DEF ToSet
    <3>2. ~Speaks(up.items[j])
      BY <1>15, <2>1, <3>1
    <3>3. QED
      BY <3>1, <3>2 DEF Speaks
  <2>2. QED
    BY <2>1 DEF SaidNothing
<1>19. SaidNothing => OnlyReasoned
  BY DEF SaidNothing, OnlyReasoned
<1>20. gathered'.result = IF OnlyReasoned THEN "retry" ELSE "success"
  BY <1>12, <1>14, <1>16
<1>21. VerdictsAgree'
  <2>1. relay'.result = IF relay.usable THEN "success" ELSE "failed"
    BY <1>10
  <2>2. chat'.result = "success" /\ up'.stage = "completed"
    BY <1>13
  <2>3. gathered'.result = IF OnlyReasoned' THEN "retry" ELSE "success"
    BY <1>17, <1>20
  <2>4. CASE relay.usable
    <3>1. relay'.result = "success"
      BY <2>1, <2>4
    <3>2. QED
      BY <2>2, <2>3, <3>1 DEF VerdictsAgree
  <2>5. CASE ~relay.usable
    <3>1. relay'.result = "failed" /\ SaidNothing' /\ gathered'.result = "retry"
      BY <1>17, <1>18, <1>19, <1>20, <2>1, <2>5
    <3>2. QED
      BY <2>2, <3>1 DEF VerdictsAgree
  <2>6. QED
    BY <2>4, <2>5
<1>22. QED
  BY <1>11, <1>13, <1>14, <1>21

\* The last event of an answer that failed.
LEMMA ErrorTaken ==
  ASSUME Shape, AnswerOpen, NEW e, e.type \in {"incomplete", "failed"}, Consume(e),
         up'.stage = e.type
  PROVE  /\ StreamFramed' /\ VerdictsAgree'
         /\ "result" \in DOMAIN chat' /\ DOMAIN gathered' = {"items", "result"}
<1> DEFINE c == RawEvent(Retryable(e))
<1>1. /\ relay' = Streamed(Convert(e))
      /\ chat' = [Observe(e) EXCEPT !.result = ChatResult(e)]
      /\ gathered' = [Gather(e) EXCEPT !.result = ResponseResult(e)]
  BY DEF Consume
<1>2. Convert(e) = <<c>>
  BY DEF Convert, Failed
<1>3. c.kind = "raw"
  BY DEF RawEvent
<1> HIDE DEF c
<1>4. relay' = Forward(relay, c)
  BY <1>1, <1>2, StreamedOpened
<1>5. Open(relay)
  BY DEF AnswerOpen
<1>6. /\ relay'.result \in {"retry", "failed"}
      /\ relay'.received = relay.received \/ relay'.received = Append(relay.received, c)
  <2> DEFINE written == [relay EXCEPT !.received = Append(@, c), !.committed = TRUE,
                                      !.usable = @ \/ HasOutput(c),
                                      !.terminal = @ \/ c.kind \in {"finish", "done"}]
  <2>1. /\ DOMAIN written = {"committed", "usable", "terminal", "result", "received"}
        /\ written.received = Append(relay.received, c)
    BY <1>5 DEF Open
  <2> HIDE DEF written
  <2>2. Forward(relay, c) = IF c.retryable /\ ~relay.committed THEN [relay EXCEPT !.result = "retry"]
                            ELSE [written EXCEPT !.result = "failed"]
    BY <1>3, <1>5 DEF Forward, Open, written
  <2>3. QED
    BY <1>4, <1>5, <2>1, <2>2 DEF Open
<1>7. Framing(relay.received, "failed") /\ \A p \in 1..Len(relay.received) : relay.received[p].kind # "finish"
  BY <1>5, FramedIsFraming DEF Open
<1>8. Framing(relay'.received, "failed")
  <2>1. /\ c.kind \in {"finish", "done", "raw"}
        /\ c.kind # "raw" => "failed" = "completed" /\ relay.received # <<>>
        /\ (\E p \in 1..Len(relay.received) : relay.received[p].kind = "finish") => c.kind = "done"
    BY <1>3, <1>7
  <2>2. Framing(Append(relay.received, c), "failed")
    BY <1>7, <2>1, FramingGrows
  <2>3. QED
    BY <1>6, <1>7, <2>2
<1>9. StreamFramed' /\ ~\E m \in ToSet(relay'.received) : m.kind = "finish"
  BY <1>8, FramingSuffices
<1>10. ResponseResult(e) \in {"retry", "failed"}
  BY DEF ResponseResult, Failed
<1>11. "result" \in DOMAIN chat' /\ chat'.result = ChatResult(e)
  BY <1>1, Observed DEF Shape, Ends
<1>12. DOMAIN gathered' = {"items", "result"} /\ gathered'.result \in {"retry", "failed"}
  <2> DEFINE g == Gather(e)
  <2>1. DOMAIN g = {"items", "result"}
    BY GatheredItems DEF Shape, Ends
  <2> HIDE DEF g
  <2>2. gathered' = [g EXCEPT !.result = ResponseResult(e)]
    BY <1>1 DEF g
  <2>3. QED
    BY <1>10, <2>1, <2>2
<1>13. VerdictsAgree'
  <2>1. chat'.result = "success" => up'.stage = "incomplete"
    BY <1>11 DEF ChatResult
  <2>2. relay'.result # "success" /\ gathered'.result # "success"
    BY <1>6, <1>12
  <2>3. QED
    BY <1>6, <1>12, <2>1, <2>2 DEF VerdictsAgree
<1>14. QED
  BY <1>9, <1>11, <1>12, <1>13

\* The connection breaks.
LEMMA Interrupted ==
  ASSUME Shape, AnswerOpen, Interrupt
  PROVE  AnswerInv'
<1>1. /\ up' = [up EXCEPT !.stage = "interrupted"]
      /\ relay' = [relay EXCEPT !.result = IF @ = "open" THEN Concluded(relay) ELSE @]
      /\ chat' = [chat EXCEPT !.result = "retry"]
      /\ gathered' = [gathered EXCEPT !.result = "retry"]
  BY DEF Interrupt
<1>2. Open(relay)
  BY DEF AnswerOpen
<1>3. relay'.received = relay.received /\ relay'.result \in {"retry", "failed"}
  <2>1. Concluded(relay) \in {"retry", "failed"}
    BY <1>2 DEF Concluded, Open
  <2>2. relay' = [relay EXCEPT !.result = Concluded(relay)]
    BY <1>1, <1>2 DEF Open
  <2>3. QED
    BY <1>2, <2>1, <2>2 DEF Open
<1>4. Framing(relay'.received, "failed")
  BY <1>2, <1>3, FramedIsFraming DEF Open
<1>5. StreamFramed' /\ ~\E c \in ToSet(relay'.received) : c.kind = "finish"
  BY <1>4, FramingSuffices
<1>6. /\ up'.stage = "interrupted" /\ up'.items = up.items /\ up'.fragments = up.fragments
      /\ DOMAIN up' = DOMAIN up
  BY <1>1 DEF Shape
<1>7. /\ gathered'.result = "retry" /\ DOMAIN gathered' = {"items", "result"}
      /\ chat'.result = "retry" /\ "result" \in DOMAIN chat'
  BY <1>1 DEF Shape
<1>8. VerdictsAgree'
  <2>1. relay'.result # "success" /\ gathered'.result # "success" /\ chat'.result # "success"
    BY <1>3, <1>7
  <2>2. QED
    BY <2>1 DEF VerdictsAgree
<1>9. Shape'
  BY <1>6, <1>7 DEF Shape
<1>10. QED
  BY <1>5, <1>6, <1>8, <1>9 DEF AnswerInv

\* The last event.
LEMMA Ended ==
  ASSUME Shape, AnswerOpen, NEW type \in Ends, NEW reason, NEW output, EndWith(type, reason, output)
  PROVE  AnswerInv'
<1> DEFINE e == ResponseEvent(type, reason, output)
<1>1. up' = [up EXCEPT !.stage = type] /\ Consume(e)
  BY DEF EndWith
<1>2. e.type = type
  BY DEF ResponseEvent
<1> HIDE DEF e
<1>3. up'.stage = type /\ up'.items = up.items /\ up'.fragments = up.fragments /\ DOMAIN up' = DOMAIN up
  BY <1>1 DEF Shape
<1>4. type \in {"completed", "incomplete", "failed"}
  BY DEF Ends
<1>5. /\ StreamFramed' /\ VerdictsAgree'
      /\ "result" \in DOMAIN chat' /\ DOMAIN gathered' = {"items", "result"}
  BY <1>1, <1>2, <1>3, <1>4, CompletedTaken, ErrorTaken
<1>6. Shape'
  BY <1>3, <1>5 DEF Shape
<1>7. QED
  BY <1>3, <1>4, <1>5, <1>6 DEF AnswerInv

-----------------------------------------------------------------------------
(* The events in between. *)

\* An event keeps the answer open when what it says is output.
LEMMA StaysOpen ==
  ASSUME Shape, AnswerOpen, NEW e, e.type \in {"created", "added", "delta", "done"},
         e.type \in {"added", "delta"} => e.kind \in Kinds,
         Consume(e), up'.stage = "open", DOMAIN up' = {"stage", "items", "fragments"},
         up'.items \in Items, up'.fragments \in Nat,
         Heard'
  PROVE  AnswerInv'
<1>1. /\ Onward(e, relay') /\ Converting'
      /\ "result" \in DOMAIN chat' /\ chat'.result = "open"
      /\ DOMAIN gathered' = {"items", "result"} /\ gathered'.result = "open"
  BY EventTaken
<1>2. Shape'
  BY <1>1 DEF Shape
<1>3. Open(relay)'
  BY <1>1 DEF Onward, Open, Framed, ToSet
<1>4. AnswerOpen'
  BY <1>1, <1>3 DEF AnswerOpen
<1>5. QED
  BY <1>2, <1>4 DEF AnswerInv

\* The response is created.
LEMMA CreatedTaken ==
  ASSUME Shape, AnswerOpen, Created
  PROVE  AnswerInv'
<1> DEFINE e == [type |-> "created"]
<1>1. up' = [up EXCEPT !.stage = "open"] /\ Consume(e) /\ e.type = "created"
  BY DEF Created
<1> HIDE DEF e
<1>2. /\ up'.stage = "open" /\ up'.items = up.items /\ up'.fragments = up.fragments
      /\ DOMAIN up' = DOMAIN up
  BY <1>1 DEF Shape
<1>3. Onward(e, relay') /\ gathered'.items = Gather(e).items
  BY <1>1, EventTaken
<1>4. gathered'.items = gathered.items /\ (relay.usable => relay'.usable)
  BY <1>1, <1>3, GatheredItems DEF Shape, Onward
<1>5. Heard'
  BY <1>2, <1>4 DEF AnswerOpen, Heard
<1>6. /\ up'.items \in Items /\ up'.fragments \in Nat
       /\ DOMAIN up' = {"stage", "items", "fragments"}
  BY <1>2 DEF Shape
<1>7. /\ e.type \in {"created", "added", "delta", "done"}
      /\ e.type \in {"added", "delta"} => e.kind \in Kinds
      /\ Consume(e) /\ up'.stage = "open"
  BY <1>1, <1>2
<1>8. QED
  BY <1>5, <1>6, <1>7, StaysOpen

\* An item begins: a call is output at once, other items hold nothing yet.
LEMMA ItemTaken ==
  ASSUME Shape, AnswerOpen, NEW kind \in Kinds, AddItem(kind)
  PROVE  AnswerInv'
<1> DEFINE i == Len(up.items) + 1
           item == [kind |-> kind, parts |-> <<>>]
           e == ItemEvent("added", i, kind, 0)
           T == [kind : Kinds, parts : Seq(Nat)]
<1>1. /\ up' = [up EXCEPT !.items = Append(@, item)] /\ up.stage = "open"
      /\ Consume(e)
  BY DEF AddItem
<1>2. e.type = "added" /\ e.kind = kind /\ e.index = i
  BY DEF ItemEvent
<1>3. item \in T /\ item.kind = kind /\ item.parts = <<>>
  OBVIOUS
<1> HIDE DEF e, item
<1>4. /\ up'.stage = "open" /\ up'.items = Append(up.items, item) /\ up'.fragments = up.fragments
      /\ DOMAIN up' = DOMAIN up
  BY <1>1 DEF Shape
<1>5. /\ DOMAIN up.items = 1..Len(up.items) /\ Len(up.items) \in Nat
      /\ DOMAIN up'.items = 1..i /\ up'.items \in Seq(T)
      /\ \A j \in 1..Len(up.items) : up'.items[j] = up.items[j]
      /\ up'.items[i] = item
  <2>1. up.items \in Seq(T)
    BY DEF Shape, Items
  <2> HIDE DEF T
  <2>2. QED
    BY <1>3, <1>4, <2>1, AppendProperties
<1> HIDE DEF i, T
<1>6. /\ e.type \in {"created", "added", "delta", "done"}
      /\ e.type \in {"added", "delta"} => e.kind \in Kinds
  BY <1>2
<1>7. Onward(e, relay') /\ gathered'.items = Gather(e).items
  BY <1>1, <1>6, EventTaken
<1>8. gathered'.items = Merged(e, <<>>)
  BY <1>2, <1>7, GatheredItems DEF Shape
<1>9. (relay.usable => relay'.usable) /\ (kind = "tool" => relay'.usable)
  BY <1>2, <1>7 DEF Onward, AddsTool
<1>10. /\ \A j \in DOMAIN up.items : Speaks(up.items[j]) => relay.usable
       /\ DOMAIN gathered.items = DOMAIN up.items
       /\ \A j \in DOMAIN up.items : /\ gathered.items[j].kind = up.items[j].kind
                                      /\ gathered.items[j].parts = up.items[j].parts
  BY DEF AnswerOpen, Heard
<1>11. ASSUME NEW j \in DOMAIN up'.items, Speaks(up'.items[j]) PROVE relay'.usable
  <2>1. CASE j = i
    BY <1>3, <1>5, <1>9, <1>11, <2>1 DEF Speaks
  <2>2. CASE j # i
    <3>1. j \in DOMAIN up.items /\ up'.items[j] = up.items[j]
      BY <1>5, <2>2 DEF i
    <3>2. QED
      BY <1>9, <1>10, <1>11, <3>1
  <2>3. QED
    BY <2>1, <2>2
<1>12. DOMAIN gathered'.items = DOMAIN up'.items
  <2>1. DOMAIN gathered'.items = DOMAIN up.items \cup {i}
    BY <1>2, <1>8, <1>10 DEF Merged
  <2>2. DOMAIN up'.items = DOMAIN up.items \cup {i}
    BY <1>5 DEF i
  <2>3. QED
    BY <2>1, <2>2
<1>13. ASSUME NEW j \in DOMAIN up'.items
       PROVE  /\ gathered'.items[j].kind = up'.items[j].kind
              /\ gathered'.items[j].parts = up'.items[j].parts
  <2>1. CASE j = i
    <3>1. gathered'.items[j].kind = kind /\ gathered'.items[j].parts = <<>>
      BY <1>2, <1>8, <1>12, <2>1 DEF Merged
    <3>2. QED
      BY <1>3, <1>5, <2>1, <3>1
  <2>2. CASE j # i
    <3>1. j \in DOMAIN gathered.items /\ gathered'.items[j] = gathered.items[j]
      BY <1>2, <1>8, <1>12, <2>2 DEF Merged
    <3>2. j \in DOMAIN up.items /\ up'.items[j] = up.items[j]
      BY <1>5, <2>2 DEF i
    <3>3. QED
      BY <1>10, <3>1, <3>2
  <2>3. QED
    BY <2>1, <2>2
<1>14. Heard'
  BY <1>11, <1>12, <1>13 DEF Heard, Speaks
<1>15. /\ up'.items \in Items /\ up'.fragments \in Nat
       /\ DOMAIN up' = {"stage", "items", "fragments"}
  BY <1>4, <1>5 DEF Shape, Items, T
<1>16. QED
  BY <1>1, <1>4, <1>6, <1>14, <1>15, StaysOpen

\* A fragment is output, unless it is of a call, which was output before.
LEMMA DeltaTaken ==
  ASSUME Shape, AnswerOpen, NEW i \in DOMAIN up.items, SendDelta(i)
  PROVE  AnswerInv'
<1> DEFINE kind == up.items[i].kind
           n == up.fragments + 1
           e == ItemEvent("delta", i, kind, n)
           T == [kind : Kinds, parts : Seq(Nat)]
           said == [up.items[i] EXCEPT !.parts = Append(@, n)]
<1>1. /\ up' = [up EXCEPT !.fragments = @ + 1, !.items[i].parts = Append(@, n)]
      /\ up.stage = "open" /\ Consume(e)
  BY DEF SendDelta
<1>2. e.type = "delta" /\ e.kind = kind /\ e.index = i /\ e.part = n
  BY DEF ItemEvent
<1>3. /\ up.items \in Seq(T) /\ up.items[i] \in T /\ n \in Nat
      /\ kind \in Kinds /\ up.items[i].parts \in Seq(Nat)
  <2>1. up.items \in Seq(T) /\ n \in Nat
    BY DEF Shape, Items
  <2>2. up.items[i] \in T
    <3> HIDE DEF T
    <3>1. QED
      BY <2>1
  <2>3. kind \in Kinds
    BY <2>2
  <2>4. up.items[i].parts \in Seq(Nat)
    BY <2>2
  <2>5. QED
    BY <2>1, <2>2, <2>3, <2>4
<1> HIDE DEF e
<1>4. /\ said \in T /\ said.kind = kind /\ said.parts = Append(up.items[i].parts, n)
      /\ said.parts # <<>>
  <2>1. Append(up.items[i].parts, n) \in Seq(Nat) /\ Append(up.items[i].parts, n) # <<>>
    <3> DEFINE parts == up.items[i].parts
    <3>1. parts \in Seq(Nat) /\ n \in Nat
      BY <1>3
    <3> HIDE DEF n, parts
    <3>2. Append(parts, n) \in Seq(Nat) /\ Append(parts, n) # <<>>
      BY <3>1, AppendProperties
    <3>3. QED
      BY <3>2 DEF parts
  <2>2. QED
    BY <1>3, <2>1
<1>5. /\ up'.stage = "open" /\ up'.items = [up.items EXCEPT ![i] = said] /\ up'.fragments = n
      /\ DOMAIN up' = DOMAIN up
  BY <1>1 DEF Shape
<1> HIDE DEF said
<1>6. /\ up'.items \in Seq(T) /\ DOMAIN up'.items = DOMAIN up.items
      /\ \A j \in DOMAIN up.items : up'.items[j] = IF j = i THEN said ELSE up.items[j]
  <2> HIDE DEF T
  <2>1. QED
    BY <1>3, <1>4, <1>5
<1>7. /\ e.type \in {"created", "added", "delta", "done"}
      /\ e.type \in {"added", "delta"} => e.kind \in Kinds
  BY <1>2, <1>3
<1>8. Onward(e, relay') /\ gathered'.items = Gather(e).items
  BY <1>1, <1>7, EventTaken
<1>9. gathered'.items = Merged(e, Append(PartsOf(e.index), e.part))
  BY <1>2, <1>8, GatheredItems DEF Shape
<1>10. /\ \A j \in DOMAIN up.items : Speaks(up.items[j]) => relay.usable
       /\ DOMAIN gathered.items = DOMAIN up.items
       /\ \A j \in DOMAIN up.items : /\ gathered.items[j].kind = up.items[j].kind
                                      /\ gathered.items[j].parts = up.items[j].parts
  BY DEF AnswerOpen, Heard
<1>11. relay'.usable
  <2>1. CASE kind = "tool"
    BY <1>8, <1>10, <2>1 DEF Onward, Speaks
  <2>2. CASE kind # "tool"
    BY <1>2, <1>8, <2>2 DEF Onward
  <2>3. QED
    BY <2>1, <2>2
<1>12. DOMAIN gathered'.items = DOMAIN up'.items
  BY <1>2, <1>6, <1>9, <1>10 DEF Merged
<1>13. ASSUME NEW j \in DOMAIN up'.items
       PROVE  /\ gathered'.items[j].kind = up'.items[j].kind
              /\ gathered'.items[j].parts = up'.items[j].parts
  <2>1. CASE j = i
    <3>1. /\ gathered'.items[j].kind = kind
          /\ gathered'.items[j].parts = Append(PartsOf(i), n)
      BY <1>2, <1>9, <1>12, <2>1 DEF Merged
    <3>2. PartsOf(i) = up.items[i].parts
      BY <1>10 DEF PartsOf
    <3>3. up'.items[j] = said
      BY <1>6, <2>1
    <3>4. QED
      BY <1>4, <3>1, <3>2, <3>3
  <2>2. CASE j # i
    <3>1. j \in DOMAIN gathered.items /\ gathered'.items[j] = gathered.items[j]
      BY <1>2, <1>9, <1>12, <2>2 DEF Merged
    <3>2. j \in DOMAIN up.items /\ up'.items[j] = up.items[j]
      BY <1>6, <2>2
    <3>3. QED
      BY <1>10, <3>1, <3>2
  <2>3. QED
    BY <2>1, <2>2
<1>14. Heard'
  BY <1>11, <1>12, <1>13 DEF Heard
<1>15. /\ up'.items \in Items /\ up'.fragments \in Nat
       /\ DOMAIN up' = {"stage", "items", "fragments"}
  BY <1>3, <1>5, <1>6 DEF Shape, Items
<1>16. QED
  BY <1>1, <1>5, <1>7, <1>14, <1>15, StaysOpen

\* An item that is done holds what its fragments were.
LEMMA DoneTaken ==
  ASSUME Shape, AnswerOpen, NEW i \in DOMAIN up.items, ItemDone(i)
  PROVE  AnswerInv'
<1> DEFINE kind == up.items[i].kind
           e == ItemEvent("done", i, kind, 0)
<1>1. up' = up /\ up.stage = "open" /\ Consume(e)
  BY DEF ItemDone
<1>2. e.type = "done" /\ e.kind = kind /\ e.index = i
  BY DEF ItemEvent
<1> HIDE DEF e
<1>3. /\ e.type \in {"created", "added", "delta", "done"}
      /\ e.type \in {"added", "delta"} => e.kind \in Kinds
  BY <1>2
<1>4. Onward(e, relay') /\ gathered'.items = Gather(e).items
  BY <1>1, <1>3, EventTaken
<1>5. gathered'.items = Merged(e, up.items[i].parts) /\ (relay.usable => relay'.usable)
  BY <1>2, <1>4, GatheredItems DEF Shape, Onward
<1>6. /\ \A j \in DOMAIN up.items : Speaks(up.items[j]) => relay.usable
      /\ DOMAIN gathered.items = DOMAIN up.items
      /\ \A j \in DOMAIN up.items : /\ gathered.items[j].kind = up.items[j].kind
                                     /\ gathered.items[j].parts = up.items[j].parts
  BY DEF AnswerOpen, Heard
<1>7. DOMAIN gathered'.items = DOMAIN up'.items
  BY <1>1, <1>2, <1>5, <1>6 DEF Merged
<1>8. ASSUME NEW j \in DOMAIN up'.items
      PROVE  /\ gathered'.items[j].kind = up'.items[j].kind
             /\ gathered'.items[j].parts = up'.items[j].parts
  <2>1. CASE j = i
    <3>1. gathered'.items[j].kind = kind /\ gathered'.items[j].parts = up.items[i].parts
      BY <1>2, <1>5, <1>7, <2>1 DEF Merged
    <3>2. QED
      BY <1>1, <2>1, <3>1
  <2>2. CASE j # i
    <3>1. j \in DOMAIN gathered.items /\ gathered'.items[j] = gathered.items[j]
      BY <1>2, <1>5, <1>7, <2>2 DEF Merged
    <3>2. QED
      BY <1>1, <1>6, <3>1
  <2>3. QED
    BY <2>1, <2>2
<1>9. Heard'
  BY <1>1, <1>5, <1>6, <1>7, <1>8 DEF Heard
<1>10. /\ up'.items \in Items /\ up'.fragments \in Nat
       /\ DOMAIN up' = {"stage", "items", "fragments"}
  BY <1>1 DEF Shape
<1>11. QED
  BY <1>1, <1>3, <1>9, <1>10, StaysOpen

-----------------------------------------------------------------------------
(* The theorems. *)

\* Nothing has been said.
LEMMA AnswerStarts == AnswerInit => AnswerInv
<1> SUFFICES ASSUME AnswerInit PROVE AnswerInv
  OBVIOUS
<1>1. /\ up = [stage |-> "asked", items |-> <<>>, fragments |-> 0]
      /\ converter = [role |-> FALSE, next |-> 0, toolOf |-> <<>>]
      /\ relay = [committed |-> FALSE, usable |-> FALSE, terminal |-> FALSE, result |-> "open",
                  received |-> <<>>]
      /\ gathered = [items |-> <<>>, result |-> "open"]
  BY DEF AnswerInit
<1>2. chat.result = "open" /\ "result" \in DOMAIN chat
  BY DEF AnswerInit
<1>3. Shape
  BY <1>1, <1>2 DEF Shape, Items
<1>4. /\ DOMAIN relay = {"committed", "usable", "terminal", "result", "received"}
      /\ relay.result = "open" /\ ~relay.terminal /\ ~relay.committed /\ ~relay.usable /\ relay.received = <<>>
  BY <1>1
<1>5. Framed(relay.received) /\ HeadersIn(relay.received) = {}
  BY <1>4 DEF Framed, HeadersIn
<1>6. Open(relay)
  BY <1>4, <1>5 DEF Open
<1>7. ~converter.role /\ converter.next = 0 /\ DOMAIN converter.toolOf = {}
  BY <1>1
<1>8. Converting
  BY <1>4, <1>5, <1>7, FS_EmptySet DEF Converting
<1>9. Heard
  BY <1>1 DEF Heard
<1>10. QED
  BY <1>1, <1>2, <1>3, <1>6, <1>8, <1>9 DEF AnswerInv, AnswerOpen

\* The invariant is inductive; an answer that has ended does not change.
LEMMA AnswerKept == AnswerInv /\ [AnswerNext]_answerVars => AnswerInv'
<1> SUFFICES ASSUME AnswerInv, [AnswerNext]_answerVars PROVE AnswerInv'
  OBVIOUS
<1>1. Shape
  BY DEF AnswerInv
<1>2. CASE AnswerOpen
  <2>1. CASE Created
    BY <1>1, <1>2, <2>1, CreatedTaken
  <2>2. CASE Interrupt
    BY <1>1, <1>2, <2>2, Interrupted
  <2>3. ASSUME NEW kind \in Kinds, AddItem(kind) PROVE AnswerInv'
    BY <1>1, <1>2, <2>3, ItemTaken
  <2>4. ASSUME NEW i \in DOMAIN up.items, SendDelta(i) PROVE AnswerInv'
    BY <1>1, <1>2, <2>4, DeltaTaken
  <2>5. ASSUME NEW i \in DOMAIN up.items, ItemDone(i) PROVE AnswerInv'
    BY <1>1, <1>2, <2>5, DoneTaken
  <2>6. ASSUME NEW type \in Ends, NEW reason, NEW output, EndWith(type, reason, output) PROVE AnswerInv'
    BY <1>1, <1>2, <2>6, Ended
  <2>7. CASE UNCHANGED answerVars
    <3>1. Shape'
      BY <1>1, <2>7 DEF answerVars, Shape
    <3>2. Open(relay)'
      <4>1. relay' = relay /\ Open(relay)
        BY <1>2, <2>7 DEF answerVars, AnswerOpen
      <4>2. QED
        BY <4>1
    <3>3. Converting'
      BY <1>2, <2>7 DEF answerVars, AnswerOpen, Converting, HeadersIn
    <3>4. Heard'
      BY <1>2, <2>7 DEF answerVars, AnswerOpen, Heard, Speaks
    <3>5. QED
      BY <1>2, <2>7, <3>1, <3>2, <3>3, <3>4 DEF answerVars, AnswerInv, AnswerOpen
  <2>8. QED
    BY <2>1, <2>2, <2>3, <2>4, <2>5, <2>6, <2>7 DEF AnswerNext, Ends
<1>3. CASE up.stage \notin {"asked", "open"} /\ StreamFramed /\ VerdictsAgree
  <2>1. ~AnswerNext
    BY <1>3 DEF AnswerNext, Created, Interrupt, AddItem, SendDelta, ItemDone, EndWith
  <2>2. UNCHANGED answerVars
    BY <2>1
  <2>3. Shape'
    BY <1>1, <2>2 DEF answerVars, Shape
  <2>4. StreamFramed'
    BY <1>3, <2>2 DEF answerVars, StreamFramed, HeadersBefore
  <2>5. VerdictsAgree'
    BY <1>3, <2>2 DEF answerVars, VerdictsAgree, SaidNothing, OnlyReasoned, ToSet
  <2>6. QED
    BY <1>3, <2>2, <2>3, <2>4, <2>5 DEF answerVars, AnswerInv
<1>4. QED
  BY <1>2, <1>3 DEF AnswerInv

\* What every reachable answer promises.
LEMMA AnswerHolds == AnswerSpec => [](StreamFramed /\ VerdictsAgree)
<1>1. AnswerInv => StreamFramed /\ VerdictsAgree
  BY OpenAnswers DEF AnswerInv
<1>2. QED
  BY <1>1, AnswerStarts, AnswerKept, PTL DEF AnswerSpec

\* The chunks a client receives are a chat stream after any events, for any
\* number of items and fragments.
THEOREM ChunksAreFramed == AnswerSpec => []StreamFramed
  BY AnswerHolds, PTL

\* How each form of an answer is logged, given how another is: for any number of
\* items and fragments a streamed success fails as a buffered response only if it
\* holds nothing but reasoning, and a chat completion succeeds alone only if the
\* answer was cut short or empty.
THEOREM FormsAgree == AnswerSpec => []VerdictsAgree
  BY AnswerHolds, PTL

-----------------------------------------------------------------------------
(* What is said, as lists of parts: the items one after another, and the   *)
(* chunks one after another.                                               *)

TextParts(items, kind) == [i \in DOMAIN items |-> IF items[i].kind = kind THEN items[i].parts ELSE <<>>]
PlaceParts(items)      == [i \in DOMAIN items |-> IF items[i].kind = "tool" THEN <<i>> ELSE <<>>]
TextOf(items, kind)    == FlattenSeq(TextParts(items, kind))
PlacesOf(items)        == FlattenSeq(PlaceParts(items))

DeltaParts(got, kind)  == [p \in DOMAIN got |-> IF got[p].kind = kind THEN <<got[p].part>> ELSE <<>>]
HeaderParts(got)       == [p \in DOMAIN got |-> IF got[p].kind = "header" THEN <<got[p]>> ELSE <<>>]
ArgumentParts(got, t)  == [p \in DOMAIN got |-> IF got[p].kind = "arguments" /\ got[p].tool = t
                                                THEN <<got[p].part>> ELSE <<>>]
DeltasOf(got, kind)    == FlattenSeq(DeltaParts(got, kind))
HeadersOf(got)         == FlattenSeq(HeaderParts(got))
ArgumentsTo(got, t)    == FlattenSeq(ArgumentParts(got, t))

LEMMA ItemParts ==
  ASSUME NEW items \in Items, NEW n, n = Len(items)
  PROVE  /\ n \in Nat /\ DOMAIN items = 1..n
         /\ \A kind : TextParts(items, kind) \in Parts(n, Nat) /\ TextOf(items, kind) \in Seq(Nat)
         /\ PlaceParts(items) \in Parts(n, Nat) /\ PlacesOf(items) \in Seq(Nat)
<1>1. /\ n \in Nat /\ DOMAIN items = 1..n
      /\ \A i \in 1..n : items[i].parts \in Seq(Nat)
  <2> DEFINE T == [kind : Kinds, parts : Seq(Nat)]
  <2>1. items \in Seq(T) /\ \A item \in T : item.parts \in Seq(Nat)
    BY DEF Items
  <2> HIDE DEF T
  <2>2. QED
    BY <2>1
<1>2. ASSUME NEW kind
      PROVE  TextParts(items, kind) \in Parts(n, Nat) /\ TextOf(items, kind) \in Seq(Nat)
  <2>1. TextParts(items, kind) \in Parts(n, Nat)
    BY <1>1 DEF TextParts, Parts
  <2>2. TextParts(items, kind) \in Seq(Seq(Nat))
    BY <1>1, <2>1 DEF Parts
  <2>3. QED
    BY <2>1, <2>2, FlattenType DEF TextOf
<1>3. PlaceParts(items) \in Parts(n, Nat)
  BY <1>1 DEF PlaceParts, Parts
<1>4. PlaceParts(items) \in Seq(Seq(Nat))
  BY <1>1, <1>3 DEF Parts
<1>5. QED
  BY <1>1, <1>2, <1>3, <1>4, FlattenType DEF PlacesOf

\* An item that begins says nothing yet; a call takes the next place among the calls.
LEMMA ItemMore ==
  ASSUME NEW items \in Items, NEW item \in [kind : Kinds, parts : Seq(Nat)], item.parts = <<>>,
         NEW more, more = Append(items, item)
  PROVE  /\ \A kind : TextOf(more, kind) = TextOf(items, kind)
         /\ PlacesOf(more) = IF item.kind = "tool" THEN Append(PlacesOf(items), Len(items) + 1)
                             ELSE PlacesOf(items)
<1> DEFINE T == [kind : Kinds, parts : Seq(Nat)]
           n == Len(items)
<1>1. /\ n \in Nat /\ DOMAIN items = 1..n
      /\ more \in Items /\ Len(more) = n + 1 /\ DOMAIN more = 1..n + 1
      /\ (\A i \in 1..n : more[i] = items[i]) /\ more[n + 1] = item
  <2>1. items \in Seq(T) /\ item \in T
    BY DEF Items
  <2> HIDE DEF T
  <2>2. /\ more \in Seq(T) /\ Len(more) = n + 1
        /\ (\A i \in 1..n : more[i] = items[i]) /\ more[n + 1] = item
    BY <2>1, AppendProperties
  <2>3. QED
    BY <2>1, <2>2 DEF Items, T
<1>2. ASSUME NEW kind PROVE TextOf(more, kind) = TextOf(items, kind)
  <2> DEFINE f == TextParts(items, kind)
             g == TextParts(more, kind)
  <2>1. f \in Parts(n, Nat) /\ g \in Parts(n + 1, Nat) /\ FlattenSeq(f) \in Seq(Nat)
    BY <1>1, ItemParts DEF TextOf
  <2>2. (\A i \in 1..n : g[i] = f[i]) /\ g[n + 1] = <<>>
    BY <1>1 DEF TextParts
  <2> HIDE DEF f, g
  <2>3. FlattenSeq(g) = FlattenSeq(f) \o g[n + 1] /\ FlattenSeq(f) \in Seq(Nat)
    <3> DEFINE S == Nat
    <3>1. n \in Nat /\ \A i \in 1..n : g[i] = f[i]
      BY <1>1, <2>2
    <3>2. f \in Parts(n, S) /\ g \in Parts(n + 1, S)
      BY <2>1
    <3> HIDE DEF n, S
    <3>3. FlattenSeq(g) = FlattenSeq(f) \o g[n + 1] /\ FlattenSeq(f) \in Seq(S)
      BY <3>1, <3>2, PartMore
    <3>4. QED
      BY <3>3 DEF S
  <2>4. FlattenSeq(f) \o <<>> = FlattenSeq(f)
    BY <2>1
  <2>5. QED
    BY <2>2, <2>3, <2>4 DEF f, g, TextOf
<1>3. PlacesOf(more) = IF item.kind = "tool" THEN Append(PlacesOf(items), n + 1) ELSE PlacesOf(items)
  <2> DEFINE f == PlaceParts(items)
             g == PlaceParts(more)
  <2>1. f \in Parts(n, Nat) /\ g \in Parts(n + 1, Nat) /\ FlattenSeq(f) \in Seq(Nat)
    BY <1>1, ItemParts DEF PlacesOf
  <2>2. (\A i \in 1..n : g[i] = f[i]) /\ g[n + 1] = IF item.kind = "tool" THEN <<n + 1>> ELSE <<>>
    BY <1>1 DEF PlaceParts
  <2> HIDE DEF f, g
  <2>3. FlattenSeq(g) = FlattenSeq(f) \o g[n + 1] /\ FlattenSeq(f) \in Seq(Nat)
    <3> DEFINE S == Nat
    <3>1. n \in Nat /\ \A i \in 1..n : g[i] = f[i]
      BY <1>1, <2>2
    <3>2. f \in Parts(n, S) /\ g \in Parts(n + 1, S)
      BY <2>1
    <3> HIDE DEF n, S
    <3>3. FlattenSeq(g) = FlattenSeq(f) \o g[n + 1] /\ FlattenSeq(f) \in Seq(S)
      BY <3>1, <3>2, PartMore
    <3>4. QED
      BY <3>3 DEF S
  <2>4. FlattenSeq(f) \o <<>> = FlattenSeq(f) /\ FlattenSeq(f) \o <<n + 1>> = Append(FlattenSeq(f), n + 1)
    BY <1>1, <2>1
  <2>5. QED
    BY <2>2, <2>3, <2>4 DEF f, g, PlacesOf
<1>4. QED
  BY <1>2, <1>3

\* A fragment more: texts come one after another, calls may overlap.
Spoken(items, i, c, said, more) ==
  /\ items \in Items /\ i \in 1..Len(items) /\ c \in Nat
  /\ said \in [kind : Kinds, parts : Seq(Nat)]
  /\ said.kind = items[i].kind /\ said.parts = Append(items[i].parts, c)
  /\ more = [items EXCEPT ![i] = said]
  /\ i = Len(items) \/ said.kind = "tool"

LEMMA ItemLonger ==
  ASSUME NEW items, NEW i, NEW c, NEW said, NEW more, Spoken(items, i, c, said, more)
  PROVE  /\ \A kind \in Deltas :
              TextOf(more, kind) = IF said.kind = kind THEN Append(TextOf(items, kind), c)
                                   ELSE TextOf(items, kind)
         /\ PlacesOf(more) = PlacesOf(items)
<1> DEFINE T == [kind : Kinds, parts : Seq(Nat)]
           n == Len(items)
<1>0. /\ items \in Items /\ i \in 1..Len(items) /\ c \in Nat
      /\ said \in [kind : Kinds, parts : Seq(Nat)]
      /\ said.kind = items[i].kind /\ said.parts = Append(items[i].parts, c)
      /\ more = [items EXCEPT ![i] = said]
      /\ i = Len(items) \/ said.kind = "tool"
  BY DEF Spoken
<1>1. /\ n \in Nat /\ DOMAIN items = 1..n
      /\ more \in Items /\ Len(more) = n /\ DOMAIN more = 1..n
      /\ \A j \in 1..n : more[j] = IF j = i THEN said ELSE items[j]
  <2>1. items \in Seq(T) /\ said \in T
    BY <1>0 DEF Items
  <2> HIDE DEF T
  <2>2. /\ more \in Seq(T) /\ Len(more) = n
        /\ \A j \in 1..n : more[j] = IF j = i THEN said ELSE items[j]
    BY <1>0, <2>1
  <2>3. n \in Nat /\ DOMAIN items = 1..n
    BY <2>1
  <2>4. DOMAIN more = 1..n
    BY <2>2, <2>3
  <2>5. more \in Items
    BY <2>2 DEF Items, T
  <2>6. QED
    BY <2>2, <2>3, <2>4, <2>5
<1>2. PlaceParts(more) = PlaceParts(items)
  BY <1>0, <1>1 DEF PlaceParts
<1>3. ASSUME NEW kind \in Deltas, said.kind # kind PROVE TextOf(more, kind) = TextOf(items, kind)
  <2>1. TextParts(more, kind) = TextParts(items, kind)
    BY <1>0, <1>1, <1>3 DEF TextParts
  <2>2. QED
    BY <2>1 DEF TextOf
<1>4. ASSUME NEW kind \in Deltas, said.kind = kind PROVE TextOf(more, kind) = Append(TextOf(items, kind), c)
  <2> DEFINE f == TextParts(items, kind)
             g == TextParts(more, kind)
             S == Nat
  <2>1. i = n /\ n \in Nat \ {0}
    <3>1. said.kind # "tool"
      BY <1>4 DEF Deltas
    <3>2. i = n
      BY <1>0, <3>1
    <3>3. QED
      BY <1>0, <1>1, <3>2
  <2>2. f \in Parts(n, S) /\ g \in Parts(n, S) /\ c \in S
    BY <1>0, <1>1, ItemParts
  <2>3. \A j \in 1..n : /\ f[j] = IF items[j].kind = kind THEN items[j].parts ELSE <<>>
                        /\ g[j] = IF more[j].kind = kind THEN more[j].parts ELSE <<>>
    BY <1>1 DEF TextParts
  <2>4. more[n].kind = kind /\ items[n].kind = kind /\ more[n].parts = Append(items[n].parts, c)
    BY <1>0, <1>1, <1>4, <2>1
  <2> HIDE DEF f, g, S
  <2>5. \A j \in 1..n : j # n => g[j] = f[j]
    BY <1>1, <2>1, <2>3
  <2>6. g[n] = Append(f[n], c)
    <3>1. n \in 1..n
      BY <2>1
    <3>2. f[n] = items[n].parts /\ g[n] = more[n].parts
      BY <2>3, <2>4, <3>1
    <3>3. QED
      BY <2>4, <3>2
  <2> HIDE DEF n
  <2>7. FlattenSeq(g) = Append(FlattenSeq(f), c)
    <3>1. n \in Nat \ {0} /\ c \in S /\ f \in Parts(n, S) /\ g \in Parts(n, S)
      BY <2>1, <2>2
    <3>2. Longer(S, n, f, g, c)
      BY <2>5, <2>6, <3>1 DEF Longer
    <3>3. QED
      BY <3>2, PartLonger
  <2>8. QED
    BY <2>7 DEF f, g, TextOf
<1>5. QED
  BY <1>2, <1>3, <1>4 DEF PlacesOf

\* What a chunk adds.
Added(got, c, more) ==
  /\ more \in Seq(ToSet(more))
  /\ \A kind \in Deltas : DeltasOf(more, kind) = IF c.kind = kind THEN Append(DeltasOf(got, kind), c.part)
                                                  ELSE DeltasOf(got, kind)
  /\ HeadersOf(more) = IF c.kind = "header" THEN Append(HeadersOf(got), c) ELSE HeadersOf(got)
  /\ \A t : ArgumentsTo(more, t) = IF c.kind = "arguments" /\ c.tool = t
                                   THEN Append(ArgumentsTo(got, t), c.part) ELSE ArgumentsTo(got, t)

LEMMA ChunkAdded ==
  ASSUME NEW got, got \in Seq(ToSet(got)), NEW c, NEW more, more = Append(got, c)
  PROVE  Added(got, c, more)
<1> DEFINE n == Len(got)
           S == {got[p].part : p \in 1..n} \cup {c.part}
           M == ToSet(got) \cup {c}
<1>1. /\ n \in Nat /\ DOMAIN got = 1..n /\ DOMAIN more = 1..n + 1
      /\ (\A p \in 1..n : more[p] = got[p]) /\ more[n + 1] = c
  BY OneMore
<1>2. ASSUME NEW kind
      PROVE  DeltasOf(more, kind) = IF c.kind = kind THEN Append(DeltasOf(got, kind), c.part)
                                    ELSE DeltasOf(got, kind)
  <2> DEFINE f == DeltaParts(got, kind)
             g == DeltaParts(more, kind)
  <2>1. f \in Parts(n, S) /\ g \in Parts(n + 1, S)
    <3>1. (\A p \in 1..n : got[p].part \in S) /\ c.part \in S
      OBVIOUS
    <3>2. \A p \in 1..n + 1 : more[p].part \in S
      BY <1>1, <3>1
    <3> HIDE DEF S
    <3>3. (\A p \in 1..n : f[p] \in Seq(S)) /\ \A p \in 1..n + 1 : g[p] \in Seq(S)
      BY <1>1, <3>1, <3>2 DEF DeltaParts
    <3>4. f = [p \in 1..n |-> f[p]] /\ g = [p \in 1..n + 1 |-> g[p]]
      BY <1>1 DEF DeltaParts
    <3> HIDE DEF f, g
    <3>5. QED
      BY <3>3, <3>4 DEF Parts
  <2>2. (\A p \in 1..n : g[p] = f[p]) /\ g[n + 1] = IF c.kind = kind THEN <<c.part>> ELSE <<>>
    BY <1>1 DEF DeltaParts
  <2>3. c.part \in S
    OBVIOUS
  <2> HIDE DEF f, g, S
  <2>4. FlattenSeq(g) = FlattenSeq(f) \o g[n + 1] /\ FlattenSeq(f) \in Seq(S)
    <3>1. n \in Nat /\ \A p \in 1..n : g[p] = f[p]
      BY <1>1, <2>2
    <3> HIDE DEF n
    <3>2. QED
      BY <2>1, <3>1, PartMore
  <2>5. FlattenSeq(f) \o <<>> = FlattenSeq(f) /\ FlattenSeq(f) \o <<c.part>> = Append(FlattenSeq(f), c.part)
    BY <2>3, <2>4
  <2>6. QED
    BY <2>2, <2>4, <2>5 DEF f, g, DeltasOf
<1>3. HeadersOf(more) = IF c.kind = "header" THEN Append(HeadersOf(got), c) ELSE HeadersOf(got)
  <2> DEFINE f == HeaderParts(got)
             g == HeaderParts(more)
  <2>1. f \in Parts(n, M) /\ g \in Parts(n + 1, M)
    <3>1. (\A p \in 1..n : got[p] \in M) /\ c \in M
      BY <1>1 DEF ToSet
    <3>2. \A p \in 1..n + 1 : more[p] \in M
      BY <1>1, <3>1
    <3> HIDE DEF M
    <3>3. (\A p \in 1..n : f[p] \in Seq(M)) /\ \A p \in 1..n + 1 : g[p] \in Seq(M)
      BY <1>1, <3>1, <3>2 DEF HeaderParts
    <3>4. f = [p \in 1..n |-> f[p]] /\ g = [p \in 1..n + 1 |-> g[p]]
      BY <1>1 DEF HeaderParts
    <3> HIDE DEF f, g
    <3>5. QED
      BY <3>3, <3>4 DEF Parts
  <2>2. (\A p \in 1..n : g[p] = f[p]) /\ g[n + 1] = IF c.kind = "header" THEN <<c>> ELSE <<>>
    BY <1>1 DEF HeaderParts
  <2>3. c \in M
    OBVIOUS
  <2> HIDE DEF f, g, M
  <2>4. FlattenSeq(g) = FlattenSeq(f) \o g[n + 1] /\ FlattenSeq(f) \in Seq(M)
    <3>1. n \in Nat /\ \A p \in 1..n : g[p] = f[p]
      BY <1>1, <2>2
    <3> HIDE DEF n
    <3>2. QED
      BY <2>1, <3>1, PartMore
  <2>5. FlattenSeq(f) \o <<>> = FlattenSeq(f) /\ FlattenSeq(f) \o <<c>> = Append(FlattenSeq(f), c)
    BY <2>3, <2>4
  <2>6. QED
    BY <2>2, <2>4, <2>5 DEF f, g, HeadersOf
<1>4. ASSUME NEW t
      PROVE  ArgumentsTo(more, t) = IF c.kind = "arguments" /\ c.tool = t
                                    THEN Append(ArgumentsTo(got, t), c.part) ELSE ArgumentsTo(got, t)
  <2> DEFINE f == ArgumentParts(got, t)
             g == ArgumentParts(more, t)
  <2>1. f \in Parts(n, S) /\ g \in Parts(n + 1, S)
    <3>1. (\A p \in 1..n : got[p].part \in S) /\ c.part \in S
      OBVIOUS
    <3>2. \A p \in 1..n + 1 : more[p].part \in S
      BY <1>1, <3>1
    <3> HIDE DEF S
    <3>3. (\A p \in 1..n : f[p] \in Seq(S)) /\ \A p \in 1..n + 1 : g[p] \in Seq(S)
      BY <1>1, <3>1, <3>2 DEF ArgumentParts
    <3>4. f = [p \in 1..n |-> f[p]] /\ g = [p \in 1..n + 1 |-> g[p]]
      BY <1>1 DEF ArgumentParts
    <3> HIDE DEF f, g
    <3>5. QED
      BY <3>3, <3>4 DEF Parts
  <2>2. /\ \A p \in 1..n : g[p] = f[p]
        /\ g[n + 1] = IF c.kind = "arguments" /\ c.tool = t THEN <<c.part>> ELSE <<>>
    BY <1>1 DEF ArgumentParts
  <2>3. c.part \in S
    OBVIOUS
  <2> HIDE DEF f, g, S
  <2>4. FlattenSeq(g) = FlattenSeq(f) \o g[n + 1] /\ FlattenSeq(f) \in Seq(S)
    <3>1. n \in Nat /\ \A p \in 1..n : g[p] = f[p]
      BY <1>1, <2>2
    <3> HIDE DEF n
    <3>2. QED
      BY <2>1, <3>1, PartMore
  <2>5. FlattenSeq(f) \o <<>> = FlattenSeq(f) /\ FlattenSeq(f) \o <<c.part>> = Append(FlattenSeq(f), c.part)
    BY <2>3, <2>4
  <2>6. QED
    BY <2>2, <2>4, <2>5 DEF f, g, ArgumentsTo
<1>5. more \in Seq(ToSet(more))
  BY OneMore
<1>6. QED
  BY <1>2, <1>3, <1>4, <1>5 DEF Added

-----------------------------------------------------------------------------
(* Calls, and their places among the items.                                *)

CallAt(items, i) == [index |-> i, parts |-> items[i].parts]
CallsOf(items)   == [n \in DOMAIN PlacesOf(items) |-> CallAt(items, PlacesOf(items)[n])]

\* Each call has its place, and each place its call.
Placed(items, places) ==
  /\ DOMAIN places = {i \in DOMAIN items : items[i].kind = "tool"}
  /\ \A i \in DOMAIN places : places[i] \in DOMAIN PlacesOf(items) /\ PlacesOf(items)[places[i]] = i
  /\ \A n \in DOMAIN PlacesOf(items) :
       PlacesOf(items)[n] \in DOMAIN places /\ places[PlacesOf(items)[n]] = n

LEMMA CallsLength ==
  ASSUME NEW items \in Items
  PROVE  /\ Len(PlacesOf(items)) \in Nat /\ DOMAIN PlacesOf(items) = 1..Len(PlacesOf(items))
         /\ Len(CallsOf(items)) = Len(PlacesOf(items)) /\ DOMAIN CallsOf(items) = 1..Len(PlacesOf(items))
<1>1. PlacesOf(items) \in Seq(Nat)
  BY ItemParts
<1>2. Len(PlacesOf(items)) \in Nat /\ DOMAIN PlacesOf(items) = 1..Len(PlacesOf(items))
  BY <1>1
<1>3. DOMAIN CallsOf(items) = 1..Len(PlacesOf(items))
  BY <1>2 DEF CallsOf
<1>4. QED
  BY <1>2, <1>3

\* An item more.
LEMMA CallsMore ==
  ASSUME NEW items \in Items, NEW item \in [kind : Kinds, parts : Seq(Nat)], item.parts = <<>>,
         NEW places, Placed(items, places), NEW more, more = Append(items, item)
  PROVE  CallsOf(more) = IF item.kind = "tool"
                         THEN Append(CallsOf(items), [index |-> Len(items) + 1, parts |-> <<>>])
                         ELSE CallsOf(items)
<1> DEFINE T == [kind : Kinds, parts : Seq(Nat)]
           n == Len(items)
           before == PlacesOf(items)
           after  == PlacesOf(more)
           k == Len(before)
           call == [index |-> n + 1, parts |-> <<>>]
<1>1. /\ n \in Nat /\ DOMAIN items = 1..n /\ more \in Items
      /\ (\A i \in 1..n : more[i] = items[i]) /\ more[n + 1] = item
  <2>1. items \in Seq(T) /\ item \in T
    BY DEF Items
  <2> HIDE DEF T
  <2>2. /\ more \in Seq(T)
        /\ (\A i \in 1..n : more[i] = items[i]) /\ more[n + 1] = item
    BY <2>1, AppendProperties
  <2>3. QED
    BY <2>1, <2>2 DEF Items, T
<1>2. after = IF item.kind = "tool" THEN Append(before, n + 1) ELSE before
  BY ItemMore
<1>3. before \in Seq(Nat) /\ k \in Nat /\ DOMAIN before = 1..k
  BY ItemParts
<1>4. \A m \in 1..k : before[m] \in 1..n
  BY <1>1, <1>3 DEF Placed
<1> HIDE DEF before, after, n
<1>5. \A m \in 1..k : CallAt(more, before[m]) = CallAt(items, before[m])
  BY <1>1, <1>4 DEF CallAt
<1>6. CallsOf(items) = [m \in 1..k |-> CallAt(items, before[m])]
  BY <1>3 DEF CallsOf, before
<1>7. CASE item.kind # "tool"
  <2>1. CallsOf(more) = [m \in 1..k |-> CallAt(more, before[m])]
    BY <1>2, <1>3, <1>7 DEF CallsOf, after
  <2>2. QED
    BY <1>5, <1>6, <1>7, <2>1
<1>8. CASE item.kind = "tool"
  <2>1. /\ DOMAIN after = 1..k + 1 /\ after[k + 1] = n + 1
        /\ \A m \in 1..k : after[m] = before[m]
    BY <1>1, <1>2, <1>3, <1>8
  <2>2. CallsOf(more) = [m \in 1..k + 1 |-> CallAt(more, after[m])]
    BY <2>1 DEF CallsOf, after
  <2>3. CallAt(more, n + 1) = call
    BY <1>1 DEF CallAt, n
  <2> DEFINE l == CallsOf(items)
             C == {l[m] : m \in 1..k} \cup {call}
             r == Append(l, call)
  <2>4. l = [m \in 1..k |-> CallAt(items, before[m])]
    BY <1>6
  <2> HIDE DEF l, call
  <2>5. (\A m \in 1..k : l[m] \in C /\ l[m] = CallAt(items, before[m])) /\ call \in C
    BY <2>4
  <2> HIDE DEF C
  <2>6. l \in [1..k -> C]
    BY <2>4, <2>5
  <2>7. l \in Seq(C) /\ Len(l) = k
    <3>1. k \in Nat
      BY <1>3
    <3> HIDE DEF k
    <3>2. QED
      BY <2>6, <3>1
  <2>8. /\ r \in Seq(C) /\ Len(r) = k + 1 /\ r[k + 1] = call
        /\ \A m \in 1..k : r[m] = l[m]
    BY <2>5, <2>7, AppendProperties
  <2> HIDE DEF r
  <2>9. r = [m \in 1..k + 1 |-> r[m]]
    BY <2>8
  <2>10. \A m \in 1..k + 1 : r[m] = CallAt(more, after[m])
    <3> TAKE m \in 1..k + 1
    <3>1. m = k + 1 \/ m \in 1..k
      BY <1>3
    <3>2. CASE m = k + 1
      BY <2>1, <2>3, <2>8, <3>2
    <3>3. CASE m \in 1..k
      BY <1>5, <2>1, <2>5, <2>8, <3>3
    <3>4. QED
      BY <3>1, <3>2, <3>3
  <2>11. CallsOf(more) = r
    BY <2>2, <2>9, <2>10
  <2>12. QED
    BY <1>8, <2>11 DEF n, l, r, call
<1>9. QED
  BY <1>7, <1>8

\* The places then.
LEMMA PlacedMore ==
  ASSUME NEW items \in Items, NEW item \in [kind : Kinds, parts : Seq(Nat)], item.parts = <<>>,
         NEW places, Placed(items, places), NEW more, more = Append(items, item),
         NEW now, now = IF item.kind = "tool"
                        THEN [i \in DOMAIN places \cup {Len(items) + 1} |->
                                IF i = Len(items) + 1 THEN Len(PlacesOf(items)) + 1 ELSE places[i]]
                        ELSE places
  PROVE  Placed(more, now)
<1> DEFINE T == [kind : Kinds, parts : Seq(Nat)]
           n == Len(items)
           before == PlacesOf(items)
           after  == PlacesOf(more)
           k == Len(before)
<1>1. /\ n \in Nat /\ DOMAIN items = 1..n /\ DOMAIN more = 1..n + 1
      /\ (\A i \in 1..n : more[i] = items[i]) /\ more[n + 1] = item
  <2>1. items \in Seq(T) /\ item \in T
    BY DEF Items
  <2> HIDE DEF T
  <2>2. /\ more \in Seq(T) /\ Len(more) = n + 1
        /\ (\A i \in 1..n : more[i] = items[i]) /\ more[n + 1] = item
    BY <2>1, AppendProperties
  <2>3. QED
    BY <2>1, <2>2
<1>2. after = IF item.kind = "tool" THEN Append(before, n + 1) ELSE before
  BY ItemMore
<1>3. before \in Seq(Nat) /\ k \in Nat /\ DOMAIN before = 1..k
  BY ItemParts
<1>4. /\ DOMAIN places = {i \in 1..n : items[i].kind = "tool"}
      /\ \A i \in DOMAIN places : places[i] \in 1..k /\ before[places[i]] = i
      /\ \A m \in 1..k : before[m] \in DOMAIN places /\ places[before[m]] = m
  BY <1>1, <1>3 DEF Placed
<1> HIDE DEF before, after, n
<1>5. CASE item.kind # "tool"
  <2>1. after = before /\ now = places
    BY <1>2, <1>5
  <2>2. DOMAIN places = {i \in 1..n + 1 : more[i].kind = "tool"}
    BY <1>1, <1>4, <1>5
  <2>3. QED
    BY <1>1, <1>3, <1>4, <2>1, <2>2 DEF Placed, after
<1>6. CASE item.kind = "tool"
  <2>1. /\ DOMAIN after = 1..k + 1 /\ after[k + 1] = n + 1
        /\ \A m \in 1..k : after[m] = before[m]
    BY <1>1, <1>2, <1>3, <1>6
  <2>2. /\ DOMAIN now = DOMAIN places \cup {n + 1} /\ now[n + 1] = k + 1
        /\ \A i \in DOMAIN places : i # n + 1 /\ now[i] = places[i]
    BY <1>1, <1>4, <1>6 DEF n, before
  <2>3. DOMAIN now = {i \in 1..n + 1 : more[i].kind = "tool"}
    BY <1>1, <1>4, <1>6, <2>2
  <2>4. \A i \in DOMAIN now : now[i] \in 1..k + 1 /\ after[now[i]] = i
    BY <1>3, <1>4, <2>1, <2>2
  <2>5. \A m \in 1..k + 1 : after[m] \in DOMAIN now /\ now[after[m]] = m
    <3> TAKE m \in 1..k + 1
    <3>1. CASE m = k + 1
      BY <2>1, <2>2, <3>1
    <3>2. CASE m \in 1..k
      BY <1>4, <2>1, <2>2, <3>2
    <3>3. QED
      BY <1>3, <3>1, <3>2
  <2>6. QED
    BY <1>1, <2>1, <2>3, <2>4, <2>5 DEF Placed, after
<1>7. QED
  BY <1>5, <1>6

\* A fragment more.
LEMMA CallsLonger ==
  ASSUME NEW items, NEW i, NEW c, NEW said, NEW more, Spoken(items, i, c, said, more),
         NEW places, Placed(items, places)
  PROVE  /\ Placed(more, places)
         /\ said.kind = "tool" =>
              /\ i \in DOMAIN places /\ places[i] \in DOMAIN CallsOf(items)
              /\ CallsOf(more) = [CallsOf(items) EXCEPT ![places[i]].parts = Append(@, c)]
         /\ said.kind # "tool" => CallsOf(more) = CallsOf(items)
<1> DEFINE T == [kind : Kinds, parts : Seq(Nat)]
           n == Len(items)
           before == PlacesOf(items)
           k == Len(before)
<1>0. /\ items \in Items /\ i \in 1..n /\ c \in Nat
      /\ said \in T /\ said.kind = items[i].kind /\ said.parts = Append(items[i].parts, c)
      /\ more = [items EXCEPT ![i] = said]
  BY DEF Spoken
<1>1. /\ DOMAIN items = 1..n /\ DOMAIN more = 1..n /\ n \in Nat
      /\ \A j \in 1..n : more[j] = IF j = i THEN said ELSE items[j]
  <2>1. items \in Seq(T) /\ said \in T
    BY <1>0 DEF Items
  <2> HIDE DEF T
  <2>2. QED
    BY <1>0, <2>1
<1>2. PlacesOf(more) = before
  BY ItemLonger
<1>3. before \in Seq(Nat) /\ k \in Nat /\ DOMAIN before = 1..k
  BY <1>0, ItemParts
<1>4. /\ DOMAIN places = {j \in 1..n : items[j].kind = "tool"}
      /\ \A j \in DOMAIN places : places[j] \in 1..k /\ before[places[j]] = j
      /\ \A m \in 1..k : before[m] \in DOMAIN places /\ places[before[m]] = m
  BY <1>1, <1>3 DEF Placed
<1>5. CallsOf(more) = [m \in 1..k |-> CallAt(more, before[m])]
  BY <1>2, <1>3 DEF CallsOf
<1>6. CallsOf(items) = [m \in 1..k |-> CallAt(items, before[m])]
  BY <1>3 DEF CallsOf
<1>7. Placed(more, places)
  <2>1. DOMAIN places = {j \in 1..n : more[j].kind = "tool"}
    BY <1>0, <1>1, <1>4
  <2> HIDE DEF before
  <2>2. QED
    BY <1>1, <1>2, <1>3, <1>4, <2>1 DEF Placed
<1> HIDE DEF before, n
<1>8. ASSUME said.kind = "tool"
      PROVE  /\ i \in DOMAIN places /\ places[i] \in DOMAIN CallsOf(items)
             /\ CallsOf(more) = [CallsOf(items) EXCEPT ![places[i]].parts = Append(@, c)]
  <2>1. i \in DOMAIN places /\ places[i] \in 1..k /\ DOMAIN CallsOf(items) = 1..k
    BY <1>0, <1>1, <1>4, <1>6, <1>8 DEF n
  <2>2. \A m \in 1..k : (before[m] = i) <=> (m = places[i])
    BY <1>4, <2>1
  <2> DEFINE l == CallsOf(items)
  <2>3. \A m \in 1..k : l[m] = CallAt(items, before[m])
    BY <1>6
  <2>4. \A m \in 1..k : m # places[i] => CallAt(more, before[m]) = CallAt(items, before[m])
    BY <1>1, <1>4, <2>2 DEF CallAt
  <2>5. CallAt(more, i) = [CallAt(items, i) EXCEPT !.parts = Append(@, c)]
    <3>1. more[i] = said /\ said.parts = Append(items[i].parts, c)
      BY <1>0, <1>1
    <3>2. CallAt(more, i) = [index |-> i, parts |-> Append(items[i].parts, c)]
      BY <3>1 DEF CallAt
    <3> DEFINE parts == items[i].parts
               x == Append(parts, c)
    <3>3. CallAt(more, i) = [index |-> i, parts |-> x] /\ CallAt(items, i) = [index |-> i, parts |-> parts]
      BY <3>2 DEF CallAt
    <3>4. [CallAt(items, i) EXCEPT !.parts = Append(@, c)] = [CallAt(items, i) EXCEPT !.parts = x]
      BY <3>3
    <3> HIDE DEF parts, x
    <3>5. QED
      BY <3>3, <3>4
  <2> HIDE DEF l
  <2>6. l = [m \in 1..k |-> l[m]]
    BY <1>6 DEF l
  <2>7. [l EXCEPT ![places[i]].parts = Append(@, c)]
          = [m \in 1..k |-> IF m = places[i] THEN [l[m] EXCEPT !.parts = Append(@, c)] ELSE l[m]]
    BY <2>6
  <2>8. \A m \in 1..k : CallAt(more, before[m])
                        = IF m = places[i] THEN [l[m] EXCEPT !.parts = Append(@, c)] ELSE l[m]
    <3> TAKE m \in 1..k
    <3>1. CASE m = places[i]
      <4>1. before[m] = i /\ l[m] = CallAt(items, i)
        BY <2>2, <2>3, <3>1 DEF l
      <4>2. QED
        BY <2>5, <3>1, <4>1
    <3>2. CASE m # places[i]
      <4>1. l[m] = CallAt(items, before[m])
        BY <2>3 DEF l
      <4>2. QED
        BY <2>4, <3>2, <4>1
    <3>3. QED
      BY <3>1, <3>2
  <2>9. CallsOf(more) = [l EXCEPT ![places[i]].parts = Append(@, c)]
    BY <1>5, <2>7, <2>8
  <2>10. QED
    BY <2>1, <2>9 DEF l
<1>9. ASSUME said.kind # "tool" PROVE CallsOf(more) = CallsOf(items)
  <2>1. \A m \in 1..k : before[m] # i /\ before[m] \in 1..n
    BY <1>0, <1>4, <1>9
  <2>2. \A m \in 1..k : CallAt(more, before[m]) = CallAt(items, before[m])
    BY <1>1, <2>1 DEF CallAt
  <2>3. QED
    BY <1>5, <1>6, <2>2
<1>10. QED
  BY <1>7, <1>8, <1>9

-----------------------------------------------------------------------------
(* What each form tells of the items.                                      *)

HeaderOf(items, n) == HeaderChunk(n - 1, PlacesOf(items)[n])

StreamTells(items, got) ==
  /\ got \in Seq(ToSet(got))
  /\ \A kind \in Deltas : DeltasOf(got, kind) = TextOf(items, kind)
  /\ HeadersOf(got) = [n \in DOMAIN PlacesOf(items) |-> HeaderOf(items, n)]
  /\ \A t \in Nat : ArgumentsTo(got, t) = IF t + 1 \in DOMAIN PlacesOf(items)
                                          THEN items[PlacesOf(items)[t + 1]].parts ELSE <<>>

\* Chunks that say nothing of the items.
SameTold(got, more) ==
  /\ more \in Seq(ToSet(more))
  /\ \A kind \in Deltas : DeltasOf(more, kind) = DeltasOf(got, kind)
  /\ HeadersOf(more) = HeadersOf(got)
  /\ \A t : ArgumentsTo(more, t) = ArgumentsTo(got, t)

LEMMA QuietChunk ==
  ASSUME NEW got, got \in Seq(ToSet(got)), NEW c, c.kind \notin Output
  PROVE  SameTold(got, Append(got, c))
<1>1. Added(got, c, Append(got, c))
  BY ChunkAdded
<1>2. c.kind \notin Deltas /\ c.kind # "header" /\ c.kind # "arguments"
  BY DEF Output
<1>3. QED
  BY <1>1, <1>2 DEF SameTold, Added

LEMMA QuietTells ==
  ASSUME NEW items, NEW got, NEW more, StreamTells(items, got), SameTold(got, more)
  PROVE  StreamTells(items, more)
  BY DEF StreamTells, SameTold

\* A list and one member more, by what stands in each place.
OneLonger(k, l, c, f) ==
  /\ k \in Nat
  /\ DOMAIN l = 1..k /\ l = [n \in 1..k |-> l[n]]
  /\ DOMAIN f = 1..k + 1 /\ f = [n \in 1..k + 1 |-> f[n]]
  /\ (\A n \in 1..k : f[n] = l[n]) /\ f[k + 1] = c

LEMMA ListMore ==
  ASSUME NEW k, NEW l, NEW c, NEW f, OneLonger(k, l, c, f)
  PROVE  f = Append(l, c)
<1> DEFINE C == {l[n] : n \in 1..k} \cup {c}
           r == Append(l, c)
<1>8. /\ k \in Nat
      /\ DOMAIN l = 1..k /\ l = [n \in 1..k |-> l[n]]
      /\ DOMAIN f = 1..k + 1 /\ f = [n \in 1..k + 1 |-> f[n]]
      /\ (\A n \in 1..k : f[n] = l[n]) /\ f[k + 1] = c
  BY DEF OneLonger
<1>1. (\A n \in 1..k : l[n] \in C) /\ c \in C
  BY <1>8
<1> HIDE DEF C
<1>0. \A n \in 1..k + 1 : f[n] \in C
  <2> TAKE n \in 1..k + 1
  <2>1. n = k + 1 \/ n \in 1..k
    BY <1>8
  <2>2. QED
    BY <1>1, <1>8, <2>1
<1>2. l \in [1..k -> C] /\ f \in [1..k + 1 -> C]
  BY <1>0, <1>1, <1>8
<1>3. l \in Seq(C) /\ Len(l) = k /\ f \in Seq(C) /\ Len(f) = k + 1
  BY <1>2, <1>8
<1>4. /\ r \in Seq(C) /\ Len(r) = k + 1 /\ r[k + 1] = c
      /\ \A n \in 1..k : r[n] = l[n]
  BY <1>1, <1>3, AppendProperties
<1> HIDE DEF r
<1>5. \A n \in 1..k + 1 : f[n] = r[n]
  <2> TAKE n \in 1..k + 1
  <2>1. n = k + 1 \/ n \in 1..k
    BY <1>8
  <2>2. QED
    BY <1>4, <1>8, <2>1
<1>6. f = r
  BY <1>3, <1>4, <1>5, SeqEqual
<1>7. QED
  BY <1>6 DEF r

\* An item that is no call begins.
LEMMA StreamItem ==
  ASSUME NEW items \in Items, NEW item \in [kind : Kinds, parts : Seq(Nat)], item.parts = <<>>,
         item.kind # "tool", NEW places, Placed(items, places), NEW more, more = Append(items, item),
         NEW got, StreamTells(items, got)
  PROVE  StreamTells(more, got)
<1> DEFINE T == [kind : Kinds, parts : Seq(Nat)]
           n == Len(items)
           before == PlacesOf(items)
<1>1. n \in Nat /\ DOMAIN items = 1..n /\ \A i \in 1..n : more[i] = items[i]
  <2>1. items \in Seq(T) /\ item \in T
    BY DEF Items
  <2> HIDE DEF T
  <2>2. QED
    BY <2>1, AppendProperties
<1>2. PlacesOf(more) = before /\ \A kind : TextOf(more, kind) = TextOf(items, kind)
  BY ItemMore
<1>3. \A m \in DOMAIN before : before[m] \in 1..n
  BY <1>1 DEF Placed
<1>4. \A m \in DOMAIN before : HeaderOf(more, m) = HeaderOf(items, m)
  BY <1>2 DEF HeaderOf
<1>5. \A t \in Nat : t + 1 \in DOMAIN before => more[before[t + 1]] = items[before[t + 1]]
  BY <1>1, <1>3
<1> HIDE DEF before, n
<1>6. /\ got \in Seq(ToSet(got))
      /\ \A kind \in Deltas : DeltasOf(got, kind) = TextOf(more, kind)
  BY <1>2 DEF StreamTells
<1>7. HeadersOf(got) = [m \in DOMAIN before |-> HeaderOf(more, m)]
  <2>1. HeadersOf(got) = [m \in DOMAIN before |-> HeaderOf(items, m)]
    BY DEF StreamTells, before
  <2>2. QED
    BY <1>4, <2>1
<1>8. \A t \in Nat : ArgumentsTo(got, t) = IF t + 1 \in DOMAIN before THEN more[before[t + 1]].parts ELSE <<>>
  <2>1. \A t \in Nat : ArgumentsTo(got, t) = IF t + 1 \in DOMAIN before THEN items[before[t + 1]].parts ELSE <<>>
    BY DEF StreamTells, before
  <2>2. QED
    BY <1>5, <2>1
<1>9. QED
  BY <1>2, <1>6, <1>7, <1>8 DEF StreamTells

\* A call begins, and its header is sent.
LEMMA StreamCall ==
  ASSUME NEW items \in Items, NEW item \in [kind : Kinds, parts : Seq(Nat)], item.parts = <<>>,
         item.kind = "tool", NEW places, Placed(items, places), NEW more, more = Append(items, item),
         NEW got, StreamTells(items, got),
         NEW c, c = HeaderChunk(Len(PlacesOf(items)), Len(items) + 1)
  PROVE  StreamTells(more, Append(got, c))
<1> DEFINE T == [kind : Kinds, parts : Seq(Nat)]
           n == Len(items)
           before == PlacesOf(items)
           after == PlacesOf(more)
           k == Len(before)
           longer == Append(got, c)
<1>1. /\ n \in Nat /\ DOMAIN items = 1..n /\ \A i \in 1..n : more[i] = items[i]
  <2>1. items \in Seq(T) /\ item \in T
    BY DEF Items
  <2> HIDE DEF T
  <2>2. QED
    BY <2>1, AppendProperties
<1>2. more[n + 1] = item
  <2>1. items \in Seq(T) /\ item \in T
    BY DEF Items
  <2> HIDE DEF T
  <2>2. QED
    BY <2>1, AppendProperties
<1>3. after = Append(before, n + 1) /\ \A kind : TextOf(more, kind) = TextOf(items, kind)
  BY ItemMore
<1>4. before \in Seq(Nat) /\ k \in Nat /\ DOMAIN before = 1..k
  BY ItemParts
<1>5. \A m \in 1..k : before[m] \in 1..n
  BY <1>1, <1>4 DEF Placed
<1> HIDE DEF before, after, n
<1>6. /\ DOMAIN after = 1..k + 1 /\ after[k + 1] = n + 1
      /\ \A m \in 1..k : after[m] = before[m]
  BY <1>1, <1>3, <1>4
<1>7. got \in Seq(ToSet(got)) /\ longer \in Seq(ToSet(longer))
  BY OneMore DEF StreamTells
<1>8. c.kind = "header" /\ c.kind \notin Deltas /\ c.kind # "arguments"
  BY DEF HeaderChunk, Deltas
<1>9. c = HeaderOf(more, k + 1)
  <2>1. HeaderOf(more, k + 1) = HeaderChunk(k + 1 - 1, n + 1)
    BY <1>6 DEF HeaderOf, after
  <2>2. k + 1 - 1 = k
    BY <1>4
  <2>3. QED
    BY <2>1, <2>2 DEF before, n
<1>10. \A m \in 1..k : HeaderOf(more, m) = HeaderOf(items, m)
  BY <1>6 DEF HeaderOf, before, after
<1> HIDE DEF longer
<1>11. /\ \A kind \in Deltas : DeltasOf(longer, kind) = DeltasOf(got, kind)
       /\ HeadersOf(longer) = Append(HeadersOf(got), c)
       /\ \A t : ArgumentsTo(longer, t) = ArgumentsTo(got, t)
  <2>1. Added(got, c, longer)
    BY <1>7, ChunkAdded DEF longer
  <2>2. QED
    BY <1>8, <2>1 DEF Added
<1>12. HeadersOf(longer) = [m \in DOMAIN after |-> HeaderOf(more, m)]
  <2> DEFINE l == HeadersOf(got)
             f == [m \in 1..k + 1 |-> HeaderOf(more, m)]
  <2>1. l = [m \in 1..k |-> HeaderOf(items, m)]
    BY <1>4 DEF StreamTells, before
  <2> HIDE DEF l
  <2>2. DOMAIN l = 1..k /\ l = [m \in 1..k |-> l[m]] /\ \A m \in 1..k : l[m] = HeaderOf(items, m)
    BY <2>1
  <2>3. /\ DOMAIN f = 1..k + 1 /\ f = [m \in 1..k + 1 |-> f[m]]
        /\ \A m \in 1..k + 1 : f[m] = HeaderOf(more, m)
    OBVIOUS
  <2> HIDE DEF f
  <2>5. k \in Nat
    BY <1>4
  <2>8. \A m \in 1..k : l[m] = HeaderOf(items, m)
    BY <2>2
  <2>9. \A m \in 1..k + 1 : f[m] = HeaderOf(more, m)
    BY <2>3
  <2>10. c = HeaderOf(more, k + 1) /\ \A m \in 1..k : HeaderOf(more, m) = HeaderOf(items, m)
    BY <1>9, <1>10
  <2> HIDE DEF k
  <2>4. (\A m \in 1..k : f[m] = l[m]) /\ f[k + 1] = c
    <3>1. k + 1 \in 1..k + 1 /\ \A m \in 1..k : m \in 1..k + 1
      BY <2>5
    <3>2. QED
      BY <2>8, <2>9, <2>10, <3>1
  <2>6. f = Append(l, c)
    <3>1. OneLonger(k, l, c, f)
      BY <2>2, <2>3, <2>4, <2>5 DEF OneLonger
    <3>2. QED
      BY <3>1, ListMore
  <2>7. QED
    BY <1>6, <1>11, <2>6 DEF f, l
<1>13. ASSUME NEW t \in Nat
       PROVE  ArgumentsTo(longer, t) = IF t + 1 \in DOMAIN after THEN more[after[t + 1]].parts ELSE <<>>
  <2>1. ArgumentsTo(longer, t) = IF t + 1 \in 1..k THEN items[before[t + 1]].parts ELSE <<>>
    BY <1>4, <1>11 DEF StreamTells, before
  <2>2. CASE t + 1 \in 1..k
    <3>1. more[after[t + 1]] = items[before[t + 1]] /\ t + 1 \in 1..k + 1
      BY <1>1, <1>4, <1>5, <1>6, <2>2
    <3>2. QED
      BY <1>6, <2>1, <2>2, <3>1
  <2>3. CASE t + 1 = k + 1
    <3>1. t + 1 \in 1..k + 1 /\ t + 1 \notin 1..k
      BY <1>4, <2>3
    <3>2. more[after[t + 1]].parts = <<>>
      BY <1>2, <1>6, <2>3
    <3>3. QED
      BY <1>6, <2>1, <3>1, <3>2
  <2>4. CASE t + 1 \notin 1..k /\ t + 1 # k + 1
    <3>1. t + 1 \notin 1..k + 1
      BY <1>4, <2>4
    <3>2. QED
      BY <1>6, <2>1, <2>4, <3>1
  <2>5. QED
    BY <2>2, <2>3, <2>4
<1>14. \A kind \in Deltas : DeltasOf(longer, kind) = TextOf(more, kind)
  BY <1>3, <1>11 DEF StreamTells
<1>15. QED
  BY <1>7, <1>12, <1>13, <1>14 DEF StreamTells, after, longer

\* A fragment of a text, and its chunk.
LEMMA StreamText ==
  ASSUME NEW items, NEW i, NEW n, NEW said, NEW more, Spoken(items, i, n, said, more),
         NEW places, Placed(items, places), said.kind # "tool",
         NEW got, StreamTells(items, got), NEW c, c = DeltaChunk(said.kind, n)
  PROVE  StreamTells(more, Append(got, c))
<1> DEFINE before == PlacesOf(items)
           longer == Append(got, c)
<1>1. /\ PlacesOf(more) = before
      /\ \A kind \in Deltas :
           TextOf(more, kind) = IF said.kind = kind THEN Append(TextOf(items, kind), n) ELSE TextOf(items, kind)
  BY ItemLonger
<1>2. /\ \A j \in DOMAIN items : j # i => more[j] = items[j]
      /\ said.kind \in Kinds /\ said.kind = items[i].kind
  BY DEF Spoken
<1>3. \A m \in DOMAIN before : more[before[m]] = items[before[m]]
  BY <1>2 DEF Placed
<1>4. c.kind = said.kind /\ c.part = n /\ c.kind \in Deltas /\ c.kind # "header" /\ c.kind # "arguments"
  BY <1>2 DEF DeltaChunk, Deltas, Kinds
<1>5. got \in Seq(ToSet(got)) /\ longer \in Seq(ToSet(longer))
  BY OneMore DEF StreamTells
<1> HIDE DEF longer, before
<1>6. /\ \A kind \in Deltas :
           DeltasOf(longer, kind) = IF c.kind = kind THEN Append(DeltasOf(got, kind), c.part) ELSE DeltasOf(got, kind)
      /\ HeadersOf(longer) = HeadersOf(got)
      /\ \A t : ArgumentsTo(longer, t) = ArgumentsTo(got, t)
  <2>1. Added(got, c, longer)
    BY <1>5, ChunkAdded DEF longer
  <2>2. QED
    BY <1>4, <2>1 DEF Added
<1>7. \A kind \in Deltas : DeltasOf(longer, kind) = TextOf(more, kind)
  BY <1>1, <1>4, <1>6 DEF StreamTells
<1>8. \A m : HeaderOf(more, m) = HeaderOf(items, m)
  BY <1>1 DEF HeaderOf, before
<1>9. HeadersOf(longer) = [m \in DOMAIN before |-> HeaderOf(more, m)]
  <2>1. HeadersOf(longer) = [m \in DOMAIN before |-> HeaderOf(items, m)]
    BY <1>6 DEF StreamTells, before
  <2>2. QED
    BY <1>8, <2>1
<1>10. \A t \in Nat : ArgumentsTo(longer, t) =
                        IF t + 1 \in DOMAIN before THEN more[before[t + 1]].parts ELSE <<>>
  <2>1. \A t \in Nat : ArgumentsTo(longer, t) =
                         IF t + 1 \in DOMAIN before THEN items[before[t + 1]].parts ELSE <<>>
    BY <1>6 DEF StreamTells, before
  <2>2. QED
    BY <1>3, <2>1
<1>11. QED
  BY <1>1, <1>5, <1>7, <1>9, <1>10 DEF StreamTells, longer

\* A fragment of a call's arguments, and its chunk.
LEMMA StreamArguments ==
  ASSUME NEW items, NEW i, NEW n, NEW said, NEW more, Spoken(items, i, n, said, more),
         NEW places, Placed(items, places), said.kind = "tool",
         NEW got, StreamTells(items, got), NEW c, c = ArgumentsChunk(places[i] - 1, n)
  PROVE  StreamTells(more, Append(got, c))
<1> DEFINE before == PlacesOf(items)
           longer == Append(got, c)
           k == Len(before)
<1>0. /\ items \in Items /\ i \in 1..Len(items) /\ DOMAIN items = 1..Len(items)
      /\ said.kind = items[i].kind /\ said.parts = Append(items[i].parts, n)
      /\ more = [items EXCEPT ![i] = said]
  BY ItemParts DEF Spoken
<1>1. /\ PlacesOf(more) = before
      /\ \A kind \in Deltas : TextOf(more, kind) = TextOf(items, kind)
  BY ItemLonger DEF Deltas
<1>2. before \in Seq(Nat) /\ k \in Nat /\ DOMAIN before = 1..k
  BY <1>0, ItemParts
<1>3. /\ i \in DOMAIN places
      /\ \A j \in DOMAIN places : places[j] \in 1..k /\ before[places[j]] = j
      /\ \A m \in 1..k : before[m] \in DOMAIN items /\ places[before[m]] = m
  BY <1>0, <1>2 DEF Placed
<1>4. c.kind = "arguments" /\ c.tool = places[i] - 1 /\ c.part = n /\ c.kind \notin Deltas /\ c.kind # "header"
  BY DEF ArgumentsChunk, Deltas
<1>5. got \in Seq(ToSet(got)) /\ longer \in Seq(ToSet(longer))
  BY OneMore DEF StreamTells
<1> HIDE DEF longer, before
<1>6. /\ \A kind \in Deltas : DeltasOf(longer, kind) = DeltasOf(got, kind)
      /\ HeadersOf(longer) = HeadersOf(got)
      /\ \A t : ArgumentsTo(longer, t) = IF c.tool = t THEN Append(ArgumentsTo(got, t), n) ELSE ArgumentsTo(got, t)
  <2>1. Added(got, c, longer)
    BY <1>5, ChunkAdded DEF longer
  <2>2. QED
    BY <1>4, <2>1 DEF Added
<1>7. \A kind \in Deltas : DeltasOf(longer, kind) = TextOf(more, kind)
  BY <1>1, <1>6 DEF StreamTells
<1>8. \A m : HeaderOf(more, m) = HeaderOf(items, m)
  BY <1>1 DEF HeaderOf, before
<1>9. HeadersOf(longer) = [m \in DOMAIN before |-> HeaderOf(more, m)]
  <2>1. HeadersOf(longer) = [m \in DOMAIN before |-> HeaderOf(items, m)]
    BY <1>6 DEF StreamTells, before
  <2>2. QED
    BY <1>8, <2>1
<1>10. ASSUME NEW t \in Nat
       PROVE  ArgumentsTo(longer, t) = IF t + 1 \in DOMAIN before THEN more[before[t + 1]].parts ELSE <<>>
  <2>1. ArgumentsTo(got, t) = IF t + 1 \in DOMAIN before THEN items[before[t + 1]].parts ELSE <<>>
    BY DEF StreamTells, before
  <2>2. CASE c.tool = t
    <3>1. t + 1 = places[i] /\ t + 1 \in DOMAIN before /\ before[t + 1] = i
      BY <1>2, <1>3, <1>4, <2>2
    <3>2. more[i].parts = Append(items[i].parts, n)
      BY <1>0
    <3>3. QED
      BY <1>6, <2>1, <2>2, <3>1, <3>2
  <2>3. CASE c.tool # t
    <3>1. t + 1 # places[i]
      BY <1>2, <1>3, <1>4, <2>3
    <3>2. t + 1 \in DOMAIN before => more[before[t + 1]] = items[before[t + 1]]
      BY <1>0, <1>2, <1>3, <3>1
    <3>3. QED
      BY <1>6, <2>1, <2>3, <3>2
  <2>4. QED
    BY <2>2, <2>3
<1>11. QED
  BY <1>1, <1>5, <1>7, <1>9, <1>10 DEF StreamTells, longer

-----------------------------------------------------------------------------
(* What the buffered completion tells of the items.                        *)

ChatFields == {"message", "refusal", "reasoning", "tools", "toolOf", "status", "reason", "result"}

ChatTells(items, h) ==
  /\ DOMAIN h = ChatFields
  /\ \A kind \in Deltas : h[kind] = TextOf(items, kind)
  /\ h.tools = CallsOf(items) /\ Placed(items, h.toolOf)

\* The place of the next call.
NextPlaced(items, item, places, now) ==
  now = IF item.kind = "tool"
        THEN [i \in DOMAIN places \cup {Len(items) + 1} |->
                IF i = Len(items) + 1 THEN Len(PlacesOf(items)) + 1 ELSE places[i]]
        ELSE places

\* The result is none of it.
LEMMA ChatResulted ==
  ASSUME NEW items, NEW o, ChatTells(items, o), NEW v
  PROVE  /\ ChatTells(items, [o EXCEPT !.result = v])
         /\ [o EXCEPT !.result = v].toolOf = o.toolOf
<1> DEFINE h == [o EXCEPT !.result = v]
<1>1. /\ DOMAIN h = ChatFields /\ h.tools = o.tools /\ h.toolOf = o.toolOf
      /\ \A kind \in Deltas : h[kind] = o[kind]
  BY DEF ChatTells, ChatFields, Deltas
<1> HIDE DEF h
<1>2. ChatTells(items, h) /\ h.toolOf = o.toolOf
  BY <1>1 DEF ChatTells
<1>3. QED
  BY <1>2 DEF h

\* An item begins.
LEMMA ChatItem ==
  ASSUME NEW items \in Items, NEW item \in [kind : Kinds, parts : Seq(Nat)], item.parts = <<>>,
         ChatTells(items, chat), NEW more, more = Append(items, item),
         NEW e, e.type = "added", e.kind = item.kind, e.index = Len(items) + 1
  PROVE  /\ ChatTells(more, Observe(e))
         /\ NextPlaced(items, item, chat.toolOf, Observe(e).toolOf)
<1> DEFINE n == Len(items) + 1
           places == chat.toolOf
           o == Observe(e)
           now == o.toolOf
<1>1. DOMAIN chat = ChatFields /\ chat.tools = CallsOf(items) /\ Placed(items, places)
      /\ \A kind \in Deltas : chat[kind] = TextOf(items, kind)
  BY DEF ChatTells
<1>2. n \notin DOMAIN places
  <2>1. Len(items) \in Nat /\ DOMAIN items = 1..Len(items)
    BY ItemParts
  <2>2. QED
    BY <1>1, <2>1 DEF Placed
<1>3. Len(chat.tools) = Len(PlacesOf(items))
  BY <1>1, CallsLength
<1>4. /\ DOMAIN o = ChatFields
      /\ \A kind \in Deltas : o[kind] = chat[kind]
      /\ o.tools = IF item.kind = "tool" THEN Append(chat.tools, [index |-> n, parts |-> <<>>]) ELSE chat.tools
      /\ now = IF item.kind = "tool"
               THEN [i \in DOMAIN places \cup {n} |-> IF i = n THEN Len(chat.tools) + 1 ELSE places[i]]
               ELSE places
  <2>1. CASE item.kind = "tool"
    <3>1. o = [chat EXCEPT !.tools = Append(@, [index |-> n, parts |-> <<>>]),
                           !.toolOf = [i \in DOMAIN @ \cup {n} |-> IF i = n THEN Len(chat.tools) + 1 ELSE @[i]]]
      BY <1>2, <2>1 DEF Observe, Ends
    <3> HIDE DEF o, n
    <3>2. QED
      BY <1>1, <2>1, <3>1 DEF ChatFields, Deltas
  <2>2. CASE item.kind # "tool"
    <3>1. o = chat
      BY <2>2 DEF Observe, Ends
    <3>2. QED
      BY <1>1, <2>2, <3>1
  <2>3. QED
    BY <2>1, <2>2
<1> HIDE DEF o
<1>5. NextPlaced(items, item, places, now)
  BY <1>3, <1>4 DEF NextPlaced
<1>6. Placed(more, now)
  <2>1. now = IF item.kind = "tool"
              THEN [i \in DOMAIN places \cup {Len(items) + 1} |->
                      IF i = Len(items) + 1 THEN Len(PlacesOf(items)) + 1 ELSE places[i]]
              ELSE places
    BY <1>5 DEF NextPlaced
  <2> HIDE DEF now
  <2>2. QED
    BY <1>1, <2>1, PlacedMore
<1>7. o.tools = CallsOf(more)
  <2> HIDE DEF places
  <2>1. Placed(items, places)
    BY <1>1
  <2>2. CallsOf(more) = IF item.kind = "tool"
                        THEN Append(CallsOf(items), [index |-> Len(items) + 1, parts |-> <<>>])
                        ELSE CallsOf(items)
    BY <2>1, CallsMore
  <2>3. QED
    BY <1>1, <1>4, <2>2
<1>8. \A kind \in Deltas : o[kind] = TextOf(more, kind)
  <2>1. \A kind : TextOf(more, kind) = TextOf(items, kind)
    BY ItemMore
  <2>2. QED
    BY <1>1, <1>4, <2>1
<1>9. QED
  BY <1>4, <1>5, <1>6, <1>7, <1>8 DEF ChatTells, o

\* A fragment.
LEMMA ChatSpoken ==
  ASSUME NEW items, NEW i, NEW c, NEW said, NEW more, Spoken(items, i, c, said, more),
         ChatTells(items, chat),
         NEW e, e.type = "delta", e.kind = said.kind, e.index = i, e.part = c
  PROVE  ChatTells(more, Observe(e)) /\ Observe(e).toolOf = chat.toolOf
<1> DEFINE places == chat.toolOf
           o == Observe(e)
<1>1. DOMAIN chat = ChatFields /\ chat.tools = CallsOf(items) /\ Placed(items, places)
      /\ \A kind \in Deltas : chat[kind] = TextOf(items, kind)
  BY DEF ChatTells
<1>2. /\ Placed(more, places)
      /\ said.kind = "tool" =>
           /\ i \in DOMAIN places /\ places[i] \in DOMAIN CallsOf(items)
           /\ CallsOf(more) = [CallsOf(items) EXCEPT ![places[i]].parts = Append(@, c)]
      /\ said.kind # "tool" => CallsOf(more) = CallsOf(items)
  <2> HIDE DEF places
  <2>1. Placed(items, places)
    BY <1>1
  <2>2. QED
    BY <2>1, CallsLonger
<1>3. \A kind \in Deltas : TextOf(more, kind) = IF said.kind = kind THEN Append(TextOf(items, kind), c)
                                                ELSE TextOf(items, kind)
  BY ItemLonger
<1>4. said.kind \in Kinds
  BY DEF Spoken
<1>5. CASE said.kind # "tool"
  <2> DEFINE k == said.kind
  <2>1. k \in Deltas
    BY <1>4, <1>5 DEF Kinds, Deltas
  <2>2. o = [chat EXCEPT ![k] = Append(@, c)]
    BY <1>5 DEF Observe, Ends
  <2>3. /\ DOMAIN o = ChatFields /\ o.tools = chat.tools /\ o.toolOf = places
        /\ \A kind \in Deltas : o[kind] = IF k = kind THEN Append(chat[kind], c) ELSE chat[kind]
    <3> HIDE DEF o, k
    <3>1. QED
      BY <1>1, <2>1, <2>2 DEF ChatFields, Deltas
  <2> HIDE DEF o
  <2>4. \A kind \in Deltas : o[kind] = TextOf(more, kind)
    BY <1>1, <1>3, <2>3
  <2>5. QED
    BY <1>1, <1>2, <1>5, <2>3, <2>4 DEF ChatTells, o
<1>6. CASE said.kind = "tool"
  <2>1. i \in DOMAIN places
    BY <1>2, <1>6
  <2>2. o = [chat EXCEPT !.tools[places[i]].parts = Append(@, c)]
    BY <1>6, <2>1 DEF Observe, ToolOf, Ends
  <2>3. /\ DOMAIN o = ChatFields /\ o.tools = [chat.tools EXCEPT ![places[i]].parts = Append(@, c)]
        /\ o.toolOf = places /\ \A kind \in Deltas : o[kind] = chat[kind]
    <3> HIDE DEF o
    <3>1. QED
      BY <1>1, <2>2 DEF ChatFields, Deltas
  <2> HIDE DEF o
  <2>4. o.tools = CallsOf(more)
    BY <1>1, <1>2, <1>6, <2>3
  <2>5. \A kind \in Deltas : o[kind] = TextOf(more, kind)
    BY <1>1, <1>3, <1>6, <2>3 DEF Deltas
  <2>6. QED
    BY <1>2, <2>3, <2>4, <2>5 DEF ChatTells, o
<1>7. QED
  BY <1>5, <1>6

\* The last event, which may repeat it all.
LEMMA ChatRepeated ==
  ASSUME ChatTells(up.items, chat), NEW e, e.type \in Ends
  PROVE  ChatTells(up.items, Observe(e)) /\ Observe(e).toolOf = chat.toolOf
<1> DEFINE o == Observe(e)
<1>1. /\ DOMAIN chat = ChatFields /\ chat.tools = CallsOf(up.items) /\ Placed(up.items, chat.toolOf)
      /\ \A kind \in Deltas : chat[kind] = TextOf(up.items, kind)
  BY DEF ChatTells
<1>2. o = ObserveResponse(e)
  BY DEF Observe, Ends
<1>3. /\ CallsSaid = chat.tools
      /\ Of("message") = chat.message /\ Of("refusal") = chat.refusal /\ Of("reasoning") = chat.reasoning
  <2>1. ToolsSaid = PlacesOf(up.items)
    BY DEF ToolsSaid, PlacesOf, PlaceParts
  <2>2. CallsSaid = CallsOf(up.items)
    BY <2>1 DEF CallsSaid, CallsOf, CallAt
  <2>3. \A kind : Of(kind) = TextOf(up.items, kind)
    BY DEF Of, TextOf, TextParts
  <2>4. QED
    BY <1>1, <2>2, <2>3 DEF Deltas
<1>4. \A s : OrElse(s, s) = s
  BY DEF OrElse
<1>5. o = IF e.output
          THEN [chat EXCEPT !.status = e.type, !.reason = e.reason,
                            !.message   = chat.message,
                            !.refusal   = chat.refusal,
                            !.reasoning = chat.reasoning,
                            !.tools     = chat.tools]
          ELSE [chat EXCEPT !.status = e.type, !.reason = e.reason]
  BY <1>1, <1>2, <1>3, <1>4 DEF ObserveResponse
<1> HIDE DEF o
<1>6. /\ DOMAIN o = ChatFields /\ o.tools = chat.tools /\ o.toolOf = chat.toolOf
      /\ \A kind \in Deltas : o[kind] = chat[kind]
  BY <1>1, <1>5 DEF ChatFields, Deltas
<1>7. QED
  BY <1>1, <1>6 DEF ChatTells, o

-----------------------------------------------------------------------------
(* What the stream converter keeps of the items: a call's number is one    *)
(* less than its place.                                                    *)

ConverterTells(items, places, v) ==
  /\ v.next = Len(PlacesOf(items))
  /\ DOMAIN v.toolOf = DOMAIN places
  /\ \A i \in DOMAIN places : v.toolOf[i] = places[i] - 1

\* An item begins.
LEMMA ConverterItem ==
  ASSUME NEW items \in Items, NEW item \in [kind : Kinds, parts : Seq(Nat)], item.parts = <<>>,
         NEW places, Placed(items, places), ConverterTells(items, places, converter),
         NEW more, more = Append(items, item), NEW now, NextPlaced(items, item, places, now),
         NEW e, e.type = "added", e.kind = item.kind, e.index = Len(items) + 1
  PROVE  ConverterTells(more, now, ConverterAfter(e))
<1> DEFINE n == Len(items) + 1
           before == PlacesOf(items)
           k == Len(before)
           v == ConverterAfter(e)
<1>1. before \in Seq(Nat) /\ k \in Nat /\ n \in Nat
  BY ItemParts
<1>2. PlacesOf(more) = IF item.kind = "tool" THEN Append(before, n) ELSE before
  BY ItemMore
<1>3. /\ converter.next = k /\ DOMAIN converter.toolOf = DOMAIN places
      /\ \A i \in DOMAIN places : converter.toolOf[i] = places[i] - 1
  BY DEF ConverterTells
<1>4. now = IF item.kind = "tool"
            THEN [i \in DOMAIN places \cup {n} |-> IF i = n THEN k + 1 ELSE places[i]] ELSE places
  BY DEF NextPlaced
<1>5. /\ v.next = IF item.kind = "tool" THEN converter.next + 1 ELSE converter.next
      /\ v.toolOf = IF item.kind = "tool"
                    THEN [i \in DOMAIN converter.toolOf \cup {n} |->
                            IF i = n THEN converter.next ELSE converter.toolOf[i]]
                    ELSE converter.toolOf
  BY DEF ConverterAfter, AddsTool, Positions
<1> HIDE DEF before, v, n
<1>6. CASE item.kind # "tool"
  <2>1. v.next = Len(PlacesOf(more)) /\ v.toolOf = converter.toolOf /\ now = places
    BY <1>2, <1>3, <1>4, <1>5, <1>6
  <2>2. QED
    BY <1>3, <2>1 DEF ConverterTells, v
<1>7. CASE item.kind = "tool"
  <2>1. Len(PlacesOf(more)) = k + 1 /\ v.next = k + 1
    BY <1>1, <1>2, <1>3, <1>5, <1>7
  <2>2. /\ DOMAIN now = DOMAIN places \cup {n}
        /\ \A i \in DOMAIN now : now[i] = IF i = n THEN k + 1 ELSE places[i]
    BY <1>4, <1>7
  <2>3. /\ DOMAIN v.toolOf = DOMAIN places \cup {n}
        /\ \A i \in DOMAIN v.toolOf : v.toolOf[i] = IF i = n THEN k ELSE converter.toolOf[i]
    BY <1>3, <1>5, <1>7
  <2>4. \A i \in DOMAIN now : v.toolOf[i] = now[i] - 1
    <3> TAKE i \in DOMAIN now
    <3>1. CASE i = n
      <4>1. v.toolOf[i] = k /\ now[i] = k + 1
        BY <2>2, <2>3, <3>1
      <4>2. QED
        BY <1>1, <4>1
    <3>2. CASE i # n
      <4>1. i \in DOMAIN places
        BY <2>2, <3>2
      <4>2. v.toolOf[i] = converter.toolOf[i] /\ now[i] = places[i]
        BY <2>2, <2>3, <3>2
      <4>3. QED
        BY <1>3, <4>1, <4>2
    <3>3. QED
      BY <3>1, <3>2
  <2>5. QED
    BY <2>1, <2>2, <2>3, <2>4 DEF ConverterTells, v
<1>8. QED
  BY <1>6, <1>7

\* Any other event.
LEMMA ConverterKept ==
  ASSUME NEW items, NEW more, PlacesOf(more) = PlacesOf(items), NEW places,
         ConverterTells(items, places, converter), NEW e, ~AddsTool(e)
  PROVE  ConverterTells(more, places, ConverterAfter(e))
<1>1. ConverterAfter(e).next = converter.next /\ ConverterAfter(e).toolOf = converter.toolOf
  BY DEF ConverterAfter
<1>2. QED
  BY <1>1 DEF ConverterTells

-----------------------------------------------------------------------------
(* What the client has received.                                           *)

RelayFields == {"committed", "usable", "terminal", "result", "received"}

LEMMA Received ==
  ASSUME NEW r, DOMAIN r = RelayFields, NEW c
  PROVE  /\ DOMAIN Forward(r, c) = RelayFields
         /\ Forward(r, c).received \in {r.received, Append(r.received, c)}
         /\ r.result = "open" /\ c.kind # "raw" => Forward(r, c).received = Append(r.received, c)
<1> DEFINE written == [r EXCEPT !.received = Append(@, c), !.committed = TRUE,
                                !.usable = @ \/ HasOutput(c),
                                !.terminal = @ \/ c.kind \in {"finish", "done"}]
<1>1. DOMAIN written = RelayFields /\ written.received = Append(r.received, c)
  BY DEF RelayFields
<1> HIDE DEF written
<1>2. \A v : /\ DOMAIN [written EXCEPT !.result = v] = RelayFields
             /\ [written EXCEPT !.result = v].received = written.received
             /\ DOMAIN [r EXCEPT !.result = v] = RelayFields
             /\ [r EXCEPT !.result = v].received = r.received
  BY <1>1 DEF RelayFields
<1>3. CASE r.result # "open"
  <2>1. Forward(r, c) = r
    BY <1>3 DEF Forward
  <2>2. QED
    BY <1>3, <2>1
<1>4. CASE r.result = "open" /\ c.kind = "raw"
  <2>1. Forward(r, c) = IF c.retryable /\ ~r.committed THEN [r EXCEPT !.result = "retry"]
                        ELSE [written EXCEPT !.result = "failed"]
    BY <1>4 DEF Forward, written
  <2>2. QED
    BY <1>1, <1>2, <1>4, <2>1
<1>5. CASE r.result = "open" /\ c.kind # "raw"
  <2>1. Forward(r, c) = IF written.terminal /\ (~wait \/ c.kind = "done")
                        THEN [written EXCEPT !.result = Concluded(written)] ELSE written
    BY <1>5 DEF Forward, written
  <2>2. QED
    BY <1>1, <1>2, <2>1
<1>6. QED
  BY <1>3, <1>4, <1>5

\* A chunk that is no output tells nothing.
LEMMA QuietReceived ==
  ASSUME NEW items, NEW got, StreamTells(items, got), NEW c, c.kind \notin Output
  PROVE  StreamTells(items, Append(got, c))
<1>1. got \in Seq(ToSet(got))
  BY DEF StreamTells
<1>2. SameTold(got, Append(got, c))
  BY <1>1, QuietChunk
<1>3. QED
  BY <1>2, QuietTells

LEMMA QuietForwarded ==
  ASSUME NEW items, NEW r, DOMAIN r = RelayFields, StreamTells(items, r.received),
         NEW c, c.kind \notin Output
  PROVE  DOMAIN Forward(r, c) = RelayFields /\ StreamTells(items, Forward(r, c).received)
<1>1. DOMAIN Forward(r, c) = RelayFields /\ Forward(r, c).received \in {r.received, Append(r.received, c)}
  BY Received
<1>2. StreamTells(items, Append(r.received, c))
  BY QuietReceived
<1>3. QED
  BY <1>1, <1>2

\* The role is sent.
LEMMA OpenedTells ==
  ASSUME AnswerOpen, NEW items, StreamTells(items, relay.received)
  PROVE  /\ DOMAIN relay = RelayFields /\ relay.result = "open"
         /\ DOMAIN Opened = RelayFields /\ Opened.result = "open"
         /\ StreamTells(items, Opened.received)
<1>1. Open(relay) /\ Open(Opened)
  BY OpenedOpen DEF AnswerOpen
<1>2. /\ DOMAIN relay = RelayFields /\ relay.result = "open"
      /\ DOMAIN Opened = RelayFields /\ Opened.result = "open"
  BY <1>1 DEF Open, RelayFields
<1>3. StreamTells(items, Opened.received)
  <2>1. CASE converter.role
    BY <2>1 DEF Opened
  <2>2. CASE ~converter.role
    <3>1. RoleChunk.kind \notin Output
      BY DEF RoleChunk, Output, Deltas
    <3>2. Opened = Forward(relay, RoleChunk)
      BY <2>2 DEF Opened
    <3>3. QED
      BY <1>2, <3>1, <3>2, QuietForwarded
  <2>3. QED
    BY <2>1, <2>2
<1>4. QED
  BY <1>2, <1>3

\* An event that says nothing.
LEMMA StreamedQuiet ==
  ASSUME AnswerOpen, NEW items, StreamTells(items, relay.received),
         NEW e, e.type \in {"created", "done"}
  PROVE  StreamTells(items, Streamed(Convert(e)).received)
<1>1. StreamTells(items, Opened.received)
  BY OpenedTells
<1>2. Streamed(Convert(e)) = Opened \/ Streamed(Convert(e)) = relay
  <2>1. Convert(e) = EnsureRole(e) \/ Convert(e) = <<>>
    <3>1. CASE e.type = "created"
      BY <3>1 DEF Convert, Failed
    <3>2. CASE e.type = "done"
      BY <3>2 DEF Convert, Failed
    <3>3. QED
      BY <3>1, <3>2
  <2>2. QED
    BY <2>1, StreamedOpened
<1>3. QED
  BY <1>1, <1>2

\* An item begins.
LEMMA StreamedItem ==
  ASSUME AnswerOpen,
         NEW items \in Items, NEW item \in [kind : Kinds, parts : Seq(Nat)], item.parts = <<>>,
         NEW places, Placed(items, places), ConverterTells(items, places, converter),
         NEW more, more = Append(items, item), StreamTells(items, relay.received),
         NEW e, e.type = "added", e.kind = item.kind, e.index = Len(items) + 1
  PROVE  StreamTells(more, Streamed(Convert(e)).received)
<1>1. CASE item.kind # "tool"
  <2>1. Convert(e) = <<>>
    BY <1>1 DEF Convert, Failed
  <2>2. Streamed(Convert(e)) = relay
    BY <2>1, StreamedOpened
  <2>3. StreamTells(more, relay.received)
    BY <1>1, StreamItem
  <2>4. QED
    BY <2>2, <2>3
<1>2. CASE item.kind = "tool"
  <2> DEFINE c == HeaderChunk(converter.next, e.index)
             got == Opened.received
  <2>1. Convert(e) = EnsureRole(e) \o <<c>>
    BY <1>2 DEF Convert, Failed
  <2>2. Streamed(Convert(e)) = Forward(Opened, c)
    BY <2>1, StreamedOpened
  <2>3. DOMAIN Opened = RelayFields /\ Opened.result = "open" /\ StreamTells(items, got)
    BY OpenedTells
  <2>4. c.kind # "raw"
    BY DEF HeaderChunk
  <2>5. c = HeaderChunk(Len(PlacesOf(items)), Len(items) + 1)
    BY DEF ConverterTells
  <2> HIDE DEF c, got
  <2>6. StreamTells(more, Append(got, c))
    BY <1>2, <2>3, <2>5, StreamCall
  <2>7. Forward(Opened, c).received = Append(got, c)
    BY <2>3, <2>4, Received DEF got
  <2>8. QED
    BY <2>2, <2>6, <2>7
<1>3. QED
  BY <1>1, <1>2

\* A fragment.
LEMMA StreamedFragment ==
  ASSUME AnswerOpen,
         NEW items, NEW i, NEW n, NEW said, NEW more, Spoken(items, i, n, said, more),
         NEW places, Placed(items, places), ConverterTells(items, places, converter),
         StreamTells(items, relay.received),
         NEW e, e.type = "delta", e.kind = said.kind, e.index = i, e.part = n
  PROVE  StreamTells(more, Streamed(Convert(e)).received)
<1>1. CASE said.kind # "tool"
  <2> DEFINE c == DeltaChunk(said.kind, n)
             got == Opened.received
  <2>1. Convert(e) = EnsureRole(e) \o <<c>>
    BY <1>1 DEF Convert, Failed
  <2>2. Streamed(Convert(e)) = Forward(Opened, c)
    BY <2>1, StreamedOpened
  <2>3. DOMAIN Opened = RelayFields /\ Opened.result = "open" /\ StreamTells(items, got)
    BY OpenedTells
  <2>4. c.kind # "raw"
    <3>1. said.kind \in Kinds
      BY DEF Spoken
    <3>2. QED
      BY <3>1 DEF DeltaChunk, Kinds
  <2>5. c = DeltaChunk(said.kind, n)
    OBVIOUS
  <2> HIDE DEF c, got
  <2>6. StreamTells(more, Append(got, c))
    BY <1>1, <2>3, <2>5, StreamText
  <2>7. Forward(Opened, c).received = Append(got, c)
    BY <2>3, <2>4, Received DEF got
  <2>8. QED
    BY <2>2, <2>6, <2>7
<1>2. CASE said.kind = "tool"
  <2> DEFINE c == ArgumentsChunk(converter.toolOf[i], n)
             got == relay.received
  <2>1. i \in DOMAIN places
    <3>1. i \in DOMAIN items /\ items[i].kind = "tool"
      BY <1>2, ItemParts DEF Spoken
    <3>2. QED
      BY <3>1 DEF Placed
  <2>2. ToolKnown(e) /\ converter.toolOf[i] = places[i] - 1
    BY <2>1 DEF ConverterTells, ToolKnown
  <2>3. Convert(e) = <<c>>
    BY <1>2, <2>2 DEF Convert, Failed
  <2>4. Streamed(Convert(e)) = Forward(relay, c)
    BY <2>3, StreamedOpened
  <2>5. DOMAIN relay = RelayFields /\ relay.result = "open"
    BY OpenedTells
  <2>6. c.kind # "raw"
    BY DEF ArgumentsChunk
  <2>7. c = ArgumentsChunk(places[i] - 1, n)
    BY <2>2
  <2> HIDE DEF c, got
  <2>8. StreamTells(more, Append(got, c))
    BY <1>2, <2>7, StreamArguments DEF got
  <2>9. Forward(relay, c).received = Append(got, c)
    BY <2>5, <2>6, Received DEF got
  <2>10. QED
    BY <2>4, <2>8, <2>9
<1>3. QED
  BY <1>1, <1>2

\* The last event.
LEMMA StreamedEnd ==
  ASSUME AnswerOpen, NEW items, StreamTells(items, relay.received), NEW e, e.type \in Ends
  PROVE  StreamTells(items, Streamed(Convert(e)).received)
<1>1. /\ DOMAIN relay = RelayFields /\ DOMAIN Opened = RelayFields
      /\ StreamTells(items, Opened.received)
  BY OpenedTells
<1>2. CASE e.type = "completed"
  <2> DEFINE c == FinishChunk(IF converter.next > 0 THEN "tool_calls" ELSE "stop")
             d == DoneSentinel
  <2>1. Convert(e) = EnsureRole(e) \o <<c, d>>
    BY <1>2 DEF Convert, Failed
  <2>2. c.kind \notin Output /\ d.kind \notin Output
    BY DEF FinishChunk, DoneSentinel, Output, Deltas
  <2> HIDE DEF c, d
  <2>3. Streamed(Convert(e)) = Forward(Forward(Opened, c), d)
    BY <2>1, StreamedOpened
  <2> DEFINE f == Forward(Opened, c)
  <2>4. DOMAIN f = RelayFields /\ StreamTells(items, f.received)
    BY <1>1, <2>2, QuietForwarded
  <2> HIDE DEF f
  <2>5. StreamTells(items, Forward(f, d).received)
    BY <2>2, <2>4, QuietForwarded
  <2>6. QED
    BY <2>3, <2>5 DEF f
<1>3. CASE e.type \in {"incomplete", "failed"}
  <2> DEFINE c == RawEvent(Retryable(e))
  <2>1. Convert(e) = <<c>>
    BY <1>3 DEF Convert, Failed
  <2>2. c.kind \notin Output
    BY DEF RawEvent, Output, Deltas
  <2> HIDE DEF c
  <2>3. Streamed(Convert(e)) = Forward(relay, c)
    BY <2>1, StreamedOpened
  <2>4. QED
    BY <1>1, <2>2, <2>3, QuietForwarded
<1>4. QED
  BY <1>2, <1>3 DEF Ends

-----------------------------------------------------------------------------
(* What the buffered response has gathered of the items.                   *)

GatheredTells(items, g) ==
  /\ \A i \in DOMAIN g : i \in DOMAIN items /\ g[i] = items[i]
  /\ \A i \in DOMAIN items : items[i].parts # <<>> => i \in DOMAIN g

\* An item is put in.
LEMMA GatheredPut ==
  ASSUME NEW items, GatheredTells(items, gathered.items),
         NEW more, NEW e, NEW parts,
         e.index \in DOMAIN more, more[e.index] = [kind |-> e.kind, parts |-> parts],
         \A i \in DOMAIN items : i # e.index => i \in DOMAIN more /\ more[i] = items[i],
         \A i \in DOMAIN more : i # e.index => i \in DOMAIN items
  PROVE  GatheredTells(more, Merged(e, parts))
<1> DEFINE g == gathered.items
           m == Merged(e, parts)
<1>1. /\ \A i \in DOMAIN g : i \in DOMAIN items /\ g[i] = items[i]
      /\ \A i \in DOMAIN items : items[i].parts # <<>> => i \in DOMAIN g
  BY DEF GatheredTells
<1>2. /\ DOMAIN m = DOMAIN g \cup {e.index} /\ m[e.index] = more[e.index]
      /\ \A i \in DOMAIN g : i # e.index => m[i] = g[i]
  BY DEF Merged
<1> HIDE DEF m, g
<1>3. ASSUME NEW i \in DOMAIN m PROVE i \in DOMAIN more /\ m[i] = more[i]
  <2>1. CASE i = e.index
    BY <1>2, <2>1
  <2>2. CASE i # e.index
    BY <1>1, <1>2, <2>2
  <2>3. QED
    BY <2>1, <2>2
<1>4. ASSUME NEW i \in DOMAIN more, more[i].parts # <<>> PROVE i \in DOMAIN m
  <2>1. CASE i = e.index
    BY <1>2, <2>1
  <2>2. CASE i # e.index
    BY <1>1, <1>2, <1>4, <2>2
  <2>3. QED
    BY <2>1, <2>2
<1>5. QED
  BY <1>3, <1>4 DEF GatheredTells, m

\* The parts of an item, gathered or not.
LEMMA PartsGathered ==
  ASSUME NEW items, GatheredTells(items, gathered.items), NEW i \in DOMAIN items
  PROVE  PartsOf(i) = items[i].parts
<1>1. CASE i \in DOMAIN gathered.items
  BY <1>1 DEF PartsOf, GatheredTells
<1>2. CASE i \notin DOMAIN gathered.items
  BY <1>2 DEF PartsOf, GatheredTells
<1>3. QED
  BY <1>1, <1>2

\* The whole output.
LEMMA GatheredAll ==
  ASSUME NEW items, NEW g, GatheredTells(items, g)
  PROVE  GatheredTells(items, [i \in DOMAIN g \cup DOMAIN items |-> items[i]])
<1> DEFINE m == [i \in DOMAIN g \cup DOMAIN items |-> items[i]]
<1>1. DOMAIN m = DOMAIN items /\ \A i \in DOMAIN m : m[i] = items[i]
  BY DEF GatheredTells
<1> HIDE DEF m
<1>2. GatheredTells(items, m)
  BY <1>1 DEF GatheredTells
<1>3. QED
  BY <1>2 DEF m

-----------------------------------------------------------------------------
(* Every form tells what the upstream has said.                            *)

Told ==
  /\ StreamTells(up.items, relay.received)
  /\ ChatTells(up.items, chat)
  /\ ConverterTells(up.items, chat.toolOf, converter)
  /\ GatheredTells(up.items, gathered.items)

\* What the forms tell once they have taken an event.
Tells(items, e) ==
  /\ StreamTells(items, Streamed(Convert(e)).received)
  /\ ChatTells(items, Observe(e))
  /\ ConverterTells(items, Observe(e).toolOf, ConverterAfter(e))
  /\ GatheredTells(items, Gather(e).items)

LEMMA EventTold ==
  ASSUME Shape, NEW e, e.type \in {"created", "added", "delta", "done"} \cup Ends,
         Consume(e), Tells(up'.items, e)
  PROVE  Told'
<1> DEFINE items == up'.items
<1>1. /\ relay' = Streamed(Convert(e)) /\ converter' = ConverterAfter(e)
      /\ chat' = [Observe(e) EXCEPT !.result = ChatResult(e)]
      /\ gathered' = [Gather(e) EXCEPT !.result = ResponseResult(e)]
  BY DEF Consume
<1>2. /\ StreamTells(items, Streamed(Convert(e)).received)
      /\ ChatTells(items, Observe(e))
      /\ ConverterTells(items, Observe(e).toolOf, ConverterAfter(e))
      /\ GatheredTells(items, Gather(e).items)
  BY DEF Tells
<1>3. DOMAIN Gather(e) = {"items", "result"}
  BY GatheredItems DEF Shape
<1>4. gathered'.items = Gather(e).items
  <2> DEFINE g == Gather(e)
             v == ResponseResult(e)
  <2>1. DOMAIN g = {"items", "result"} /\ gathered' = [g EXCEPT !.result = v]
    BY <1>1, <1>3
  <2> HIDE DEF g, v
  <2>2. gathered'.items = g.items
    BY <2>1
  <2>3. QED
    BY <2>2 DEF g
<1>5. ChatTells(items, chat') /\ chat'.toolOf = Observe(e).toolOf
  <2> DEFINE o == Observe(e)
             v == ChatResult(e)
  <2>1. ChatTells(items, o) /\ chat' = [o EXCEPT !.result = v]
    BY <1>1, <1>2
  <2> HIDE DEF o, v, items
  <2>2. ChatTells(items, [o EXCEPT !.result = v]) /\ [o EXCEPT !.result = v].toolOf = o.toolOf
    BY <2>1, ChatResulted
  <2>3. QED
    BY <2>1, <2>2 DEF o
<1>6. StreamTells(items, relay'.received) /\ ConverterTells(items, chat'.toolOf, converter')
  BY <1>1, <1>2, <1>5
<1>7. GatheredTells(items, gathered'.items)
  BY <1>2, <1>4
<1>8. QED
  BY <1>5, <1>6, <1>7 DEF Told

\* The response is created.
LEMMA CreatedTold ==
  ASSUME Shape, AnswerOpen, Told, Created
  PROVE  Told'
<1> DEFINE e == [type |-> "created"]
<1>1. up' = [up EXCEPT !.stage = "open"] /\ Consume(e) /\ e.type = "created"
  BY DEF Created
<1> HIDE DEF e
<1>2. up'.items = up.items
  BY <1>1 DEF Shape
<1>3. Observe(e) = chat
  BY <1>1 DEF Observe, Ends
<1>4. ~AddsTool(e)
  BY <1>1 DEF AddsTool
<1>5. ConverterTells(up.items, chat.toolOf, ConverterAfter(e))
  BY <1>4, ConverterKept DEF Told
<1>6. StreamTells(up.items, Streamed(Convert(e)).received)
  BY <1>1, StreamedQuiet DEF Told
<1>7. Gather(e).items = gathered.items
  BY <1>1, GatheredItems DEF Shape
<1>8. Tells(up.items, e)
  BY <1>3, <1>5, <1>6, <1>7 DEF Told, Tells
<1>9. QED
  BY <1>1, <1>2, <1>8, EventTold

\* An item begins.
LEMMA ItemTold ==
  ASSUME Shape, AnswerOpen, Told, NEW kind \in Kinds, AddItem(kind)
  PROVE  Told'
<1> DEFINE items == up.items
           item == [kind |-> kind, parts |-> <<>>]
           more == Append(items, item)
           i == Len(items) + 1
           e == ItemEvent("added", i, kind, 0)
           T == [kind : Kinds, parts : Seq(Nat)]
<1>1. up' = [up EXCEPT !.items = Append(@, item)] /\ Consume(e)
  BY DEF AddItem
<1>2. e.type = "added" /\ e.kind = kind /\ e.index = i
  BY DEF ItemEvent
<1>3. items \in Items /\ item \in [kind : Kinds, parts : Seq(Nat)] /\ item.parts = <<>> /\ item.kind = kind
  BY DEF Shape
<1>4. up'.items = more
  BY <1>1 DEF Shape
<1> HIDE DEF e
<1>5. /\ StreamTells(items, relay.received) /\ ChatTells(items, chat)
      /\ ConverterTells(items, chat.toolOf, converter) /\ GatheredTells(items, gathered.items)
      /\ Placed(items, chat.toolOf)
  BY DEF Told, ChatTells
<1>6. /\ DOMAIN items = 1..Len(items) /\ Len(items) \in Nat /\ DOMAIN more = 1..i
      /\ (\A j \in 1..Len(items) : more[j] = items[j]) /\ more[i] = item
  <2>1. items \in Seq(T) /\ item \in T
    BY <1>3 DEF Items
  <2> HIDE DEF T, item, items
  <2>2. /\ more \in Seq(T) /\ Len(more) = i
        /\ (\A j \in 1..Len(items) : more[j] = items[j]) /\ more[i] = item
    BY <2>1, AppendProperties
  <2>3. QED
    BY <2>1, <2>2
<1>7. e.type = "added" /\ e.kind = item.kind /\ e.index = Len(items) + 1 /\ more = Append(items, item)
  BY <1>2, <1>3
<1>8. GatheredTells(more, Gather(e).items)
  <2>1. Gather(e).items = Merged(e, <<>>)
    BY <1>2, GatheredItems DEF Shape
  <2>2. e.index \in DOMAIN more /\ more[e.index] = [kind |-> e.kind, parts |-> <<>>]
    BY <1>2, <1>6
  <2>3. /\ \A j \in DOMAIN items : j # e.index => j \in DOMAIN more /\ more[j] = items[j]
        /\ \A j \in DOMAIN more : j # e.index => j \in DOMAIN items
    BY <1>2, <1>6
  <2> HIDE DEF more, items
  <2>4. GatheredTells(more, Merged(e, <<>>))
    BY <1>5, <2>2, <2>3, GatheredPut
  <2>5. QED
    BY <2>1, <2>4
<1> HIDE DEF item, more, items
<1>9. ChatTells(more, Observe(e)) /\ NextPlaced(items, item, chat.toolOf, Observe(e).toolOf)
  BY <1>3, <1>5, <1>7, ChatItem
<1>10. ConverterTells(more, Observe(e).toolOf, ConverterAfter(e))
  BY <1>3, <1>5, <1>7, <1>9, ConverterItem
<1>11. StreamTells(more, Streamed(Convert(e)).received)
  BY <1>3, <1>5, <1>7, StreamedItem
<1>12. Tells(up'.items, e)
  BY <1>4, <1>8, <1>9, <1>10, <1>11 DEF Tells
<1>13. QED
  BY <1>1, <1>2, <1>12, EventTold

\* A fragment.
LEMMA DeltaTold ==
  ASSUME Shape, AnswerOpen, Told, NEW i \in DOMAIN up.items, SendDelta(i)
  PROVE  Told'
<1> DEFINE items == up.items
           kind == items[i].kind
           n == up.fragments + 1
           said == [items[i] EXCEPT !.parts = Append(@, n)]
           more == [items EXCEPT ![i] = said]
           e == ItemEvent("delta", i, kind, n)
           T == [kind : Kinds, parts : Seq(Nat)]
<1>1. /\ up' = [up EXCEPT !.fragments = @ + 1, !.items[i].parts = Append(@, n)]
      /\ Consume(e) /\ (i = Len(items) \/ kind = "tool")
  BY DEF SendDelta
<1>2. e.type = "delta" /\ e.kind = kind /\ e.index = i /\ e.part = n
  BY DEF ItemEvent
<1> HIDE DEF e
<1>3. items \in Seq(T) /\ items \in Items /\ n \in Nat
  BY DEF Shape, Items
<1>4. i \in 1..Len(items) /\ DOMAIN items = 1..Len(items)
  BY <1>3
<1>5. items[i] \in T
  <2> HIDE DEF T, items
  <2>1. QED
    BY <1>3, <1>4
<1>6. /\ said \in T /\ said.kind = kind /\ said.parts = Append(items[i].parts, n)
      /\ said = [kind |-> kind, parts |-> Append(items[i].parts, n)]
  <2> DEFINE x == items[i]
  <2>5. x \in T
    BY <1>5
  <2>6. n \in Nat
    BY <1>3
  <2> HIDE DEF x, n
  <2>1. x.kind \in Kinds /\ x.parts \in Seq(Nat) /\ x = [kind |-> x.kind, parts |-> x.parts]
    BY <2>5
  <2>2. Append(x.parts, n) \in Seq(Nat)
    BY <2>1, <2>6
  <2>3. [x EXCEPT !.parts = Append(@, n)] = [kind |-> x.kind, parts |-> Append(x.parts, n)]
    <3> DEFINE p == x.parts
               k == x.kind
               q == Append(p, n)
    <3>1. x = [kind |-> k, parts |-> p]
      BY <2>1
    <3>2. [x EXCEPT !.parts = Append(@, n)] = [x EXCEPT !.parts = q]
      BY <3>1
    <3> HIDE DEF p, k, q
    <3>3. [x EXCEPT !.parts = q] = [kind |-> k, parts |-> q]
      BY <3>1
    <3>4. QED
      BY <3>2, <3>3 DEF k, q, p
  <2>7. [kind |-> x.kind, parts |-> Append(x.parts, n)] \in T
    BY <2>1, <2>2
  <2>4. QED
    BY <2>3, <2>7 DEF x
<1>7. up'.items = more
  BY <1>1 DEF Shape
<1>8. /\ DOMAIN more = DOMAIN items /\ more[i] = said
      /\ \A j \in DOMAIN items : j # i => more[j] = items[j]
  BY <1>4
<1>9. Spoken(items, i, n, said, more)
  BY <1>1, <1>3, <1>4, <1>6 DEF Spoken
<1>10. /\ StreamTells(items, relay.received) /\ ChatTells(items, chat)
       /\ ConverterTells(items, chat.toolOf, converter) /\ GatheredTells(items, gathered.items)
       /\ Placed(items, chat.toolOf)
  BY DEF Told, ChatTells
<1>11. GatheredTells(more, Gather(e).items)
  <2> DEFINE parts == Append(items[i].parts, n)
  <2>1. Gather(e).items = Merged(e, Append(PartsOf(e.index), e.part))
    BY <1>2, GatheredItems DEF Shape
  <2>2. PartsOf(i) = items[i].parts
    BY <1>10, PartsGathered
  <2>3. Gather(e).items = Merged(e, parts)
    BY <1>2, <2>1, <2>2
  <2>4. e.index \in DOMAIN more /\ more[e.index] = [kind |-> e.kind, parts |-> parts]
    BY <1>2, <1>6, <1>8
  <2>5. /\ \A j \in DOMAIN items : j # e.index => j \in DOMAIN more /\ more[j] = items[j]
        /\ \A j \in DOMAIN more : j # e.index => j \in DOMAIN items
    BY <1>2, <1>8
  <2> HIDE DEF more, items, parts
  <2>6. GatheredTells(more, Merged(e, parts))
    BY <1>10, <2>4, <2>5, GatheredPut
  <2>7. QED
    BY <2>3, <2>6
<1>12. e.type = "delta" /\ e.kind = said.kind /\ e.index = i /\ e.part = n
  BY <1>2, <1>6
<1> HIDE DEF items, said, more, n
<1>13. ChatTells(more, Observe(e)) /\ Observe(e).toolOf = chat.toolOf
  BY <1>9, <1>10, <1>12, ChatSpoken
<1>14. ConverterTells(more, Observe(e).toolOf, ConverterAfter(e))
  <2>1. PlacesOf(more) = PlacesOf(items)
    BY <1>9, ItemLonger
  <2>2. ~AddsTool(e)
    BY <1>12 DEF AddsTool
  <2>3. ConverterTells(more, chat.toolOf, ConverterAfter(e))
    BY <1>10, <2>1, <2>2, ConverterKept
  <2>4. QED
    BY <1>13, <2>3
<1>15. StreamTells(more, Streamed(Convert(e)).received)
  BY <1>9, <1>10, <1>12, StreamedFragment
<1>16. Tells(up'.items, e)
  BY <1>7, <1>11, <1>13, <1>14, <1>15 DEF Tells
<1>17. QED
  BY <1>1, <1>2, <1>16, EventTold

\* An item is done.
LEMMA DoneTold ==
  ASSUME Shape, AnswerOpen, Told, NEW i \in DOMAIN up.items, ItemDone(i)
  PROVE  Told'
<1> DEFINE items == up.items
           e == ItemEvent("done", i, items[i].kind, 0)
           T == [kind : Kinds, parts : Seq(Nat)]
<1>1. up' = up /\ Consume(e)
  BY DEF ItemDone
<1>2. e.type = "done" /\ e.kind = items[i].kind /\ e.index = i
  BY DEF ItemEvent
<1> HIDE DEF e
<1>3. items[i] = [kind |-> items[i].kind, parts |-> items[i].parts]
  <2>1. items \in Seq(T)
    BY DEF Shape, Items
  <2>2. items[i] \in T
    <3> HIDE DEF T
    <3>1. QED
      BY <2>1
  <2>3. QED
    BY <2>2
<1>4. Observe(e) = chat
  BY <1>2 DEF Observe, Ends
<1>5. ~AddsTool(e)
  BY <1>2 DEF AddsTool
<1>6. ConverterTells(items, chat.toolOf, ConverterAfter(e))
  BY <1>5, ConverterKept DEF Told
<1>7. StreamTells(items, Streamed(Convert(e)).received)
  BY <1>2, StreamedQuiet DEF Told
<1>8. GatheredTells(items, Gather(e).items)
  <2> DEFINE parts == items[i].parts
  <2>1. Gather(e).items = Merged(e, parts)
    BY <1>2, GatheredItems DEF Shape
  <2>2. e.index \in DOMAIN items /\ items[e.index] = [kind |-> e.kind, parts |-> parts]
    BY <1>2, <1>3
  <2>3. GatheredTells(items, gathered.items)
    BY DEF Told
  <2> HIDE DEF items, parts
  <2>4. /\ \A j \in DOMAIN items : j # e.index => j \in DOMAIN items /\ items[j] = items[j]
        /\ \A j \in DOMAIN items : j # e.index => j \in DOMAIN items
    OBVIOUS
  <2>5. GatheredTells(items, Merged(e, parts))
    BY <2>2, <2>3, <2>4, GatheredPut
  <2>6. QED
    BY <2>1, <2>5
<1>9. Tells(items, e)
  BY <1>4, <1>6, <1>7, <1>8 DEF Told, Tells
<1>10. QED
  BY <1>1, <1>2, <1>9, EventTold

\* The last event.
LEMMA EndTold ==
  ASSUME Shape, AnswerOpen, Told, NEW type \in Ends, NEW reason, NEW output, EndWith(type, reason, output)
  PROVE  Told'
<1> DEFINE items == up.items
           e == ResponseEvent(type, reason, output)
<1>1. up' = [up EXCEPT !.stage = type] /\ Consume(e)
  BY DEF EndWith
<1>2. e.type = type
  BY DEF ResponseEvent
<1> HIDE DEF e
<1>3. up'.items = items
  BY <1>1 DEF Shape
<1>4. e.type \in Ends /\ ~AddsTool(e)
  BY <1>2 DEF AddsTool, Ends
<1>5. /\ StreamTells(items, relay.received) /\ ChatTells(items, chat)
      /\ ConverterTells(items, chat.toolOf, converter) /\ GatheredTells(items, gathered.items)
  BY DEF Told
<1>6. ChatTells(items, Observe(e)) /\ Observe(e).toolOf = chat.toolOf
  BY <1>4, <1>5, ChatRepeated
<1>7. ConverterTells(items, chat.toolOf, ConverterAfter(e))
  BY <1>4, <1>5, ConverterKept
<1>8. StreamTells(items, Streamed(Convert(e)).received)
  BY <1>4, <1>5, StreamedEnd
<1>9. GatheredTells(items, Gather(e).items)
  <2> DEFINE g == gathered.items
  <2>1. Gather(e).items = IF e.output THEN [j \in DOMAIN g \cup DOMAIN items |-> items[j]] ELSE g
    BY <1>4, GatheredItems DEF Shape
  <2> HIDE DEF items
  <2>2. GatheredTells(items, [j \in DOMAIN g \cup DOMAIN items |-> items[j]])
    BY <1>5, GatheredAll
  <2>3. QED
    BY <1>5, <2>1, <2>2
<1>10. Tells(items, e)
  BY <1>6, <1>7, <1>8, <1>9 DEF Tells
<1>11. QED
  BY <1>1, <1>3, <1>4, <1>10, EventTold

\* The connection breaks.
LEMMA InterruptTold ==
  ASSUME Shape, AnswerOpen, Told, Interrupt
  PROVE  Told'
<1>1. /\ up' = [up EXCEPT !.stage = "interrupted"]
      /\ relay' = [relay EXCEPT !.result = IF @ = "open" THEN Concluded(relay) ELSE @]
      /\ chat' = [chat EXCEPT !.result = "retry"]
      /\ gathered' = [gathered EXCEPT !.result = "retry"]
      /\ converter' = converter
  BY DEF Interrupt
<1>2. DOMAIN relay = RelayFields
  BY DEF AnswerOpen, Open, RelayFields
<1>3. up'.items = up.items /\ gathered'.items = gathered.items
  BY <1>1 DEF Shape
<1>4. relay'.received = relay.received
  BY <1>1, <1>2 DEF RelayFields
<1>5. ChatTells(up.items, chat') /\ chat'.toolOf = chat.toolOf
  <2>1. ChatTells(up.items, chat)
    BY DEF Told
  <2> DEFINE v == "retry"
             h == chat
             items == up.items
  <2>2. ChatTells(items, h) /\ chat' = [h EXCEPT !.result = v]
    BY <1>1, <2>1
  <2> HIDE DEF v, h, items
  <2>3. ChatTells(items, [h EXCEPT !.result = v]) /\ [h EXCEPT !.result = v].toolOf = h.toolOf
    BY <2>2, ChatResulted
  <2>4. QED
    BY <2>2, <2>3 DEF h, items
<1>6. QED
  BY <1>1, <1>3, <1>4, <1>5 DEF Told

\* Nothing has been said.
LEMMA ToldFirst == AnswerInit => Told
<1> SUFFICES ASSUME AnswerInit PROVE Told
  OBVIOUS
<1>1. /\ up.items = <<>> /\ relay.received = <<>> /\ gathered.items = <<>>
      /\ converter.next = 0 /\ converter.toolOf = <<>>
      /\ chat = [message |-> <<>>, refusal |-> <<>>, reasoning |-> <<>>, tools |-> <<>>,
                 toolOf |-> <<>>, status |-> "", reason |-> "", result |-> "open"]
  BY DEF AnswerInit
<1> DEFINE none == <<>>
<1>2. FlattenSeq(none) = none
  <2>1. none \in Seq(Seq(Nat))
    OBVIOUS
  <2>2. QED
    BY <2>1, FlattenIsJoined, JoinedEquation
<1>3. /\ \A kind : TextOf(none, kind) = none /\ DeltasOf(none, kind) = none
      /\ PlacesOf(none) = none /\ HeadersOf(none) = none
      /\ \A t : ArgumentsTo(none, t) = none
  <2>1. /\ \A kind : TextParts(none, kind) = none /\ DeltaParts(none, kind) = none
        /\ PlaceParts(none) = none /\ HeaderParts(none) = none
        /\ \A t : ArgumentParts(none, t) = none
    BY DEF TextParts, DeltaParts, PlaceParts, HeaderParts, ArgumentParts
  <2> HIDE DEF none
  <2>2. QED
    BY <1>2, <2>1 DEF TextOf, DeltasOf, PlacesOf, HeadersOf, ArgumentsTo
<1>4. DOMAIN none = {} /\ Len(none) = 0 /\ none \in Seq(ToSet(none))
  OBVIOUS
<1>5. StreamTells(none, none)
  <2>1. HeadersOf(none) = [n \in DOMAIN PlacesOf(none) |-> HeaderOf(none, n)]
    <3>1. PlacesOf(none) = none /\ HeadersOf(none) = none
      BY <1>3
    <3>2. DOMAIN PlacesOf(none) = {}
      BY <1>4, <3>1
    <3>3. [n \in DOMAIN PlacesOf(none) |-> HeaderOf(none, n)] = <<>>
      BY <3>2
    <3>4. QED
      BY <3>1, <3>3
  <2>2. \A t \in Nat : t + 1 \notin DOMAIN PlacesOf(none)
    BY <1>3, <1>4
  <2> HIDE DEF none
  <2>3. \A t \in Nat : ArgumentsTo(none, t) = <<>>
    BY <1>3 DEF none
  <2>4. QED
    BY <1>3, <1>4, <2>1, <2>2, <2>3 DEF StreamTells
<1>6. ChatTells(none, chat)
  <2>1. DOMAIN chat = ChatFields /\ \A kind \in Deltas : chat[kind] = none
    <3> HIDE DEF none
    <3>1. chat = [message |-> none, refusal |-> none, reasoning |-> none, tools |-> none,
                  toolOf |-> none, status |-> "", reason |-> "", result |-> "open"]
      BY <1>1 DEF none
    <3>2. DOMAIN chat = ChatFields
      BY <3>1 DEF ChatFields
    <3>3. chat["message"] = none /\ chat["refusal"] = none /\ chat["reasoning"] = none
      BY <3>1
    <3>4. QED
      BY <3>2, <3>3 DEF Deltas
  <2>2. chat.tools = none /\ chat.toolOf = none
    BY <1>1
  <2>3. CallsOf(none) = none
    BY <1>3 DEF CallsOf
  <2> HIDE DEF none
  <2>4. Placed(none, none)
    BY <1>3, <1>4 DEF Placed
  <2>5. QED
    BY <1>3, <2>1, <2>2, <2>3, <2>4 DEF ChatTells
<1>7. ConverterTells(none, none, converter)
  <2> HIDE DEF none
  <2>1. converter.next = 0 /\ converter.toolOf = none
    BY <1>1 DEF none
  <2>2. QED
    BY <1>3, <1>4, <2>1 DEF ConverterTells
<1>8. GatheredTells(none, none)
  BY DEF GatheredTells
<1>9. chat.toolOf = none
  BY <1>1
<1>10. QED
  BY <1>1, <1>5, <1>6, <1>7, <1>8, <1>9 DEF Told

\* Told is kept by every step of an answer that has not ended; one that has takes no step.
LEMMA ToldKept == AnswerInv /\ Told /\ [AnswerNext]_answerVars => Told'
<1> SUFFICES ASSUME AnswerInv, Told, [AnswerNext]_answerVars PROVE Told'
  OBVIOUS
<1>1. Shape
  BY DEF AnswerInv
<1>2. CASE UNCHANGED answerVars
  <2>1. up' = up /\ relay' = relay /\ chat' = chat /\ converter' = converter /\ gathered' = gathered
    BY <1>2 DEF answerVars
  <2>2. QED
    BY <2>1 DEF Told
<1>3. CASE AnswerNext
  <2>1. AnswerOpen
    <3>1. up.stage \in {"asked", "open"}
      BY <1>3 DEF AnswerNext, Created, Interrupt, AddItem, SendDelta, ItemDone, EndWith
    <3>2. QED
      BY <3>1 DEF AnswerInv
  <2>2. CASE Created
    BY <1>1, <2>1, <2>2, CreatedTold
  <2>3. CASE Interrupt
    BY <1>1, <2>1, <2>3, InterruptTold
  <2>4. ASSUME NEW kind \in Kinds, AddItem(kind) PROVE Told'
    BY <1>1, <2>1, <2>4, ItemTold
  <2>5. ASSUME NEW i \in DOMAIN up.items, SendDelta(i) PROVE Told'
    BY <1>1, <2>1, <2>5, DeltaTold
  <2>6. ASSUME NEW i \in DOMAIN up.items, ItemDone(i) PROVE Told'
    BY <1>1, <2>1, <2>6, DoneTold
  <2>7. ASSUME NEW type \in Ends, NEW reason, NEW output, EndWith(type, reason, output) PROVE Told'
    BY <1>1, <2>1, <2>7, EndTold
  <2>8. QED
    BY <1>3, <2>2, <2>3, <2>4, <2>5, <2>6, <2>7 DEF AnswerNext, Ends
<1>4. QED
  BY <1>2, <1>3

\* What is told is the answer.
LEMMA ToldIsComplete ==
  ASSUME AnswerInv, Told
  PROVE  AnswerComplete
<1> DEFINE items == up.items
           got == relay.received
           calls == [n \in DOMAIN HeadersReceived |-> [index |-> HeadersReceived[n].index,
                                                       parts |-> ArgumentsOf(HeadersReceived[n].tool)]]
           places == PlacesOf(items)
<1>1. items \in Items
  BY DEF AnswerInv, Shape
<1>2. places \in Seq(Nat) /\ Len(places) \in Nat /\ DOMAIN places = 1..Len(places)
  BY <1>1, ItemParts
<1>3. /\ ToolsSaid = places /\ CallsSaid = CallsOf(items)
      /\ \A kind : Of(kind) = TextOf(items, kind)
  <2>1. ToolsSaid = places
    BY DEF ToolsSaid, PlacesOf, PlaceParts
  <2>2. CallsSaid = CallsOf(items)
    BY <2>1 DEF CallsSaid, CallsOf, CallAt
  <2>3. \A kind : Of(kind) = TextOf(items, kind)
    BY DEF Of, TextOf, TextParts
  <2>4. QED
    BY <2>1, <2>2, <2>3
<1>4. /\ \A kind : Fragments(kind) = DeltasOf(got, kind)
      /\ HeadersReceived = HeadersOf(got)
      /\ \A t : ArgumentsOf(t) = ArgumentsTo(got, t)
  BY DEF Fragments, DeltasOf, DeltaParts, HeadersReceived, HeadersOf, HeaderParts,
         ArgumentsOf, ArgumentsTo, ArgumentParts
<1>5. /\ \A kind \in Deltas : DeltasOf(got, kind) = TextOf(items, kind)
      /\ HeadersOf(got) = [n \in DOMAIN places |-> HeaderOf(items, n)]
      /\ \A t \in Nat : ArgumentsTo(got, t) = IF t + 1 \in DOMAIN places
                                              THEN items[places[t + 1]].parts ELSE <<>>
  BY DEF Told, StreamTells
<1>6. calls = CallsOf(items)
  <2>1. \A n \in DOMAIN places : HeadersReceived[n] = HeaderOf(items, n)
    BY <1>4, <1>5
  <2>2. DOMAIN HeadersReceived = DOMAIN places
    BY <1>4, <1>5
  <2>3. ASSUME NEW n \in DOMAIN places
        PROVE  /\ HeadersReceived[n].index = places[n]
               /\ ArgumentsOf(HeadersReceived[n].tool) = items[places[n]].parts
    <3>1. HeadersReceived[n].index = places[n] /\ HeadersReceived[n].tool = n - 1
      <4> DEFINE h == HeadersReceived
                 place == places[n]
      <4>1. h[n] = HeaderChunk(n - 1, place)
        BY <2>1 DEF HeaderOf
      <4> HIDE DEF h, place
      <4>2. h[n].index = place /\ h[n].tool = n - 1
        BY <4>1 DEF HeaderChunk
      <4>3. QED
        BY <4>2 DEF h, place
    <3>2. n - 1 \in Nat /\ n - 1 + 1 = n
      BY <1>2
    <3> HIDE DEF places, items, got
    <3>3. ArgumentsTo(got, n - 1) = items[places[n - 1 + 1]].parts
      BY <1>5, <3>2
    <3>4. QED
      BY <1>4, <3>1, <3>2, <3>3
  <2>4. \A n \in DOMAIN places : [index |-> HeadersReceived[n].index,
                                  parts |-> ArgumentsOf(HeadersReceived[n].tool)] = CallAt(items, places[n])
    BY <2>3 DEF CallAt
  <2>5. QED
    BY <2>2, <2>4 DEF CallsOf
<1>7. Folded = AnswerSaid
  <2>1. \A kind \in Deltas : Fragments(kind) = Of(kind)
    BY <1>3, <1>4, <1>5
  <2>2. /\ Fragments("message") = Of("message") /\ Fragments("refusal") = Of("refusal")
        /\ Fragments("reasoning") = Of("reasoning")
    BY <2>1 DEF Deltas
  <2>3. calls = CallsSaid
    BY <1>3, <1>6
  <2>4. QED
    BY <2>2, <2>3 DEF Folded, AnswerSaid
<1>8. Answer(chat.message, chat.refusal, chat.reasoning, chat.tools) = AnswerSaid
  <2>1. /\ \A kind \in Deltas : chat[kind] = TextOf(items, kind)
        /\ chat.tools = CallsOf(items)
    BY DEF Told, ChatTells
  <2>2. /\ chat.message = Of("message") /\ chat.refusal = Of("refusal") /\ chat.reasoning = Of("reasoning")
        /\ chat.tools = CallsSaid
    BY <1>3, <2>1 DEF Deltas
  <2>3. QED
    BY <2>2 DEF AnswerSaid
<1>9. \A i \in DOMAIN items :
        items[i].parts # <<>> => i \in DOMAIN gathered.items /\ gathered.items[i] = items[i]
  BY DEF Told, GatheredTells
<1>10. QED
  BY <1>7, <1>8, <1>9 DEF AnswerComplete

\* Whatever an upstream says, in any number of items and fragments, in whatever
\* order its calls overlap: the message of an answer that is delivered as a
\* success is the one it has said, in each of the three forms.
THEOREM AnswersAreComplete == AnswerSpec => []AnswerComplete
<1>1. AnswerInv /\ Told => AnswerComplete
  BY ToldIsComplete
<1>2. AnswerInit => AnswerInv /\ Told
  BY AnswerStarts, ToldFirst
<1>3. AnswerInv /\ Told /\ [AnswerNext]_answerVars => (AnswerInv /\ Told)'
  <2>1. AnswerInv /\ Told /\ [AnswerNext]_answerVars => AnswerInv' /\ Told'
    BY AnswerKept, ToldKept
  <2>2. QED
    BY <2>1
<1>4. QED
  BY <1>1, <1>2, <1>3, PTL DEF AnswerSpec
=============================================================================
