--------------------------- MODULE Upgrade_proofs ---------------------------
(***************************************************************************)
(* Proofs about Upgrade, for any requests, days and sessions and any       *)
(* number of crashes: no body is lost, nothing is taken from the           *)
(* statistics once the upgrade is done, and what the gateway then shows of *)
(* the past, its sessions and its figures, is what happened.               *)
(*                                                                         *)
(* What carries them is the order of the migrations.  Those applied are    *)
(* always the first ones of Order (InOrder), wherever the process died; so *)
(* a migration that is due finds what the earlier ones left, and bodies    *)
(* are still in their columns for all that read them.  Rows, sessions,     *)
(* attempts and statistics are then a function of how far the upgrade has  *)
(* come (RowsTold, SessionsFollow, AttemptsTold, DailyTold,                *)
(* ChannelsTold).  The figures are sums over any number of requests; a set *)
(* on which two sums differ is taken as small as possible, which stands    *)
(* for an induction on the set.                                            *)
(***************************************************************************)
EXTENDS Upgrade, FiniteSetTheorems, WellFoundedInduction, TLAPS

Steps   == 1..14
Done(i) == Order[i] \in applied

\* Those applied are the first ones, and those before the next one are among them.
InOrder ==
  /\ next \in 1..15
  /\ \A i \in Steps : i < next => Done(i)
  /\ \A i, j \in Steps : i < j /\ Done(j) => Done(i)

\* Rows have their columns; an outcome is never that of no row.
RowShapes ==
  /\ log = [r \in Requests |-> log[r]]
  /\ \A r \in Requests : log[r] = [outcome |-> log[r].outcome, cost |-> log[r].cost,
                                   duration |-> log[r].duration, compaction |-> log[r].compaction]
  /\ \A r \in Present : log[r].outcome # "none"

BodyShapes == body \in [Requests -> [column: {"plain", "packed", "gone"}, row: {"none", "plain", "packed"}]]

\* A row of daily statistics counts requests.
Counted(row) == "requests" \in DOMAIN row /\ row.requests \in Nat
StatsShapes ==
  /\ stats = [d \in Days |-> stats[d]]
  /\ \A d \in Days : stats[d] = NoStat \/ Counted(stats[d])

\* Until the upgrade is done the requests are those of the older version, and until the
\* bodies move they are in their columns.
PastUntouched ==
  /\ ~Done(14) => Present = Inherited
  /\ ~Done(13) => \A r \in Inherited : Readable(r)

-----------------------------------------------------------------------------
(* The order of the migrations. *)

\* The places of the migrations.
LEMMA Places ==
  /\ Len(Order) = 14
  /\ Order[1] = "daily" /\ Order[2] = "outcomes" /\ Order[3] = "costs" /\ Order[4] = "application"
  /\ Order[5] = "channel costs" /\ Order[6] = "channel aggregates" /\ Order[7] = "final attempts"
  /\ Order[8] = "timings" /\ Order[9] = "compress" /\ Order[10] = "threads" /\ Order[11] = "parents"
  /\ Order[12] = "compactions" /\ Order[13] = "successful compactions" /\ Order[14] = "payloads"
BY DEF Order

\* The process serves when it has passed the last one.
LEMMA ServingPast == Serving <=> next = 15
<1>1. Len(Order) = 14
  BY Places
<1> QED
  BY <1>1 DEF Serving

\* No migration has two places.
LEMMA OnePlace == ASSUME NEW i \in Steps, NEW j \in Steps, Order[i] = Order[j] PROVE i = j
<1> DEFINE place == [name \in {Order[k] : k \in Steps} |->
  CASE name = "daily" -> 1 [] name = "outcomes" -> 2 [] name = "costs" -> 3 [] name = "application" -> 4
    [] name = "channel costs" -> 5 [] name = "channel aggregates" -> 6 [] name = "final attempts" -> 7
    [] name = "timings" -> 8 [] name = "compress" -> 9 [] name = "threads" -> 10 [] name = "parents" -> 11
    [] name = "compactions" -> 12 [] name = "successful compactions" -> 13 [] OTHER -> 14]
<1>1. ASSUME NEW k \in Steps PROVE place[Order[k]] = k
  <2>1. CASE k = 1
    BY <2>1, Places
  <2>2. CASE k = 2
    BY <2>2, Places
  <2>3. CASE k = 3
    BY <2>3, Places
  <2>4. CASE k = 4
    BY <2>4, Places
  <2>5. CASE k = 5
    BY <2>5, Places
  <2>6. CASE k = 6
    BY <2>6, Places
  <2>7. CASE k = 7
    BY <2>7, Places
  <2>8. CASE k = 8
    BY <2>8, Places
  <2>9. CASE k = 9
    BY <2>9, Places
  <2>10. CASE k = 10
    BY <2>10, Places
  <2>11. CASE k = 11
    BY <2>11, Places
  <2>12. CASE k = 12
    BY <2>12, Places
  <2>13. CASE k = 13
    BY <2>13, Places
  <2>14. CASE k = 14
    BY <2>14, Places
  <2> HIDE DEF place
  <2>15. \/ k = 1 \/ k = 2 \/ k = 3 \/ k = 4 \/ k = 5 \/ k = 6 \/ k = 7
         \/ k = 8 \/ k = 9 \/ k = 10 \/ k = 11 \/ k = 12 \/ k = 13 \/ k = 14
    BY DEF Steps
  <2> QED
    BY <2>1, <2>2, <2>3, <2>4, <2>5, <2>6, <2>7, <2>8, <2>9, <2>10, <2>11, <2>12, <2>13, <2>14, <2>15
<1> HIDE DEF place
<1>2. place[Order[i]] = i /\ place[Order[j]] = j
  BY <1>1
<1> QED
  BY <1>2

\* A migration that runs is the next one: those before it are done, it and those after it
\* are not.
LEMMA Applied ==
  ASSUME InOrder, NEW i \in Steps, Apply(Order[i])
  PROVE  /\ next = i /\ ~Serving
         /\ \A j \in Steps : Done(j) <=> j < i
         /\ \A j \in Steps : Done(j)' <=> j <= i
         /\ next' = i + 1 /\ UNCHANGED crashes
<1>1. /\ ~Serving /\ Order[next] = Order[i] /\ Order[i] \notin applied
      /\ applied' = applied \cup {Order[i]} /\ next' = next + 1 /\ crashes' = crashes
  BY DEF Apply, Due
<1>1a. next \in Steps
  BY <1>1, ServingPast DEF InOrder, Steps
<1>2. next = i
  BY <1>1, <1>1a, OnePlace
<1>3. ~Done(i)
  BY <1>1 DEF Done
<1>4. \A j \in Steps : Done(j) <=> j < i
  BY <1>2, <1>3 DEF InOrder, Steps
<1>5. \A j \in Steps : Done(j)' <=> Done(j) \/ j = i
  BY <1>1, OnePlace DEF Done
<1> QED
  BY <1>1, <1>2, <1>4, <1>5 DEF Steps

\* A migration that has run leaves the order.
LEMMA AppliedKeepsOrder == ASSUME InOrder, NEW i \in Steps, Apply(Order[i]) PROVE InOrder'
<1>1. /\ \A j \in Steps : Done(j)' <=> j <= i
      /\ next' = i + 1
  BY Applied
<1> QED
  BY <1>1 DEF InOrder, Steps

\* What the statements of the cleanup leave.
LEMMA CleanupLeaves ==
  Cleanup => /\ Serving /\ UNCHANGED <<stats, channels, applied, next, crashes>>
             /\ UNCHANGED log \/ CleanupRows
             /\ UNCHANGED sessions \/ CleanupStates
             /\ UNCHANGED attempts \/ CleanupAttempts
BY DEF Cleanup, CleanupBodies, CleanupAttempts, CleanupRows, CleanupStates

\* What any step does to the order.
LEMMA OrderStep == InOrder /\ [Next]_vars => InOrder'
<1> SUFFICES ASSUME InOrder, [Next]_vars PROVE InOrder'
  OBVIOUS
<1>1. CASE \E i \in Steps : Apply(Order[i])
  BY <1>1, AppliedKeepsOrder
<1>2. CASE UNCHANGED <<applied, next>>
  BY <1>2 DEF InOrder, Done
<1>3. CASE Skip
  <2>0. ~Serving /\ Done(next) /\ next' = next + 1 /\ applied' = applied
    BY <1>3 DEF Skip, Done
  <2>1. next \in Steps
    BY <2>0, ServingPast DEF InOrder, Steps
  <2>2. \A j \in Steps : Done(j)' <=> Done(j)
    BY <2>0 DEF Done
  <2> QED
    BY <2>0, <2>1, <2>2 DEF InOrder, Steps
<1>4. CASE Crash
  <2>1. next' = 1 /\ applied' = applied
    BY <1>4 DEF Crash
  <2>2. \A j \in Steps : Done(j)' <=> Done(j)
    BY <2>1 DEF Done
  <2> QED
    BY <2>1, <2>2 DEF InOrder, Steps
<1>5. CASE UNCHANGED vars
  BY <1>2, <1>5 DEF vars
<1>6. ASSUME NEW r \in New, RecordRequest(r) PROVE InOrder'
  BY <1>2, <1>6 DEF RecordRequest
<1>7. CASE Cleanup
  BY <1>2, <1>7, CleanupLeaves
<1>8. CASE MigrateRequestPayloadBatch
  BY <1>2, <1>8 DEF MigrateRequestPayloadBatch
<1>9. ASSUME Migrate, ~Skip, ~MigrateRequestPayloadBatch PROVE \E i \in Steps : Apply(Order[i])
  <2>1. {1, 2, 3, 4, 5, 6, 7, 8, 9, 10, 11, 12, 13, 14} \subseteq Steps
    BY DEF Steps
  <2>2. \/ Apply("daily") \/ Apply("outcomes") \/ Apply("costs") \/ Apply("application")
        \/ Apply("channel costs") \/ Apply("channel aggregates") \/ Apply("final attempts")
        \/ Apply("timings") \/ Apply("compress") \/ Apply("threads") \/ Apply("parents")
        \/ Apply("compactions") \/ Apply("successful compactions") \/ Apply("payloads")
    BY <1>9 DEF Migrate, BackfillTokenDailyStats, BackfillRelayOutcomes, BackfillCostFields,
       BackfillApplicationOutcomes, BackfillChannelModelDailyCosts, BackfillChannelModelDailyAggregates,
       BackfillRequestStatisticsFromFinalAttempts, BackfillResponsePhaseTimings, CompressDetailedPayloads,
       BackfillCodexThreadSources, BackfillCodexSessionParents, BackfillCodexCompactionTracking,
       CorrectSuccessfulCodexCompactionCounts, MigrateRelayPayloadTables
  <2> QED
    BY <2>1, <2>2, Places
<1> QED
  BY <1>1, <1>3, <1>4, <1>5, <1>6, <1>7, <1>8, <1>9 DEF Next

-----------------------------------------------------------------------------
(* Rows and bodies. *)

\* A row that is rewritten keeps its columns and stays a row; no row comes or goes.
LEMMA RowsRewritten ==
  ASSUME RowShapes, log' = [r \in Requests |-> log'[r]],
         \A r \in Requests :
           \/ log'[r] = log[r]
           \/ /\ r \in Present
              /\ log'[r] = [outcome |-> log'[r].outcome, cost |-> log'[r].cost,
                            duration |-> log'[r].duration, compaction |-> log'[r].compaction]
              /\ log'[r].outcome # "none"
  PROVE  RowShapes' /\ Present' = Present
<1>1. NoRow.outcome = "none"
  BY DEF NoRow
<1>2. \A r \in Requests : r \in Present' <=> r \in Present
  BY <1>1 DEF Present
<1>3. Present' = Present
  BY <1>2 DEF Present
<1>4. \A r \in Requests : log'[r] = [outcome |-> log'[r].outcome, cost |-> log'[r].cost,
                                     duration |-> log'[r].duration, compaction |-> log'[r].compaction]
  BY DEF RowShapes
<1>5. \A r \in Present' : log'[r].outcome # "none"
  BY <1>3 DEF RowShapes, Present
<1> QED
  BY <1>3, <1>4, <1>5 DEF RowShapes

\* The columns of a row after one of them has been set.
LEMMA RowSet ==
  ASSUME RowShapes, NEW r \in Requests, NEW v
  PROVE  /\ [log[r] EXCEPT !.outcome = v] = [outcome |-> v, cost |-> log[r].cost,
                                             duration |-> log[r].duration, compaction |-> log[r].compaction]
         /\ [log[r] EXCEPT !.cost = v] = [outcome |-> log[r].outcome, cost |-> v,
                                          duration |-> log[r].duration, compaction |-> log[r].compaction]
         /\ [log[r] EXCEPT !.duration = v] = [outcome |-> log[r].outcome, cost |-> log[r].cost,
                                              duration |-> v, compaction |-> log[r].compaction]
         /\ [log[r] EXCEPT !.compaction = v] = [outcome |-> log[r].outcome, cost |-> log[r].cost,
                                                duration |-> log[r].duration, compaction |-> v]
         /\ [log[r] EXCEPT !.outcome = "failed", !.cost = 0]
              = [outcome |-> "failed", cost |-> 0, duration |-> log[r].duration, compaction |-> log[r].compaction]
<1>1. log[r] = [outcome |-> log[r].outcome, cost |-> log[r].cost,
                duration |-> log[r].duration, compaction |-> log[r].compaction]
  BY DEF RowShapes
<1>2. [log[r] EXCEPT !.outcome = v] = [outcome |-> v, cost |-> log[r].cost,
                                       duration |-> log[r].duration, compaction |-> log[r].compaction]
  BY <1>1
<1>3. [log[r] EXCEPT !.cost = v] = [outcome |-> log[r].outcome, cost |-> v,
                                    duration |-> log[r].duration, compaction |-> log[r].compaction]
  BY <1>1
<1>4. [log[r] EXCEPT !.duration = v] = [outcome |-> log[r].outcome, cost |-> log[r].cost,
                                        duration |-> v, compaction |-> log[r].compaction]
  BY <1>1
<1>5. [log[r] EXCEPT !.compaction = v] = [outcome |-> log[r].outcome, cost |-> log[r].cost,
                                          duration |-> log[r].duration, compaction |-> v]
  BY <1>1
<1>6. [log[r] EXCEPT !.outcome = "failed", !.cost = 0]
        = [outcome |-> "failed", cost |-> 0, duration |-> log[r].duration, compaction |-> log[r].compaction]
  <2> DEFINE failed == [outcome |-> "failed", cost |-> log[r].cost,
                        duration |-> log[r].duration, compaction |-> log[r].compaction]
  <2>1. [log[r] EXCEPT !.outcome = "failed", !.cost = 0] = [[log[r] EXCEPT !.outcome = "failed"] EXCEPT !.cost = 0]
    OBVIOUS
  <2>2. [log[r] EXCEPT !.outcome = "failed"] = failed
    BY <1>1
  <2>3. [failed EXCEPT !.cost = 0]
          = [outcome |-> "failed", cost |-> 0, duration |-> log[r].duration, compaction |-> log[r].compaction]
    OBVIOUS
  <2> HIDE DEF failed
  <2> QED
    BY <2>1, <2>2, <2>3
<1> QED
  BY <1>2, <1>3, <1>4, <1>5, <1>6

\* What each migration does to the rows.
LEMMA OutcomesRow ==
  ASSUME RowShapes, BackfillRelayOutcomes, NEW r \in Requests
  PROVE  log'[r] = IF r \in Present
                   THEN [outcome |-> RowOutcome(r), cost |-> log[r].cost,
                         duration |-> log[r].duration, compaction |-> log[r].compaction]
                   ELSE log[r]
BY RowSet DEF BackfillRelayOutcomes

\* Failures within the retention limit cost nothing.
LEMMA CostsRow ==
  ASSUME RowShapes, BackfillCostFields, NEW r \in Requests
  PROVE  log'[r] = IF r \in Present \cap Retained /\ log[r].outcome = "failed"
                   THEN [outcome |-> log[r].outcome, cost |-> 0,
                         duration |-> log[r].duration, compaction |-> log[r].compaction]
                   ELSE log[r]
BY RowSet DEF BackfillCostFields

\* A misjudged success becomes a failure that costs nothing.
LEMMA ApplicationRow ==
  ASSUME RowShapes, BackfillApplicationOutcomes, NEW r \in Requests
  PROVE  log'[r] = IF r \in Misjudged
                   THEN [outcome |-> "failed", cost |-> 0,
                         duration |-> log[r].duration, compaction |-> log[r].compaction]
                   ELSE log[r]
BY RowSet DEF BackfillApplicationOutcomes

\* Only the cost of a row is written, from its last attempt.
LEMMA FinalAttemptsRow ==
  ASSUME RowShapes, BackfillRequestStatisticsFromFinalAttempts, NEW r \in Requests
  PROVE  \/ log'[r] = log[r]
         \/ r \in Present /\ \E cost :
              log'[r] = [outcome |-> log[r].outcome, cost |-> cost,
                         duration |-> log[r].duration, compaction |-> log[r].compaction]
BY RowSet DEF BackfillRequestStatisticsFromFinalAttempts

\* Only the duration of a row is written.
LEMMA TimingsRow ==
  ASSUME RowShapes, BackfillResponsePhaseTimings, NEW r \in Requests
  PROVE  log'[r] = IF r \in Present
                   THEN [outcome |-> log[r].outcome, cost |-> log[r].cost,
                         duration |-> AtLeastZero(log[r].duration, Latency), compaction |-> log[r].compaction]
                   ELSE log[r]
BY RowSet DEF BackfillResponsePhaseTimings

\* A compaction is marked as one if its body can be read.
LEMMA CompactionRow ==
  ASSUME RowShapes, BackfillCodexCompactionTracking, NEW r \in Requests
  PROVE  log'[r] = IF r \in Present \cap Compacts /\ Readable(r)
                   THEN [outcome |-> log[r].outcome, cost |-> log[r].cost,
                         duration |-> log[r].duration, compaction |-> TRUE]
                   ELSE log[r]
BY RowSet DEF BackfillCodexCompactionTracking

\* No outcome is that of no row.
LEMMA OutcomesNamed == \A r : RowOutcome(r) # "none" /\ Outcome(r) # "none"
BY DEF RowOutcome, Outcome

\* No migration brings a row or takes one away.
LEMMA MigrateKeepsRows == RowShapes /\ Migrate => RowShapes' /\ Present' = Present
<1> SUFFICES ASSUME RowShapes, Migrate PROVE RowShapes' /\ Present' = Present
  OBVIOUS
<1>1. CASE UNCHANGED log
  BY <1>1 DEF RowShapes, Present
<1>2. CASE BackfillRelayOutcomes
  <2>1. log' = [r \in Requests |-> log'[r]]
    BY <1>2 DEF BackfillRelayOutcomes
  <2> QED
    BY <1>2, <2>1, OutcomesRow, OutcomesNamed, RowsRewritten
<1>3. CASE BackfillCostFields
  <2>1. log' = [r \in Requests |-> log'[r]]
    BY <1>3 DEF BackfillCostFields
  <2>2. \A r \in Present : log[r].outcome # "none"
    BY DEF RowShapes
  <2> QED
    BY <1>3, <2>1, <2>2, CostsRow, RowsRewritten
<1>4. CASE BackfillApplicationOutcomes
  <2>1. log' = [r \in Requests |-> log'[r]]
    BY <1>4 DEF BackfillApplicationOutcomes
  <2>2. Misjudged \subseteq Present
    BY DEF Misjudged
  <2> QED
    BY <1>4, <2>1, <2>2, ApplicationRow, RowsRewritten
<1>5. CASE BackfillRequestStatisticsFromFinalAttempts
  <2>1. log' = [r \in Requests |-> log'[r]]
    BY <1>5 DEF BackfillRequestStatisticsFromFinalAttempts
  <2>2. \A r \in Present : log[r].outcome # "none"
    BY DEF RowShapes
  <2> QED
    BY <1>5, <2>1, <2>2, FinalAttemptsRow, RowsRewritten
<1>6. CASE BackfillResponsePhaseTimings
  <2>1. log' = [r \in Requests |-> log'[r]]
    BY <1>6 DEF BackfillResponsePhaseTimings
  <2>2. \A r \in Present : log[r].outcome # "none"
    BY DEF RowShapes
  <2> QED
    BY <1>6, <2>1, <2>2, TimingsRow, RowsRewritten
<1>7. CASE BackfillCodexCompactionTracking
  <2>1. log' = [r \in Requests |-> log'[r]]
    BY <1>7 DEF BackfillCodexCompactionTracking
  <2>2. \A r \in Present : log[r].outcome # "none"
    BY DEF RowShapes
  <2> QED
    BY <1>7, <2>1, <2>2, CompactionRow, RowsRewritten
<1>8. \/ UNCHANGED log \/ BackfillRelayOutcomes \/ BackfillCostFields \/ BackfillApplicationOutcomes
      \/ BackfillRequestStatisticsFromFinalAttempts \/ BackfillResponsePhaseTimings
      \/ BackfillCodexCompactionTracking
  BY DEF Migrate, BackfillTokenDailyStats, BackfillChannelModelDailyCosts, BackfillChannelModelDailyAggregates,
     CompressDetailedPayloads, BackfillCodexThreadSources, BackfillCodexSessionParents,
     CorrectSuccessfulCodexCompactionCounts, MigrateRequestPayloadBatch, MigrateRelayPayloadTables, Skip
<1> QED
  BY <1>1, <1>2, <1>3, <1>4, <1>5, <1>6, <1>7, <1>8

\* A request that is recorded becomes a row.
LEMMA RecordedRow ==
  ASSUME RowShapes, NEW r \in New, RecordRequest(r)
  PROVE  /\ RowShapes' /\ Present' = Present \cup {r}
         /\ log'[r] = [outcome |-> Outcome(r), cost |-> IF Reply[r] = "good" THEN 1 ELSE 0,
                       duration |-> 1, compaction |-> r \in Compacts]
         /\ \A other \in Requests \ {r} : log'[other] = log[other]
<1>1. r \in Requests
  BY DEF Requests
<1>2. log = [other \in Requests |-> log[other]]
  BY DEF RowShapes
<1>3. /\ log'[r] = [outcome |-> Outcome(r), cost |-> IF Reply[r] = "good" THEN 1 ELSE 0,
                    duration |-> 1, compaction |-> r \in Compacts]
      /\ \A other \in Requests \ {r} : log'[other] = log[other]
      /\ log' = [other \in Requests |-> log'[other]]
  BY <1>1, <1>2 DEF RecordRequest
<1>4. log'[r].outcome # "none" /\ log'[r] # NoRow
  BY <1>3, OutcomesNamed DEF NoRow
<1>5. \A other \in Requests : other \in Present' <=> other \in Present \cup {r}
  BY <1>3, <1>4 DEF Present
<1>6. Present' = Present \cup {r}
  BY <1>1, <1>5 DEF Present
<1>7. \A other \in Requests :
        log'[other] = [outcome |-> log'[other].outcome, cost |-> log'[other].cost,
                       duration |-> log'[other].duration, compaction |-> log'[other].compaction]
  <2> SUFFICES ASSUME NEW other \in Requests
               PROVE  log'[other] = [outcome |-> log'[other].outcome, cost |-> log'[other].cost,
                                     duration |-> log'[other].duration, compaction |-> log'[other].compaction]
    OBVIOUS
  <2>1. CASE other = r
    BY <1>3, <2>1
  <2>2. CASE other # r
    BY <1>3, <2>2 DEF RowShapes
  <2> QED
    BY <2>1, <2>2
<1>8. \A other \in Present' : log'[other].outcome # "none"
  BY <1>3, <1>4, <1>6 DEF RowShapes, Present
<1> QED
  BY <1>3, <1>6, <1>7, <1>8 DEF RowShapes

\* The cleanup keeps the rows within the retention limit.
LEMMA RowsCleaned ==
  ASSUME RowShapes, CleanupRows
  PROVE  /\ RowShapes' /\ Present' = Present \cap Retained
         /\ \A r \in Requests : log'[r] = IF r \in Retained THEN log[r] ELSE NoRow
<1>1. \A r \in Requests : log'[r] = IF r \in Retained THEN log[r] ELSE NoRow
  BY DEF CleanupRows
<1>2. log' = [r \in Requests |-> log'[r]]
  BY DEF CleanupRows
<1>3. \A r \in Requests : r \in Present' <=> r \in Present \cap Retained
  BY <1>1 DEF Present
<1>4. Present' = Present \cap Retained
  BY <1>3 DEF Present
<1>5. \A r \in Requests : log'[r] = [outcome |-> log'[r].outcome, cost |-> log'[r].cost,
                                     duration |-> log'[r].duration, compaction |-> log'[r].compaction]
  BY <1>1 DEF RowShapes, NoRow
<1>6. \A r \in Present' : log'[r].outcome # "none"
  BY <1>1, <1>4 DEF RowShapes, Present
<1> QED
  BY <1>1, <1>2, <1>4, <1>5, <1>6 DEF RowShapes

\* And their bodies.
LEMMA BodiesCleaned ==
  ASSUME BodyShapes, Cleanup
  PROVE  BodyShapes' /\ \A r \in Requests \cap Retained : body'[r] = body[r]
<1>1. \A r \in Requests :
        LET columns == [column: {"plain", "packed", "gone"}, row: {"none", "plain", "packed"}] IN
        /\ body[r] \in columns /\ [body[r] EXCEPT !.row = "none"] \in columns
        /\ [body[r] EXCEPT !.column = "gone"] \in columns
  BY DEF BodyShapes
<1>2. CASE CleanupBodies
  BY <1>1, <1>2 DEF CleanupBodies, Expired, BodyShapes
<1>3. CASE CleanupRows
  BY <1>1, <1>3 DEF CleanupRows, Expired, BodyShapes
<1>4. CASE CleanupAttempts \/ CleanupStates
  BY <1>4 DEF CleanupAttempts, CleanupStates, BodyShapes
<1> QED
  BY <1>2, <1>3, <1>4 DEF Cleanup

\* What is read of a body: the payload table's row, or the column.
LEMMA HydratedBody ==
  ASSUME BodyShapes, NEW r \in Requests
  PROVE  /\ Hydrated(r) # "gone" <=> body[r].row # "none" \/ body[r].column # "gone"
         /\ body[r].column \in {"plain", "packed", "gone"} /\ body[r].row \in {"none", "plain", "packed"}
BY DEF Hydrated, BodyShapes

\* No migration loses a body: a row that is copied had a column to copy.  The bodies leave
\* their columns in the last migration only.
LEMMA MigrateKeepsBodies ==
  ASSUME InOrder, BodyShapes, Migrate
  PROVE  /\ BodyShapes'
         /\ \A r \in Requests : Hydrated(r) # "gone" => Hydrated(r)' # "gone"
         /\ ~Done(13) => \A r \in Requests : Readable(r) => Readable(r)'
<1>1. CASE UNCHANGED body
  BY <1>1 DEF BodyShapes, Hydrated, Readable
<1>2. CASE CompressDetailedPayloads
  <2>1. \A r \in Requests : body'[r] = IF Readable(r) THEN [body[r] EXCEPT !.column = "packed"] ELSE body[r]
    BY <1>2 DEF CompressDetailedPayloads
  <2>2. \A r \in Requests : body[r] \in [column: {"plain", "packed", "gone"}, row: {"none", "plain", "packed"}]
    BY DEF BodyShapes
  <2>3. \A r \in Requests :
          /\ body'[r] \in [column: {"plain", "packed", "gone"}, row: {"none", "plain", "packed"}]
          /\ body'[r].row = body[r].row /\ (Readable(r) <=> body'[r].column # "gone")
    BY <2>1, <2>2 DEF Readable
  <2>4. body' = [r \in Requests |-> body'[r]]
    BY <1>2 DEF CompressDetailedPayloads
  <2>5. BodyShapes'
    BY <2>3, <2>4 DEF BodyShapes
  <2>6. \A r \in Requests : Hydrated(r) # "gone" => Hydrated(r)' # "gone"
    BY <2>2, <2>3 DEF Hydrated, Readable
  <2>7. \A r \in Requests : Readable(r) => Readable(r)'
    BY <2>3 DEF Readable
  <2> QED
    BY <2>5, <2>6, <2>7
<1>3. CASE MigrateRequestPayloadBatch
  <2>1. PICK rows \in SUBSET {r \in Present : Readable(r)} :
          body' = [r \in Requests |-> IF r \in rows THEN [column |-> "gone", row |-> body[r].column] ELSE body[r]]
    BY <1>3 DEF MigrateRequestPayloadBatch
  <2>2. \A r \in Requests : body[r] \in [column: {"plain", "packed", "gone"}, row: {"none", "plain", "packed"}]
    BY DEF BodyShapes
  <2>3. \A r \in Requests :
          /\ body'[r] \in [column: {"plain", "packed", "gone"}, row: {"none", "plain", "packed"}]
          /\ r \notin rows => body'[r] = body[r]
          /\ r \in rows => body'[r].row # "none"
    BY <2>1, <2>2 DEF Readable
  <2>4. BodyShapes'
    BY <2>1, <2>3 DEF BodyShapes
  <2>5. \A r \in Requests : Hydrated(r) # "gone" => Hydrated(r)' # "gone"
    BY <2>3 DEF Hydrated
  <2>6. next = 14 /\ Done(13)
    <3>1. ~Serving /\ Order[next] = Order[14]
      BY <1>3, Places DEF MigrateRequestPayloadBatch
    <3>2. next \in Steps /\ 14 \in Steps /\ 13 \in Steps
      BY <3>1, ServingPast DEF InOrder, Steps
    <3>3. next = 14
      BY <3>1, <3>2, OnePlace
    <3> QED
      BY <3>2, <3>3 DEF InOrder
  <2> QED
    BY <2>4, <2>5, <2>6
<1>4. UNCHANGED body \/ CompressDetailedPayloads \/ MigrateRequestPayloadBatch
  BY DEF Migrate, BackfillTokenDailyStats, BackfillRelayOutcomes, BackfillCostFields, BackfillApplicationOutcomes,
     BackfillChannelModelDailyCosts, BackfillChannelModelDailyAggregates,
     BackfillRequestStatisticsFromFinalAttempts, BackfillResponsePhaseTimings, BackfillCodexThreadSources,
     BackfillCodexSessionParents, BackfillCodexCompactionTracking, CorrectSuccessfulCodexCompactionCounts,
     MigrateRelayPayloadTables, Skip
<1> QED
  BY <1>1, <1>2, <1>3, <1>4

\* The process serves only when all migrations are done.
LEMMA ServingDone == InOrder /\ Serving => \A i \in Steps : Done(i)
BY ServingPast DEF InOrder, Steps

\* A migration that is done stays done.
LEMMA DoneStays == InOrder /\ [Next]_vars => \A i \in Steps : Done(i) => Done(i)'
<1> SUFFICES ASSUME InOrder, [Next]_vars PROVE applied \subseteq applied'
  BY DEF Done
<1> QED
  BY CleanupLeaves DEF Next, Migrate, vars, Apply, BackfillTokenDailyStats, BackfillRelayOutcomes, BackfillCostFields,
     BackfillApplicationOutcomes, BackfillChannelModelDailyCosts, BackfillChannelModelDailyAggregates,
     BackfillRequestStatisticsFromFinalAttempts, BackfillResponsePhaseTimings, CompressDetailedPayloads,
     BackfillCodexThreadSources, BackfillCodexSessionParents, BackfillCodexCompactionTracking,
     CorrectSuccessfulCodexCompactionCounts, MigrateRequestPayloadBatch, MigrateRelayPayloadTables, Skip,
     RecordRequest, Crash

\* Rows and bodies through any step.
PastInv == InOrder /\ RowShapes /\ BodyShapes /\ PastUntouched /\ BodyReadable

\* Every step keeps rows and bodies.
LEMMA PastStep == PastInv /\ [Next]_vars => PastInv'
<1> SUFFICES ASSUME PastInv, [Next]_vars PROVE PastInv'
  OBVIOUS
<1>1. InOrder /\ RowShapes /\ BodyShapes /\ PastUntouched /\ BodyReadable
  BY DEF PastInv
<1>2. InOrder'
  BY <1>1, OrderStep
<1>3. /\ (Done(13) => Done(13)') /\ (Done(14) => Done(14)')
      /\ "payloads" \in applied => "payloads" \in applied'
  <2>1. (Done(13) => Done(13)') /\ (Done(14) => Done(14)')
    BY <1>1, DoneStays DEF Steps
  <2> QED
    BY <2>1, Places DEF Done
<1>4. Present \subseteq Requests /\ Inherited \subseteq Requests
  BY DEF Present, Requests
<1>5. CASE UNCHANGED <<log, body>>
  <2>1. RowShapes' /\ BodyShapes' /\ Present' = Present
    BY <1>1, <1>5 DEF RowShapes, BodyShapes, Present
  <2>2. PastUntouched'
    BY <1>1, <1>3, <1>5, <2>1 DEF PastUntouched, Readable
  <2>3. BodyReadable'
    BY <1>1, <1>3, <1>5, <2>1 DEF BodyReadable, Hydrated
  <2> QED
    BY <1>2, <2>1, <2>2, <2>3 DEF PastInv
<1>6. CASE Migrate
  <2>1. RowShapes' /\ Present' = Present
    BY <1>1, <1>6, MigrateKeepsRows
  <2>2. /\ BodyShapes'
        /\ \A r \in Requests : Hydrated(r) # "gone" => Hydrated(r)' # "gone"
        /\ ~Done(13) => \A r \in Requests : Readable(r) => Readable(r)'
    BY <1>1, <1>6, MigrateKeepsBodies
  <2>3. PastUntouched'
    BY <1>1, <1>3, <1>4, <2>1, <2>2 DEF PastUntouched
  <2>4. BodyReadable'
    BY <1>1, <1>3, <1>4, <2>1, <2>2 DEF BodyReadable
  <2> QED
    BY <1>2, <2>1, <2>2, <2>3, <2>4 DEF PastInv
<1>7. Serving => Done(13) /\ Done(14)
  BY <1>1, ServingDone DEF Steps
<1>8. ASSUME NEW r \in New, RecordRequest(r) PROVE PastInv'
  <2>1. RowShapes' /\ Present' = Present \cup {r} /\ r \in Requests
    BY <1>1, <1>8, RecordedRow DEF Requests
  <2>2. Done(13)' /\ Done(14)'
    BY <1>3, <1>7, <1>8 DEF RecordRequest
  <2>3. /\ BodyShapes'
        /\ body'[r].row = "packed"
        /\ \A other \in Requests \ {r} : body'[other] = body[other]
    BY <1>1, <1>8, <2>1 DEF BodyShapes, RecordRequest
  <2>4. BodyReadable'
    BY <1>1, <1>3, <1>4, <2>1, <2>3 DEF BodyReadable, Hydrated
  <2> QED
    BY <1>2, <2>1, <2>2, <2>3, <2>4 DEF PastInv, PastUntouched
<1>9. CASE Cleanup
  <2>1. RowShapes' /\ Present' \subseteq Present
    <3>1. UNCHANGED log \/ CleanupRows
      BY <1>9, CleanupLeaves
    <3>2. CASE UNCHANGED log
      BY <1>1, <3>2 DEF RowShapes, Present
    <3>3. CASE CleanupRows
      BY <1>1, <3>3, RowsCleaned
    <3> QED
      BY <3>1, <3>2, <3>3
  <2>2. Done(13) /\ Done(13)' /\ Done(14) /\ Done(14)'
    BY <1>3, <1>7, <1>9, CleanupLeaves
  <2>3. BodyShapes' /\ \A r \in Requests \cap Retained : body'[r] = body[r]
    BY <1>1, <1>9, BodiesCleaned
  <2>4. BodyReadable'
    <3>1. "payloads" \in applied'
      BY <2>2, Places DEF Done
    <3> QED
      BY <1>1, <1>4, <2>1, <2>3, <3>1 DEF BodyReadable, Hydrated
  <2> QED
    BY <1>2, <2>1, <2>2, <2>3, <2>4 DEF PastInv, PastUntouched
<1>10. CASE Crash \/ UNCHANGED vars
  BY <1>5, <1>10 DEF Crash, vars
<1> QED
  BY <1>6, <1>8, <1>9, <1>10 DEF Next

\* At first nothing but the daily statistics may have been done.
LEMMA FirstDone == Init => \A i \in Steps : Done(i) => i = 1
<1> SUFFICES ASSUME Init, NEW i \in Steps, Done(i) PROVE i = 1
  OBVIOUS
<1>1. Order[1] = "daily"
  BY Places
<1>2. 1 \in Steps
  BY DEF Steps
<1>3. Order[i] = "daily"
  BY DEF Init, Done
<1> QED
  BY <1>1, <1>2, <1>3, OnePlace

\* The database of the older version has its rows and their bodies.
LEMMA PastFirst == Init => PastInv
<1> SUFFICES ASSUME Init PROVE PastInv
  OBVIOUS
<1>1. /\ log = [r \in Requests |-> IF r \in Inherited THEN OldRow(r) ELSE NoRow]
      /\ body = [r \in Requests |-> [column |-> IF r \in Inherited THEN "plain" ELSE "gone", row |-> "none"]]
      /\ next = 1 /\ applied \in {{}, {"daily"}}
  BY DEF Init
<1>2. InOrder
  <2>1. \A i \in Steps : Done(i) => i = 1
    BY FirstDone
  <2> QED
    BY <1>1, <2>1 DEF InOrder, Steps
<1>3. Inherited \subseteq Requests
  BY DEF Requests
<1>4. \A r \in Requests : r \in Inherited => log[r].outcome = "" /\ log[r] # NoRow
  BY <1>1 DEF OldRow, NoRow
<1>5. Present = Inherited
  BY <1>1, <1>3, <1>4 DEF Present
<1>6. RowShapes
  <2>1. log = [r \in Requests |-> log[r]]
    BY <1>1
  <2>2. \A r \in Requests : log[r] = [outcome |-> log[r].outcome, cost |-> log[r].cost,
                                      duration |-> log[r].duration, compaction |-> log[r].compaction]
    BY <1>1 DEF OldRow, NoRow
  <2> QED
    BY <1>3, <1>4, <1>5, <2>1, <2>2 DEF RowShapes
<1>7. BodyShapes /\ (\A r \in Inherited : body[r].column = "plain" /\ body[r].row = "none")
  BY <1>1, <1>3 DEF BodyShapes
<1>8. PastUntouched /\ BodyReadable
  BY <1>5, <1>7 DEF PastUntouched, BodyReadable, Readable, Hydrated
<1> QED
  BY <1>2, <1>6, <1>7, <1>8 DEF PastInv

\* At no moment of the upgrade, wherever the process dies, is a stored body lost
\* (relay_payloads.go).
THEOREM BodiesReadable == Spec => []BodyReadable
<1>1. PastInv => BodyReadable
  BY DEF PastInv
<1> QED
  BY <1>1, PastFirst, PastStep, PTL DEF Spec

-----------------------------------------------------------------------------
(* The daily statistics. *)

\* No row of statistics has no number of requests, and every other one has.
LEMMA NoStatCounts == ~Counted(NoStat)
BY DEF Counted, NoStat

\* The columns of a day count its requests, which are finitely many.
LEMMA AggregateCounts == \A rows : \A S \in SUBSET Requests : Counted(Aggregate(rows, S))
<1> SUFFICES ASSUME NEW rows, NEW S \in SUBSET Requests PROVE Counted(Aggregate(rows, S))
  OBVIOUS
<1>1. IsFiniteSet(S) /\ Cardinality(S) \in Nat
  BY RequestAssumption, FS_Subset, FS_CardinalityType
<1> QED
  BY <1>1 DEF Aggregate, Counted

\* Statistics that are written for some days are rows.
LEMMA StatsWritten ==
  ASSUME StatsShapes, stats' = [d \in Days |-> stats'[d]],
         \A d \in Days : stats'[d] = stats[d] \/ stats'[d] = NoStat \/ Counted(stats'[d])
  PROVE  StatsShapes'
BY DEF StatsShapes

\* Rebuilt statistics are rows.
LEMMA RebuiltShapes ==
  ASSUME StatsShapes, NEW dates, NEW rows, stats' = RebuiltFor(dates, rows) \/ stats' = Rebuilt(rows)
  PROVE  StatsShapes'
<1>1. \A d \in Days : OnDay(Present, d) \in SUBSET Requests
  BY DEF OnDay, Present
<1>2. \A d \in Days : Counted(Aggregate(rows, OnDay(Present, d)))
  BY <1>1, AggregateCounts
<1>3. stats' = [d \in Days |-> stats'[d]]
  BY DEF RebuiltFor, Rebuilt
<1>4. \A d \in Days : stats'[d] = stats[d] \/ stats'[d] = NoStat \/ Counted(stats'[d])
  BY <1>2 DEF RebuiltFor, Rebuilt
<1> QED
  BY <1>3, <1>4, StatsWritten

\* A recorded request adds one to its day.
LEMMA PlusCounts ==
  ASSUME StatsShapes, NEW r \in Requests
  PROVE  /\ Counted(Plus(Day[r], r))
         /\ stats[Day[r]] # NoStat => Plus(Day[r], r).requests = stats[Day[r]].requests + 1
<1>1. Day[r] \in Days
  BY RequestAssumption
<1>2. CASE stats[Day[r]] = NoStat
  BY <1>2 DEF Plus, Counted
<1>3. CASE stats[Day[r]] # NoStat
  BY <1>1, <1>3 DEF Plus, Counted, StatsShapes
<1> QED
  BY <1>2, <1>3

\* Every step leaves the statistics rows.
LEMMA StatsStep == StatsShapes /\ [Next]_vars => StatsShapes'
<1> SUFFICES ASSUME StatsShapes, [Next]_vars PROVE StatsShapes'
  OBVIOUS
<1>1. CASE UNCHANGED stats
  BY <1>1 DEF StatsShapes
<1>2. CASE BackfillTokenDailyStats
  BY <1>2, RebuiltShapes DEF BackfillTokenDailyStats
<1>3. CASE BackfillRelayOutcomes
  <2>1. stats' = [d \in Days |-> stats'[d]]
    BY <1>3 DEF BackfillRelayOutcomes
  <2>2. \A d \in Days : \/ stats'[d] = stats[d]
                        \/ stats[d] # NoStat /\ \E n : stats'[d] = [stats[d] EXCEPT !.canceled = n]
    BY <1>3 DEF BackfillRelayOutcomes
  <2>3. ASSUME NEW d \in Days, stats'[d] # stats[d] PROVE Counted(stats'[d])
    <3>1. stats[d] # NoStat /\ Counted(stats[d])
      BY <2>2, <2>3 DEF StatsShapes
    <3>2. PICK n : stats'[d] = [stats[d] EXCEPT !.canceled = n]
      BY <2>2, <2>3
    <3>3. Counted([stats[d] EXCEPT !.canceled = n])
      BY <3>1 DEF Counted
    <3> QED
      BY <3>2, <3>3
  <2> QED
    BY <2>1, <2>3, StatsWritten
<1>4. CASE BackfillCostFields
  BY <1>4, RebuiltShapes DEF BackfillCostFields
<1>5. CASE BackfillApplicationOutcomes
  <2>1. stats' = [d \in Days |-> stats'[d]]
    BY <1>5 DEF BackfillApplicationOutcomes
  <2>2. \A d \in Days : \/ stats'[d] = stats[d]
                        \/ /\ stats[d] # NoStat
                           /\ \E n, m : stats'[d] = [stats[d] EXCEPT !.success = n, !.cost = m]
    BY <1>5 DEF BackfillApplicationOutcomes
  <2>3. ASSUME NEW d \in Days, stats'[d] # stats[d] PROVE Counted(stats'[d])
    <3>1. stats[d] # NoStat /\ Counted(stats[d])
      BY <2>2, <2>3 DEF StatsShapes
    <3>2. PICK n, m : stats'[d] = [stats[d] EXCEPT !.success = n, !.cost = m]
      BY <2>2, <2>3
    <3>3. Counted([stats[d] EXCEPT !.success = n, !.cost = m])
      BY <3>1 DEF Counted
    <3> QED
      BY <3>2, <3>3
  <2> QED
    BY <2>1, <2>3, StatsWritten
<1>6. CASE BackfillRequestStatisticsFromFinalAttempts
  BY <1>6, RebuiltShapes DEF BackfillRequestStatisticsFromFinalAttempts
<1>7. CASE BackfillResponsePhaseTimings
  BY <1>7, RebuiltShapes DEF BackfillResponsePhaseTimings
<1>8. ASSUME NEW r \in New, RecordRequest(r) PROVE StatsShapes'
  <2>1. r \in Requests /\ Day[r] \in Days
    BY RequestAssumption DEF Requests
  <2>2. stats' = [stats EXCEPT ![Day[r]] = Plus(Day[r], r)]
    BY <1>8 DEF RecordRequest
  <2>3. stats' = [d \in Days |-> stats'[d]]
    BY <2>2 DEF StatsShapes
  <2>4. \A d \in Days : stats'[d] = stats[d] \/ stats'[d] = Plus(Day[r], r)
    BY <2>2 DEF StatsShapes
  <2>5. Counted(Plus(Day[r], r))
    BY <2>1, PlusCounts
  <2>6. \A d \in Days : stats'[d] = stats[d] \/ Counted(stats'[d])
    BY <2>4, <2>5
  <2> QED
    BY <2>3, <2>6, StatsWritten
<1>9. \/ UNCHANGED stats \/ BackfillTokenDailyStats \/ BackfillRelayOutcomes \/ BackfillCostFields
      \/ BackfillApplicationOutcomes \/ BackfillRequestStatisticsFromFinalAttempts
      \/ BackfillResponsePhaseTimings \/ \E r \in New : RecordRequest(r)
  BY CleanupLeaves DEF Next, Migrate, vars, BackfillChannelModelDailyCosts, BackfillChannelModelDailyAggregates,
     CompressDetailedPayloads, BackfillCodexThreadSources, BackfillCodexSessionParents,
     BackfillCodexCompactionTracking, CorrectSuccessfulCodexCompactionCounts, MigrateRequestPayloadBatch,
     MigrateRelayPayloadTables, Skip, Crash
<1> QED
  BY <1>1, <1>2, <1>3, <1>4, <1>5, <1>6, <1>7, <1>8, <1>9

\* The older version left none, or rows of its own.
LEMMA StatsFirst == Init => StatsShapes
<1> SUFFICES ASSUME Init PROVE StatsShapes
  OBVIOUS
<1>1. CASE stats = [d \in Days |-> NoStat]
  BY <1>1 DEF StatsShapes
<1>2. CASE stats = [d \in Days |->
                     LET S == {r \in Inherited : Day[r] = d} IN
                     IF S # {} THEN [Aggregate(log, S) EXCEPT !.success =
                                       Cardinality({r \in S : Reply[r] \in {"good", "masked"}})]
                     ELSE Dropped[d]]
  <2>1. stats = [d \in Days |-> stats[d]]
    BY <1>2
  <2>2. ASSUME NEW d \in Days PROVE stats[d] = NoStat \/ Counted(stats[d])
    <3> DEFINE S == {r \in Inherited : Day[r] = d}
    <3>1. Counted(Aggregate(log, S))
      BY AggregateCounts DEF Requests
    <3>2. CASE S # {}
      <4>1. PICK n : stats[d] = [Aggregate(log, S) EXCEPT !.success = n]
        BY <1>2, <3>2
      <4> HIDE DEF S
      <4>2. Counted([Aggregate(log, S) EXCEPT !.success = n])
        BY <3>1 DEF Counted
      <4> QED
        BY <4>1, <4>2
    <3>3. CASE S = {}
      <4>1. stats[d] = Dropped[d]
        BY <1>2, <3>3
      <4>2. Dropped[d] = NoStat \/ Dropped[d] \in Columns
        BY DroppedAssumption
      <4> QED
        BY <4>1, <4>2 DEF Columns, Counted
    <3> QED
      BY <3>2, <3>3
  <2> QED
    BY <2>1, <2>2 DEF StatsShapes
<1> QED
  BY <1>1, <1>2 DEF Init

\* Once all is done, the statistics only grow: what is due is nothing, and requests are added.
LEMMA DoneKeepsStats ==
  ASSUME InOrder, StatsShapes, Done(14), [Next]_vars, NEW d \in Days
  PROVE  NotLess(stats'[d], stats[d])
<1>1. \A i \in Steps : Done(i)
  BY DEF InOrder, Steps
<1>2. ASSUME NEW i \in Steps, Apply(Order[i]) PROVE FALSE
  BY <1>1, <1>2 DEF Apply, Due, Done
<1>3. {1, 2, 3, 4, 7, 8} \subseteq Steps
  BY DEF Steps
<1>4. ~BackfillTokenDailyStats
  BY <1>2, <1>3, Places DEF BackfillTokenDailyStats
<1>5. ~BackfillRelayOutcomes
  BY <1>2, <1>3, Places DEF BackfillRelayOutcomes
<1>6. ~BackfillCostFields
  BY <1>2, <1>3, Places DEF BackfillCostFields
<1>7. ~BackfillApplicationOutcomes
  BY <1>2, <1>3, Places DEF BackfillApplicationOutcomes
<1>8. ~BackfillRequestStatisticsFromFinalAttempts
  BY <1>2, <1>3, Places DEF BackfillRequestStatisticsFromFinalAttempts
<1>9. ~BackfillResponsePhaseTimings
  BY <1>2, <1>3, Places DEF BackfillResponsePhaseTimings
<1>10. UNCHANGED stats \/ \E r \in New : RecordRequest(r)
  BY <1>4, <1>5, <1>6, <1>7, <1>8, <1>9, CleanupLeaves
     DEF Next, Migrate, vars, BackfillChannelModelDailyCosts, BackfillChannelModelDailyAggregates,
     CompressDetailedPayloads, BackfillCodexThreadSources, BackfillCodexSessionParents,
     BackfillCodexCompactionTracking, CorrectSuccessfulCodexCompactionCounts, MigrateRequestPayloadBatch,
     MigrateRelayPayloadTables, Skip, Crash
<1>11. stats[d] = NoStat \/ Counted(stats[d])
  BY DEF StatsShapes
<1>12. CASE UNCHANGED stats
  BY <1>11, <1>12 DEF NotLess, Counted
<1>13. ASSUME NEW r \in New, RecordRequest(r) PROVE NotLess(stats'[d], stats[d])
  <2>1. r \in Requests /\ Day[r] \in Days
    BY RequestAssumption DEF Requests
  <2>2. stats'[d] = IF d = Day[r] THEN Plus(Day[r], r) ELSE stats[d]
    BY <1>13, <2>1 DEF RecordRequest, StatsShapes
  <2>3. CASE d # Day[r]
    BY <1>11, <2>2, <2>3 DEF NotLess, Counted
  <2>4. CASE d = Day[r]
    <3>1. /\ Counted(Plus(Day[r], r))
          /\ stats[Day[r]] # NoStat => Plus(Day[r], r).requests = stats[Day[r]].requests + 1
      BY <2>1, PlusCounts
    <3>2. Plus(Day[r], r) # NoStat
      BY <3>1, NoStatCounts
    <3> QED
      BY <1>11, <2>2, <2>4, <3>1, <3>2 DEF NotLess, Counted
  <2> QED
    BY <2>3, <2>4
<1> QED
  BY <1>10, <1>12, <1>13

\* After the upgrade neither cleanup nor restarts take anything from the statistics
\* (Store.migrate, cleanupExpired).
THEOREM StatsKeptOnceUpgraded == Spec => UpgradedStatsKept
<1>1. InOrder /\ StatsShapes /\ [Next]_vars
        => [Order[Len(Order)] \in applied => \A d \in Days : NotLess(stats'[d], stats[d])]_vars
  <2>1. Len(Order) = 14
    BY Places
  <2> QED
    BY <2>1, DoneKeepsStats DEF Done
<1>2. Init => InOrder
  BY PastFirst DEF PastInv
<1> QED
  BY <1>1, <1>2, StatsFirst, OrderStep, StatsStep, PTL DEF Spec, UpgradedStatsKept

-----------------------------------------------------------------------------
(* The sessions. *)

\* What the rows of the older version say, by how far the upgrade has come.
RowsTold ==
  \A r \in Present \cap Inherited :
    /\ Done(2) /\ ~Done(4) => log[r].outcome = RowOutcome(r)
    /\ Done(4) => log[r].outcome = Outcome(r)
    /\ log[r].compaction <=> Done(12) /\ r \in Compacts

\* Compaction requests of a session: those of the older version, those that succeeded, and
\* those that have succeeded since.
CompactsOf(s)  == {r \in Inherited : Session[r] = s /\ r \in Compacts}
SucceededOf(s) == {r \in Recorded : Session[r] = s /\ r \in Compacts /\ Reply[r] = "good"}
SinceOf(s)     == {r \in Recorded \cap New : Session[r] = s /\ r \in Compacts /\ Reply[r] = "good"}

SessionRows == [state: {"none", "expired", "recent"}, thread: {"", "user", "subagent"},
                parent: BOOLEAN, compactions: Nat]

\* A state whose thread is known is recent.  One that is expired was so, is not lasting once
\* the threads have been told, and none of its session's requests has been recorded since.
ThreadsTold ==
  \A s \in Sessions :
    /\ sessions[s].thread # "" => sessions[s].thread = Source[s] /\ sessions[s].state = "recent"
    /\ sessions[s].state = "expired" => /\ States[s] = "expired" /\ (Done(10) => ~Lasting(s))
                                       /\ \A r \in Recorded \cap New : Session[r] # s
    /\ Source[s] = "subagent" /\ (\E r \in Recorded : Session[r] = s) =>
         (Done(10) => sessions[s].thread = "subagent") /\ (Done(11) => sessions[s].parent)

\* The compactions of a session, by how far the upgrade has come.
CountsTold ==
  \A s \in Sessions :
    /\ Done(12) /\ ~Done(13) => sessions[s].compactions = Cardinality(CompactsOf(s))
    /\ Done(13) => \/ sessions[s].compactions = Cardinality(SucceededOf(s))
                   \/ ~Lasting(s) /\ sessions[s].compactions = Cardinality(SinceOf(s))

\* What the sessions say.
SessionsFollow == sessions \in [Sessions -> SessionRows] /\ ThreadsTold /\ CountsTold

TellingInv == PastInv /\ RowsTold /\ SessionsFollow

\* The migrations that rows depend on, and those that sessions depend on, are done by
\* themselves only.
LEMMA RowMigrations ==
  ASSUME [Next]_vars, ~BackfillRelayOutcomes, ~BackfillApplicationOutcomes, ~BackfillCodexCompactionTracking
  PROVE  (Done(2)' <=> Done(2)) /\ (Done(4)' <=> Done(4)) /\ (Done(12)' <=> Done(12))
<1>1. applied' = applied \/ \E name : /\ applied' = applied \cup {name}
                                      /\ name # "outcomes" /\ name # "application" /\ name # "compactions"
  BY CleanupLeaves DEF Next, Migrate, vars, Apply, BackfillTokenDailyStats, BackfillCostFields,
     BackfillChannelModelDailyCosts, BackfillChannelModelDailyAggregates,
     BackfillRequestStatisticsFromFinalAttempts, BackfillResponsePhaseTimings, CompressDetailedPayloads,
     BackfillCodexThreadSources, BackfillCodexSessionParents,
     CorrectSuccessfulCodexCompactionCounts, MigrateRequestPayloadBatch, MigrateRelayPayloadTables, Skip,
     RecordRequest, Crash
<1>2. Order[2] = "outcomes" /\ Order[4] = "application" /\ Order[12] = "compactions"
  BY Places
<1> QED
  BY <1>1, <1>2 DEF Done

\* Likewise for the four migrations that sessions depend on.
LEMMA SessionMigrations ==
  ASSUME [Next]_vars, ~BackfillCodexThreadSources, ~BackfillCodexSessionParents,
         ~BackfillCodexCompactionTracking, ~CorrectSuccessfulCodexCompactionCounts
  PROVE  (Done(10)' <=> Done(10)) /\ (Done(11)' <=> Done(11)) /\ (Done(12)' <=> Done(12)) /\ (Done(13)' <=> Done(13))
<1>1. applied' = applied \/ \E name : /\ applied' = applied \cup {name}
                                      /\ name # "threads" /\ name # "parents" /\ name # "compactions"
                                      /\ name # "successful compactions"
  BY CleanupLeaves DEF Next, Migrate, vars, Apply, BackfillTokenDailyStats, BackfillRelayOutcomes, BackfillCostFields,
     BackfillApplicationOutcomes, BackfillChannelModelDailyCosts, BackfillChannelModelDailyAggregates,
     BackfillRequestStatisticsFromFinalAttempts, BackfillResponsePhaseTimings, CompressDetailedPayloads,
     MigrateRequestPayloadBatch, MigrateRelayPayloadTables, Skip, RecordRequest, Crash
<1>2. Order[10] = "threads" /\ Order[11] = "parents" /\ Order[12] = "compactions"
      /\ Order[13] = "successful compactions"
  BY Places
<1> QED
  BY <1>1, <1>2 DEF Done

\* All other steps leave the outcome and the mark of a row of the older version.
LEMMA RowsLeft ==
  ASSUME RowShapes, [Next]_vars, ~BackfillRelayOutcomes, ~BackfillApplicationOutcomes,
         ~BackfillCodexCompactionTracking, NEW r \in Present' \cap Inherited
  PROVE  r \in Present /\ log'[r].outcome = log[r].outcome /\ log'[r].compaction = log[r].compaction
<1>0. r \in Requests
  BY DEF Requests
<1>1. CASE UNCHANGED log
  BY <1>1 DEF Present
<1>2. CASE Migrate
  <2>1. r \in Present
    BY <1>2, MigrateKeepsRows
  <2>2. CASE BackfillCostFields
    <3>1. log'[r] = log[r] \/ log'[r] = [outcome |-> log[r].outcome, cost |-> 0,
                                         duration |-> log[r].duration, compaction |-> log[r].compaction]
      BY <1>0, <2>2, CostsRow
    <3> QED
      BY <2>1, <3>1
  <2>3. CASE BackfillRequestStatisticsFromFinalAttempts
    <3>1. log'[r] = log[r] \/ \E cost : log'[r] = [outcome |-> log[r].outcome, cost |-> cost,
                                                    duration |-> log[r].duration, compaction |-> log[r].compaction]
      BY <1>0, <2>3, FinalAttemptsRow
    <3>2. ASSUME NEW cost, log'[r] = [outcome |-> log[r].outcome, cost |-> cost,
                                      duration |-> log[r].duration, compaction |-> log[r].compaction]
          PROVE  log'[r].outcome = log[r].outcome /\ log'[r].compaction = log[r].compaction
      BY <3>2
    <3> QED
      BY <2>1, <3>1, <3>2
  <2>4. CASE BackfillResponsePhaseTimings
    <3>1. log'[r] = [outcome |-> log[r].outcome, cost |-> log[r].cost,
                     duration |-> AtLeastZero(log[r].duration, Latency), compaction |-> log[r].compaction]
      BY <1>0, <2>1, <2>4, TimingsRow
    <3> QED
      BY <2>1, <3>1
  <2>5. \/ UNCHANGED log \/ BackfillCostFields \/ BackfillRequestStatisticsFromFinalAttempts
        \/ BackfillResponsePhaseTimings
    BY <1>2 DEF Migrate, BackfillTokenDailyStats, BackfillChannelModelDailyCosts,
       BackfillChannelModelDailyAggregates, CompressDetailedPayloads, BackfillCodexThreadSources,
       BackfillCodexSessionParents, CorrectSuccessfulCodexCompactionCounts, MigrateRequestPayloadBatch,
       MigrateRelayPayloadTables, Skip
  <2> QED
    BY <1>1, <2>2, <2>3, <2>4, <2>5
<1>3. ASSUME NEW other \in New, RecordRequest(other)
      PROVE  r \in Present /\ log'[r].outcome = log[r].outcome /\ log'[r].compaction = log[r].compaction
  <2>1. r # other
    BY RequestAssumption
  <2>2. log'[r] = log[r]
    BY <1>0, <1>3, <2>1, RecordedRow
  <2> QED
    BY <1>0, <2>2 DEF Present
<1>4. CASE Cleanup
  <2>1. UNCHANGED log \/ CleanupRows
    BY <1>4, CleanupLeaves
  <2> QED
    BY <1>0, <1>1, <2>1, RowsCleaned
<1>5. CASE Crash \/ UNCHANGED vars
  BY <1>1, <1>5 DEF Crash, vars
<1> QED
  BY <1>2, <1>3, <1>4, <1>5 DEF Next

\* A masked error is the only reply whose outcome the older version got wrong.
LEMMA OutcomesDiffer ==
  ASSUME NEW r \in Requests
  PROVE  /\ Reply[r] # "masked" => RowOutcome(r) = Outcome(r)
         /\ Reply[r] = "masked" => RowOutcome(r) = "success" /\ Outcome(r) = "failed"
BY RequestAssumption DEF RowOutcome, Outcome

\* Every step keeps what the rows of the older version say.
LEMMA RowsToldStep == PastInv /\ RowsTold /\ [Next]_vars => RowsTold'
<1> SUFFICES ASSUME PastInv, RowsTold, [Next]_vars PROVE RowsTold'
  OBVIOUS
<1>1. InOrder /\ RowShapes /\ PastUntouched
  BY DEF PastInv
<1>2. CASE BackfillRelayOutcomes
  <2>0. Order[2] = "outcomes" /\ {2, 4, 12, 13} \subseteq Steps
    <3>1. Order[2] = "outcomes"
      BY Places
    <3> QED
      BY <3>1 DEF Steps
  <2>1. 2 \in Steps /\ Apply(Order[2]) /\ 4 \in Steps /\ 12 \in Steps
    BY <1>2, <2>0 DEF BackfillRelayOutcomes
  <2>2. Done(2)' /\ ~Done(4)' /\ ~Done(12)' /\ ~Done(12)
    BY <1>1, <2>1, Applied
  <2>3. ASSUME NEW r \in Present' \cap Inherited
        PROVE  log'[r].outcome = RowOutcome(r) /\ ~log'[r].compaction
    <3>1. r \in Requests /\ Present' = Present
      BY <1>1, <1>2, MigrateKeepsRows DEF Requests, Migrate
    <3>2. ~log[r].compaction
      BY <2>2, <3>1 DEF RowsTold
    <3>3. log'[r] = [outcome |-> RowOutcome(r), cost |-> log[r].cost,
                     duration |-> log[r].duration, compaction |-> log[r].compaction]
      BY <1>1, <1>2, <3>1, OutcomesRow
    <3> QED
      BY <3>2, <3>3
  <2> QED
    BY <2>2, <2>3 DEF RowsTold
<1>3. CASE BackfillApplicationOutcomes
  <2>0. Order[4] = "application" /\ {2, 4, 12, 13} \subseteq Steps
    <3>1. Order[4] = "application"
      BY Places
    <3> QED
      BY <3>1 DEF Steps
  <2>1. 4 \in Steps /\ Apply(Order[4]) /\ 2 \in Steps /\ 12 \in Steps /\ 13 \in Steps
    BY <1>3, <2>0 DEF BackfillApplicationOutcomes
  <2>2. Done(4)' /\ ~Done(12)' /\ ~Done(12) /\ Done(2) /\ ~Done(4) /\ ~Done(13)
    BY <1>1, <2>1, Applied
  <2>3. ASSUME NEW r \in Present' \cap Inherited
        PROVE  log'[r].outcome = Outcome(r) /\ ~log'[r].compaction
    <3>1. r \in Requests /\ r \in Present
      BY <1>1, <1>3, MigrateKeepsRows DEF Requests, Migrate
    <3>2. ~log[r].compaction /\ log[r].outcome = RowOutcome(r)
      BY <2>2, <3>1 DEF RowsTold
    <3>3. Readable(r)
      BY <1>1, <2>2 DEF PastUntouched
    <3>4. r \in Misjudged <=> Reply[r] = "masked"
      BY <3>1, <3>2, <3>3, OutcomesDiffer DEF Misjudged, Outcome
    <3>5. CASE Reply[r] = "masked"
      <4>1. log'[r] = [outcome |-> "failed", cost |-> 0,
                       duration |-> log[r].duration, compaction |-> log[r].compaction]
        BY <1>1, <1>3, <3>1, <3>4, <3>5, ApplicationRow
      <4> QED
        BY <3>1, <3>2, <3>5, <4>1, OutcomesDiffer
    <3>6. CASE Reply[r] # "masked"
      BY <1>1, <1>3, <3>1, <3>2, <3>4, <3>6, ApplicationRow, OutcomesDiffer
    <3> QED
      BY <3>5, <3>6
  <2> QED
    BY <2>2, <2>3 DEF RowsTold
<1>4. CASE BackfillCodexCompactionTracking
  <2>0. Order[12] = "compactions" /\ {2, 4, 12, 13} \subseteq Steps
    <3>1. Order[12] = "compactions"
      BY Places
    <3> QED
      BY <3>1 DEF Steps
  <2>1. 12 \in Steps /\ Apply(Order[12]) /\ 2 \in Steps /\ 4 \in Steps /\ 13 \in Steps
    BY <1>4, <2>0 DEF BackfillCodexCompactionTracking
  <2>2. Done(12)' /\ ~Done(12) /\ Done(4) /\ Done(4)' /\ ~Done(13)
    BY <1>1, <2>1, Applied
  <2>3. ASSUME NEW r \in Present' \cap Inherited
        PROVE  log'[r].outcome = Outcome(r) /\ (log'[r].compaction <=> r \in Compacts)
    <3>1. r \in Requests /\ r \in Present
      BY <1>1, <1>4, MigrateKeepsRows DEF Requests, Migrate
    <3>2. ~log[r].compaction /\ log[r].outcome = Outcome(r)
      BY <2>2, <3>1 DEF RowsTold
    <3>3. Readable(r)
      BY <1>1, <2>2 DEF PastUntouched
    <3>4. log'[r] = IF r \in Compacts
                    THEN [outcome |-> log[r].outcome, cost |-> log[r].cost,
                          duration |-> log[r].duration, compaction |-> TRUE]
                    ELSE log[r]
      BY <1>1, <1>4, <3>1, <3>3, CompactionRow
    <3> QED
      BY <3>2, <3>4
  <2> QED
    BY <2>2, <2>3 DEF RowsTold
<1>5. CASE ~BackfillRelayOutcomes /\ ~BackfillApplicationOutcomes /\ ~BackfillCodexCompactionTracking
  <2>1. (Done(2)' <=> Done(2)) /\ (Done(4)' <=> Done(4)) /\ (Done(12)' <=> Done(12))
    BY <1>5, RowMigrations
  <2>2. \A r \in Present' \cap Inherited :
          r \in Present /\ log'[r].outcome = log[r].outcome /\ log'[r].compaction = log[r].compaction
    BY <1>1, <1>5, RowsLeft
  <2>3. \A r : RowOutcome(r)' = RowOutcome(r) /\ Outcome(r)' = Outcome(r)
    BY DEF RowOutcome, Outcome
  <2> QED
    BY <2>1, <2>2, <2>3 DEF RowsTold
<1> QED
  BY <1>2, <1>3, <1>4, <1>5

\* Who is recorded: the rows of the older version stay so when they are deleted.
LEMMA RecordedSame ==
  ASSUME RowShapes, [Next]_vars, \A r \in New : ~RecordRequest(r)
  PROVE  Recorded' = Recorded
<1>1. New \subseteq Requests /\ New \subseteq Retained
  BY RequestAssumption DEF Requests
<1>2. \A r \in New : log'[r] # NoRow <=> log[r] # NoRow
  <2>1. CASE UNCHANGED log
    BY <2>1
  <2>2. CASE Migrate
    <3>1. Present' = Present
      BY <2>2, MigrateKeepsRows
    <3> QED
      BY <1>1, <3>1 DEF Present
  <2>3. CASE Cleanup
    <3>1. UNCHANGED log \/ CleanupRows
      BY <2>3, CleanupLeaves
    <3> QED
      BY <1>1, <2>1, <3>1, RowsCleaned
  <2> QED
    BY <2>1, <2>2, <2>3 DEF Next, Crash, vars
<1> QED
  BY <1>2 DEF Recorded

\* Sets of requests can be counted.
LEMMA RequestsCounted == \A S \in SUBSET Requests : IsFiniteSet(S) /\ Cardinality(S) \in Nat
BY RequestAssumption, FS_Subset, FS_CardinalityType

\* The sets counted are sets of requests.
LEMMA SetsOfRequests ==
  \A s : /\ CompactsOf(s) \in SUBSET Requests /\ SucceededOf(s) \in SUBSET Requests
         /\ SinceOf(s) \in SUBSET Requests /\ Recorded \subseteq Requests
BY DEF CompactsOf, SucceededOf, SinceOf, Recorded, Requests

\* Steps that leave the sessions, the migrations they depend on and the recorded requests.
LEMMA SessionsLeft ==
  ASSUME SessionsFollow, UNCHANGED sessions, Recorded' = Recorded,
         (Done(10)' <=> Done(10)) /\ (Done(11)' <=> Done(11)) /\ (Done(12)' <=> Done(12)) /\ (Done(13)' <=> Done(13))
  PROVE  SessionsFollow'
<1>1. \A s : CompactsOf(s)' = CompactsOf(s) /\ SucceededOf(s)' = SucceededOf(s) /\ SinceOf(s)' = SinceOf(s)
  BY DEF CompactsOf, SucceededOf, SinceOf
<1>2. ThreadsTold'
  BY DEF SessionsFollow, ThreadsTold, Lasting
<1>3. CountsTold'
  BY <1>1 DEF SessionsFollow, CountsTold, Lasting
<1> QED
  BY <1>2, <1>3 DEF SessionsFollow

\* A state has its columns.
LEMMA StateColumns ==
  ASSUME NEW row \in SessionRows
  PROVE  row = [state |-> row.state, thread |-> row.thread, parent |-> row.parent, compactions |-> row.compactions]
BY DEF SessionRows

\* With their values.
LEMMA StateTyped ==
  ASSUME NEW row \in SessionRows
  PROVE  /\ row.state \in {"none", "expired", "recent"} /\ row.thread \in {"", "user", "subagent"}
         /\ row.parent \in BOOLEAN /\ row.compactions \in Nat
BY DEF SessionRows

\* What has the columns of a state is one.
LEMMA IsState ==
  ASSUME NEW state \in {"none", "expired", "recent"}, NEW thread \in {"", "user", "subagent"},
         NEW parent \in BOOLEAN, NEW count \in Nat
  PROVE  [state |-> state, thread |-> thread, parent |-> parent, compactions |-> count] \in SessionRows
BY DEF SessionRows

\* The columns of a state that is written out.
LEMMA ColumnsOf ==
  ASSUME NEW row, NEW state, NEW thread, NEW parent, NEW count,
         row = [state |-> state, thread |-> thread, parent |-> parent, compactions |-> count]
  PROVE  row.state = state /\ row.thread = thread /\ row.parent = parent /\ row.compactions = count
OBVIOUS

\* The columns of a state after its thread has been set.
LEMMA ThreadSet ==
  ASSUME NEW row \in SessionRows, NEW state, NEW thread
  PROVE  [row EXCEPT !.state = state, !.thread = thread]
           = [state |-> state, thread |-> thread, parent |-> row.parent, compactions |-> row.compactions]
<1> DEFINE new == [state |-> state, thread |-> row.thread, parent |-> row.parent, compactions |-> row.compactions]
<1>1. [row EXCEPT !.state = state] = new
  BY StateColumns
<1>2. [new EXCEPT !.thread = thread]
        = [state |-> state, thread |-> thread, parent |-> row.parent, compactions |-> row.compactions]
  OBVIOUS
<1>3. [row EXCEPT !.state = state, !.thread = thread] = [[row EXCEPT !.state = state] EXCEPT !.thread = thread]
  OBVIOUS
<1> HIDE DEF new
<1> QED
  BY <1>1, <1>2, <1>3

\* Likewise for its parent.
LEMMA ParentSet ==
  ASSUME NEW row \in SessionRows, NEW state, NEW parent
  PROVE  [row EXCEPT !.state = state, !.parent = parent]
           = [state |-> state, thread |-> row.thread, parent |-> parent, compactions |-> row.compactions]
<1> DEFINE new == [state |-> state, thread |-> row.thread, parent |-> row.parent, compactions |-> row.compactions]
<1>1. [row EXCEPT !.state = state] = new
  BY StateColumns
<1>2. [new EXCEPT !.parent = parent]
        = [state |-> state, thread |-> row.thread, parent |-> parent, compactions |-> row.compactions]
  OBVIOUS
<1>3. [row EXCEPT !.state = state, !.parent = parent] = [[row EXCEPT !.state = state] EXCEPT !.parent = parent]
  OBVIOUS
<1> HIDE DEF new
<1> QED
  BY <1>1, <1>2, <1>3

\* Likewise for its count.
LEMMA CountSet ==
  ASSUME NEW row \in SessionRows, NEW state, NEW count
  PROVE  [row EXCEPT !.compactions = count, !.state = state]
           = [state |-> state, thread |-> row.thread, parent |-> row.parent, compactions |-> count]
<1> DEFINE new == [state |-> row.state, thread |-> row.thread, parent |-> row.parent, compactions |-> count]
<1>1. [row EXCEPT !.compactions = count] = new
  BY StateColumns
<1>2. [new EXCEPT !.state = state]
        = [state |-> state, thread |-> row.thread, parent |-> row.parent, compactions |-> count]
  OBVIOUS
<1>3. [row EXCEPT !.compactions = count, !.state = state] = [[row EXCEPT !.compactions = count] EXCEPT !.state = state]
  OBVIOUS
<1> HIDE DEF new
<1> QED
  BY <1>1, <1>2, <1>3

\* The four migrations that write the sessions are the tenth to the thirteenth.
LEMMA SessionPlaces ==
  /\ Order[10] = "threads" /\ Order[11] = "parents" /\ Order[12] = "compactions"
  /\ Order[13] = "successful compactions"
BY Places

\* They and the one that corrects outcomes are places in the order.
LEMMA SessionSteps ==
  4 \in Steps /\ 10 \in Steps /\ 11 \in Steps /\ 12 \in Steps /\ 13 \in Steps /\ 14 \in Steps
BY DEF Steps

\* Before the process serves, everything recorded is of the older version.
LEMMA NothingNew == ASSUME PastInv, ~Done(14) PROVE Recorded = Inherited
<1>1. Present = Inherited
  BY DEF PastInv, PastUntouched
<1>2. \A r \in New : log[r] = NoRow
  BY <1>1, RequestAssumption DEF Present, Requests
<1> QED
  BY <1>2 DEF Recorded

\* The bodies are still there to tell threads from.
LEMMA ThreadsFollow ==
  ASSUME PastInv, SessionsFollow, BackfillCodexThreadSources, Recorded' = Recorded
  PROVE  SessionsFollow'
<1>1. InOrder /\ PastUntouched /\ sessions \in [Sessions -> SessionRows] /\ ThreadsTold
  BY DEF PastInv, SessionsFollow
<1>2. Apply(Order[10])
  BY SessionPlaces DEF BackfillCodexThreadSources
<1>2a. \A j \in Steps : (Done(j) <=> j < 10) /\ (Done(j)' <=> j <= 10)
  BY <1>1, <1>2, Applied, SessionSteps
<1>3. /\ Done(10)' /\ ~Done(11)' /\ ~Done(12)' /\ ~Done(13)' /\ ~Done(13) /\ ~Done(14)
  BY <1>2a, SessionSteps
<1>4. Present = Inherited /\ Recorded = Inherited /\ \A r \in Inherited : Readable(r)
  BY <1>1, <1>3, NothingNew DEF PastUntouched
<1>5. \A s : Heard(s) <=> \E r \in Inherited : Session[r] = s
  BY <1>4 DEF Heard
<1>6. ASSUME NEW s \in Sessions
      PROVE  sessions'[s] = IF Heard(s) /\ sessions[s].thread # Source[s]
                            THEN [state |-> "recent", thread |-> Source[s], parent |-> sessions[s].parent,
                                  compactions |-> sessions[s].compactions]
                            ELSE sessions[s]
  <2>1. sessions[s] \in SessionRows
    BY <1>1
  <2>2. [sessions[s] EXCEPT !.state = "recent", !.thread = Source[s]]
          = [state |-> "recent", thread |-> Source[s], parent |-> sessions[s].parent,
             compactions |-> sessions[s].compactions]
    BY <2>1, ThreadSet
  <2> QED
    BY <2>2 DEF BackfillCodexThreadSources
<1>7. sessions' \in [Sessions -> SessionRows]
  <2>1. ASSUME NEW s \in Sessions PROVE sessions'[s] \in SessionRows
    <3>1. Source[s] \in {"", "user", "subagent"} /\ sessions[s] \in SessionRows
      BY <1>1, SessionAssumption
    <3>2. sessions[s].parent \in BOOLEAN /\ sessions[s].compactions \in Nat
      BY <3>1, StateTyped
    <3>3. [state |-> "recent", thread |-> Source[s], parent |-> sessions[s].parent,
           compactions |-> sessions[s].compactions] \in SessionRows
      BY <3>1, <3>2, IsState
    <3> QED
      BY <1>6, <3>1, <3>3
  <2>2. sessions' = [s \in Sessions |-> sessions'[s]]
    BY DEF BackfillCodexThreadSources
  <2> QED
    BY <2>1, <2>2
<1>8. ASSUME NEW s \in Sessions
      PROVE  /\ sessions'[s].thread # "" => sessions'[s].thread = Source[s] /\ sessions'[s].state = "recent"
             /\ sessions'[s].state = "expired" => sessions[s].state = "expired" /\ ~Lasting(s)
             /\ Heard(s) => sessions'[s].thread = Source[s]
  <2>1. CASE Heard(s) /\ sessions[s].thread # Source[s]
    <3>1. sessions'[s] = [state |-> "recent", thread |-> Source[s], parent |-> sessions[s].parent,
                           compactions |-> sessions[s].compactions]
      BY <1>6, <2>1
    <3>2. sessions'[s].state = "recent" /\ sessions'[s].thread = Source[s]
      BY <3>1, ColumnsOf
    <3> QED
      BY <3>2
  <2>2. CASE ~(Heard(s) /\ sessions[s].thread # Source[s])
    <3>1. sessions'[s] = sessions[s]
      BY <1>6, <2>2
    <3>2. sessions[s].state = "expired" => States[s] = "expired" /\ sessions[s].thread = ""
      BY <1>1 DEF ThreadsTold
    <3> QED
      BY <1>1, <1>5, <2>2, <3>1, <3>2 DEF ThreadsTold, Lasting
  <2> QED
    BY <2>1, <2>2
<1>9. ThreadsTold'
  BY <1>1, <1>3, <1>4, <1>5, <1>8 DEF ThreadsTold, Lasting
<1>10. CountsTold'
  BY <1>3 DEF CountsTold
<1> QED
  BY <1>7, <1>9, <1>10 DEF SessionsFollow

\* All subagents of the older version have been found before their parents are told.
LEMMA ParentsFollow ==
  ASSUME PastInv, SessionsFollow, BackfillCodexSessionParents, Recorded' = Recorded
  PROVE  SessionsFollow'
<1>1. InOrder /\ PastUntouched /\ sessions \in [Sessions -> SessionRows] /\ ThreadsTold
  BY DEF PastInv, SessionsFollow
<1>2. Apply(Order[11])
  BY SessionPlaces DEF BackfillCodexSessionParents
<1>2a. \A j \in Steps : (Done(j) <=> j < 11) /\ (Done(j)' <=> j <= 11)
  BY <1>1, <1>2, Applied, SessionSteps
<1>3. /\ Done(10) /\ Done(10)' /\ Done(11)' /\ ~Done(12)' /\ ~Done(13)' /\ ~Done(13) /\ ~Done(14)
  BY <1>2a, SessionSteps
<1>4. Present = Inherited /\ Recorded = Inherited /\ \A r \in Inherited : Readable(r)
  BY <1>1, <1>3, NothingNew DEF PastUntouched
<1>5. \A s : Heard(s) <=> \E r \in Inherited : Session[r] = s
  BY <1>4 DEF Heard
<1>6. ASSUME NEW s \in Sessions
      PROVE  sessions'[s] = IF Heard(s) /\ sessions[s].thread = "subagent" /\ ~sessions[s].parent
                            THEN [state |-> "recent", thread |-> sessions[s].thread, parent |-> TRUE,
                                  compactions |-> sessions[s].compactions]
                            ELSE sessions[s]
  <2>1. sessions[s] \in SessionRows
    BY <1>1
  <2>2. [sessions[s] EXCEPT !.state = "recent", !.parent = TRUE]
          = [state |-> "recent", thread |-> sessions[s].thread, parent |-> TRUE,
                           compactions |-> sessions[s].compactions]
    BY <2>1, ParentSet
  <2> QED
    BY <2>2 DEF BackfillCodexSessionParents
<1>7. sessions' \in [Sessions -> SessionRows]
  <2>1. ASSUME NEW s \in Sessions PROVE sessions'[s] \in SessionRows
    <3>1. sessions[s] \in SessionRows
      BY <1>1
    <3>2. sessions[s].thread \in {"", "user", "subagent"} /\ sessions[s].compactions \in Nat
      BY <3>1, StateTyped
    <3>3. [state |-> "recent", thread |-> sessions[s].thread, parent |-> TRUE,
           compactions |-> sessions[s].compactions] \in SessionRows
      BY <3>2, IsState
    <3> QED
      BY <1>6, <3>1, <3>3
  <2>2. sessions' = [s \in Sessions |-> sessions'[s]]
    BY DEF BackfillCodexSessionParents
  <2> QED
    BY <2>1, <2>2
<1>8. ASSUME NEW s \in Sessions
      PROVE  /\ sessions'[s].thread = sessions[s].thread
             /\ sessions'[s].state = sessions[s].state \/ sessions'[s].state = "recent"
             /\ Heard(s) /\ sessions[s].thread = "subagent" => sessions'[s].parent
  <2>1. CASE Heard(s) /\ sessions[s].thread = "subagent" /\ ~sessions[s].parent
    <3>1. sessions'[s] = [state |-> "recent", thread |-> sessions[s].thread, parent |-> TRUE,
                           compactions |-> sessions[s].compactions]
      BY <1>6, <2>1
    <3>2. sessions'[s].state = "recent" /\ sessions'[s].thread = sessions[s].thread /\ sessions'[s].parent = TRUE
      BY <3>1, ColumnsOf
    <3> QED
      BY <3>2
  <2>2. CASE ~(Heard(s) /\ sessions[s].thread = "subagent" /\ ~sessions[s].parent)
    BY <1>6, <2>2
  <2> QED
    BY <2>1, <2>2
<1>9. ThreadsTold'
  <2> SUFFICES ASSUME NEW s \in Sessions
               PROVE  /\ sessions'[s].thread # "" => sessions'[s].thread = Source[s] /\ sessions'[s].state = "recent"
                      /\ sessions'[s].state = "expired" => /\ States[s] = "expired" /\ ~Lasting(s)
                                                          /\ \A r \in Recorded \cap New : Session[r] # s
                      /\ Source[s] = "subagent" /\ (\E r \in Recorded : Session[r] = s) =>
                           sessions'[s].thread = "subagent" /\ sessions'[s].parent
    BY DEF ThreadsTold, Lasting
  <2>1. sessions'[s].thread # "" => sessions'[s].thread = Source[s] /\ sessions'[s].state = "recent"
    BY <1>1, <1>8 DEF ThreadsTold
  <2>2. sessions'[s].state = "expired" => sessions[s].state = "expired"
    BY <1>8
  <2>3. Source[s] = "subagent" /\ (\E r \in Recorded : Session[r] = s) =>
          sessions'[s].thread = "subagent" /\ sessions'[s].parent
    <3>1. Source[s] = "subagent" /\ (\E r \in Recorded : Session[r] = s) =>
            sessions[s].thread = "subagent" /\ Heard(s)
      BY <1>1, <1>3, <1>4, <1>5 DEF ThreadsTold
    <3>2. sessions'[s].thread = sessions[s].thread
      BY <1>8
    <3>3. Heard(s) /\ sessions[s].thread = "subagent" => sessions'[s].parent
      BY <1>8
    <3> QED
      BY <3>1, <3>2, <3>3
  <2> QED
    BY <1>1, <1>3, <2>1, <2>2, <2>3 DEF ThreadsTold
<1>10. CountsTold'
  BY <1>3 DEF CountsTold
<1> QED
  BY <1>7, <1>9, <1>10 DEF SessionsFollow

\* What the threads have been found to be stays when counts are written.
LEMMA CountsWritten ==
  ASSUME SessionsFollow, Done(10), Done(10)', Done(11), Recorded' = Recorded, NEW n, NEW m,
         n \in [Sessions -> Nat], sessions' = [s \in Sessions |-> sessions'[s]],
         \A s \in Sessions :
           /\ sessions'[s] = [state |-> m[s], thread |-> sessions[s].thread,
                              parent |-> sessions[s].parent, compactions |-> n[s]]
           /\ m[s] = sessions[s].state \/ m[s] = "recent"
  PROVE  /\ sessions' \in [Sessions -> SessionRows] /\ ThreadsTold'
         /\ \A s \in Sessions : sessions'[s].compactions = n[s]
<1>1. \A s \in Sessions : sessions[s] \in SessionRows
  BY DEF SessionsFollow
<1>2. \A s \in Sessions :
        /\ sessions'[s] \in SessionRows /\ sessions'[s].compactions = n[s]
        /\ sessions'[s].thread = sessions[s].thread /\ sessions'[s].parent = sessions[s].parent
        /\ sessions'[s].state = sessions[s].state \/ sessions'[s].state = "recent"
  <2> SUFFICES ASSUME NEW s \in Sessions
               PROVE  /\ sessions'[s] \in SessionRows /\ sessions'[s].compactions = n[s]
                      /\ sessions'[s].thread = sessions[s].thread /\ sessions'[s].parent = sessions[s].parent
                      /\ sessions'[s].state = sessions[s].state \/ sessions'[s].state = "recent"
    OBVIOUS
  <2>1. /\ sessions[s].state \in {"none", "expired", "recent"} /\ sessions[s].thread \in {"", "user", "subagent"}
        /\ sessions[s].parent \in BOOLEAN /\ n[s] \in Nat
    BY <1>1, StateTyped
  <2>2. m[s] \in {"none", "expired", "recent"}
    BY <2>1
  <2>3. [state |-> m[s], thread |-> sessions[s].thread, parent |-> sessions[s].parent, compactions |-> n[s]] \in SessionRows
    BY <2>1, <2>2, IsState
  <2>4. sessions'[s] = [state |-> m[s], thread |-> sessions[s].thread, parent |-> sessions[s].parent, compactions |-> n[s]]
    OBVIOUS
  <2>5. /\ sessions'[s].compactions = n[s] /\ sessions'[s].thread = sessions[s].thread
        /\ sessions'[s].parent = sessions[s].parent /\ sessions'[s].state = m[s]
    BY <2>4, ColumnsOf
  <2> QED
    BY <2>3, <2>4, <2>5
<1>2a. ThreadsTold
  BY DEF SessionsFollow
<1>3. ThreadsTold'
  <2> SUFFICES ASSUME NEW s \in Sessions
               PROVE  /\ sessions'[s].thread # "" => sessions'[s].thread = Source[s] /\ sessions'[s].state = "recent"
                      /\ sessions'[s].state = "expired" => /\ States[s] = "expired" /\ ~Lasting(s)
                                                          /\ \A r \in Recorded \cap New : Session[r] # s
                      /\ Source[s] = "subagent" /\ (\E r \in Recorded : Session[r] = s) =>
                           sessions'[s].thread = "subagent" /\ sessions'[s].parent
    BY DEF ThreadsTold, Lasting
  <2>1. sessions'[s].thread # "" => sessions'[s].thread = Source[s] /\ sessions'[s].state = "recent"
    BY <1>2, <1>2a DEF ThreadsTold
  <2>2. sessions'[s].state = "expired" => sessions[s].state = "expired"
    BY <1>2
  <2>3. Source[s] = "subagent" /\ (\E r \in Recorded : Session[r] = s) =>
          sessions'[s].thread = "subagent" /\ sessions'[s].parent
    <3>1. Source[s] = "subagent" /\ (\E r \in Recorded : Session[r] = s) =>
            sessions[s].thread = "subagent" /\ sessions[s].parent
      BY <1>2a DEF ThreadsTold
    <3>2. sessions'[s].thread = sessions[s].thread /\ sessions'[s].parent = sessions[s].parent
      BY <1>2
    <3> QED
      BY <3>1, <3>2
  <2> QED
    BY <1>2a, <2>1, <2>2, <2>3 DEF ThreadsTold
<1> QED
  BY <1>2, <1>3

\* Every compaction of the older version is marked and counted.
LEMMA CompactionsFollow ==
  ASSUME PastInv, RowsTold, RowsTold', SessionsFollow, BackfillCodexCompactionTracking, Recorded' = Recorded
  PROVE  SessionsFollow'
<1> DEFINE n == [s \in Sessions |-> CountOf(s, log')]
           m == [s \in Sessions |-> IF n[s] > 0 /\ sessions[s].state = "none" THEN "recent" ELSE sessions[s].state]
<1>1. InOrder /\ RowShapes /\ PastUntouched
  BY DEF PastInv
<1>2. Apply(Order[12])
  BY SessionPlaces DEF BackfillCodexCompactionTracking
<1>2a. \A j \in Steps : (Done(j) <=> j < 12) /\ (Done(j)' <=> j <= 12)
  BY <1>1, <1>2, Applied, SessionSteps
<1>3. /\ Done(10) /\ Done(10)' /\ Done(11) /\ Done(12)' /\ ~Done(13)' /\ ~Done(14)
  BY <1>2a, SessionSteps
<1>4. Present = Inherited /\ Present' = Present
  BY <1>1, <1>3, MigrateKeepsRows DEF PastUntouched, Migrate
<1>5. \A s : CountOf(s, log') = Cardinality(CompactsOf(s))
  <2>1. \A r \in Inherited : log'[r].compaction <=> r \in Compacts
    BY <1>3, <1>4 DEF RowsTold
  <2>2. \A s : {r \in Present : Session[r] = s /\ log'[r].compaction} = CompactsOf(s)
    BY <1>4, <2>1 DEF CompactsOf
  <2> QED
    BY <2>2 DEF CountOf
<1>6. n \in [Sessions -> Nat]
  BY <1>5, SetsOfRequests, RequestsCounted
<1>7. \A s \in Sessions :
        /\ sessions'[s] = [state |-> m[s], thread |-> sessions[s].thread,
                           parent |-> sessions[s].parent, compactions |-> n[s]]
        /\ m[s] = sessions[s].state \/ m[s] = "recent"
  <2> SUFFICES ASSUME NEW s \in Sessions
               PROVE  /\ sessions'[s] = [state |-> m[s], thread |-> sessions[s].thread,
                                         parent |-> sessions[s].parent, compactions |-> n[s]]
                      /\ m[s] = sessions[s].state \/ m[s] = "recent"
    OBVIOUS
  <2>1. sessions'[s] = [sessions[s] EXCEPT !.compactions = n[s], !.state = m[s]]
    BY DEF BackfillCodexCompactionTracking
  <2>2. m[s] = sessions[s].state \/ m[s] = "recent"
    OBVIOUS
  <2>3. sessions[s] \in SessionRows
    BY DEF SessionsFollow
  <2> HIDE DEF n, m
  <2> QED
    <3>1. [sessions[s] EXCEPT !.compactions = n[s], !.state = m[s]]
            = [state |-> m[s], thread |-> sessions[s].thread, parent |-> sessions[s].parent, compactions |-> n[s]]
      BY <2>3, CountSet
    <3> QED
      BY <2>1, <2>2, <3>1
<1>8. sessions' = [s \in Sessions |-> sessions'[s]] /\ \A s \in Sessions : n[s] = Cardinality(CompactsOf(s))
  BY <1>5 DEF BackfillCodexCompactionTracking
<1> HIDE DEF n, m
<1>9. /\ sessions' \in [Sessions -> SessionRows] /\ ThreadsTold'
      /\ \A s \in Sessions : sessions'[s].compactions = n[s]
  BY <1>3, <1>6, <1>7, <1>8, CountsWritten
<1>10. \A s : CompactsOf(s)' = CompactsOf(s)
  BY DEF CompactsOf
<1>11. CountsTold'
  BY <1>3, <1>8, <1>9, <1>10 DEF CountsTold
<1> QED
  BY <1>9, <1>11 DEF SessionsFollow

\* Counting all and subtracting those that failed counts those that succeeded.
LEMMA FailuresSubtracted ==
  ASSUME PastInv, RowsTold, Done(4), Done(12), ~Done(14), NEW s
  PROVE  LET failed == {r \in Present : Session[r] = s /\ log[r].compaction /\ log[r].outcome # "success"} IN
         AtLeastZero(Cardinality(CompactsOf(s)), Cardinality(failed)) = Cardinality(SucceededOf(s))
<1> DEFINE failed == {r \in Present : Session[r] = s /\ log[r].compaction /\ log[r].outcome # "success"}
<1>1. Present = Inherited /\ Recorded = Inherited /\ Inherited \subseteq Requests
  BY NothingNew DEF PastInv, PastUntouched, Requests
<1>2. \A r \in Inherited : log[r].outcome # "success" <=> Reply[r] # "good"
  <2> SUFFICES ASSUME NEW r \in Inherited PROVE log[r].outcome # "success" <=> Reply[r] # "good"
    OBVIOUS
  <2>1. log[r].outcome = Outcome(r)
    BY <1>1 DEF RowsTold
  <2> QED
    BY <2>1 DEF Outcome
<1>3. failed = {r \in CompactsOf(s) : Reply[r] # "good"}
  BY <1>1, <1>2 DEF RowsTold, CompactsOf
<1>4. SucceededOf(s) = CompactsOf(s) \ failed /\ CompactsOf(s) \cap failed = failed
  BY <1>1, <1>3 DEF SucceededOf, CompactsOf
<1>5. /\ IsFiniteSet(CompactsOf(s)) /\ Cardinality(CompactsOf(s)) \in Nat
      /\ Cardinality(failed) \in Nat /\ Cardinality(SucceededOf(s)) \in Nat
  BY <1>1, <1>3, SetsOfRequests, RequestsCounted
<1> HIDE DEF failed
<1>6. Cardinality(CompactsOf(s) \ failed) = Cardinality(CompactsOf(s)) - Cardinality(CompactsOf(s) \cap failed)
  BY <1>5, FS_Difference
<1>7. Cardinality(SucceededOf(s)) = Cardinality(CompactsOf(s)) - Cardinality(failed)
  BY <1>4, <1>6
<1>8. AtLeastZero(Cardinality(CompactsOf(s)), Cardinality(failed)) = Cardinality(SucceededOf(s))
  BY <1>5, <1>7 DEF AtLeastZero
<1> QED
  BY <1>8 DEF failed

\* Those that failed are subtracted once.
LEMMA SuccessesFollow ==
  ASSUME PastInv, RowsTold, SessionsFollow, CorrectSuccessfulCodexCompactionCounts, Recorded' = Recorded
  PROVE  SessionsFollow'
<1> DEFINE failedOf(s) == {r \in Present : Session[r] = s /\ log[r].compaction /\ log[r].outcome # "success"}
           n == [s \in Sessions |-> AtLeastZero(sessions[s].compactions, Cardinality(failedOf(s)))]
<1>1. InOrder
  BY DEF PastInv
<1>2. Apply(Order[13])
  BY SessionPlaces DEF CorrectSuccessfulCodexCompactionCounts
<1>3. \A j \in Steps : (Done(j) <=> j < 13) /\ (Done(j)' <=> j <= 13)
  BY <1>1, <1>2, Applied, SessionSteps
<1>4. Done(4) /\ Done(10) /\ Done(10)' /\ Done(11) /\ Done(12) /\ ~Done(13) /\ ~Done(14) /\ Done(13)'
  BY <1>3, SessionSteps
<1>5. \A s \in Sessions : n[s] = Cardinality(SucceededOf(s))
  <2> SUFFICES ASSUME NEW s \in Sessions PROVE n[s] = Cardinality(SucceededOf(s))
    OBVIOUS
  <2>1. sessions[s].compactions = Cardinality(CompactsOf(s))
    BY <1>4 DEF SessionsFollow, CountsTold
  <2>2. AtLeastZero(Cardinality(CompactsOf(s)), Cardinality(failedOf(s))) = Cardinality(SucceededOf(s))
    BY <1>4, FailuresSubtracted
  <2> QED
    BY <2>1, <2>2
<1>6. n \in [Sessions -> Nat]
  BY <1>5, SetsOfRequests, RequestsCounted
<1>7. \A s \in Sessions :
        sessions'[s] = [state |-> sessions[s].state, thread |-> sessions[s].thread,
                        parent |-> sessions[s].parent, compactions |-> n[s]]
  <2> SUFFICES ASSUME NEW s \in Sessions
               PROVE  sessions'[s] = [state |-> sessions[s].state, thread |-> sessions[s].thread,
                                      parent |-> sessions[s].parent, compactions |-> n[s]]
    OBVIOUS
  <2>1. sessions'[s] = [sessions[s] EXCEPT !.compactions = n[s]]
    BY DEF CorrectSuccessfulCodexCompactionCounts
  <2>2. sessions[s] \in SessionRows
    BY DEF SessionsFollow
  <2> HIDE DEF n
  <2> QED
    BY <2>1, <2>2, StateColumns
<1>8. sessions' = [s \in Sessions |-> sessions'[s]]
  BY DEF CorrectSuccessfulCodexCompactionCounts
<1> HIDE DEF n, failedOf
<1> DEFINE m == [s \in Sessions |-> sessions[s].state]
<1>9. \A s \in Sessions :
        /\ sessions'[s] = [state |-> m[s], thread |-> sessions[s].thread,
                           parent |-> sessions[s].parent, compactions |-> n[s]]
        /\ m[s] = sessions[s].state \/ m[s] = "recent"
  BY <1>7
<1> HIDE DEF m
<1>10. /\ sessions' \in [Sessions -> SessionRows] /\ ThreadsTold'
       /\ \A s \in Sessions : sessions'[s].compactions = n[s]
  BY <1>4, <1>6, <1>8, <1>9, CountsWritten
<1>11. \A s : SucceededOf(s)' = SucceededOf(s)
  BY DEF SucceededOf
<1>12. CountsTold'
  BY <1>4, <1>5, <1>10, <1>11 DEF CountsTold
<1> QED
  BY <1>10, <1>12 DEF SessionsFollow

\* A compaction that succeeds is counted as it is recorded.
LEMMA RecordFollows ==
  ASSUME PastInv, SessionsFollow, NEW r \in New, RecordRequest(r)
  PROVE  SessionsFollow'
<1>1. InOrder /\ RowShapes /\ r \in Requests /\ Session[r] \in Sessions /\ log[r] = NoRow
  BY RequestAssumption DEF PastInv, Requests, RecordRequest
<1>2. \A i \in Steps : Done(i) /\ Done(i)'
  BY <1>1, ServingDone DEF RecordRequest, Done
<1>3. Done(10) /\ Done(11) /\ Done(12)' /\ Done(13) /\ Done(13)'
  BY <1>2, SessionSteps
<1>4. Recorded' = Recorded \cup {r} /\ r \notin Recorded
  <2>1. /\ log'[r] # NoRow
        /\ \A other \in Requests \ {r} : log'[other] = log[other]
    <3>1. Present' = Present \cup {r} /\ \A other \in Requests \ {r} : log'[other] = log[other]
      BY <1>1, RecordedRow
    <3> QED
      BY <3>1 DEF Present
  <2>2. r \notin Inherited
    BY RequestAssumption
  <2> QED
    BY <1>1, <2>1, <2>2 DEF Recorded, Requests
<1>5. \A s : IF Session[r] = s /\ r \in Compacts /\ Reply[r] = "good"
            THEN SucceededOf(s)' = SucceededOf(s) \cup {r} /\ SinceOf(s)' = SinceOf(s) \cup {r}
            ELSE SucceededOf(s)' = SucceededOf(s) /\ SinceOf(s)' = SinceOf(s)
  BY <1>4 DEF SucceededOf, SinceOf
<1>6. \A s : /\ Cardinality(SucceededOf(s) \cup {r}) = Cardinality(SucceededOf(s)) + 1
             /\ Cardinality(SinceOf(s) \cup {r}) = Cardinality(SinceOf(s)) + 1
  <2> SUFFICES ASSUME NEW s
               PROVE  /\ Cardinality(SucceededOf(s) \cup {r}) = Cardinality(SucceededOf(s)) + 1
                      /\ Cardinality(SinceOf(s) \cup {r}) = Cardinality(SinceOf(s)) + 1
    OBVIOUS
  <2>1. IsFiniteSet(SucceededOf(s)) /\ r \notin SucceededOf(s) /\ IsFiniteSet(SinceOf(s)) /\ r \notin SinceOf(s)
    BY <1>4, SetsOfRequests, RequestsCounted DEF SucceededOf, SinceOf
  <2> QED
    BY <2>1, FS_AddElement
<1> DEFINE added == IF r \in Compacts /\ Reply[r] = "good" THEN 1 ELSE 0
<1>7. \A s \in Sessions : sessions[s] \in SessionRows /\ sessions[s].compactions \in Nat
  BY DEF SessionsFollow, SessionRows
<1>8. sessions' = [sessions EXCEPT ![Session[r]] =
        [state |-> "recent", thread |-> Source[Session[r]], parent |-> Source[Session[r]] = "subagent",
         compactions |-> sessions[Session[r]].compactions + added]]
  BY DEF RecordRequest
<1>9. \A s \in Sessions : s # Session[r] => sessions'[s] = sessions[s]
  BY <1>8 DEF SessionsFollow
<1>10. added \in Nat
  OBVIOUS
<1>11. /\ sessions'[Session[r]].thread = Source[Session[r]] /\ sessions'[Session[r]].state = "recent"
       /\ Source[Session[r]] = "subagent" => sessions'[Session[r]].parent
       /\ sessions'[Session[r]].compactions = sessions[Session[r]].compactions + added
       /\ sessions'[Session[r]] \in SessionRows
  <2> HIDE DEF added
  <2> DEFINE count == sessions[Session[r]].compactions + added
             row   == [state |-> "recent", thread |-> Source[Session[r]],
                       parent |-> Source[Session[r]] = "subagent", compactions |-> count]
  <2>1. count \in Nat
    BY <1>1, <1>7, <1>10
  <2>2. sessions'[Session[r]] = row
    BY <1>1, <1>8 DEF SessionsFollow
  <2> HIDE DEF count
  <2>3. row \in SessionRows /\ row.thread = Source[Session[r]] /\ row.state = "recent"
        /\ (Source[Session[r]] = "subagent" => row.parent) /\ row.compactions = count
    BY <1>1, <2>1, SessionAssumption DEF SessionRows
  <2> QED
    BY <2>2, <2>3 DEF count
<1>12. sessions' \in [Sessions -> SessionRows]
  <2>1. sessions' = [s \in Sessions |-> sessions'[s]]
    BY <1>8 DEF SessionsFollow
  <2>2. \A s \in Sessions : sessions'[s] \in SessionRows
    BY <1>7, <1>9, <1>11
  <2> QED
    BY <2>1, <2>2
<1>13. ThreadsTold'
  <2>1. \A s : (\E other \in Recorded' : Session[other] = s)
                <=> Session[r] = s \/ \E other \in Recorded : Session[other] = s
    BY <1>4
  <2>2. \A s : s # Session[r] => ((\A other \in Recorded' \cap New : Session[other] # s)
                                  <=> \A other \in Recorded \cap New : Session[other] # s)
    BY <1>4
  <2>3. ASSUME NEW s \in Sessions
        PROVE  /\ sessions'[s].thread # "" => sessions'[s].thread = Source[s] /\ sessions'[s].state = "recent"
               /\ sessions'[s].state = "expired" => /\ States[s] = "expired" /\ ~Lasting(s)
                                                   /\ \A other \in Recorded' \cap New : Session[other] # s
               /\ Source[s] = "subagent" /\ (\E other \in Recorded' : Session[other] = s) =>
                    sessions'[s].thread = "subagent" /\ sessions'[s].parent
    <3>1. CASE s = Session[r]
      BY <1>11, <3>1
    <3>2. CASE s # Session[r]
      <4>1. /\ sessions[s].thread # "" => sessions[s].thread = Source[s] /\ sessions[s].state = "recent"
            /\ sessions[s].state = "expired" => /\ States[s] = "expired" /\ ~Lasting(s)
                                               /\ \A other \in Recorded \cap New : Session[other] # s
            /\ Source[s] = "subagent" /\ (\E other \in Recorded : Session[other] = s) =>
                 sessions[s].thread = "subagent" /\ sessions[s].parent
        BY <1>3 DEF SessionsFollow, ThreadsTold
      <4>2. sessions'[s] = sessions[s]
        BY <1>9, <3>2
      <4>3. (\E other \in Recorded' : Session[other] = s) => \E other \in Recorded : Session[other] = s
        BY <2>1, <3>2
      <4>4. (\A other \in Recorded \cap New : Session[other] # s)
              => \A other \in Recorded' \cap New : Session[other] # s
        BY <2>2, <3>2
      <4> QED
        BY <4>1, <4>2, <4>3, <4>4
    <3> QED
      BY <3>1, <3>2
  <2> QED
    BY <2>3 DEF ThreadsTold, Lasting
<1>14. ASSUME NEW s \in Sessions
       PROVE  \/ sessions'[s].compactions = Cardinality(SucceededOf(s)')
              \/ ~Lasting(s) /\ sessions'[s].compactions = Cardinality(SinceOf(s)')
  <2>1. \/ sessions[s].compactions = Cardinality(SucceededOf(s))
        \/ ~Lasting(s) /\ sessions[s].compactions = Cardinality(SinceOf(s))
    BY <1>3 DEF SessionsFollow, CountsTold
  <2>2. CASE Session[r] = s /\ r \in Compacts /\ Reply[r] = "good"
    <3>1. SucceededOf(s)' = SucceededOf(s) \cup {r} /\ SinceOf(s)' = SinceOf(s) \cup {r}
      BY <1>5, <2>2
    <3>2. sessions'[s].compactions = sessions[s].compactions + 1
      BY <1>11, <2>2
    <3> QED
      BY <1>6, <2>1, <3>1, <3>2
  <2>3. CASE ~(Session[r] = s /\ r \in Compacts /\ Reply[r] = "good")
    <3>1. SucceededOf(s)' = SucceededOf(s) /\ SinceOf(s)' = SinceOf(s)
      BY <1>5, <2>3
    <3>2. sessions'[s].compactions = sessions[s].compactions
      <4>1. CASE s = Session[r]
        BY <1>7, <1>11, <2>3, <4>1
      <4>2. CASE s # Session[r]
        BY <1>9, <4>2
      <4> QED
        BY <4>1, <4>2
    <3> QED
      BY <2>1, <3>1, <3>2
  <2> QED
    BY <2>2, <2>3
<1>15. CountsTold'
  BY <1>3, <1>14 DEF CountsTold, Lasting
<1> QED
  BY <1>12, <1>13, <1>15 DEF SessionsFollow

\* The states that the cleanup deletes are not lasting, and nothing has been counted in
\* them since the upgrade.
LEMMA CleanupFollows ==
  ASSUME PastInv, SessionsFollow, CleanupStates, Recorded' = Recorded
  PROVE  SessionsFollow'
<1>1. InOrder /\ sessions \in [Sessions -> SessionRows] /\ ThreadsTold /\ CountsTold
  BY DEF PastInv, SessionsFollow
<1>2. Done(10) /\ Done(13) /\ \A i \in Steps : Done(i)' <=> Done(i)
  BY <1>1, ServingDone, SessionSteps DEF CleanupStates, Done
<1>3. \A s \in Sessions : sessions'[s] = IF sessions[s].state = "expired" THEN NoState ELSE sessions[s]
  BY DEF CleanupStates
<1>4. sessions' \in [Sessions -> SessionRows]
  <2>1. NoState \in SessionRows
    BY DEF NoState, SessionRows
  <2>2. sessions' = [s \in Sessions |-> sessions'[s]]
    BY DEF CleanupStates
  <2> QED
    BY <1>1, <1>3, <2>1, <2>2
<1>5. NoState.state = "none" /\ NoState.thread = "" /\ NoState.compactions = 0
  BY DEF NoState
<1>6. \A s \in Sessions : sessions[s].state = "expired" =>
        sessions[s].thread = "" /\ ~Lasting(s) /\ \A r \in Recorded \cap New : Session[r] # s
  BY <1>1, <1>2 DEF ThreadsTold
<1>7. \A s : SucceededOf(s)' = SucceededOf(s) /\ SinceOf(s)' = SinceOf(s)
  BY DEF SucceededOf, SinceOf
<1>8. ThreadsTold'
  <2>1. (Done(10)' <=> Done(10)) /\ (Done(11)' <=> Done(11))
    BY <1>2, SessionSteps
  <2> SUFFICES ASSUME NEW s \in Sessions
               PROVE  /\ sessions'[s].thread # "" => sessions'[s].thread = Source[s] /\ sessions'[s].state = "recent"
                      /\ sessions'[s].state = "expired" => /\ States[s] = "expired" /\ (Done(10)' => ~Lasting(s))
                                                          /\ \A r \in Recorded \cap New : Session[r] # s
                      /\ Source[s] = "subagent" /\ (\E r \in Recorded : Session[r] = s) =>
                           (Done(10)' => sessions'[s].thread = "subagent") /\ (Done(11)' => sessions'[s].parent)
    BY DEF ThreadsTold, Lasting
  <2>2. CASE sessions[s].state = "expired"
    <3>1. ~(Source[s] = "subagent" /\ \E r \in Recorded : Session[r] = s)
      <4>1. Done(10) /\ sessions[s].thread # "subagent"
        BY <1>2, <1>6, <2>2
      <4> QED
        BY <1>1, <4>1 DEF ThreadsTold
    <3>2. sessions'[s] = NoState
      BY <1>3, <2>2
    <3> QED
      BY <1>5, <3>1, <3>2
  <2>3. CASE sessions[s].state # "expired"
    BY <1>1, <1>3, <2>1, <2>3 DEF ThreadsTold
  <2> QED
    BY <2>2, <2>3
<1>9. ASSUME NEW s \in Sessions
      PROVE  \/ sessions'[s].compactions = Cardinality(SucceededOf(s))
             \/ ~Lasting(s) /\ sessions'[s].compactions = Cardinality(SinceOf(s))
  <2>1. CASE sessions[s].state = "expired"
    <3>1. SinceOf(s) = {} /\ ~Lasting(s)
      BY <1>6, <2>1 DEF SinceOf
    <3>2. sessions'[s].compactions = 0
      BY <1>3, <1>5, <2>1
    <3> QED
      BY <3>1, <3>2, FS_EmptySet
  <2>2. CASE sessions[s].state # "expired"
    BY <1>1, <1>2, <1>3, <2>2 DEF CountsTold
  <2> QED
    BY <2>1, <2>2
<1>10. CountsTold'
  BY <1>2, <1>7, <1>9, SessionSteps DEF CountsTold, Lasting
<1> QED
  BY <1>4, <1>8, <1>10 DEF SessionsFollow

\* Every step keeps what the sessions say.
LEMMA SessionsStep ==
  PastInv /\ RowsTold /\ RowsTold' /\ SessionsFollow /\ [Next]_vars => SessionsFollow'
<1> SUFFICES ASSUME PastInv, RowsTold, RowsTold', SessionsFollow, [Next]_vars PROVE SessionsFollow'
  OBVIOUS
<1>1. RowShapes
  BY DEF PastInv
<1>2. ASSUME NEW r \in New, RecordRequest(r) PROVE SessionsFollow'
  BY <1>2, RecordFollows
<1>3. CASE \A r \in New : ~RecordRequest(r)
  <2>1. Recorded' = Recorded
    BY <1>1, <1>3, RecordedSame
  <2>2. CASE BackfillCodexThreadSources
    BY <2>1, <2>2, ThreadsFollow
  <2>3. CASE BackfillCodexSessionParents
    BY <2>1, <2>3, ParentsFollow
  <2>4. CASE BackfillCodexCompactionTracking
    BY <2>1, <2>4, CompactionsFollow
  <2>5. CASE CorrectSuccessfulCodexCompactionCounts
    BY <2>1, <2>5, SuccessesFollow
  <2>6. CASE CleanupStates
    BY <2>1, <2>6, CleanupFollows
  <2>7. CASE /\ ~BackfillCodexThreadSources /\ ~BackfillCodexSessionParents /\ ~CleanupStates
             /\ ~BackfillCodexCompactionTracking /\ ~CorrectSuccessfulCodexCompactionCounts
    <3>1. UNCHANGED sessions
      BY <1>3, <2>7, CleanupLeaves DEF Next, Migrate, vars, BackfillTokenDailyStats, BackfillRelayOutcomes,
         BackfillCostFields, BackfillApplicationOutcomes, BackfillChannelModelDailyCosts,
         BackfillChannelModelDailyAggregates, BackfillRequestStatisticsFromFinalAttempts,
         BackfillResponsePhaseTimings, CompressDetailedPayloads,
         MigrateRequestPayloadBatch, MigrateRelayPayloadTables, Skip, Crash
    <3>2. (Done(10)' <=> Done(10)) /\ (Done(11)' <=> Done(11)) /\ (Done(12)' <=> Done(12)) /\ (Done(13)' <=> Done(13))
      BY <2>7, SessionMigrations
    <3> QED
      BY <2>1, <3>1, <3>2, SessionsLeft
  <2> QED
    BY <2>2, <2>3, <2>4, <2>5, <2>6, <2>7
<1> QED
  BY <1>2, <1>3

\* Rows and sessions together, through any step.
LEMMA TellingStep == TellingInv /\ [Next]_vars => TellingInv'
BY PastStep, RowsToldStep, SessionsStep DEF TellingInv

\* At first nothing is told.
LEMMA TellingFirst == Init => TellingInv
<1> SUFFICES ASSUME Init PROVE TellingInv
  OBVIOUS
<1>1. PastInv
  BY PastFirst
<1>2. ~Done(2) /\ ~Done(4) /\ ~Done(10) /\ ~Done(11) /\ ~Done(12) /\ ~Done(13)
  <2>1. \A i \in Steps : Done(i) => i = 1
    BY FirstDone
  <2>2. \A i \in Steps \ {1} : ~Done(i)
    BY <2>1
  <2>3. /\ 2 \in Steps \ {1} /\ 4 \in Steps \ {1} /\ 10 \in Steps \ {1}
        /\ 11 \in Steps \ {1} /\ 12 \in Steps \ {1} /\ 13 \in Steps \ {1}
    BY DEF Steps
  <2> QED
    BY <2>2, <2>3
<1>3. \A r \in Inherited : ~log[r].compaction
  <2>1. log = [r \in Requests |-> IF r \in Inherited THEN OldRow(r) ELSE NoRow]
    BY DEF Init
  <2>2. \A r \in Inherited : log[r] = OldRow(r)
    BY <2>1 DEF Requests
  <2>3. \A r : OldRow(r).compaction = FALSE
    BY DEF OldRow
  <2> QED
    BY <2>2, <2>3
<1>4. RowsTold
  BY <1>2, <1>3 DEF RowsTold
<1>5. \A s \in Sessions : sessions[s] = [state |-> States[s], thread |-> "", parent |-> FALSE, compactions |-> 0]
  BY DEF Init, NoState
<1>6. sessions \in [Sessions -> SessionRows]
  <2>1. sessions = [s \in Sessions |-> sessions[s]]
    BY DEF Init
  <2>2. ASSUME NEW s \in Sessions PROVE sessions[s] \in SessionRows
    <3> DEFINE row == [state |-> States[s], thread |-> "", parent |-> FALSE, compactions |-> 0]
    <3>1. States[s] \in {"none", "expired", "recent"}
      BY SessionAssumption
    <3>2. row \in SessionRows
      BY <3>1, IsState
    <3> QED
      BY <1>5, <3>2
  <2> QED
    BY <2>1, <2>2
<1>7. Recorded = Inherited
  <2>1. ~Done(14)
    BY FirstDone, SessionSteps
  <2> QED
    BY <1>1, <2>1, NothingNew
<1>8. ThreadsTold
  <2>1. ASSUME NEW s \in Sessions PROVE sessions[s].thread = "" /\ sessions[s].state = States[s]
    <3> DEFINE untold == ""
    <3>1. sessions[s] = [state |-> States[s], thread |-> untold, parent |-> FALSE, compactions |-> 0]
      BY <1>5
    <3> HIDE DEF untold
    <3>2. sessions[s].thread = untold /\ sessions[s].state = States[s]
      BY <3>1, ColumnsOf
    <3> QED
      BY <3>2 DEF untold
  <2>2. Recorded \cap New = {}
    BY <1>7, RequestAssumption
  <2> QED
    BY <1>2, <2>1, <2>2 DEF ThreadsTold
<1>9. CountsTold
  BY <1>2 DEF CountsTold
<1> QED
  BY <1>1, <1>4, <1>6, <1>8, <1>9 DEF TellingInv, SessionsFollow

\* Once all migrations are done, what the sessions follow is what SessionsTold says.
LEMMA FollowedTold == ASSUME SessionsFollow, Done(10), Done(11), Done(13) PROVE SessionsTold
BY DEF SessionsFollow, ThreadsTold, CountsTold, SessionsTold, SucceededOf, SinceOf, Compactions

\* Sessions are told right once the gateway serves, wherever the process died during the
\* upgrade and whichever states have expired: the subagents and their parents are known, and
\* a session's compactions are those that succeeded; only of a session whose state was
\* expired and told the upgrade nothing are the older ones forgotten (Store.migrate,
\* cleanupExpired).
THEOREM SessionsToldRight == Spec => []SessionsTold
<1>1. TellingInv => SessionsTold
  <2> SUFFICES ASSUME TellingInv, Serving PROVE SessionsTold
    BY DEF SessionsTold
  <2>1. PastInv /\ SessionsFollow /\ InOrder
    BY DEF TellingInv, PastInv
  <2>2. \A i \in Steps : Done(i)
    BY <2>1, ServingDone
  <2>3. Done(10) /\ Done(11) /\ Done(13)
    BY <2>2, SessionSteps
  <2> QED
    BY <2>1, <2>3, FollowedTold
<1> QED
  BY <1>1, TellingFirst, TellingStep, PTL DEF Spec

-----------------------------------------------------------------------------
(***************************************************************************)
(* Sums.  Functions defines the sum of a function over a set as a fold     *)
(* that takes the set's elements in the order CHOOSE gives them.  Its      *)
(* recursion is an equation between functions on the subsets of one set    *)
(* (SumsEquation), so that what holds of a sum can be shown of a smallest  *)
(* subset on which it might fail: that an element can be taken out         *)
(* anywhere (SumWithout), that equal terms add up alike (SumSame), and     *)
(* that ones count a set (SumOfOnes).                                      *)
(***************************************************************************)

Chosen(S)        == CHOOSE x \in S : TRUE
NextSum(f, g, S) == IF S = {} THEN 0 ELSE f[Chosen(S)] + g[S \ {Chosen(S)}]
SumsOf(f, S)     == CHOOSE g : g = [s \in SUBSET S |-> NextSum(f, g, s)]

Less == {p \in Nat \X Nat : p[1] < p[2]}

\* Induction: a set of numbers has a least one.
LEMMA LeastNumber ==
  ASSUME NEW T, T \subseteq Nat, T # {}
  PROVE  \E n \in T : \A m \in T : n <= m
<1>1. IsWellFoundedOn(Less, Nat)
  <2>1. Less = OpToRel(<, Nat)
    BY DEF OpToRel, Less
  <2> QED
    BY <2>1, NatLessThanWellFounded, Zenon
<1>2. PICK n \in T : \A m \in T : ~(<<m, n>> \in Less)
  BY <1>1, WFMin, Zenon
<1>3. ASSUME NEW m \in T PROVE n <= m
  <2>1. m \in Nat /\ n \in Nat
    OBVIOUS
  <2>2. m < n => <<m, n>> \in Less
    BY <2>1 DEF Less
  <2> QED
    BY <1>2, <2>1, <2>2
<1> QED
  BY <1>3

\* Of finite sets one has the fewest elements.
LEMMA SmallestSet ==
  ASSUME NEW S, IsFiniteSet(S), NEW U \in SUBSET SUBSET S, U # {}
  PROVE  \E s \in U : /\ IsFiniteSet(s) /\ Cardinality(s) \in Nat
                      /\ \A t \in U : Cardinality(s) <= Cardinality(t)
<1> DEFINE T == {Cardinality(s) : s \in U}
<1>1. \A s \in U : IsFiniteSet(s) /\ Cardinality(s) \in Nat
  BY FS_Subset, FS_CardinalityType
<1>2. T \subseteq Nat /\ T # {}
  BY <1>1
<1>3. PICK n \in T : \A m \in T : n <= m
  <2> HIDE DEF T
  <2> QED
    BY <1>2, LeastNumber
<1>4. PICK s \in U : n = Cardinality(s)
  OBVIOUS
<1>5. \A t \in U : Cardinality(s) <= Cardinality(t)
  BY <1>3, <1>4
<1> QED
  BY <1>1, <1>5

\* What is left without a chosen element.
LEMMA ChosenLeft ==
  ASSUME NEW S, IsFiniteSet(S), NEW s \in SUBSET S
  PROVE  /\ IsFiniteSet(s) /\ Cardinality(s) \in Nat
         /\ s # {} => Chosen(s) \in s
         /\ \A x \in s : /\ s \ {x} \in SUBSET S /\ IsFiniteSet(s \ {x})
                         /\ Cardinality(s \ {x}) = Cardinality(s) - 1 /\ Cardinality(s) # 0
<1>1. IsFiniteSet(s) /\ Cardinality(s) \in Nat
  BY FS_Subset, FS_CardinalityType
<1>2. s # {} => Chosen(s) \in s
  BY DEF Chosen
<1>3. ASSUME NEW x \in s
      PROVE  /\ s \ {x} \in SUBSET S /\ IsFiniteSet(s \ {x})
             /\ Cardinality(s \ {x}) = Cardinality(s) - 1 /\ Cardinality(s) # 0
  <2>1. IsFiniteSet(s \ {x}) /\ Cardinality(s \ {x}) = Cardinality(s) - 1
    BY <1>1, FS_RemoveElement
  <2>2. Cardinality(s) # 0
    BY <1>1, FS_EmptySet
  <2> QED
    BY <2>1, <2>2
<1> QED
  BY <1>1, <1>2, <1>3

\* The recursion defines what it says.
LEMMA SumsEquation ==
  ASSUME NEW f, NEW S, IsFiniteSet(S)
  PROVE  \A s \in SUBSET S : SumsOf(f, S)[s] = NextSum(f, SumsOf(f, S), s)
<1> DEFINE Sets == SUBSET S
           Solves(g, k) == /\ g = [s \in Sets |-> g[s]]
                           /\ \A s \in Sets : Cardinality(s) < k => g[s] = NextSum(f, g, s)
           Unsolved == {k \in Nat : ~ \E g : Solves(g, k)}
<1>0. \A s \in Sets : Cardinality(s) \in Nat /\ Cardinality(s) < Cardinality(S) + 1 /\ ~(Cardinality(s) < 0)
  <2> SUFFICES ASSUME NEW s \in SUBSET S
               PROVE  Cardinality(s) \in Nat /\ Cardinality(s) < Cardinality(S) + 1 /\ ~(Cardinality(s) < 0)
    OBVIOUS
  <2>1. Cardinality(s) \in Nat /\ Cardinality(s) <= Cardinality(S) /\ Cardinality(S) \in Nat
    BY FS_Subset, FS_CardinalityType
  <2> QED
    BY <2>1
<1>1. \A s \in Sets : /\ Cardinality(s) \in Nat
                      /\ s # {} => /\ s \ {Chosen(s)} \in Sets
                                   /\ Cardinality(s \ {Chosen(s)}) = Cardinality(s) - 1
  BY ChosenLeft
<1> HIDE DEF Sets
<1>2. Unsolved = {}
  <2> SUFFICES ASSUME Unsolved # {} PROVE FALSE
    OBVIOUS
  <2>1. PICK k \in Unsolved : \A j \in Unsolved : k <= j
    <3>1. Unsolved \subseteq Nat
      OBVIOUS
    <3> HIDE DEF Unsolved
    <3> QED
      BY <3>1, LeastNumber
  <2>2. k # 0
    <3> DEFINE zero == [s \in Sets |-> 0]
    <3>0. zero = [s \in Sets |-> zero[s]]
      OBVIOUS
    <3> HIDE DEF zero
    <3>1. Solves(zero, 0)
      BY <1>0, <3>0, Zenon
    <3> QED
      BY <3>1
  <2>3. PICK g : Solves(g, k - 1)
    <3>1. k - 1 \in Nat /\ ~(k <= k - 1)
      BY <2>2
    <3>2. k - 1 \notin Unsolved
      BY <2>1, <3>1
    <3> QED
      BY <3>1, <3>2
  <2> DEFINE h == [s \in Sets |-> NextSum(f, g, s)]
  <2>4. h = [s \in Sets |-> h[s]] /\ \A s \in Sets : h[s] = NextSum(f, g, s)
    OBVIOUS
  <2> HIDE DEF h
  <2>5. ASSUME NEW s \in Sets, Cardinality(s) < k
        PROVE  h[s] = NextSum(f, h, s)
    <3>1. CASE s = {}
      BY <2>4, <3>1 DEF NextSum
    <3>2. CASE s # {}
      <4> DEFINE t == s \ {Chosen(s)}
      <4>1. t \in Sets /\ Cardinality(t) < k - 1
        BY <1>1, <2>5, <3>2
      <4>2. h[t] = g[t]
        BY <2>3, <2>4, <4>1
      <4> QED
        BY <2>4, <3>2, <4>2 DEF NextSum
    <3> QED
      BY <3>1, <3>2
  <2>6. Solves(h, k)
    BY <2>4, <2>5
  <2> QED
    BY <2>6
<1>3. PICK g : Solves(g, Cardinality(S) + 1)
  <2>1. Cardinality(S) + 1 \in Nat
    BY FS_CardinalityType
  <2> QED
    BY <1>2, <2>1
<1>4. g = [s \in Sets |-> NextSum(f, g, s)]
  <2>1. \A s \in Sets : g[s] = NextSum(f, g, s)
    BY <1>0, <1>3, Zenon
  <2> QED
    BY <1>3, <2>1
<1> DEFINE F(h) == h = [s \in Sets |-> NextSum(f, h, s)]
<1>5. SumsOf(f, S) = CHOOSE h : F(h)
  BY DEF SumsOf, Sets
<1>6. F(g)
  BY <1>4
<1> HIDE DEF F
<1>7. F(SumsOf(f, S))
  BY <1>5, <1>6
<1> DEFINE sums == SumsOf(f, S)
<1>8. sums = [s \in Sets |-> NextSum(f, sums, s)]
  BY <1>7 DEF F
<1> HIDE DEF sums
<1>9. \A s \in Sets : sums[s] = NextSum(f, sums, s)
  BY <1>8, Zenon
<1> QED
  BY <1>9 DEF Sets, sums

\* The sum that Functions defines as a fold is the one that the equation determines.
LEMMA SumExpanded == \A f, S : SumFunctionOnSet(f, S) = SumsOf(f, S)[S]
BY DEF SumFunctionOnSet, FoldFunctionOnSet, MapThenFoldSet, SumsOf, NextSum, Chosen

\* A part has the same sum in itself and in the whole.
LEMMA SumOfPart ==
  ASSUME NEW f, NEW S, IsFiniteSet(S), NEW T \in SUBSET S
  PROVE  \A s \in SUBSET T : SumsOf(f, S)[s] = SumsOf(f, T)[s]
<1> DEFINE U == {s \in SUBSET T : SumsOf(f, S)[s] # SumsOf(f, T)[s]}
<1> SUFFICES ASSUME U # {} PROVE FALSE
  OBVIOUS
<1>1. IsFiniteSet(T)
  BY FS_Subset
<1>2. PICK s \in U : Cardinality(s) \in Nat /\ \A t \in U : Cardinality(s) <= Cardinality(t)
  <2>1. U \in SUBSET SUBSET T
    OBVIOUS
  <2> HIDE DEF U
  <2> QED
    BY <1>1, <2>1, SmallestSet
<1>3. /\ SumsOf(f, S)[s] = NextSum(f, SumsOf(f, S), s)
      /\ SumsOf(f, T)[s] = NextSum(f, SumsOf(f, T), s)
  BY <1>1, SumsEquation
<1>4. CASE s = {}
  BY <1>3, <1>4 DEF NextSum
<1>5. CASE s # {}
  <2>1. /\ s \ {Chosen(s)} \in SUBSET T
        /\ Cardinality(s \ {Chosen(s)}) = Cardinality(s) - 1
    BY <1>1, <1>5, ChosenLeft
  <2>2. SumsOf(f, S)[s \ {Chosen(s)}] = SumsOf(f, T)[s \ {Chosen(s)}]
    BY <1>2, <2>1
  <2> QED
    BY <1>3, <1>5, <2>2 DEF NextSum
<1> QED
  BY <1>4, <1>5

\* A sum is that of one element and the rest.
LEMMA SumOfRest ==
  ASSUME NEW f, NEW S, IsFiniteSet(S)
  PROVE  SumFunctionOnSet(f, S) = IF S = {} THEN 0
                                  ELSE f[Chosen(S)] + SumFunctionOnSet(f, S \ {Chosen(S)})
<1>1. S \in SUBSET S
  OBVIOUS
<1>2. SumFunctionOnSet(f, S) = NextSum(f, SumsOf(f, S), S)
  BY <1>1, SumExpanded, SumsEquation
<1>3. SumsOf(f, S)[S \ {Chosen(S)}] = SumFunctionOnSet(f, S \ {Chosen(S)})
  BY SumExpanded, SumOfPart
<1> QED
  BY <1>2, <1>3 DEF NextSum

\* A sum of natural numbers is one.
LEMMA SumTyped ==
  ASSUME NEW S, IsFiniteSet(S), NEW f, \A x \in S : f[x] \in Nat
  PROVE  \A s \in SUBSET S : SumFunctionOnSet(f, s) \in Nat
<1> DEFINE U == {s \in SUBSET S : SumFunctionOnSet(f, s) \notin Nat}
<1> SUFFICES ASSUME U # {} PROVE FALSE
  OBVIOUS
<1>1. PICK s \in U : IsFiniteSet(s) /\ Cardinality(s) \in Nat /\ \A t \in U : Cardinality(s) <= Cardinality(t)
  <2>1. U \in SUBSET SUBSET S
    OBVIOUS
  <2> HIDE DEF U
  <2> QED
    BY <2>1, SmallestSet
<1>2. s \in SUBSET S /\ SumFunctionOnSet(f, s) \notin Nat
  OBVIOUS
<1>3. SumFunctionOnSet(f, s) = IF s = {} THEN 0 ELSE f[Chosen(s)] + SumFunctionOnSet(f, s \ {Chosen(s)})
  BY <1>1, SumOfRest
<1>4. CASE s # {}
  <2>1. /\ Chosen(s) \in s /\ s \ {Chosen(s)} \in SUBSET S
        /\ Cardinality(s \ {Chosen(s)}) = Cardinality(s) - 1
    BY <1>2, <1>4, ChosenLeft
  <2>2. SumFunctionOnSet(f, s \ {Chosen(s)}) \in Nat
    BY <1>1, <2>1
  <2>3. f[Chosen(s)] \in Nat
    BY <1>2, <2>1
  <2> QED
    BY <1>2, <1>3, <1>4, <2>2, <2>3
<1> QED
  BY <1>2, <1>3, <1>4

\* Functions that agree on a set have the same sum.
LEMMA SumSame ==
  ASSUME NEW S, IsFiniteSet(S), NEW f, NEW g, \A x \in S : f[x] = g[x]
  PROVE  SumFunctionOnSet(f, S) = SumFunctionOnSet(g, S)
<1> DEFINE U == {s \in SUBSET S : SumFunctionOnSet(f, s) # SumFunctionOnSet(g, s)}
<1>1. U = {}
  <2> SUFFICES ASSUME U # {} PROVE FALSE
    OBVIOUS
  <2>1. PICK s \in U : IsFiniteSet(s) /\ Cardinality(s) \in Nat /\ \A t \in U : Cardinality(s) <= Cardinality(t)
    <3>1. U \in SUBSET SUBSET S
      OBVIOUS
    <3> HIDE DEF U
    <3> QED
      BY <3>1, SmallestSet
  <2>2. s \in SUBSET S /\ SumFunctionOnSet(f, s) # SumFunctionOnSet(g, s)
    OBVIOUS
  <2>3. /\ SumFunctionOnSet(f, s) = IF s = {} THEN 0 ELSE f[Chosen(s)] + SumFunctionOnSet(f, s \ {Chosen(s)})
        /\ SumFunctionOnSet(g, s) = IF s = {} THEN 0 ELSE g[Chosen(s)] + SumFunctionOnSet(g, s \ {Chosen(s)})
    BY <2>1, SumOfRest
  <2>4. s # {}
    BY <2>2, <2>3
  <2>5. /\ Chosen(s) \in s /\ s \ {Chosen(s)} \in SUBSET S
        /\ Cardinality(s \ {Chosen(s)}) = Cardinality(s) - 1
    BY <2>2, <2>4, ChosenLeft
  <2>6. SumFunctionOnSet(f, s \ {Chosen(s)}) = SumFunctionOnSet(g, s \ {Chosen(s)})
    BY <2>1, <2>5
  <2>7. f[Chosen(s)] = g[Chosen(s)]
    BY <2>2, <2>5
  <2> QED
    BY <2>2, <2>3, <2>6, <2>7
<1>2. S \in SUBSET S
  OBVIOUS
<1> QED
  BY <1>1, <1>2

\* A sum is that of any of the elements and the others.
LEMMA SumWithout ==
  ASSUME NEW S, IsFiniteSet(S), NEW f, \A x \in S : f[x] \in Nat, NEW x \in S
  PROVE  SumFunctionOnSet(f, S) = f[x] + SumFunctionOnSet(f, S \ {x})
<1> DEFINE Splits(s, y) == SumFunctionOnSet(f, s) = f[y] + SumFunctionOnSet(f, s \ {y})
           U == {s \in SUBSET S : \E y \in s : ~Splits(s, y)}
<1>1. U = {}
  <2> SUFFICES ASSUME U # {} PROVE FALSE
    OBVIOUS
  <2>1. PICK s \in U : IsFiniteSet(s) /\ Cardinality(s) \in Nat /\ \A t \in U : Cardinality(s) <= Cardinality(t)
    <3>1. U \in SUBSET SUBSET S
      OBVIOUS
    <3> HIDE DEF U
    <3> QED
      BY <3>1, SmallestSet
  <2>2. PICK y \in s : ~Splits(s, y)
    OBVIOUS
  <2> DEFINE c == Chosen(s)
             t == s \ {c}
             rest == s \ {y}
  <2>3. /\ s \in SUBSET S /\ c \in s /\ t \in SUBSET S /\ Cardinality(t) = Cardinality(s) - 1
        /\ rest \in SUBSET S /\ Cardinality(rest) = Cardinality(s) - 1
    BY ChosenLeft
  <2>4. SumFunctionOnSet(f, s) = f[c] + SumFunctionOnSet(f, t)
    BY <2>1, SumOfRest
  <2>5. c # y
    BY <2>2, <2>4
  <2>6. t \notin U /\ rest \notin U
    <3> HIDE DEF U, c, t, rest
    <3> QED
      BY <2>1, <2>3
  <2>7. y \in t /\ c \in rest /\ rest \ {c} = t \ {y}
    BY <2>3, <2>5
  <2>8. /\ SumFunctionOnSet(f, t) = f[y] + SumFunctionOnSet(f, t \ {y})
        /\ SumFunctionOnSet(f, rest) = f[c] + SumFunctionOnSet(f, rest \ {c})
    BY <2>3, <2>6, <2>7
  <2>9. f[c] \in Nat /\ f[y] \in Nat /\ SumFunctionOnSet(f, t \ {y}) \in Nat
    BY <2>3, SumTyped
  <2>10. SumFunctionOnSet(f, s) # f[y] + SumFunctionOnSet(f, rest)
    BY <2>2
  <2> DEFINE others == SumFunctionOnSet(f, t \ {y})
  <2>11. SumFunctionOnSet(f, t) = f[y] + others /\ SumFunctionOnSet(f, rest) = f[c] + others /\ others \in Nat
    BY <2>7, <2>8, <2>9
  <2> HIDE DEF c, t, U, rest, Splits, others
  <2> QED
    BY <2>4, <2>9, <2>10, <2>11
<1>2. S \in SUBSET S
  OBVIOUS
<1> QED
  BY <1>1, <1>2

\* The sum of ones and zeros counts the ones.
LEMMA SumOfOnes ==
  ASSUME NEW S, IsFiniteSet(S), NEW f, \A x \in S : f[x] \in {0, 1}
  PROVE  SumFunctionOnSet(f, S) = Cardinality({x \in S : f[x] = 1})
<1> DEFINE Ones(s) == {x \in s : f[x] = 1}
           U == {s \in SUBSET S : SumFunctionOnSet(f, s) # Cardinality(Ones(s))}
<1>1. U = {}
  <2> SUFFICES ASSUME U # {} PROVE FALSE
    OBVIOUS
  <2>1. PICK s \in U : IsFiniteSet(s) /\ Cardinality(s) \in Nat /\ \A t \in U : Cardinality(s) <= Cardinality(t)
    <3>1. U \in SUBSET SUBSET S
      OBVIOUS
    <3> HIDE DEF U
    <3> QED
      BY <3>1, SmallestSet
  <2> DEFINE c == Chosen(s)
             t == s \ {c}
  <2>2. s \in SUBSET S /\ SumFunctionOnSet(f, s) # Cardinality(Ones(s))
    OBVIOUS
  <2>3. SumFunctionOnSet(f, s) = IF s = {} THEN 0 ELSE f[c] + SumFunctionOnSet(f, t)
    BY <2>1, SumOfRest
  <2>4. s # {}
    <3>1. s = {} => Ones(s) = {}
      OBVIOUS
    <3> HIDE DEF Ones
    <3> QED
      BY <2>2, <2>3, <3>1, FS_EmptySet
  <2>5. c \in s /\ t \in SUBSET S /\ Cardinality(t) = Cardinality(s) - 1
    BY <2>2, <2>4, ChosenLeft
  <2>6. SumFunctionOnSet(f, t) = Cardinality(Ones(t))
    BY <2>1, <2>5
  <2>7. Ones(t) \in SUBSET S /\ IsFiniteSet(Ones(t)) /\ Cardinality(Ones(t)) \in Nat
    <3>1. Ones(t) \in SUBSET S
      BY <2>5
    <3> QED
      BY <3>1, FS_Subset, FS_CardinalityType
  <2>8. f[c] \in {0, 1}
    BY <2>2, <2>5
  <2>9. CASE f[c] = 1
    <3>1. Ones(s) = Ones(t) \cup {c} /\ c \notin Ones(t)
      BY <2>5, <2>9
    <3>2. Cardinality(Ones(s)) = Cardinality(Ones(t)) + 1
      <4> HIDE DEF Ones, c, t
      <4> QED
        BY <2>7, <3>1, FS_AddElement
    <3> QED
      BY <2>2, <2>3, <2>4, <2>6, <2>7, <2>9, <3>2
  <2>10. CASE f[c] = 0
    <3>1. Ones(s) = Ones(t)
      BY <2>10
    <3> HIDE DEF Ones, c, t
    <3> QED
      BY <2>2, <2>3, <2>4, <2>6, <2>7, <2>10, <3>1
  <2> QED
    BY <2>8, <2>9, <2>10
<1>2. S \in SUBSET S
  OBVIOUS
<1> QED
  BY <1>1, <1>2

\* The same for sums over the domain of a function.
LEMMA TotalOfOnes ==
  ASSUME NEW f, IsFiniteSet(DOMAIN f), \A x \in DOMAIN f : f[x] \in {0, 1}
  PROVE  Total(f) = Cardinality({x \in DOMAIN f : f[x] = 1})
BY SumOfOnes DEF Total, SumFunction

\* Nothing adds up to nothing.
LEMMA TotalOfNone ==
  ASSUME NEW f, DOMAIN f = {}
  PROVE  Total(f) = 0
<1>1. SumFunctionOnSet(f, {}) = 0
  BY FS_EmptySet, SumOfRest
<1> QED
  BY <1>1 DEF Total, SumFunction

\* One element more.
LEMMA TotalWith ==
  ASSUME NEW f, NEW g, NEW S, IsFiniteSet(S), NEW x, x \notin S,
         DOMAIN f = S, DOMAIN g = S \cup {x},
         \A y \in S : g[y] = f[y], \A y \in S \cup {x} : g[y] \in Nat
  PROVE  Total(g) = Total(f) + g[x] /\ Total(f) \in Nat
<1>1. DOMAIN f = S /\ DOMAIN g = S \cup {x}
  OBVIOUS
<1>2. IsFiniteSet(S \cup {x}) /\ (S \cup {x}) \ {x} = S
  BY FS_AddElement
<1>3. SumFunctionOnSet(g, S \cup {x}) = g[x] + SumFunctionOnSet(g, S)
  <2> DEFINE T == S \cup {x}
  <2>1. IsFiniteSet(T) /\ x \in T /\ T \ {x} = S /\ \A y \in T : g[y] \in Nat
    BY <1>2
  <2> HIDE DEF T
  <2>2. SumFunctionOnSet(g, T) = g[x] + SumFunctionOnSet(g, T \ {x})
    BY <2>1, SumWithout
  <2> QED
    BY <2>1, <2>2 DEF T
<1>4. SumFunctionOnSet(g, S) = SumFunctionOnSet(f, S)
  BY SumSame
<1>5. S \in SUBSET S /\ \A y \in S : f[y] \in Nat
  OBVIOUS
<1>6. SumFunctionOnSet(f, S) \in Nat
  BY <1>5, SumTyped
<1> QED
  BY <1>1, <1>3, <1>4, <1>6 DEF Total, SumFunction

-----------------------------------------------------------------------------
(* The figures. *)

GoodOf(S) == {r \in S : Reply[r] = "good"}

\* What DailyStatsTrue and ChannelStatsTrue say of a day with these requests.
DailyOf(S) ==
  [requests |-> Cardinality(S), success |-> Cardinality(GoodOf(S)),
   canceled |-> Cardinality({r \in S : Reply[r] = "canceled"}),
   cost     |-> Total([r \in S |-> FinalCost(r)]), duration |-> Cardinality(S)]
ChannelOf(S) ==
  [attempts |-> Total([r \in S |-> Tries[r]]), success |-> Cardinality(GoodOf(S)),
   cost |-> Cardinality(GoodOf(S))]

\* An attempt of the older version, by how far the upgrade has come.
Succeeds(r, i) == i = Tries[r] /\ (Reply[r] = "good" \/ (Reply[r] = "masked" /\ ~Done(4)))
OutcomeTold(r, i) ==
  IF ~Done(2) THEN "" ELSE IF Succeeds(r, i) THEN "success"
  ELSE IF Reply[r] = "canceled" THEN "canceled" ELSE "failed"
AttemptTold(a, r, i) ==
  /\ a = [outcome |-> a.outcome, success |-> a.success, cost |-> a.cost] /\ a.success \in BOOLEAN
  /\ a.success <=> Succeeds(r, i)
  /\ a.outcome = OutcomeTold(r, i)
  /\ a.cost = IF Done(3) /\ a.outcome = "failed" THEN 0 ELSE 1

AttemptsTold ==
  /\ attempts = [r \in Requests |-> attempts[r]]
  /\ \A r \in Inherited \cap Retained :
       /\ attempts[r] = [i \in 1..Tries[r] |-> attempts[r][i]]
       /\ \A i \in 1..Tries[r] : AttemptTold(attempts[r][i], r, i)

\* What a row is counted with when the daily statistics are last rebuilt.
RowsFinal ==
  \A r \in Inherited \cap Retained :
    /\ ~Done(8) => log[r].duration = 1 + Latency
    /\ Done(7) /\ ~Done(8) => log[r].cost = FinalCost(r)

DailyTold ==
  \A d \in Days : WholeDay(d) =>
    /\ OnDay(Recorded, d) = {} => stats[d] = NoStat
    /\ OnDay(Recorded, d) # {} /\ Done(8) => stats[d] = DailyOf(OnDay(Recorded, d))

ChannelsTold ==
  /\ channels = [d \in Days |-> channels[d]]
  /\ \A d \in Days : WholeDay(d) =>
       /\ OnDay(Recorded, d) = {} => channels[d] = NoStat
       /\ OnDay(Recorded, d) # {} /\ Done(5) /\ ~Done(6) =>
            channels[d] # NoStat /\ channels[d].cost = Cardinality(GoodOf(OnDay(Recorded, d)))
       /\ OnDay(Recorded, d) # {} /\ Done(6) => channels[d] = ChannelOf(OnDay(Recorded, d))

FiguresInv == TellingInv /\ StatsShapes /\ AttemptsTold /\ RowsFinal /\ DailyTold /\ ChannelsTold

\* A request of this version costs nothing when it is canceled.
LEMMA FinalCosts ==
  ASSUME NEW r \in Requests
  PROVE  /\ FinalCost(r) \in {0, 1}
         /\ r \in New => FinalCost(r) = IF Reply[r] = "good" THEN 1 ELSE 0
BY RequestAssumption DEF FinalCost, Requests

\* Rows that have become right aggregate to what happened.
LEMMA AggregateTold ==
  ASSUME NEW S \in SUBSET Requests, NEW rows,
         \A r \in S : rows[r].outcome = Outcome(r) /\ rows[r].cost = FinalCost(r) /\ rows[r].duration = 1
  PROVE  Aggregate(rows, S) = DailyOf(S)
<1>1. /\ {r \in S : rows[r].outcome = "success"} = GoodOf(S)
      /\ {r \in S : rows[r].outcome = "canceled"} = {r \in S : Reply[r] = "canceled"}
  <2>1. \A r \in S : /\ rows[r].outcome = "success" <=> Reply[r] = "good"
                     /\ rows[r].outcome = "canceled" <=> Reply[r] = "canceled"
    BY DEF Outcome
  <2> QED
    BY <2>1 DEF GoodOf
<1>2. CostOf(rows, S) = Total([r \in S |-> FinalCost(r)])
  <2>1. [r \in S |-> rows[r].cost] = [r \in S |-> FinalCost(r)]
    OBVIOUS
  <2> QED
    BY <2>1 DEF CostOf
<1>3. DurationOf(rows, S) = Cardinality(S)
  <2> DEFINE ones == [r \in S |-> rows[r].duration]
  <2>1. DOMAIN ones = S /\ \A r \in S : ones[r] = 1
    OBVIOUS
  <2>2. IsFiniteSet(S)
    BY RequestsCounted
  <2>3. DurationOf(rows, S) = Total(ones)
    BY DEF DurationOf
  <2> HIDE DEF ones
  <2>4. Total(ones) = Cardinality({r \in DOMAIN ones : ones[r] = 1})
    BY <2>1, <2>2, TotalOfOnes
  <2>5. {r \in DOMAIN ones : ones[r] = 1} = S
    BY <2>1
  <2> QED
    BY <2>3, <2>4, <2>5
<1> QED
  BY <1>1, <1>2, <1>3 DEF Aggregate, DailyOf

\* The attempts of a request as a sequence.
LEMMA AttemptsListed ==
  ASSUME AttemptsTold, NEW r \in Inherited \cap Retained
  PROVE  /\ r \in Requests /\ Tries[r] \in Nat \ {0}
         /\ Len(attempts[r]) = Tries[r] /\ DOMAIN attempts[r] = 1..Tries[r]
         /\ \A i \in 1..Tries[r] : AttemptTold(attempts[r][i], r, i)
<1>1. r \in Requests /\ Tries[r] \in Nat \ {0}
  BY RequestAssumption DEF Requests
<1> DEFINE n == Tries[r]
           told == [i \in 1..n |-> attempts[r][i]]
           Told == {attempts[r][i] : i \in 1..n}
<1>2. attempts[r] = told
  BY DEF AttemptsTold
<1>3. DOMAIN told = 1..n /\ told \in [1..n -> Told]
  OBVIOUS
<1> HIDE DEF told, Told
<1>4. told \in Seq(Told) /\ Len(told) = n
  BY <1>1, <1>3
<1>5. \A i \in 1..n : AttemptTold(attempts[r][i], r, i)
  BY DEF AttemptsTold
<1> QED
  BY <1>1, <1>2, <1>3, <1>4, <1>5

\* The costs of a request's attempts that are not canceled.
LEMMA AttemptsCost ==
  ASSUME AttemptsTold, Done(2), Done(3), Done(4), NEW r \in Inherited \cap Retained
  PROVE  /\ Total([i \in {i \in DOMAIN attempts[r] : attempts[r][i].outcome # "canceled"} |-> attempts[r][i].cost])
              = IF Reply[r] = "good" THEN 1 ELSE 0
         /\ Cardinality({i \in DOMAIN attempts[r] : attempts[r][i].outcome = "success"})
              = IF Reply[r] = "good" THEN 1 ELSE 0
<1> DEFINE n == Tries[r]
           I == {i \in DOMAIN attempts[r] : attempts[r][i].outcome # "canceled"}
           f == [i \in I |-> attempts[r][i].cost]
           Ones == {i \in DOMAIN f : f[i] = 1}
           Successes == {i \in DOMAIN attempts[r] : attempts[r][i].outcome = "success"}
<1>1. /\ n \in Nat \ {0} /\ DOMAIN attempts[r] = 1..n
      /\ \A i \in 1..n : AttemptTold(attempts[r][i], r, i)
  BY AttemptsListed
<1>2. \A i \in 1..n :
        /\ attempts[r][i].outcome = IF i = n /\ Reply[r] = "good" THEN "success"
                                    ELSE IF Reply[r] = "canceled" THEN "canceled" ELSE "failed"
        /\ attempts[r][i].cost = IF attempts[r][i].outcome = "failed" THEN 0 ELSE 1
  <2> SUFFICES ASSUME NEW i \in 1..n
               PROVE  /\ attempts[r][i].outcome = IF i = n /\ Reply[r] = "good" THEN "success"
                                                  ELSE IF Reply[r] = "canceled" THEN "canceled" ELSE "failed"
                      /\ attempts[r][i].cost = IF attempts[r][i].outcome = "failed" THEN 0 ELSE 1
    OBVIOUS
  <2>1. Succeeds(r, i) <=> i = n /\ Reply[r] = "good"
    BY DEF Succeeds
  <2>2. OutcomeTold(r, i) = IF i = n /\ Reply[r] = "good" THEN "success"
                            ELSE IF Reply[r] = "canceled" THEN "canceled" ELSE "failed"
    BY <2>1 DEF OutcomeTold
  <2>3. /\ attempts[r][i].outcome = OutcomeTold(r, i)
        /\ attempts[r][i].cost = IF OutcomeTold(r, i) = "failed" THEN 0 ELSE 1
    BY <1>1 DEF AttemptTold
  <2> QED
    BY <2>2, <2>3
<1>3. IsFiniteSet(I)
  <2>1. IsFiniteSet(1..n)
    BY <1>1, FS_Interval
  <2>2. I \in SUBSET (1..n)
    BY <1>1
  <2> HIDE DEF I, n
  <2> QED
    BY <2>1, <2>2, FS_Subset
<1>4. DOMAIN f = I /\ \A i \in I : f[i] = IF i = n /\ Reply[r] = "good" THEN 1 ELSE 0
  BY <1>1, <1>2
<1>5. (Reply[r] = "good" => Ones = {n}) /\ (Reply[r] # "good" => Ones = {})
  <2>1. Reply[r] = "good" => n \in I
    BY <1>1, <1>2
  <2> HIDE DEF f, I
  <2> QED
    BY <1>4, <2>1
<1>6. (Reply[r] = "good" => Successes = {n}) /\ (Reply[r] # "good" => Successes = {})
  BY <1>1, <1>2
<1>7. Total(f) = Cardinality(Ones)
  <2> HIDE DEF f, I
  <2>1. IsFiniteSet(DOMAIN f) /\ \A i \in DOMAIN f : f[i] \in {0, 1}
    BY <1>3, <1>4
  <2> QED
    BY <2>1, TotalOfOnes
<1>8. Cardinality({n}) = 1 /\ Cardinality({}) = 0
  BY FS_Singleton, FS_EmptySet
<1> HIDE DEF f, I, Ones, Successes, n
<1>9. /\ Total(f) = IF Reply[r] = "good" THEN 1 ELSE 0
      /\ Cardinality(Successes) = IF Reply[r] = "good" THEN 1 ELSE 0
  BY <1>5, <1>6, <1>7, <1>8
<1> QED
  BY <1>9 DEF f, I, Successes

\* The sums over the attempts of a whole day.
LEMMA AttemptsSummed ==
  ASSUME AttemptsTold, Done(2), Done(3), Done(4), NEW S \in SUBSET (Inherited \cap Retained)
  PROVE  /\ ChannelCost(S) = Cardinality(GoodOf(S)) /\ SuccessesOf(S) = Cardinality(GoodOf(S))
         /\ AttemptsOf(S) = Total([r \in S |-> Tries[r]])
<1> DEFINE ones == [r \in S |-> IF Reply[r] = "good" THEN 1 ELSE 0]
<1>1. Total(ones) = Cardinality(GoodOf(S))
  <2>1. S \in SUBSET Requests
    BY DEF Requests
  <2>2. IsFiniteSet(S)
    BY <2>1, RequestsCounted
  <2>3. DOMAIN ones = S /\ \A r \in S : ones[r] = IF Reply[r] = "good" THEN 1 ELSE 0
    OBVIOUS
  <2> HIDE DEF ones
  <2>4. Total(ones) = Cardinality({r \in DOMAIN ones : ones[r] = 1})
    BY <2>2, <2>3, TotalOfOnes
  <2>5. {r \in DOMAIN ones : ones[r] = 1} = GoodOf(S)
    BY <2>3 DEF GoodOf
  <2> QED
    BY <2>4, <2>5
<1>2. ChannelCost(S) = Total(ones)
  <2> DEFINE costs == [r \in S |->
        Total([i \in {i \in DOMAIN attempts[r] : attempts[r][i].outcome # "canceled"} |-> attempts[r][i].cost])]
  <2>1. \A r \in S :
          Total([i \in {i \in DOMAIN attempts[r] : attempts[r][i].outcome # "canceled"} |-> attempts[r][i].cost])
            = IF Reply[r] = "good" THEN 1 ELSE 0
    BY AttemptsCost
  <2>2. costs = ones
    BY <2>1
  <2>3. ChannelCost(S) = Total(costs)
    BY DEF ChannelCost
  <2> HIDE DEF costs, ones
  <2> QED
    BY <2>2, <2>3
<1>3. SuccessesOf(S) = Total(ones)
  <2> DEFINE counts == [r \in S |-> Cardinality({i \in DOMAIN attempts[r] : attempts[r][i].outcome = "success"})]
  <2>1. \A r \in S : Cardinality({i \in DOMAIN attempts[r] : attempts[r][i].outcome = "success"})
                       = IF Reply[r] = "good" THEN 1 ELSE 0
    BY AttemptsCost
  <2>2. counts = ones
    BY <2>1
  <2>3. SuccessesOf(S) = Total(counts)
    BY DEF SuccessesOf
  <2> HIDE DEF counts, ones
  <2> QED
    BY <2>2, <2>3
<1>4. AttemptsOf(S) = Total([r \in S |-> Tries[r]])
  <2>1. \A r \in S : Len(attempts[r]) = Tries[r]
    BY AttemptsListed
  <2>2. [r \in S |-> Len(attempts[r])] = [r \in S |-> Tries[r]]
    BY <2>1
  <2> QED
    BY <2>2 DEF AttemptsOf
<1> QED
  BY <1>1, <1>2, <1>3, <1>4

\* The migrations that the figures depend on are done by themselves only.
LEMMA FigureMigrations ==
  ASSUME [Next]_vars
  PROVE  /\ ~BackfillRelayOutcomes => (Done(2)' <=> Done(2))
         /\ ~BackfillCostFields => (Done(3)' <=> Done(3))
         /\ ~BackfillApplicationOutcomes => (Done(4)' <=> Done(4))
         /\ ~BackfillChannelModelDailyCosts => (Done(5)' <=> Done(5))
         /\ ~BackfillChannelModelDailyAggregates => (Done(6)' <=> Done(6))
         /\ ~BackfillRequestStatisticsFromFinalAttempts => (Done(7)' <=> Done(7))
         /\ ~BackfillResponsePhaseTimings => (Done(8)' <=> Done(8))
<1> DEFINE Adds(name) == applied' = applied \cup {name}
<1>0. \/ applied' = applied \/ BackfillTokenDailyStats \/ BackfillRelayOutcomes \/ BackfillCostFields
      \/ BackfillApplicationOutcomes \/ BackfillChannelModelDailyCosts \/ BackfillChannelModelDailyAggregates
      \/ BackfillRequestStatisticsFromFinalAttempts \/ BackfillResponsePhaseTimings
      \/ CompressDetailedPayloads \/ BackfillCodexThreadSources \/ BackfillCodexSessionParents
      \/ BackfillCodexCompactionTracking \/ CorrectSuccessfulCodexCompactionCounts \/ MigrateRelayPayloadTables
  BY CleanupLeaves DEF Next, Migrate, vars, MigrateRequestPayloadBatch, Skip, RecordRequest, Crash
<1>0a. /\ BackfillTokenDailyStats => Adds("daily")
       /\ BackfillRelayOutcomes => Adds("outcomes")
       /\ BackfillCostFields => Adds("costs")
       /\ BackfillApplicationOutcomes => Adds("application")
       /\ BackfillChannelModelDailyCosts => Adds("channel costs")
       /\ BackfillChannelModelDailyAggregates => Adds("channel aggregates")
       /\ BackfillRequestStatisticsFromFinalAttempts => Adds("final attempts")
       /\ BackfillResponsePhaseTimings => Adds("timings")
  BY DEF Apply, BackfillTokenDailyStats, BackfillRelayOutcomes, BackfillCostFields, BackfillApplicationOutcomes,
     BackfillChannelModelDailyCosts, BackfillChannelModelDailyAggregates,
     BackfillRequestStatisticsFromFinalAttempts, BackfillResponsePhaseTimings
<1>0b. /\ CompressDetailedPayloads => Adds("compress")
       /\ BackfillCodexThreadSources => Adds("threads")
       /\ BackfillCodexSessionParents => Adds("parents")
       /\ BackfillCodexCompactionTracking => Adds("compactions")
       /\ CorrectSuccessfulCodexCompactionCounts => Adds("successful compactions")
       /\ MigrateRelayPayloadTables => Adds("payloads")
  BY DEF Apply, CompressDetailedPayloads, BackfillCodexThreadSources, BackfillCodexSessionParents,
     BackfillCodexCompactionTracking, CorrectSuccessfulCodexCompactionCounts, MigrateRelayPayloadTables
<1>1. \/ applied' = applied \/ Adds("daily") \/ Adds("compress") \/ Adds("threads") \/ Adds("parents")
      \/ Adds("compactions") \/ Adds("successful compactions") \/ Adds("payloads")
      \/ (BackfillRelayOutcomes /\ Adds("outcomes")) \/ (BackfillCostFields /\ Adds("costs"))
      \/ (BackfillApplicationOutcomes /\ Adds("application"))
      \/ (BackfillChannelModelDailyCosts /\ Adds("channel costs"))
      \/ (BackfillChannelModelDailyAggregates /\ Adds("channel aggregates"))
      \/ (BackfillRequestStatisticsFromFinalAttempts /\ Adds("final attempts"))
      \/ (BackfillResponsePhaseTimings /\ Adds("timings"))
  BY <1>0, <1>0a, <1>0b
<1>2. ASSUME ~BackfillRelayOutcomes PROVE "outcomes" \in applied' <=> "outcomes" \in applied
  BY <1>1, <1>2
<1>3. ASSUME ~BackfillCostFields PROVE "costs" \in applied' <=> "costs" \in applied
  BY <1>1, <1>3
<1>4. ASSUME ~BackfillApplicationOutcomes PROVE "application" \in applied' <=> "application" \in applied
  BY <1>1, <1>4
<1>5. ASSUME ~BackfillChannelModelDailyCosts PROVE "channel costs" \in applied' <=> "channel costs" \in applied
  BY <1>1, <1>5
<1>6. ASSUME ~BackfillChannelModelDailyAggregates
      PROVE  "channel aggregates" \in applied' <=> "channel aggregates" \in applied
  BY <1>1, <1>6
<1>7. ASSUME ~BackfillRequestStatisticsFromFinalAttempts
      PROVE  "final attempts" \in applied' <=> "final attempts" \in applied
  BY <1>1, <1>7
<1>8. ASSUME ~BackfillResponsePhaseTimings PROVE "timings" \in applied' <=> "timings" \in applied
  BY <1>1, <1>8
<1>9. /\ Order[2] = "outcomes" /\ Order[3] = "costs" /\ Order[4] = "application" /\ Order[5] = "channel costs"
      /\ Order[6] = "channel aggregates" /\ Order[7] = "final attempts" /\ Order[8] = "timings"
  BY Places
<1> QED
  BY <1>2, <1>3, <1>4, <1>5, <1>6, <1>7, <1>8, <1>9 DEF Done

\* What has been done when one of them runs.
LEMMA FigureSteps ==
  ASSUME InOrder
  PROVE  /\ {1, 2, 3, 4, 5, 6, 7, 8, 12, 14} \subseteq Steps
         /\ Apply("daily") => \A j \in Steps : (Done(j) <=> j < 1) /\ (Done(j)' <=> j <= 1)
         /\ Apply("outcomes") => \A j \in Steps : (Done(j) <=> j < 2) /\ (Done(j)' <=> j <= 2)
         /\ Apply("costs") => \A j \in Steps : (Done(j) <=> j < 3) /\ (Done(j)' <=> j <= 3)
         /\ Apply("application") => \A j \in Steps : (Done(j) <=> j < 4) /\ (Done(j)' <=> j <= 4)
         /\ Apply("channel costs") => \A j \in Steps : (Done(j) <=> j < 5) /\ (Done(j)' <=> j <= 5)
         /\ Apply("channel aggregates") => \A j \in Steps : (Done(j) <=> j < 6) /\ (Done(j)' <=> j <= 6)
         /\ Apply("final attempts") => \A j \in Steps : (Done(j) <=> j < 7) /\ (Done(j)' <=> j <= 7)
         /\ Apply("timings") => \A j \in Steps : (Done(j) <=> j < 8) /\ (Done(j)' <=> j <= 8)
         /\ Apply("compactions") => \A j \in Steps : (Done(j) <=> j < 12) /\ (Done(j)' <=> j <= 12)
<1>1. {1, 2, 3, 4, 5, 6, 7, 8, 12, 14} \subseteq Steps
  BY DEF Steps
<1>2. \A i \in Steps : Apply(Order[i]) => \A j \in Steps : (Done(j) <=> j < i) /\ (Done(j)' <=> j <= i)
  BY Applied
<1>3. /\ Order[1] = "daily" /\ Order[2] = "outcomes" /\ Order[3] = "costs" /\ Order[4] = "application"
      /\ Order[5] = "channel costs" /\ Order[6] = "channel aggregates" /\ Order[7] = "final attempts"
      /\ Order[8] = "timings" /\ Order[12] = "compactions"
  BY Places
<1>4. 1 \in Steps /\ 2 \in Steps /\ 3 \in Steps /\ 4 \in Steps /\ 5 \in Steps /\ 6 \in Steps /\ 7 \in Steps
      /\ 8 \in Steps /\ 12 \in Steps
  BY <1>1
<1> QED
  BY <1>1, <1>2, <1>3, <1>4

\* The outcome of an attempt is told from its success.
LEMMA OutcomesAttempts ==
  ASSUME AttemptsTold, BackfillRelayOutcomes, ~Done(2), Done(2)', ~Done(3), ~Done(3)', ~Done(4), ~Done(4)'
  PROVE  AttemptsTold'
<1> DEFINE told(r, i) == CASE attempts[r][i].success -> "success"
                           [] ~attempts[r][i].success /\ RowOutcome(r) = "canceled" -> "canceled"
                           [] OTHER -> "failed"
<1>1. attempts' = [r \in Requests |-> [i \in DOMAIN attempts[r] |-> [attempts[r][i] EXCEPT !.outcome = told(r, i)]]]
  BY DEF BackfillRelayOutcomes
<1>2. ASSUME NEW r \in Inherited \cap Retained
      PROVE  /\ attempts'[r] = [i \in 1..Tries[r] |-> attempts'[r][i]]
             /\ \A i \in 1..Tries[r] : AttemptTold(attempts[r][i], r, i)'
  <2>1. /\ r \in Requests /\ DOMAIN attempts[r] = 1..Tries[r]
        /\ \A i \in 1..Tries[r] : AttemptTold(attempts[r][i], r, i)
    BY AttemptsListed
  <2>2. attempts'[r] = [i \in 1..Tries[r] |-> [attempts[r][i] EXCEPT !.outcome = told(r, i)]]
    BY <1>1, <2>1
  <2>3. ASSUME NEW i \in 1..Tries[r] PROVE AttemptTold(attempts[r][i], r, i)'
    <3>1. attempts'[r][i] = [attempts[r][i] EXCEPT !.outcome = told(r, i)]
      BY <2>2
    <3>2. Succeeds(r, i)' <=> Succeeds(r, i)
      BY DEF Succeeds
    <3>3. RowOutcome(r) = "canceled" <=> Reply[r] = "canceled"
      BY DEF RowOutcome
    <3>4. AttemptTold(attempts[r][i], r, i)
      BY <2>1
    <3>5. told(r, i) = IF Succeeds(r, i) THEN "success" ELSE IF Reply[r] = "canceled" THEN "canceled" ELSE "failed"
      BY <3>3, <3>4 DEF AttemptTold
    <3>6. OutcomeTold(r, i)' = told(r, i)
      BY <3>2, <3>5 DEF OutcomeTold
    <3> HIDE DEF told
    <3>7. /\ attempts'[r][i] = [outcome |-> told(r, i), success |-> attempts[r][i].success,
                                cost |-> attempts[r][i].cost]
          /\ attempts[r][i].cost = 1 /\ attempts[r][i].success \in BOOLEAN
          /\ attempts[r][i].success <=> Succeeds(r, i)
      BY <3>1, <3>4 DEF AttemptTold
    <3> QED
      BY <3>2, <3>6, <3>7 DEF AttemptTold
  <2> HIDE DEF told
  <2> QED
    BY <2>2, <2>3
<1>3. attempts' = [r \in Requests |-> attempts'[r]]
  BY <1>1
<1> QED
  BY <1>2, <1>3 DEF AttemptsTold

\* A failed attempt costs nothing.
LEMMA CostsAttempts ==
  ASSUME AttemptsTold, BackfillCostFields, Done(2), Done(2)', ~Done(3), Done(3)', ~Done(4), ~Done(4)'
  PROVE  AttemptsTold'
<1>1. attempts' = [r \in Requests |-> [i \in DOMAIN attempts[r] |->
        IF r \in Retained /\ attempts[r][i].outcome = "failed"
        THEN [attempts[r][i] EXCEPT !.cost = 0] ELSE attempts[r][i]]]
  BY DEF BackfillCostFields
<1>2. ASSUME NEW r \in Inherited \cap Retained
      PROVE  /\ attempts'[r] = [i \in 1..Tries[r] |-> attempts'[r][i]]
             /\ \A i \in 1..Tries[r] : AttemptTold(attempts[r][i], r, i)'
  <2>1. /\ r \in Requests /\ DOMAIN attempts[r] = 1..Tries[r]
        /\ \A i \in 1..Tries[r] : AttemptTold(attempts[r][i], r, i)
    BY AttemptsListed
  <2>2. attempts'[r] = [i \in 1..Tries[r] |->
          IF attempts[r][i].outcome = "failed" THEN [attempts[r][i] EXCEPT !.cost = 0] ELSE attempts[r][i]]
    BY <1>1, <2>1
  <2>3. ASSUME NEW i \in 1..Tries[r] PROVE AttemptTold(attempts[r][i], r, i)'
    <3>1. attempts'[r][i] = IF attempts[r][i].outcome = "failed" THEN [attempts[r][i] EXCEPT !.cost = 0]
                            ELSE attempts[r][i]
      BY <2>2
    <3>2. Succeeds(r, i)' <=> Succeeds(r, i)
      BY DEF Succeeds
    <3>3. AttemptTold(attempts[r][i], r, i)
      BY <2>1
    <3>4. OutcomeTold(r, i)' = OutcomeTold(r, i)
      BY <3>2 DEF OutcomeTold
    <3>5. /\ attempts'[r][i] = [outcome |-> attempts[r][i].outcome, success |-> attempts[r][i].success,
                                cost |-> IF attempts[r][i].outcome = "failed" THEN 0 ELSE 1]
          /\ attempts[r][i].success \in BOOLEAN /\ attempts[r][i].outcome = OutcomeTold(r, i)
          /\ attempts[r][i].success <=> Succeeds(r, i)
      BY <3>1, <3>3 DEF AttemptTold
    <3> QED
      BY <3>2, <3>4, <3>5 DEF AttemptTold
  <2> QED
    BY <2>2, <2>3
<1>3. attempts' = [r \in Requests |-> attempts'[r]]
  BY <1>1
<1> QED
  BY <1>2, <1>3 DEF AttemptsTold

\* The misjudged rows are those whose reply masks an error: their bodies can still be read.
LEMMA MisjudgedMasked ==
  ASSUME PastInv, RowsTold, Done(2), ~Done(4), ~Done(13), NEW r \in Present \cap Inherited
  PROVE  r \in Misjudged <=> Reply[r] = "masked"
<1>1. r \in Requests /\ Readable(r)
  BY DEF PastInv, PastUntouched, Requests
<1>2. log[r].outcome = RowOutcome(r)
  BY DEF RowsTold
<1> QED
  BY <1>1, <1>2, OutcomesDiffer DEF Misjudged, Outcome

\* The attempt that was taken for a success fails and costs nothing.
LEMMA ApplicationAttempts ==
  ASSUME PastInv, RowsTold, AttemptsTold, BackfillApplicationOutcomes, ~Done(13), ~Done(14),
         Done(2), Done(2)', Done(3), Done(3)', ~Done(4), Done(4)'
  PROVE  AttemptsTold'
<1>1. attempts' = [r \in Requests |-> [i \in DOMAIN attempts[r] |->
        IF r \in Misjudged /\ attempts[r][i].success
        THEN [outcome |-> "failed", success |-> FALSE, cost |-> 0] ELSE attempts[r][i]]]
  BY DEF BackfillApplicationOutcomes
<1>2. ASSUME NEW r \in Inherited \cap Retained
      PROVE  /\ attempts'[r] = [i \in 1..Tries[r] |-> attempts'[r][i]]
             /\ \A i \in 1..Tries[r] : AttemptTold(attempts[r][i], r, i)'
  <2>1. /\ r \in Requests /\ DOMAIN attempts[r] = 1..Tries[r]
        /\ \A i \in 1..Tries[r] : AttemptTold(attempts[r][i], r, i)
    BY AttemptsListed
  <2>2. attempts'[r] = [i \in 1..Tries[r] |->
          IF r \in Misjudged /\ attempts[r][i].success
          THEN [outcome |-> "failed", success |-> FALSE, cost |-> 0] ELSE attempts[r][i]]
    BY <1>1, <2>1
  <2>3. r \in Misjudged <=> Reply[r] = "masked"
    <3>1. r \in Present
      BY DEF PastInv, PastUntouched
    <3> QED
      BY <3>1, MisjudgedMasked
  <2>4. ASSUME NEW i \in 1..Tries[r] PROVE AttemptTold(attempts[r][i], r, i)'
    <3>1. attempts'[r][i] = IF Reply[r] = "masked" /\ attempts[r][i].success
                            THEN [outcome |-> "failed", success |-> FALSE, cost |-> 0] ELSE attempts[r][i]
      BY <2>2, <2>3
    <3>2. AttemptTold(attempts[r][i], r, i)
      BY <2>1
    <3>3. CASE Reply[r] = "masked" /\ attempts[r][i].success
      <4>1. ~Succeeds(r, i)' /\ OutcomeTold(r, i)' = "failed"
        BY <3>3 DEF Succeeds, OutcomeTold
      <4> QED
        BY <3>1, <3>3, <4>1 DEF AttemptTold
    <3>4. CASE ~(Reply[r] = "masked" /\ attempts[r][i].success)
      <4>1. attempts'[r][i] = attempts[r][i]
        BY <3>1, <3>4
      <4>2. Succeeds(r, i)' <=> Succeeds(r, i)
        BY <3>2, <3>4 DEF Succeeds, AttemptTold
      <4>3. OutcomeTold(r, i)' = OutcomeTold(r, i)
        BY <4>2 DEF OutcomeTold
      <4> QED
        BY <3>2, <4>1, <4>2, <4>3 DEF AttemptTold
    <3> QED
      BY <3>3, <3>4
  <2> QED
    BY <2>2, <2>4
<1>3. attempts' = [r \in Requests |-> attempts'[r]]
  BY <1>1
<1> QED
  BY <1>2, <1>3 DEF AttemptsTold

\* Every step keeps what the attempts of the older version say.
LEMMA AttemptsStep == PastInv /\ RowsTold /\ AttemptsTold /\ [Next]_vars => AttemptsTold'
<1> SUFFICES ASSUME PastInv, RowsTold, AttemptsTold, [Next]_vars PROVE AttemptsTold'
  OBVIOUS
<1>1. InOrder
  BY DEF PastInv
<1>2. 2 \in Steps /\ 3 \in Steps /\ 4 \in Steps /\ 13 \in Steps /\ 14 \in Steps
  BY DEF Steps
<1>3. CASE BackfillRelayOutcomes
  <2>1. \A j \in Steps : (Done(j) <=> j < 2) /\ (Done(j)' <=> j <= 2)
    BY <1>1, <1>3, FigureSteps DEF BackfillRelayOutcomes
  <2>2. ~Done(2) /\ Done(2)' /\ ~Done(3) /\ ~Done(3)' /\ ~Done(4) /\ ~Done(4)'
    BY <1>2, <2>1
  <2> QED
    BY <1>3, <2>2, OutcomesAttempts
<1>4. CASE BackfillCostFields
  <2>1. \A j \in Steps : (Done(j) <=> j < 3) /\ (Done(j)' <=> j <= 3)
    BY <1>1, <1>4, FigureSteps DEF BackfillCostFields
  <2>2. Done(2) /\ Done(2)' /\ ~Done(3) /\ Done(3)' /\ ~Done(4) /\ ~Done(4)'
    BY <1>2, <2>1
  <2> QED
    BY <1>4, <2>2, CostsAttempts
<1>5. CASE BackfillApplicationOutcomes
  <2>1. \A j \in Steps : (Done(j) <=> j < 4) /\ (Done(j)' <=> j <= 4)
    BY <1>1, <1>5, FigureSteps DEF BackfillApplicationOutcomes
  <2>2. Done(2) /\ Done(2)' /\ Done(3) /\ Done(3)' /\ ~Done(4) /\ Done(4)' /\ ~Done(13) /\ ~Done(14)
    BY <1>2, <2>1
  <2> QED
    BY <1>5, <2>2, ApplicationAttempts
<1>6. CASE ~BackfillRelayOutcomes /\ ~BackfillCostFields /\ ~BackfillApplicationOutcomes
  <2>1. (Done(2)' <=> Done(2)) /\ (Done(3)' <=> Done(3)) /\ (Done(4)' <=> Done(4))
    BY <1>6, FigureMigrations
  <2>2. /\ attempts' = [r \in Requests |-> attempts'[r]]
        /\ \A r \in Inherited \cap Retained : attempts'[r] = attempts[r]
    <3>1. CASE UNCHANGED attempts
      BY <3>1 DEF AttemptsTold
    <3>2. ASSUME NEW other \in New, RecordRequest(other)
          PROVE  /\ attempts' = [r \in Requests |-> attempts'[r]]
                 /\ \A r \in Inherited \cap Retained : attempts'[r] = attempts[r]
      <4>1. attempts' = [attempts EXCEPT ![other] = NewAttempts(other)]
        BY <3>2 DEF RecordRequest
      <4>2. attempts = [r \in Requests |-> attempts[r]]
        BY DEF AttemptsTold
      <4>3. \A r \in Inherited : r # other /\ r \in Requests
        BY RequestAssumption DEF Requests
      <4> QED
        BY <4>1, <4>2, <4>3
    <3>3. CASE Cleanup
      <4>1. UNCHANGED attempts \/ CleanupAttempts
        BY <3>3, CleanupLeaves
      <4> QED
        BY <3>1, <4>1 DEF CleanupAttempts, Requests
    <3>4. UNCHANGED attempts \/ Cleanup \/ \E other \in New : RecordRequest(other)
      BY <1>6 DEF Next, Migrate, vars, BackfillTokenDailyStats, BackfillChannelModelDailyCosts,
         BackfillChannelModelDailyAggregates, BackfillRequestStatisticsFromFinalAttempts,
         BackfillResponsePhaseTimings, CompressDetailedPayloads, BackfillCodexThreadSources,
         BackfillCodexSessionParents, BackfillCodexCompactionTracking, CorrectSuccessfulCodexCompactionCounts,
         MigrateRequestPayloadBatch, MigrateRelayPayloadTables, Skip, Crash
    <3> QED
      BY <3>1, <3>2, <3>3, <3>4
  <2>3. \A r, i : (Succeeds(r, i)' <=> Succeeds(r, i)) /\ OutcomeTold(r, i)' = OutcomeTold(r, i)
    BY <2>1 DEF Succeeds, OutcomeTold
  <2>4. ASSUME NEW r \in Inherited \cap Retained
        PROVE  /\ attempts'[r] = [i \in 1..Tries[r] |-> attempts'[r][i]]
               /\ \A i \in 1..Tries[r] : AttemptTold(attempts[r][i], r, i)'
    <3>1. attempts'[r] = attempts[r]
      BY <2>2
    <3>2. /\ attempts[r] = [i \in 1..Tries[r] |-> attempts[r][i]]
          /\ \A i \in 1..Tries[r] : AttemptTold(attempts[r][i], r, i)
      BY DEF AttemptsTold
    <3> QED
      BY <2>1, <2>3, <3>1, <3>2 DEF AttemptTold
  <2> QED
    BY <2>2, <2>4 DEF AttemptsTold
<1> QED
  BY <1>3, <1>4, <1>5, <1>6

\* The cost of a retained row after it has been taken from the last attempt.
LEMMA FinalAttemptsCost ==
  ASSUME PastInv, AttemptsTold, Done(2), Done(3), Done(4), ~Done(14),
         BackfillRequestStatisticsFromFinalAttempts, NEW r \in Inherited \cap Retained
  PROVE  log'[r].cost = FinalCost(r) /\ log'[r].duration = log[r].duration
<1>1. RowShapes /\ Present = Inherited /\ r \in Requests
  BY DEF PastInv, PastUntouched, Requests
<1> DEFINE last == attempts[r][Len(attempts[r])].cost
<1>2. log'[r] = [log[r] EXCEPT !.cost = last]
  BY <1>1 DEF BackfillRequestStatisticsFromFinalAttempts
<1>3. log'[r] = [outcome |-> log[r].outcome, cost |-> last,
                 duration |-> log[r].duration, compaction |-> log[r].compaction]
  <2> HIDE DEF last
  <2> QED
    BY <1>1, <1>2, RowSet
<1>4. last = FinalCost(r)
  <2>1. /\ Tries[r] \in Nat \ {0} /\ Len(attempts[r]) = Tries[r]
        /\ \A i \in 1..Tries[r] : AttemptTold(attempts[r][i], r, i)
    BY AttemptsListed
  <2>2. AttemptTold(attempts[r][Tries[r]], r, Tries[r])
    BY <2>1
  <2>3. Succeeds(r, Tries[r]) <=> Reply[r] = "good"
    BY DEF Succeeds
  <2>4. OutcomeTold(r, Tries[r]) = "failed" <=> Reply[r] # "good" /\ Reply[r] # "canceled"
    BY <2>3 DEF OutcomeTold
  <2>5. attempts[r][Tries[r]].cost = IF Reply[r] # "good" /\ Reply[r] # "canceled" THEN 0 ELSE 1
    BY <2>2, <2>4 DEF AttemptTold
  <2> QED
    BY <2>1, <2>5 DEF FinalCost
<1> HIDE DEF last
<1> QED
  BY <1>3, <1>4

\* Every step keeps what the rows are counted with.
LEMMA RowsFinalStep == PastInv /\ AttemptsTold /\ RowsFinal /\ [Next]_vars => RowsFinal'
<1> SUFFICES ASSUME PastInv, AttemptsTold, RowsFinal, [Next]_vars, ~Done(8)' PROVE RowsFinal'
  BY DEF RowsFinal
<1>1. InOrder /\ RowShapes
  BY DEF PastInv
<1>2. {2, 3, 4, 7, 8, 14} \subseteq Steps
  BY DEF Steps
<1>3. ~Done(8) /\ ~Done(14)
  <2>1. Done(8) => Done(8)'
    BY <1>1, <1>2, DoneStays
  <2>2. Done(14) => Done(8)
    BY <1>1, <1>2 DEF InOrder
  <2> QED
    BY <2>1, <2>2
<1>4. Present = Inherited
  BY <1>3 DEF PastInv, PastUntouched
<1>5. CASE UNCHANGED log /\ (Done(7)' <=> Done(7))
  BY <1>3, <1>5 DEF RowsFinal, FinalCost
<1>6. ASSUME Apply("outcomes") \/ Apply("costs") \/ Apply("application") PROVE ~Done(7)'
  <2>1. \E i \in {2, 3, 4} : \A j \in Steps : Done(j)' <=> j <= i
    BY <1>1, <1>6, FigureSteps
  <2> QED
    BY <1>2, <2>1
<1>7. CASE BackfillRelayOutcomes
  <2>1. ~Done(7)'
    BY <1>6, <1>7 DEF BackfillRelayOutcomes
  <2>2. ASSUME NEW r \in Inherited \cap Retained PROVE log'[r].duration = log[r].duration
    <3>1. log'[r] = [outcome |-> RowOutcome(r), cost |-> log[r].cost,
                     duration |-> log[r].duration, compaction |-> log[r].compaction]
      BY <1>1, <1>4, <1>7, OutcomesRow DEF Requests
    <3> QED
      BY <3>1
  <2> QED
    BY <1>3, <2>1, <2>2 DEF RowsFinal
<1>8. CASE BackfillCostFields
  <2>1. ~Done(7)'
    BY <1>6, <1>8 DEF BackfillCostFields
  <2>2. ASSUME NEW r \in Inherited \cap Retained PROVE log'[r].duration = log[r].duration
    <3>1. log'[r] = log[r] \/ log'[r] = [outcome |-> log[r].outcome, cost |-> 0,
                                         duration |-> log[r].duration, compaction |-> log[r].compaction]
      BY <1>1, <1>8, CostsRow DEF Requests
    <3> QED
      BY <3>1
  <2> QED
    BY <1>3, <2>1, <2>2 DEF RowsFinal
<1>9. CASE BackfillApplicationOutcomes
  <2>1. ~Done(7)'
    BY <1>6, <1>9 DEF BackfillApplicationOutcomes
  <2>2. ASSUME NEW r \in Inherited \cap Retained PROVE log'[r].duration = log[r].duration
    <3>1. log'[r] = log[r] \/ log'[r] = [outcome |-> "failed", cost |-> 0,
                                         duration |-> log[r].duration, compaction |-> log[r].compaction]
      BY <1>1, <1>9, ApplicationRow DEF Requests
    <3> QED
      BY <3>1
  <2> QED
    BY <1>3, <2>1, <2>2 DEF RowsFinal
<1>10. CASE BackfillRequestStatisticsFromFinalAttempts
  <2>1. \A j \in Steps : Done(j) <=> j < 7
    BY <1>1, <1>10, FigureSteps DEF BackfillRequestStatisticsFromFinalAttempts
  <2>2. Done(2) /\ Done(3) /\ Done(4)
    BY <1>2, <2>1
  <2>3. \A r \in Inherited \cap Retained : log'[r].cost = FinalCost(r) /\ log'[r].duration = log[r].duration
    BY <1>3, <1>10, <2>2, FinalAttemptsCost
  <2>4. \A r : FinalCost(r)' = FinalCost(r)
    BY DEF FinalCost
  <2> QED
    BY <1>3, <2>3, <2>4 DEF RowsFinal
<1>11. ~BackfillResponsePhaseTimings /\ ~BackfillCodexCompactionTracking
  <2>1. ASSUME Apply("timings") \/ Apply("compactions") PROVE FALSE
    <3>1. \E i \in {8, 12} : \A j \in Steps : Done(j)' <=> j <= i
      BY <1>1, <2>1, FigureSteps
    <3>2. Done(8)'
      BY <1>2, <3>1
    <3> QED
      BY <3>2
  <2> QED
    BY <2>1 DEF BackfillResponsePhaseTimings, BackfillCodexCompactionTracking
<1>12. ~Serving
  BY <1>1, <1>2, <1>3, ServingDone
<1>13. \/ UNCHANGED log \/ BackfillRelayOutcomes \/ BackfillCostFields \/ BackfillApplicationOutcomes
       \/ BackfillRequestStatisticsFromFinalAttempts
  BY <1>11, <1>12, CleanupLeaves DEF Next, Migrate, vars, BackfillTokenDailyStats, BackfillChannelModelDailyCosts,
     BackfillChannelModelDailyAggregates, CompressDetailedPayloads, BackfillCodexThreadSources,
     BackfillCodexSessionParents, CorrectSuccessfulCodexCompactionCounts, MigrateRequestPayloadBatch,
     MigrateRelayPayloadTables, Skip, RecordRequest, Crash
<1>14. ~BackfillRequestStatisticsFromFinalAttempts => (Done(7)' <=> Done(7))
  BY FigureMigrations
<1> QED
  BY <1>5, <1>7, <1>8, <1>9, <1>10, <1>13, <1>14

\* Rows and requests of a day before the process serves.
LEMMA DaysBefore ==
  ASSUME PastInv, ~Done(14)
  PROVE  /\ Present = Inherited /\ Recorded = Inherited
         /\ \A d : OnDay(Present, d) = OnDay(Recorded, d)
         /\ \A d : d \in DatesOf(Present) <=> OnDay(Recorded, d) # {}
         /\ \A d : d \in DatesOf(Present \cap Retained) => OnDay(Recorded, d) # {}
<1>1. Present = Inherited /\ Recorded = Inherited
  BY NothingNew DEF PastInv, PastUntouched
<1> QED
  BY <1>1 DEF OnDay, DatesOf

\* Nobody has yet written a row for a day without requests.
LEMMA NothingDaily ==
  ASSUME PastInv, ~Done(14), [Next]_vars, \A r \in New : ~RecordRequest(r),
         NEW d \in Days, OnDay(Recorded, d) = {}, stats[d] = NoStat
  PROVE  stats'[d] = NoStat
<1>1. OnDay(Present, d) = {} /\ d \notin DatesOf(Present) /\ d \notin DatesOf(Present \cap Retained)
  BY DaysBefore
<1>2. CASE UNCHANGED stats
  BY <1>2
<1>3. CASE BackfillTokenDailyStats
  BY <1>1, <1>3 DEF BackfillTokenDailyStats, RebuiltFor
<1>4. CASE BackfillRelayOutcomes
  <2>1. stats'[d] = stats[d]
    BY <1>4 DEF BackfillRelayOutcomes
  <2> QED
    BY <2>1
<1>5. CASE BackfillCostFields
  BY <1>1, <1>5 DEF BackfillCostFields, RebuiltFor
<1>6. CASE BackfillApplicationOutcomes
  <2>1. stats'[d] = stats[d]
    BY <1>6 DEF BackfillApplicationOutcomes
  <2> QED
    BY <2>1
<1>7. CASE BackfillRequestStatisticsFromFinalAttempts
  BY <1>1, <1>7 DEF BackfillRequestStatisticsFromFinalAttempts, Rebuilt
<1>8. CASE BackfillResponsePhaseTimings
  BY <1>1, <1>8 DEF BackfillResponsePhaseTimings, RebuiltFor
<1>9. \/ UNCHANGED stats \/ BackfillTokenDailyStats \/ BackfillRelayOutcomes \/ BackfillCostFields
      \/ BackfillApplicationOutcomes \/ BackfillRequestStatisticsFromFinalAttempts
      \/ BackfillResponsePhaseTimings
  BY CleanupLeaves DEF Next, Migrate, vars, BackfillChannelModelDailyCosts, BackfillChannelModelDailyAggregates,
     CompressDetailedPayloads, BackfillCodexThreadSources, BackfillCodexSessionParents,
     BackfillCodexCompactionTracking, CorrectSuccessfulCodexCompactionCounts, MigrateRequestPayloadBatch,
     MigrateRelayPayloadTables, Skip, Crash
<1> QED
  BY <1>2, <1>3, <1>4, <1>5, <1>6, <1>7, <1>8, <1>9

\* The last rebuilding counts a day as what happened.
LEMMA TimingsDaily ==
  ASSUME PastInv, RowsTold, RowsFinal, BackfillResponsePhaseTimings, Done(4), Done(7), ~Done(8), ~Done(14),
         NEW d \in Days, OnDay(Recorded, d) # {}, OnDay(Recorded, d) \subseteq Retained
  PROVE  stats'[d] = DailyOf(OnDay(Recorded, d))
<1> DEFINE S == OnDay(Recorded, d)
<1>1. /\ Present = Inherited /\ OnDay(Present, d) = S /\ d \in DatesOf(Present)
      /\ S \subseteq Inherited \cap Retained /\ S \in SUBSET Requests /\ RowShapes
  BY DaysBefore DEF OnDay, PastInv, Requests
<1>2. stats'[d] = Aggregate(log', S)
  BY <1>1 DEF BackfillResponsePhaseTimings, RebuiltFor
<1>3. ASSUME NEW r \in S
      PROVE  log'[r].outcome = Outcome(r) /\ log'[r].cost = FinalCost(r) /\ log'[r].duration = 1
  <2>1. r \in Requests /\ r \in Present \cap Inherited /\ r \in Inherited \cap Retained
    BY <1>1
  <2>2. log'[r] = [outcome |-> log[r].outcome, cost |-> log[r].cost,
                   duration |-> AtLeastZero(log[r].duration, Latency), compaction |-> log[r].compaction]
    BY <1>1, <2>1, TimingsRow
  <2>3. log[r].outcome = Outcome(r)
    BY <2>1 DEF RowsTold
  <2>4. log[r].cost = FinalCost(r) /\ log[r].duration = 1 + Latency
    BY <2>1 DEF RowsFinal
  <2>5. AtLeastZero(log[r].duration, Latency) = 1
    BY <2>4 DEF AtLeastZero, Latency
  <2> QED
    BY <2>2, <2>3, <2>4, <2>5
<1> HIDE DEF S
<1>4. Aggregate(log', S) = DailyOf(S)
  BY <1>1, <1>3, AggregateTold
<1> QED
  BY <1>2, <1>4 DEF S

\* One request more on a day.
LEMMA DailyWith ==
  ASSUME NEW S \in SUBSET Requests, NEW r \in New, r \notin S
  PROVE  /\ DailyOf(S \cup {r}) =
              [requests |-> DailyOf(S).requests + 1,
               success  |-> DailyOf(S).success + (IF Reply[r] = "good" THEN 1 ELSE 0),
               canceled |-> DailyOf(S).canceled + (IF Reply[r] = "canceled" THEN 1 ELSE 0),
               cost     |-> DailyOf(S).cost + (IF Reply[r] = "good" THEN 1 ELSE 0),
               duration |-> DailyOf(S).duration + 1]
         /\ ChannelOf(S \cup {r}) =
              [attempts |-> ChannelOf(S).attempts + Tries[r],
               success  |-> ChannelOf(S).success + (IF Reply[r] = "good" THEN 1 ELSE 0),
               cost     |-> ChannelOf(S).cost + (IF Reply[r] = "good" THEN 1 ELSE 0)]
<1> DEFINE T == S \cup {r}
           CanceledOf(Q) == {q \in Q : Reply[q] = "canceled"}
<1>1. r \in Requests /\ IsFiniteSet(S)
  BY RequestsCounted DEF Requests
<1>2. Cardinality(T) = Cardinality(S) + 1
  BY <1>1, FS_AddElement
<1>3. Cardinality(GoodOf(T)) = Cardinality(GoodOf(S)) + (IF Reply[r] = "good" THEN 1 ELSE 0)
  <2>1. IsFiniteSet(GoodOf(S)) /\ Cardinality(GoodOf(S)) \in Nat /\ r \notin GoodOf(S)
    BY RequestsCounted DEF GoodOf
  <2>2. CASE Reply[r] = "good"
    <3>1. GoodOf(T) = GoodOf(S) \cup {r}
      BY <2>2 DEF GoodOf
    <3> QED
      BY <2>1, <2>2, <3>1, FS_AddElement
  <2>3. CASE Reply[r] # "good"
    <3>1. GoodOf(T) = GoodOf(S)
      BY <2>3 DEF GoodOf
    <3> QED
      BY <2>1, <2>3, <3>1
  <2> QED
    BY <2>2, <2>3
<1>4. Cardinality(CanceledOf(T)) = Cardinality(CanceledOf(S)) + (IF Reply[r] = "canceled" THEN 1 ELSE 0)
  <2>1. IsFiniteSet(CanceledOf(S)) /\ Cardinality(CanceledOf(S)) \in Nat /\ r \notin CanceledOf(S)
    BY RequestsCounted
  <2>2. CASE Reply[r] = "canceled"
    <3>1. CanceledOf(T) = CanceledOf(S) \cup {r}
      BY <2>2
    <3> HIDE DEF CanceledOf
    <3> QED
      BY <2>1, <2>2, <3>1, FS_AddElement
  <2>3. CASE Reply[r] # "canceled"
    <3>1. CanceledOf(T) = CanceledOf(S)
      BY <2>3
    <3> HIDE DEF CanceledOf
    <3> QED
      BY <2>1, <2>3, <3>1
  <2> QED
    BY <2>2, <2>3
<1> DEFINE f == [q \in S |-> FinalCost(q)]
           g == [q \in S \cup {r} |-> FinalCost(q)]
           h == [q \in S |-> Tries[q]]
           k == [q \in S \cup {r} |-> Tries[q]]
<1>5. Total(g) = Total(f) + (IF Reply[r] = "good" THEN 1 ELSE 0)
  <2>1. /\ DOMAIN f = S /\ DOMAIN g = S \cup {r}
        /\ \A y \in S : g[y] = f[y]
    OBVIOUS
  <2>2. \A y \in S \cup {r} : g[y] \in Nat
    BY <1>1, FinalCosts
  <2>3. g[r] = IF Reply[r] = "good" THEN 1 ELSE 0
    BY <1>1, FinalCosts
  <2> HIDE DEF f, g
  <2>4. Total(g) = Total(f) + g[r]
    BY <1>1, <2>1, <2>2, TotalWith
  <2> QED
    BY <2>3, <2>4
<1>6. Total(k) = Total(h) + Tries[r]
  <2>1. /\ DOMAIN h = S /\ DOMAIN k = S \cup {r}
        /\ \A y \in S : k[y] = h[y]
    OBVIOUS
  <2>2. \A y \in S \cup {r} : k[y] \in Nat
    BY <1>1, RequestAssumption
  <2>3. k[r] = Tries[r]
    OBVIOUS
  <2> HIDE DEF h, k
  <2>4. Total(k) = Total(h) + k[r]
    BY <1>1, <2>1, <2>2, TotalWith
  <2> QED
    BY <2>3, <2>4
<1>7. /\ DailyOf(S) = [requests |-> Cardinality(S), success |-> Cardinality(GoodOf(S)),
                       canceled |-> Cardinality(CanceledOf(S)), cost |-> Total(f), duration |-> Cardinality(S)]
      /\ DailyOf(T) = [requests |-> Cardinality(T), success |-> Cardinality(GoodOf(T)),
                       canceled |-> Cardinality(CanceledOf(T)), cost |-> Total(g), duration |-> Cardinality(T)]
  BY DEF DailyOf
<1>8. /\ ChannelOf(S) = [attempts |-> Total(h), success |-> Cardinality(GoodOf(S)), cost |-> Cardinality(GoodOf(S))]
      /\ ChannelOf(T) = [attempts |-> Total(k), success |-> Cardinality(GoodOf(T)), cost |-> Cardinality(GoodOf(T))]
  BY DEF ChannelOf
<1> HIDE DEF f, g, h, k, CanceledOf, T
<1>9. DailyOf(T) =
        [requests |-> DailyOf(S).requests + 1,
         success  |-> DailyOf(S).success + (IF Reply[r] = "good" THEN 1 ELSE 0),
         canceled |-> DailyOf(S).canceled + (IF Reply[r] = "canceled" THEN 1 ELSE 0),
         cost     |-> DailyOf(S).cost + (IF Reply[r] = "good" THEN 1 ELSE 0),
         duration |-> DailyOf(S).duration + 1]
  BY <1>2, <1>3, <1>4, <1>5, <1>7
<1>10. ChannelOf(T) =
         [attempts |-> ChannelOf(S).attempts + Tries[r],
          success  |-> ChannelOf(S).success + (IF Reply[r] = "good" THEN 1 ELSE 0),
          cost     |-> ChannelOf(S).cost + (IF Reply[r] = "good" THEN 1 ELSE 0)]
  BY <1>3, <1>6, <1>8
<1> QED
  BY <1>9, <1>10 DEF T

\* A day without requests.
LEMMA DailyOfNone ==
  /\ DailyOf({}) = [requests |-> 0, success |-> 0, canceled |-> 0, cost |-> 0, duration |-> 0]
  /\ ChannelOf({}) = [attempts |-> 0, success |-> 0, cost |-> 0]
<1> DEFINE none == {r \in {} : Reply[r] = "canceled"}
           f == [r \in {} |-> FinalCost(r)]
           h == [r \in {} |-> Tries[r]]
<1>1. GoodOf({}) = {} /\ none = {} /\ Cardinality({}) = 0
  BY FS_EmptySet DEF GoodOf
<1>2. DOMAIN f = {} /\ DOMAIN h = {}
  OBVIOUS
<1>3. /\ DailyOf({}) = [requests |-> Cardinality({}), success |-> Cardinality(GoodOf({})),
                        canceled |-> Cardinality(none), cost |-> Total(f), duration |-> Cardinality({})]
      /\ ChannelOf({}) = [attempts |-> Total(h), success |-> Cardinality(GoodOf({})),
                          cost |-> Cardinality(GoodOf({}))]
  BY DEF DailyOf, ChannelOf
<1> HIDE DEF f, h, none
<1>4. Total(f) = 0 /\ Total(h) = 0
  BY <1>2, TotalOfNone
<1> QED
  BY <1>1, <1>3, <1>4

\* A row that counts a day's requests is one.
LEMMA DailyCounts ==
  ASSUME NEW S \in SUBSET Requests
  PROVE  DailyOf(S) # NoStat /\ ChannelOf(S) # NoStat
<1>1. "requests" \in DOMAIN DailyOf(S) /\ "attempts" \in DOMAIN ChannelOf(S)
  BY DEF DailyOf, ChannelOf
<1>2. "requests" \notin DOMAIN NoStat /\ "attempts" \notin DOMAIN NoStat
  BY DEF NoStat
<1> QED
  BY <1>1, <1>2

\* Whether all of a day's requests are kept does not change.
LEMMA WholeDays ==
  ASSUME PastInv, [Next]_vars, NEW d
  PROVE  /\ (\A r \in New : ~RecordRequest(r)) => OnDay(Recorded, d)' = OnDay(Recorded, d)
         /\ \A r \in New : RecordRequest(r) =>
              /\ r \notin OnDay(Recorded, d)
              /\ OnDay(Recorded, d)' = IF d = Day[r] THEN OnDay(Recorded, d) \cup {r} ELSE OnDay(Recorded, d)
         /\ WholeDay(d)' <=> WholeDay(d)
<1>1. RowShapes
  BY DEF PastInv
<1>2. CASE \A r \in New : ~RecordRequest(r)
  <2>1. Recorded' = Recorded
    BY <1>1, <1>2, RecordedSame
  <2> QED
    BY <1>2, <2>1 DEF OnDay, WholeDay
<1>3. ASSUME NEW r \in New, RecordRequest(r)
      PROVE  /\ r \notin OnDay(Recorded, d)
             /\ OnDay(Recorded, d)' = IF d = Day[r] THEN OnDay(Recorded, d) \cup {r} ELSE OnDay(Recorded, d)
             /\ WholeDay(d)' <=> WholeDay(d)
  <2>1. r \in Requests /\ r \notin Inherited /\ r \in Retained
    BY RequestAssumption DEF Requests
  <2>2. /\ log[r] = NoRow /\ log'[r] # NoRow
        /\ \A other \in Requests \ {r} : log'[other] = log[other]
    <3>1. Present' = Present \cup {r} /\ \A other \in Requests \ {r} : log'[other] = log[other]
      BY <1>1, <1>3, RecordedRow
    <3> QED
      BY <1>3, <3>1 DEF Present, RecordRequest
  <2>3. Recorded' = Recorded \cup {r} /\ r \notin Recorded
    BY <2>1, <2>2 DEF Recorded, Requests
  <2>4. OnDay(Recorded, d)' = IF d = Day[r] THEN OnDay(Recorded, d) \cup {r} ELSE OnDay(Recorded, d)
    BY <2>3 DEF OnDay
  <2>5. r \notin OnDay(Recorded, d)
    BY <2>3 DEF OnDay
  <2> QED
    BY <2>1, <2>4, <2>5 DEF WholeDay
<1> QED
  BY <1>2, <1>3

\* A request that is recorded is added to the figures of its day.
LEMMA RecordFigures ==
  ASSUME PastInv, StatsShapes, DailyTold, ChannelsTold, [Next]_vars, NEW r \in New, RecordRequest(r)
  PROVE  DailyTold' /\ ChannelsTold'
<1>1. InOrder /\ r \in Requests /\ Day[r] \in Days
  BY RequestAssumption DEF PastInv, Requests
<1>2. Done(8) /\ Done(8)' /\ Done(6) /\ Done(6)'
  <2>1. {6, 8} \subseteq Steps
    BY DEF Steps
  <2>2. Serving
    BY DEF RecordRequest
  <2> QED
    BY <1>1, <2>1, <2>2, ServingDone, DoneStays
<1>3. \A d : WholeDay(d)' <=> WholeDay(d)
  BY WholeDays
<1>4. \A d : /\ r \notin OnDay(Recorded, d)
             /\ OnDay(Recorded, d)' = IF d = Day[r] THEN OnDay(Recorded, d) \cup {r} ELSE OnDay(Recorded, d)
  BY WholeDays
<1>5. /\ stats' = [stats EXCEPT ![Day[r]] = Plus(Day[r], r)]
      /\ channels' = [channels EXCEPT ![Day[r]] = PlusChannel(Day[r], r)]
  BY DEF RecordRequest
<1>6. /\ channels' = [d \in Days |-> channels'[d]]
      /\ \A d \in Days : d # Day[r] => stats'[d] = stats[d] /\ channels'[d] = channels[d]
      /\ stats'[Day[r]] = Plus(Day[r], r) /\ channels'[Day[r]] = PlusChannel(Day[r], r)
  BY <1>1, <1>5 DEF StatsShapes, ChannelsTold
<1> DEFINE S == OnDay(Recorded, Day[r])
<1>7. S \in SUBSET Requests /\ r \notin S
  BY <1>4, SetsOfRequests DEF OnDay
<1>8. WholeDay(Day[r]) =>
        /\ stats[Day[r]] = IF S = {} THEN NoStat ELSE DailyOf(S)
        /\ channels[Day[r]] = IF S = {} THEN NoStat ELSE ChannelOf(S)
  BY <1>1, <1>2 DEF DailyTold, ChannelsTold
<1> HIDE DEF S
<1>9. DailyOf(S) # NoStat /\ ChannelOf(S) # NoStat
  BY <1>7, DailyCounts
<1>10. ASSUME WholeDay(Day[r])
       PROVE  Plus(Day[r], r) = DailyOf(S \cup {r}) /\ PlusChannel(Day[r], r) = ChannelOf(S \cup {r})
  <2>1. /\ DailyOf(S) = IF stats[Day[r]] = NoStat
                        THEN [requests |-> 0, success |-> 0, canceled |-> 0, cost |-> 0, duration |-> 0]
                        ELSE stats[Day[r]]
        /\ ChannelOf(S) = IF channels[Day[r]] = NoStat THEN [attempts |-> 0, success |-> 0, cost |-> 0]
                          ELSE channels[Day[r]]
    BY <1>8, <1>9, <1>10, DailyOfNone
  <2>2. /\ Plus(Day[r], r) =
             [requests |-> DailyOf(S).requests + 1,
              success  |-> DailyOf(S).success + (IF Reply[r] = "good" THEN 1 ELSE 0),
              canceled |-> DailyOf(S).canceled + (IF Reply[r] = "canceled" THEN 1 ELSE 0),
              cost     |-> DailyOf(S).cost + (IF Reply[r] = "good" THEN 1 ELSE 0),
              duration |-> DailyOf(S).duration + 1]
        /\ PlusChannel(Day[r], r) =
             [attempts |-> ChannelOf(S).attempts + Tries[r],
              success  |-> ChannelOf(S).success + (IF Reply[r] = "good" THEN 1 ELSE 0),
              cost     |-> ChannelOf(S).cost + (IF Reply[r] = "good" THEN 1 ELSE 0)]
    BY <2>1 DEF Plus, PlusChannel
  <2> QED
    BY <1>7, <2>2, DailyWith
<1>11. \A Q : DailyOf(Q)' = DailyOf(Q) /\ ChannelOf(Q)' = ChannelOf(Q)
  BY DEF DailyOf, ChannelOf, GoodOf, FinalCost, Total, SumFunction
<1>12. ASSUME NEW d \in Days, WholeDay(d), NEW T, T = OnDay(Recorded, d)'
       PROVE  /\ T = {} => stats'[d] = NoStat /\ channels'[d] = NoStat
              /\ T # {} => stats'[d] = DailyOf(T) /\ channels'[d] = ChannelOf(T)
  <2>1. CASE d = Day[r]
    <3>1. T = S \cup {r} /\ T # {}
      BY <1>4, <1>12, <2>1 DEF S
    <3> QED
      BY <1>6, <1>10, <1>12, <2>1, <3>1
  <2>2. CASE d # Day[r]
    <3>1. T = OnDay(Recorded, d) /\ stats'[d] = stats[d] /\ channels'[d] = channels[d]
      BY <1>4, <1>6, <1>12, <2>2
    <3> QED
      BY <1>2, <1>12, <3>1 DEF DailyTold, ChannelsTold
  <2> QED
    BY <2>1, <2>2
<1>13. DailyTold'
  BY <1>3, <1>11, <1>12 DEF DailyTold
<1>14. ChannelsTold'
  BY <1>2, <1>3, <1>6, <1>11, <1>12 DEF ChannelsTold
<1> QED
  BY <1>13, <1>14

\* The migrations that write daily statistics have run when the last rebuilding has.
LEMMA DailySettled ==
  ASSUME InOrder, [Next]_vars, Done(8), \A r \in New : ~RecordRequest(r)
  PROVE  UNCHANGED stats
<1>1. \A i \in {1, 2, 3, 4, 7, 8} : Done(i)
  <2>1. {1, 2, 3, 4, 7, 8} \subseteq Steps
    BY DEF Steps
  <2> QED
    BY <2>1 DEF InOrder
<1>2. /\ ~Apply("daily") /\ ~Apply("outcomes") /\ ~Apply("costs") /\ ~Apply("application")
      /\ ~Apply("final attempts") /\ ~Apply("timings")
  <2>1. \A i \in {1, 2, 3, 4, 7, 8} : ~Apply(Order[i])
    BY <1>1 DEF Apply, Due, Done
  <2> QED
    BY <2>1, Places
<1> QED
  BY <1>2, CleanupLeaves DEF Next, Migrate, vars, BackfillTokenDailyStats, BackfillRelayOutcomes, BackfillCostFields,
     BackfillApplicationOutcomes, BackfillRequestStatisticsFromFinalAttempts, BackfillResponsePhaseTimings,
     BackfillChannelModelDailyCosts, BackfillChannelModelDailyAggregates,
     CompressDetailedPayloads, BackfillCodexThreadSources, BackfillCodexSessionParents,
     BackfillCodexCompactionTracking, CorrectSuccessfulCodexCompactionCounts, MigrateRequestPayloadBatch,
     MigrateRelayPayloadTables, Skip, Crash

\* Every step keeps what the daily statistics say.
LEMMA DailyStep ==
  ASSUME PastInv, RowsTold, RowsFinal, StatsShapes, DailyTold, ChannelsTold, [Next]_vars
  PROVE  DailyTold'
<1>1. CASE \E r \in New : RecordRequest(r)
  BY <1>1, RecordFigures
<1>2. CASE \A r \in New : ~RecordRequest(r)
  <2>1. InOrder /\ {4, 7, 8, 14} \subseteq Steps
    BY DEF PastInv, Steps
  <2>2. \A d : OnDay(Recorded, d)' = OnDay(Recorded, d) /\ (WholeDay(d)' <=> WholeDay(d))
    BY <1>2, WholeDays
  <2>3. \A Q : DailyOf(Q)' = DailyOf(Q)
    BY DEF DailyOf, GoodOf, FinalCost, Total, SumFunction
  <2>4. ASSUME NEW d \in Days, WholeDay(d)
        PROVE  /\ OnDay(Recorded, d) = {} => stats'[d] = NoStat
               /\ OnDay(Recorded, d) # {} /\ Done(8)' => stats'[d] = DailyOf(OnDay(Recorded, d))
    <3>1. CASE Done(8)
      <4>1. stats' = stats
        BY <1>2, <2>1, <3>1, DailySettled
      <4> QED
        BY <2>4, <3>1, <4>1 DEF DailyTold
    <3>2. CASE ~Done(8)
      <4>1. ~Done(14)
        BY <2>1, <3>2 DEF InOrder
      <4>2. OnDay(Recorded, d) = {} => stats'[d] = NoStat
        BY <1>2, <2>4, <4>1, NothingDaily DEF DailyTold
      <4>3. ASSUME OnDay(Recorded, d) # {}, Done(8)' PROVE stats'[d] = DailyOf(OnDay(Recorded, d))
        <5>1. BackfillResponsePhaseTimings
          BY <3>2, <4>3, FigureMigrations
        <5>2. \A j \in Steps : Done(j) <=> j < 8
          BY <2>1, <5>1, FigureSteps DEF BackfillResponsePhaseTimings
        <5>3. Done(4) /\ Done(7)
          BY <2>1, <5>2
        <5>4. OnDay(Recorded, d) \subseteq Retained
          BY <2>4 DEF WholeDay
        <5> QED
          BY <3>2, <4>1, <4>3, <5>1, <5>3, <5>4, TimingsDaily
      <4> QED
        BY <4>2, <4>3
    <3> QED
      BY <3>1, <3>2
  <2> QED
    BY <2>2, <2>3, <2>4 DEF DailyTold
<1> QED
  BY <1>1, <1>2

\* Every step keeps what the statistics of channels say.
LEMMA ChannelsStep ==
  ASSUME PastInv, StatsShapes, AttemptsTold, DailyTold, ChannelsTold, [Next]_vars
  PROVE  ChannelsTold'
<1>1. CASE \E r \in New : RecordRequest(r)
  BY <1>1, RecordFigures
<1>2. CASE \A r \in New : ~RecordRequest(r)
  <2>1. InOrder /\ {2, 3, 4, 5, 6, 14} \subseteq Steps
    BY DEF PastInv, Steps
  <2>2. \A d : OnDay(Recorded, d)' = OnDay(Recorded, d) /\ (WholeDay(d)' <=> WholeDay(d))
    BY <1>2, WholeDays
  <2>3. \A Q : ChannelOf(Q)' = ChannelOf(Q) /\ GoodOf(Q)' = GoodOf(Q)
    BY DEF ChannelOf, GoodOf, Total, SumFunction
  <2>4. ASSUME NEW d \in Days, WholeDay(d), ~Done(14)
        PROVE  /\ OnDay(Present, d) = OnDay(Recorded, d)
               /\ d \in DatesOf(Present) <=> OnDay(Recorded, d) # {}
               /\ OnDay(Recorded, d) \in SUBSET (Inherited \cap Retained)
    BY <2>4, DaysBefore DEF WholeDay, OnDay
  <2>5. CASE BackfillChannelModelDailyCosts
    <3>1. \A j \in Steps : (Done(j) <=> j < 5) /\ (Done(j)' <=> j <= 5)
      BY <2>1, <2>5, FigureSteps DEF BackfillChannelModelDailyCosts
    <3>2. Done(2) /\ Done(3) /\ Done(4) /\ ~Done(14) /\ Done(5)' /\ ~Done(6)'
      BY <2>1, <3>1
    <3>3. ASSUME NEW d \in Days, WholeDay(d)
          PROVE  /\ OnDay(Recorded, d) = {} => channels'[d] = NoStat
                 /\ OnDay(Recorded, d) # {} =>
                      channels'[d] # NoStat /\ channels'[d].cost = Cardinality(GoodOf(OnDay(Recorded, d)))
      <4>1. CASE OnDay(Recorded, d) = {}
        <5>1. channels'[d] = channels[d]
          BY <2>4, <2>5, <3>2, <3>3, <4>1 DEF BackfillChannelModelDailyCosts
        <5> QED
          BY <3>3, <4>1, <5>1 DEF ChannelsTold
      <4>2. CASE OnDay(Recorded, d) # {}
        <5>1. channels'[d] = [attempts |-> 0, success |-> 0, cost |-> ChannelCost(OnDay(Recorded, d))]
          BY <2>4, <2>5, <3>2, <3>3, <4>2 DEF BackfillChannelModelDailyCosts
        <5>2. ChannelCost(OnDay(Recorded, d)) = Cardinality(GoodOf(OnDay(Recorded, d)))
          BY <2>4, <3>2, <3>3, AttemptsSummed
        <5>3. "attempts" \in DOMAIN channels'[d] /\ "attempts" \notin DOMAIN NoStat
          BY <5>1 DEF NoStat
        <5> QED
          BY <4>2, <5>1, <5>2, <5>3
      <4> QED
        BY <4>1, <4>2
    <3>4. channels' = [d \in Days |-> channels'[d]]
      BY <2>5 DEF BackfillChannelModelDailyCosts
    <3> QED
      BY <2>2, <2>3, <3>2, <3>3, <3>4 DEF ChannelsTold
  <2>6. CASE BackfillChannelModelDailyAggregates
    <3>1. \A j \in Steps : (Done(j) <=> j < 6) /\ (Done(j)' <=> j <= 6)
      BY <2>1, <2>6, FigureSteps DEF BackfillChannelModelDailyAggregates
    <3>2. Done(2) /\ Done(3) /\ Done(4) /\ Done(5) /\ ~Done(6) /\ ~Done(14) /\ Done(6)'
      BY <2>1, <3>1
    <3>3. ASSUME NEW d \in Days, WholeDay(d)
          PROVE  /\ OnDay(Recorded, d) = {} => channels'[d] = NoStat
                 /\ OnDay(Recorded, d) # {} => channels'[d] = ChannelOf(OnDay(Recorded, d))
      <4> DEFINE S == OnDay(Recorded, d)
      <4>1. /\ S \in SUBSET (Inherited \cap Retained)
            /\ channels'[d] = IF S = {} THEN channels[d]
                              ELSE [attempts |-> AttemptsOf(S), success |-> SuccessesOf(S),
                                    cost |-> IF channels[d] # NoStat THEN channels[d].cost ELSE ChannelCost(S)]
        BY <2>4, <2>6, <3>2, <3>3 DEF BackfillChannelModelDailyAggregates
      <4>2. /\ S = {} => channels[d] = NoStat
            /\ S # {} => channels[d] # NoStat /\ channels[d].cost = Cardinality(GoodOf(S))
        BY <3>2, <3>3 DEF ChannelsTold
      <4> HIDE DEF S
      <4>3. AttemptsOf(S) = Total([r \in S |-> Tries[r]]) /\ SuccessesOf(S) = Cardinality(GoodOf(S))
        BY <3>2, <4>1, AttemptsSummed
      <4>4. S # {} => channels'[d] = ChannelOf(S)
        BY <4>1, <4>2, <4>3 DEF ChannelOf
      <4> QED
        BY <4>1, <4>2, <4>4 DEF S
    <3>4. channels' = [d \in Days |-> channels'[d]]
      BY <2>6 DEF BackfillChannelModelDailyAggregates
    <3> QED
      BY <2>2, <2>3, <3>2, <3>3, <3>4 DEF ChannelsTold
  <2>7. CASE ~BackfillChannelModelDailyCosts /\ ~BackfillChannelModelDailyAggregates
    <3>1. channels' = channels
      BY <1>2, <2>7, CleanupLeaves
      DEF Next, Migrate, vars, BackfillTokenDailyStats, BackfillRelayOutcomes, BackfillCostFields,
         BackfillApplicationOutcomes, BackfillRequestStatisticsFromFinalAttempts, BackfillResponsePhaseTimings,
         CompressDetailedPayloads, BackfillCodexThreadSources, BackfillCodexSessionParents,
         BackfillCodexCompactionTracking, CorrectSuccessfulCodexCompactionCounts, MigrateRequestPayloadBatch,
         MigrateRelayPayloadTables, Skip, Crash
    <3>2. (Done(5)' <=> Done(5)) /\ (Done(6)' <=> Done(6))
      BY <2>7, FigureMigrations
    <3> QED
      BY <2>2, <2>3, <3>1, <3>2 DEF ChannelsTold
  <2> QED
    BY <2>5, <2>6, <2>7
<1> QED
  BY <1>1, <1>2

\* Every step keeps the figures.
LEMMA FiguresStep == FiguresInv /\ [Next]_vars => FiguresInv'
<1> SUFFICES ASSUME FiguresInv, [Next]_vars PROVE FiguresInv'
  OBVIOUS
<1>1. /\ TellingInv /\ PastInv /\ RowsTold /\ StatsShapes /\ AttemptsTold /\ RowsFinal
      /\ DailyTold /\ ChannelsTold
  BY DEF FiguresInv, TellingInv
<1>2. TellingInv' /\ StatsShapes' /\ AttemptsTold' /\ RowsFinal'
  BY <1>1, TellingStep, StatsStep, AttemptsStep, RowsFinalStep
<1>3. DailyTold' /\ ChannelsTold'
  BY <1>1, DailyStep, ChannelsStep
<1> QED
  BY <1>2, <1>3 DEF FiguresInv

\* At first the attempts are those of the older version, which kept no statistics of
\* channels and may have kept daily ones.
LEMMA FiguresFirst == Init => FiguresInv
<1> SUFFICES ASSUME Init PROVE FiguresInv
  OBVIOUS
<1>1. TellingInv /\ StatsShapes
  BY TellingFirst, StatsFirst
<1>2. ~Done(2) /\ ~Done(3) /\ ~Done(4) /\ ~Done(5) /\ ~Done(6) /\ ~Done(7) /\ ~Done(8)
  <2>1. \A i \in Steps : Done(i) => i = 1
    BY FirstDone
  <2>2. {2, 3, 4, 5, 6, 7, 8} \subseteq Steps
    BY DEF Steps
  <2>3. \A i \in {2, 3, 4, 5, 6, 7, 8} : ~Done(i)
    BY <2>1, <2>2
  <2> QED
    BY <2>3
<1>3. AttemptsTold
  <2>1. attempts = [r \in Requests |-> IF r \in Inherited THEN OldAttempts(r) ELSE <<>>]
    BY DEF Init
  <2>2. ASSUME NEW r \in Inherited
        PROVE  /\ attempts[r] = [i \in 1..Tries[r] |-> attempts[r][i]]
               /\ \A i \in 1..Tries[r] : AttemptTold(attempts[r][i], r, i)
    <3>1. attempts[r] = [i \in 1..Tries[r] |->
            [outcome |-> "", success |-> i = Tries[r] /\ Reply[r] \in {"good", "masked"}, cost |-> 1]]
      BY <2>1 DEF OldAttempts, Requests
    <3>2. ASSUME NEW i \in 1..Tries[r] PROVE AttemptTold(attempts[r][i], r, i)
      <4> DEFINE untold == ""
      <4>1. OutcomeTold(r, i) = untold
        BY <1>2 DEF OutcomeTold
      <4>2. Succeeds(r, i) <=> (i = Tries[r] /\ Reply[r] \in {"good", "masked"})
        BY <1>2 DEF Succeeds
      <4>3. CASE i = Tries[r] /\ Reply[r] \in {"good", "masked"}
        <5>1. attempts[r][i] = [outcome |-> untold, success |-> TRUE, cost |-> 1]
          BY <3>1, <4>3
        <5> HIDE DEF untold
        <5> QED
          BY <1>2, <4>1, <4>2, <4>3, <5>1 DEF AttemptTold
      <4>4. CASE ~(i = Tries[r] /\ Reply[r] \in {"good", "masked"})
        <5>1. attempts[r][i] = [outcome |-> untold, success |-> FALSE, cost |-> 1]
          BY <3>1, <4>4
        <5> HIDE DEF untold
        <5> QED
          BY <1>2, <4>1, <4>2, <4>4, <5>1 DEF AttemptTold
      <4> QED
        BY <4>3, <4>4
    <3> QED
      BY <3>1, <3>2
  <2> QED
    BY <2>1, <2>2 DEF AttemptsTold
<1>4. RowsFinal
  <2>1. log = [r \in Requests |-> IF r \in Inherited THEN OldRow(r) ELSE NoRow]
    BY DEF Init
  <2>2. \A r \in Inherited : log[r] = OldRow(r)
    BY <2>1 DEF Requests
  <2>3. \A r : OldRow(r).duration = 1 + Latency
    BY DEF OldRow
  <2> QED
    BY <1>2, <2>2, <2>3 DEF RowsFinal
<1>5. Recorded = Inherited
  <2>1. {14} \subseteq Steps /\ \A i \in Steps : Done(i) => i = 1
    BY FirstDone DEF Steps
  <2>2. ~Done(14)
    BY <2>1
  <2> QED
    BY <1>1, <2>2, NothingNew DEF TellingInv
<1>6. DailyTold
  <2>1. ASSUME NEW d \in Days, WholeDay(d), OnDay(Recorded, d) = {} PROVE stats[d] = NoStat
    <3>1. {r \in Inherited : Day[r] = d} = {} /\ Dropped[d] = NoStat
      BY <1>5, <2>1 DEF OnDay, WholeDay
    <3>2. CASE stats = [e \in Days |-> NoStat]
      BY <3>2
    <3>3. CASE stats = [e \in Days |->
                         LET S == {r \in Inherited : Day[r] = e} IN
                         IF S # {} THEN [Aggregate(log, S) EXCEPT !.success =
                                           Cardinality({r \in S : Reply[r] \in {"good", "masked"}})]
                         ELSE Dropped[e]]
      BY <3>1, <3>3
    <3> QED
      BY <3>2, <3>3 DEF Init
  <2> QED
    BY <1>2, <2>1 DEF DailyTold
<1>7. ChannelsTold
  <2>1. channels = [d \in Days |-> NoStat]
    BY DEF Init
  <2> QED
    BY <1>2, <2>1 DEF ChannelsTold
<1> QED
  BY <1>1, <1>3, <1>4, <1>6, <1>7 DEF FiguresInv

\* What an upgraded gateway shows of the past is what happened: the daily statistics of
\* a day whose requests are all kept, those of channels, and the sessions, wherever the
\* process died during the upgrade and however many requests have come since
\* (Store.migrate, backfillRequestStatisticsFromFinalAttempts, backfillResponsePhaseTimings).
THEOREM PastIsTold == Spec => []PastTold
<1>1. FiguresInv => PastTold
  <2> SUFFICES ASSUME FiguresInv, Serving PROVE PastTold
    BY DEF PastTold, DailyStatsTrue, ChannelStatsTrue, SessionsTold
  <2>1. TellingInv /\ PastInv /\ SessionsFollow /\ DailyTold /\ ChannelsTold
    BY DEF FiguresInv, TellingInv
  <2>2. \A i \in Steps : Done(i)
    BY <2>1, ServingDone DEF PastInv
  <2>3. Done(6) /\ Done(8) /\ Done(10) /\ Done(11) /\ Done(13)
    BY <2>2 DEF Steps
  <2>4. SessionsTold
    BY <2>1, <2>3, FollowedTold
  <2>5. DailyStatsTrue
    <3>1. \A d \in Days : WholeDay(d) /\ OnDay(Recorded, d) # {} => stats[d] = DailyOf(OnDay(Recorded, d))
      BY <2>1, <2>3 DEF DailyTold
    <3> QED
      BY <3>1 DEF DailyStatsTrue, DailyOf, GoodOf
  <2>6. ChannelStatsTrue
    <3>1. \A d \in Days : WholeDay(d) /\ OnDay(Recorded, d) # {} => channels[d] = ChannelOf(OnDay(Recorded, d))
      BY <2>1, <2>3 DEF ChannelsTold
    <3> QED
      BY <3>1 DEF ChannelStatsTrue, ChannelOf, GoodOf
  <2> QED
    BY <2>4, <2>5, <2>6 DEF PastTold
<1> QED
  BY <1>1, FiguresFirst, FiguresStep, PTL DEF Spec
=============================================================================
