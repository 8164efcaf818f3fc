------------------------------ MODULE Upgrade ------------------------------
(***************************************************************************)
(* The start-up of the gateway on a database of an older version:          *)
(* Store.migrate runs its migrations in a fixed order, each in one         *)
(* transaction that also inserts its row of gateway_migrations, and skips  *)
(* those that have one.  The process may die between any two of them, and  *)
(* several must not run twice, or must see what an earlier one did, or     *)
(* read bodies that a later one moves.                                     *)
(*                                                                         *)
(* Of a request the module keeps what the migrations compute with: the     *)
(* reply, the attempts and their costs, the duration, the body and where   *)
(* it is stored.  The session merge codex_auxiliary_sessions_v3 is in      *)
(* SessionLog; circuit levels, token columns, context windows and the      *)
(* compaction of the file change nothing that is modelled here.            *)
(***************************************************************************)
EXTENDS Integers, Sequences, FiniteSets, Functions

CONSTANTS
  Inherited, New,  \* requests of the older version and of this one
  Day, Days,       \* of a request: the day it was made
  Retained,        \* requests within the retention limit
  Reply,           \* "good", "error", "canceled", or "masked": 200 with an error in it
  Tries,           \* upstream attempts; each but the last one failed
  Compacts,        \* compaction requests
  Session, Sessions,  \* the session of a request
  Source,          \* what a session's bodies say of its thread: "", "user" or "subagent"
  States,          \* of a session: its state in the older version is "recent", "expired" or "none"
  Dropped,         \* of a day: the daily statistics of requests already deleted
  Batch,           \* relayPayloadMigrationBatchSize
  MaxCrashes       \* bound of the model

Requests == Inherited \cup New
NoStat   == [rows |-> 0]   \* no row of daily statistics
Columns  == [requests: Nat, success: Nat, canceled: Nat, cost: Nat, duration: Nat]
ASSUME RequestAssumption == /\ IsFiniteSet(Requests)
                            /\ Inherited \cap New = {} /\ New \subseteq Retained
                            /\ Retained \subseteq Requests
                            /\ Day \in [Requests -> Days] /\ Session \in [Requests -> Sessions]
                            /\ Reply \in [Requests -> {"good", "error", "canceled", "masked"}]
                            /\ Tries \in [Requests -> Nat \ {0}]
ASSUME SessionAssumption == /\ Source \in [Sessions -> {"", "user", "subagent"}]
                            /\ States \in [Sessions -> {"none", "expired", "recent"}]
ASSUME DroppedAssumption == Dropped \in [Days -> Columns \cup {NoStat}]
ASSUME BatchAssumption == Batch \in Nat \ {0} /\ MaxCrashes \in Nat

VARIABLES
  log,      \* relay_request_logs: outcome, cost, duration, is_compaction of each row
  attempts, \* relay_attempt_logs: for each request a sequence of [outcome, cost]
  body,     \* the body of each request: its column and its row of relay_request_payloads
  stats,    \* token_daily_stats: for each day [requests, success, canceled, cost, duration]
  channels, \* channel_model_daily_stats: for each day [attempts, success, cost]
  sessions, \* relay_session_states: [state, thread, parent, compactions]; state: whether there is
            \* one, and its updated_at within the retention limit; parent: whether it is known
  applied,  \* gateway_migrations
  next,     \* position in Order, or past it when the process serves
  crashes

vars == <<log, attempts, body, stats, channels, sessions, applied, next, crashes>>

-----------------------------------------------------------------------------
Order == <<"daily", "outcomes", "costs", "application", "channel costs", "channel aggregates",
           "final attempts", "timings", "compress", "threads", "parents", "compactions",
           "successful compactions", "payloads">>

Serving == next = Len(Order) + 1
NoRow   == [outcome |-> "none", cost |-> 0, duration |-> 0, compaction |-> FALSE]
NoState == [state |-> "none", thread |-> "", parent |-> FALSE, compactions |-> 0]
Present == {r \in Requests : log[r] # NoRow}
Latency == 1      \* the latency that the older version counted in every duration
Total(f) == SumFunction(f)
AtLeastZero(n, m) == IF n >= m THEN n - m ELSE 0

CostOf(rows, S)     == Total([r \in S |-> rows[r].cost])
DurationOf(rows, S) == Total([r \in S |-> rows[r].duration])

\* The columns of one day, aggregated from the request rows.
Aggregate(rows, S) ==
  [requests |-> Cardinality(S),
   success  |-> Cardinality({r \in S : rows[r].outcome = "success"}),
   canceled |-> Cardinality({r \in S : rows[r].outcome = "canceled"}),
   cost     |-> CostOf(rows, S),
   duration |-> DurationOf(rows, S)]
OnDay(S, d) == {r \in S : Day[r] = d}
DatesOf(S)  == {Day[r] : r \in S}

RebuiltFor(dates, rows) ==
  [d \in Days |-> IF d \in dates THEN Aggregate(rows, OnDay(Present, d)) ELSE stats[d]]
\* rebuildTokenDailyStats deletes every date and writes those that rows are left of.
Rebuilt(rows) ==
  [d \in Days |-> IF d \in DatesOf(Present) THEN Aggregate(rows, OnDay(Present, d)) ELSE NoStat]

\* What a session's bodies tell: read from the column, as every migration does.
Readable(r) == body[r].column # "gone"

-----------------------------------------------------------------------------
(***************************************************************************)
(* The migrations.                                                         *)
(***************************************************************************)
\* Mutant: a migration runs at every start.
DueAlways(name) == ~Serving /\ Order[next] = name
Due(name)  == ~Serving /\ Order[next] = name /\ name \notin applied
\* Mutant: the row of gateway_migrations is forgotten.
ApplyUnrecorded(name) == Due(name) /\ applied' = applied /\ next' = next + 1 /\ UNCHANGED crashes
Apply(name) == /\ Due(name)
               /\ applied' = applied \cup {name} /\ next' = next + 1 /\ UNCHANGED crashes

BackfillTokenDailyStats ==
  /\ Apply("daily")
  /\ stats' = RebuiltFor(DatesOf(Present), log)
  /\ UNCHANGED <<log, attempts, body, channels, sessions>>

\* The outcome of a row is told from its status; that of an attempt from its success.
RowOutcome(r) == CASE Reply[r] \in {"good", "masked"} -> "success"
                   [] Reply[r] = "canceled" -> "canceled"
                   [] OTHER -> "failed"

BackfillRelayOutcomes ==
  /\ Apply("outcomes")
  /\ log' = [r \in Requests |-> IF r \in Present THEN [log[r] EXCEPT !.outcome = RowOutcome(r)] ELSE log[r]]
  /\ attempts' = [r \in Requests |-> [i \in DOMAIN attempts[r] |->
       [attempts[r][i] EXCEPT !.outcome =
          CASE attempts[r][i].success -> "success"
            [] ~attempts[r][i].success /\ RowOutcome(r) = "canceled" -> "canceled"
            [] OTHER -> "failed"]]]
  /\ stats' = [d \in Days |->
       LET canceled == Cardinality({r \in OnDay(Present, d) : RowOutcome(r) = "canceled"})
       IN  IF stats[d] # NoStat /\ canceled > 0 THEN [stats[d] EXCEPT !.canceled = canceled] ELSE stats[d]]
  /\ UNCHANGED <<body, channels, sessions>>

\* Failures cost nothing; then the dates of the retained rows are written anew.
BackfillCostFields ==
  /\ Apply("costs")
  /\ log' = [r \in Requests |->
       IF r \in Present \cap Retained /\ log[r].outcome = "failed" THEN [log[r] EXCEPT !.cost = 0] ELSE log[r]]
  /\ attempts' = [r \in Requests |-> [i \in DOMAIN attempts[r] |->
       IF r \in Retained /\ attempts[r][i].outcome = "failed"
       THEN [attempts[r][i] EXCEPT !.cost = 0] ELSE attempts[r][i]]]
  /\ stats' = RebuiltFor(DatesOf(Present \cap Retained), log')
  /\ UNCHANGED <<body, channels, sessions>>

\* A success whose stored reply is an error becomes a failure, and the statistics of
\* its day are reduced by what it had added.
Misjudged == {r \in Present : log[r].outcome = "success" /\ Reply[r] = "masked" /\ Readable(r)}

BackfillApplicationOutcomes ==
  /\ Apply("application")
  /\ log' = [r \in Requests |->
       IF r \in Misjudged THEN [log[r] EXCEPT !.outcome = "failed", !.cost = 0] ELSE log[r]]
  /\ attempts' = [r \in Requests |-> [i \in DOMAIN attempts[r] |->
       IF r \in Misjudged /\ attempts[r][i].success
       THEN [outcome |-> "failed", success |-> FALSE, cost |-> 0] ELSE attempts[r][i]]]
  /\ stats' = [d \in Days |->
       LET S == OnDay(Misjudged, d)
       IN  IF S = {} \/ stats[d] = NoStat THEN stats[d]
           ELSE [stats[d] EXCEPT !.success = AtLeastZero(@, Cardinality(S)),
                                 !.cost = AtLeastZero(@, CostOf(log, S))]]
  /\ UNCHANGED <<body, channels, sessions>>

ChannelCost(S) ==
  Total([r \in S |->
    Total([i \in {i \in DOMAIN attempts[r] : attempts[r][i].outcome # "canceled"} |-> attempts[r][i].cost])])

BackfillChannelModelDailyCosts ==
  /\ Apply("channel costs")
  /\ channels' = [d \in Days |->
       IF d \in DatesOf(Present)
       THEN [attempts |-> 0, success |-> 0, cost |-> ChannelCost(OnDay(Present, d))] ELSE channels[d]]
  /\ UNCHANGED <<log, attempts, body, stats, sessions>>

AttemptsOf(S)  == Total([r \in S |-> Len(attempts[r])])
SuccessesOf(S) == Total([r \in S |-> Cardinality({i \in DOMAIN attempts[r] : attempts[r][i].outcome = "success"})])

\* The cost column of a row that is there already is kept.
BackfillChannelModelDailyAggregates ==
  /\ Apply("channel aggregates")
  /\ channels' = [d \in Days |->
       LET S == OnDay(Present, d) IN
       IF S = {} THEN channels[d]
       ELSE [attempts |-> AttemptsOf(S),
             success  |-> SuccessesOf(S),
             cost     |-> IF channels[d] # NoStat THEN channels[d].cost ELSE ChannelCost(S)]]
  /\ UNCHANGED <<log, attempts, body, stats, sessions>>

\* A request is worth what its last attempt is worth; retries do not count.
BackfillRequestStatisticsFromFinalAttempts ==
  /\ Apply("final attempts")
  /\ log' = [r \in Requests |->
       IF r \in Present \cap Retained THEN [log[r] EXCEPT !.cost = attempts[r][Len(attempts[r])].cost] ELSE log[r]]
  /\ stats' = Rebuilt(log')
  /\ UNCHANGED <<attempts, body, channels, sessions>>

\* Not idempotent: the latency is subtracted from every duration.
BackfillResponsePhaseTimings ==
  /\ Apply("timings")
  /\ log' = [r \in Requests |->
       IF r \in Present THEN [log[r] EXCEPT !.duration = AtLeastZero(@, Latency)] ELSE log[r]]
  /\ stats' = RebuiltFor(DatesOf(Present), log')
  /\ UNCHANGED <<attempts, body, channels, sessions>>

CompressDetailedPayloads ==
  /\ Apply("compress")
  /\ body' = [r \in Requests |-> IF Readable(r) THEN [body[r] EXCEPT !.column = "packed"] ELSE body[r]]
  /\ UNCHANGED <<log, attempts, stats, channels, sessions>>

Heard(s) == \E r \in Present : Session[r] = s /\ Readable(r)

\* A state that is missing is made, one whose thread changes is updated.
BackfillCodexThreadSources ==
  /\ Apply("threads")
  /\ sessions' = [s \in Sessions |->
       IF Heard(s) /\ sessions[s].thread # Source[s]
       THEN [sessions[s] EXCEPT !.state = "recent", !.thread = Source[s]] ELSE sessions[s]]
  /\ UNCHANGED <<log, attempts, body, stats, channels>>

\* Only of the sessions that the step before has found to be subagents'.
BackfillCodexSessionParents ==
  /\ Apply("parents")
  /\ sessions' = [s \in Sessions |->
       IF Heard(s) /\ sessions[s].thread = "subagent" /\ ~sessions[s].parent
       THEN [sessions[s] EXCEPT !.state = "recent", !.parent = TRUE] ELSE sessions[s]]
  /\ UNCHANGED <<log, attempts, body, stats, channels>>

CountOf(s, rows) == Cardinality({r \in Present : Session[r] = s /\ rows[r].compaction})

\* A count does not update a state; it makes one that is missing.
BackfillCodexCompactionTracking ==
  /\ Apply("compactions")
  /\ log' = [r \in Requests |->
       IF r \in Present \cap Compacts /\ Readable(r) THEN [log[r] EXCEPT !.compaction = TRUE] ELSE log[r]]
  /\ sessions' = [s \in Sessions |->
       LET count == CountOf(s, log') IN
       [sessions[s] EXCEPT !.compactions = count,
                           !.state = IF count > 0 /\ @ = "none" THEN "recent" ELSE @]]
  /\ UNCHANGED <<attempts, body, stats, channels>>

\* Not idempotent: the compactions that failed are subtracted from the counts.
CorrectSuccessfulCodexCompactionCounts ==
  /\ Apply("successful compactions")
  /\ sessions' = [s \in Sessions |->
       LET failed == Cardinality({r \in Present : /\ Session[r] = s /\ log[r].compaction
                                                  /\ log[r].outcome # "success"})
       IN  [sessions[s] EXCEPT !.compactions = AtLeastZero(@, failed)]]
  /\ UNCHANGED <<log, attempts, body, stats, channels>>

\* Mutant: the columns are emptied by the statement before the copy is committed.
MigrateRequestPayloadBatchBlank ==
  /\ Due("payloads")
  /\ \E r \in Present : /\ Readable(r) /\ body' = [body EXCEPT ![r].column = "gone"]
  /\ UNCHANGED <<log, attempts, stats, channels, sessions, applied, next, crashes>>

\* A batch of rows is copied, read back and emptied in one transaction.
MigrateRequestPayloadBatch ==
  /\ ~Serving /\ Order[next] = "payloads"
  /\ LET pending == {r \in Present : Readable(r)} IN
     \E rows \in SUBSET pending :
       /\ rows # {} /\ Cardinality(rows) = IF Cardinality(pending) < Batch THEN Cardinality(pending) ELSE Batch
       /\ body' = [r \in Requests |-> IF r \in rows THEN [column |-> "gone", row |-> body[r].column] ELSE body[r]]
  /\ UNCHANGED <<log, attempts, stats, channels, sessions, applied, next, crashes>>

MigrateRelayPayloadTables ==
  /\ ~\E r \in Present : Readable(r)
  /\ Apply("payloads")
  /\ UNCHANGED <<log, attempts, body, stats, channels, sessions>>

\* Mutant: the payload migration runs only while it is not recorded.
SkipNeverPayloads ==
  /\ ~Serving /\ Order[next] \in applied /\ Order[next] # "payloads"
  /\ next' = next + 1
  /\ UNCHANGED <<log, attempts, body, stats, channels, sessions, applied, crashes>>

\* A migration with a row in gateway_migrations is passed over.  Only the payload
\* loop looks for rows whatever is recorded.
Skip ==
  /\ ~Serving /\ Order[next] \in applied
  /\ Order[next] = "payloads" => ~\E r \in Present : Readable(r)
  /\ next' = next + 1
  /\ UNCHANGED <<log, attempts, body, stats, channels, sessions, applied, crashes>>

-----------------------------------------------------------------------------
(***************************************************************************)
(* The gateway that serves, and its restarts.                              *)
(***************************************************************************)
Plus(day, r) ==
  LET old == IF stats[day] = NoStat
             THEN [requests |-> 0, success |-> 0, canceled |-> 0, cost |-> 0, duration |-> 0]
             ELSE stats[day]
  IN  [requests |-> old.requests + 1,
       success  |-> old.success + (IF Reply[r] = "good" THEN 1 ELSE 0),
       canceled |-> old.canceled + (IF Reply[r] = "canceled" THEN 1 ELSE 0),
       cost     |-> old.cost + (IF Reply[r] = "good" THEN 1 ELSE 0),
       duration |-> old.duration + 1]

PlusChannel(day, r) ==
  LET old == IF channels[day] = NoStat THEN [attempts |-> 0, success |-> 0, cost |-> 0] ELSE channels[day]
  IN  [attempts |-> old.attempts + Tries[r],
       success  |-> old.success + (IF Reply[r] = "good" THEN 1 ELSE 0),
       cost     |-> old.cost + (IF Reply[r] = "good" THEN 1 ELSE 0)]

Outcome(r)     == CASE Reply[r] = "good" -> "success" [] Reply[r] = "canceled" -> "canceled" [] OTHER -> "failed"
NewAttempts(r) == [i \in 1..Tries[r] |->
                     [outcome |-> IF i = Tries[r] THEN Outcome(r) ELSE "failed",
                      success |-> i = Tries[r] /\ Reply[r] = "good",
                      cost    |-> IF i = Tries[r] /\ Reply[r] = "good" THEN 1 ELSE 0]]

RecordRequest(r) ==
  /\ Serving /\ log[r] = NoRow
  /\ log' = [log EXCEPT ![r] = [outcome |-> Outcome(r), cost |-> IF Reply[r] = "good" THEN 1 ELSE 0,
                                duration |-> 1, compaction |-> r \in Compacts]]
  /\ attempts' = [attempts EXCEPT ![r] = NewAttempts(r)]
  /\ body' = [body EXCEPT ![r] = [column |-> "gone", row |-> "packed"]]
  /\ stats' = [stats EXCEPT ![Day[r]] = Plus(Day[r], r)]
  /\ channels' = [channels EXCEPT ![Day[r]] = PlusChannel(Day[r], r)]
  /\ sessions' = [sessions EXCEPT ![Session[r]] =
       [state |-> "recent", thread |-> Source[Session[r]], parent |-> Source[Session[r]] = "subagent",
        compactions |-> @.compactions + (IF r \in Compacts /\ Reply[r] = "good" THEN 1 ELSE 0)]]
  /\ UNCHANGED <<applied, next, crashes>>

\* cleanupExpired is not a transaction and ignores what fails: a statement that failed
\* is made up for by the next cleanup, so its statements take effect in any order.
\* The daily statistics stay.
Expired == Present \ Retained

CleanupBodies ==
  /\ Serving /\ \E r \in Expired : body[r].row # "none"
  /\ body' = [r \in Requests |-> IF r \in Expired THEN [body[r] EXCEPT !.row = "none"] ELSE body[r]]
  /\ UNCHANGED <<log, attempts, stats, channels, sessions, applied, next, crashes>>

\* Attempts have an age of their own: they go also when their request has gone.
CleanupAttempts ==
  /\ Serving /\ \E r \in Requests \ Retained : attempts[r] # <<>>
  /\ attempts' = [r \in Requests |-> IF r \in Retained THEN attempts[r] ELSE <<>>]
  /\ UNCHANGED <<log, body, stats, channels, sessions, applied, next, crashes>>

CleanupRows ==
  /\ Serving /\ Expired # {}
  /\ log' = [r \in Requests |-> IF r \in Retained THEN log[r] ELSE NoRow]
  /\ body' = [r \in Requests |-> IF r \in Expired THEN [body[r] EXCEPT !.column = "gone"] ELSE body[r]]
  /\ UNCHANGED <<attempts, stats, channels, sessions, applied, next, crashes>>

\* By its own updated_at, whatever its requests are.
CleanupStates ==
  /\ Serving /\ \E s \in Sessions : sessions[s].state = "expired"
  /\ sessions' = [s \in Sessions |-> IF sessions[s].state = "expired" THEN NoState ELSE sessions[s]]
  /\ UNCHANGED <<log, attempts, body, stats, channels, applied, next, crashes>>

Cleanup == CleanupBodies \/ CleanupAttempts \/ CleanupRows \/ CleanupStates

\* The process stops, during the upgrade or after it, and starts again.
Crash ==
  /\ crashes < MaxCrashes /\ crashes' = crashes + 1
  /\ next' = 1
  /\ UNCHANGED <<log, attempts, body, stats, channels, sessions, applied>>

-----------------------------------------------------------------------------
\* The older version judged by the status, counted retries and kept bodies in the row.
OldAttempts(r) == [i \in 1..Tries[r] |->
                     [outcome |-> "", success |-> i = Tries[r] /\ Reply[r] \in {"good", "masked"}, cost |-> 1]]
OldRow(r)      == [outcome |-> "", cost |-> Tries[r], duration |-> 1 + Latency, compaction |-> FALSE]

Init ==
  /\ log = [r \in Requests |-> IF r \in Inherited THEN OldRow(r) ELSE NoRow]
  /\ attempts = [r \in Requests |-> IF r \in Inherited THEN OldAttempts(r) ELSE <<>>]
  /\ body = [r \in Requests |-> [column |-> IF r \in Inherited THEN "plain" ELSE "gone", row |-> "none"]]
  /\ channels = [d \in Days |-> NoStat]
  /\ sessions = [s \in Sessions |-> [NoState EXCEPT !.state = States[s]]]
  /\ next = 1 /\ crashes = 0
  /\ \/ applied = {} /\ stats = [d \in Days |-> NoStat]
     \/ /\ applied = {"daily"}
        /\ stats = [d \in Days |->
             LET S == {r \in Inherited : Day[r] = d} IN
             IF S # {} THEN [Aggregate(log, S) EXCEPT !.success =
                               Cardinality({r \in S : Reply[r] \in {"good", "masked"}})]
             ELSE Dropped[d]]

Migrate ==
  \/ BackfillTokenDailyStats \/ BackfillRelayOutcomes \/ BackfillCostFields
  \/ BackfillApplicationOutcomes \/ BackfillChannelModelDailyCosts
  \/ BackfillChannelModelDailyAggregates \/ BackfillRequestStatisticsFromFinalAttempts
  \/ BackfillResponsePhaseTimings \/ CompressDetailedPayloads \/ BackfillCodexThreadSources
  \/ BackfillCodexSessionParents \/ BackfillCodexCompactionTracking \/ CorrectSuccessfulCodexCompactionCounts
  \/ MigrateRequestPayloadBatch \/ MigrateRelayPayloadTables \/ Skip

Next == Migrate \/ (\E r \in New : RecordRequest(r)) \/ Cleanup \/ Crash

Spec     == Init /\ [][Next]_vars
\* The start-up runs to its end unless the process dies; it dies finitely often.
FairSpec == Spec /\ WF_vars(Migrate)

-----------------------------------------------------------------------------
(***************************************************************************)
(* Properties.                                                             *)
(***************************************************************************)
\* The state stays within its types; no counter of the statistics, which migrations
\* subtract from, becomes negative.
TypeOK ==
  /\ log \in [Requests -> [outcome: {"none", "", "success", "failed", "canceled"},
                            cost: Nat, duration: Nat, compaction: BOOLEAN]]
  /\ attempts \in [Requests -> Seq([outcome: {"", "success", "failed", "canceled"},
                                     success: BOOLEAN, cost: Nat])]
  /\ body \in [Requests -> [column: {"plain", "packed", "gone"}, row: {"none", "plain", "packed"}]]
  /\ stats \in [Days -> Columns \cup {NoStat}]
  /\ channels \in [Days -> [attempts: Nat, success: Nat, cost: Nat] \cup {NoStat}]
  /\ sessions \in [Sessions -> [state: {"none", "expired", "recent"}, thread: {"", "user", "subagent"},
                                  parent: BOOLEAN, compactions: Nat]]
  /\ applied \subseteq {Order[i] : i \in DOMAIN Order}
  /\ next \in 1..Len(Order) + 1 /\ crashes \in 0..MaxCrashes

\* hydrateRelayRequestPayloads: the row of the payload table wins, else the column.
Hydrated(r) == IF body[r].row # "none" THEN body[r].row ELSE body[r].column

\* Wherever the process dies, a body within the retention limit is never lost, and no
\* body is while the upgrade lasts: it is in its column until it is in the payload table
\* (relay_payloads.go, verify...Batch).
BodyReadable ==
  \A r \in Present : r \in Retained \/ "payloads" \notin applied => Hydrated(r) # "gone"

Recorded == Inherited \cup {r \in New : log[r] # NoRow}
WholeDay(d) == OnDay(Recorded, d) \subseteq Retained /\ Dropped[d] = NoStat
FinalCost(r) == IF Reply[r] = "good" \/ (Reply[r] = "canceled" /\ r \in Inherited) THEN 1 ELSE 0

\* Once the gateway serves, the daily statistics of a day whose requests are all kept
\* say what really happened: masked errors are failures, a request costs what its last
\* attempt cost, the latency is not in the duration; requests recorded since are added
\* once.  The rebuilt and the incremented figures agree, whatever crashed on the way.
DailyStatsTrue ==
  Serving => \A d \in Days : WholeDay(d) /\ OnDay(Recorded, d) # {} =>
    LET S == OnDay(Recorded, d) IN
    stats[d] = [requests |-> Cardinality(S),
                success  |-> Cardinality({r \in S : Reply[r] = "good"}),
                canceled |-> Cardinality({r \in S : Reply[r] = "canceled"}),
                cost     |-> Total([r \in S |-> FinalCost(r)]),
                duration |-> Cardinality(S)]

\* The same for the statistics of channels, which count every attempt and no cost of
\* a failed or canceled one.
ChannelStatsTrue ==
  Serving => \A d \in Days : WholeDay(d) /\ OnDay(Recorded, d) # {} =>
    LET S == OnDay(Recorded, d) IN
    channels[d] = [attempts |-> Total([r \in S |-> Tries[r]]),
                   success  |-> Cardinality({r \in S : Reply[r] = "good"}),
                   cost     |-> Cardinality({r \in S : Reply[r] = "good"})]

Compactions(s, S) == Cardinality({r \in S : Session[r] = s /\ r \in Compacts /\ Reply[r] = "good"})

\* The states that the cleanup finds expired are those that were, and that the upgrade did not touch.
Lasting(s) == States[s] # "expired" \/ (Source[s] # "" /\ \E r \in Inherited : Session[r] = s)

\* Sessions are told from the bodies before the bodies move, and the cleanup forgets only those that
\* nobody wrote within the limit: subagents and their parents are known, a session's compactions are
\* those that succeeded, and those of a forgotten session start again with its next request.
SessionsTold ==
  Serving => \A s \in Sessions :
    /\ \/ sessions[s].compactions = Compactions(s, Recorded)
       \/ ~Lasting(s) /\ sessions[s].compactions = Compactions(s, Recorded \cap New)
    /\ Source[s] = "subagent" /\ (\E r \in Recorded : Session[r] = s) =>
         sessions[s].thread = "subagent" /\ sessions[s].parent

\* What an upgraded gateway shows of the past is what happened.
PastTold == DailyStatsTrue /\ ChannelStatsTrue /\ SessionsTold

NotLess(new, old) == old # NoStat => new # NoStat /\ new.requests >= old.requests

\* After the upgrade neither cleanup nor restarts take anything from the statistics,
\* although the rows they were made from are deleted.
UpgradedStatsKept ==
  [][Order[Len(Order)] \in applied => \A d \in Days : NotLess(stats'[d], stats[d])]_vars

\* README.md: older data is kept as daily statistics.  rebuildTokenDailyStats deletes
\* those of the days whose requests are no longer there.
DailyStatsKept == [][\A d \in Days : NotLess(stats'[d], stats[d])]_vars

\* However often the process dies during the upgrade, it comes to serve.
StartUpCompletes == <>[]Serving
=============================================================================
