--------------------------- MODULE ChannelCircuit ---------------------------
(***************************************************************************)
(* The circuit breaker of one upstream channel.                            *)
(*                                                                         *)
(* A channel row carries a failure counter, a circuit level and a deadline *)
(* until which the router leaves the channel out.  Requests that passed    *)
(* the availability check report their outcome later, in any order, under  *)
(* the per-channel mutex and one database transaction.  Failures raise the *)
(* level one step (temporary, extended); the third step disables the       *)
(* failing channel-model mapping instead and waits for a person to reopen  *)
(* it.  Every step leaves a circuit record that stays pending until the    *)
(* level is left, the mapping is reopened or the mapping is removed.       *)
(*                                                                         *)
(* The handlers that a transaction makes atomic are single actions here.   *)
(* UpdateChannel, which is not transactional, is in ChannelEdit.           *)
(***************************************************************************)
EXTENDS Integers

CONSTANTS
  Models,            \* public models (gateway_models rows)
  Mappings,          \* pool of channel_models ids; AUTOINCREMENT reuses none
  ModelOf,           \* the model each mapping id is created for
  NoMapping,         \* an attempt slot that is not in flight
  Attempts,          \* upstream attempts that may be in flight together
  FailureThreshold,  \* circuitFailureThreshold
  TemporaryTicks,    \* temporaryCircuitDuration in clock ticks
  ExtendedTicks      \* extendedCircuitDuration in clock ticks

ASSUME ModelOfAssumption     == ModelOf \in [Mappings -> Models]
ASSUME NoMappingAssumption   == NoMapping \notin Mappings
ASSUME ThresholdAssumption   == FailureThreshold \in Nat \ {0}
ASSUME DurationAssumption    == /\ TemporaryTicks \in Nat \ {0}
                                /\ ExtendedTicks \in Nat \ {0}

VARIABLES
  channel,          \* the channels row: existence and circuit columns
  mappingState,     \* "unused" id, "live" row, or "gone" (deleted)
  mappingEnabled,   \* channel_models.enabled
  circuitDisabled,  \* channel_models.circuit_disabled
  models,           \* gateway_models rows that exist
  pending,          \* unresolved circuit_records, by level and mapping
  attempt           \* the mapping each in-flight attempt was sent through

vars == <<channel, mappingState, mappingEnabled, circuitDisabled, models,
          pending, attempt>>

mappingVars == <<mappingState, mappingEnabled, circuitDisabled>>

-----------------------------------------------------------------------------
Closed    == 0
Temporary == 1
Extended  == 2
Manual    == 3

Levels     == Temporary .. Manual
NoDeadline == -1

\* openFor is circuit_open_until minus the present: NoDeadline stands for
\* NULL and 0 for a deadline that has passed.
Rows == [exists : BOOLEAN, enabled : BOOLEAN, failures : Nat,
         level : Closed .. Manual, openFor : Int]

QuietRow(exists, enabled, level) ==
  [exists |-> exists, enabled |-> enabled, failures |-> 0, level |-> level,
   openFor |-> NoDeadline]

NoRow == QuietRow(FALSE, FALSE, Closed)

\* The update of the three circuit columns that each handler performs.
SetCircuit(row, failures, level, openFor) ==
  [exists |-> row.exists, enabled |-> row.enabled, failures |-> failures,
   level |-> level, openFor |-> openFor]

NoRecords == [m \in Mappings |-> 0]

Live   == {m \in Mappings : mappingState[m] = "live"}
Unused == {m \in Mappings : mappingState[m] = "unused"}

\* Mutant: a deadline that has passed still counts.
DeadlineStored == channel.openFor # NoDeadline

CircuitOpen == channel.openFor > 0

\* What plannedCandidateAvailability asks of a candidate just before use.
Available(m) == /\ channel.exists /\ channel.enabled
                /\ m \in Live /\ mappingEnabled[m]
                /\ ~CircuitOpen

DurationOf(level) == IF level = Temporary THEN TemporaryTicks ELSE ExtendedTicks

\* createCircuitRecord needs the mapping row and its model; otherwise the
\* transaction rolls back.
Recordable(m) == m \in Live /\ ModelOf[m] \in models

\* Mutant: the third trip leaves no record.
AddRecordBelowManual(records, level, m) ==
  IF level = Manual THEN records ELSE [records EXCEPT ![level][m] = @ + 1]

AddRecord(records, level, m) == [records EXCEPT ![level][m] = @ + 1]

\* Mutant: the records of the level that is left stay pending.
ResolveNothing(records, level) == records

ResolveLevel(records, level) ==
  IF level = Closed THEN records ELSE [records EXCEPT ![level] = NoRecords]

-----------------------------------------------------------------------------
(* Attempts. *)

StartAttempt(a, m) ==
  /\ attempt[a] = NoMapping
  /\ Available(m)
  /\ attempt' = [attempt EXCEPT ![a] = m]
  /\ UNCHANGED <<channel, mappingVars, models, pending>>

Finish(a) == /\ attempt[a] # NoMapping
             /\ attempt' = [attempt EXCEPT ![a] = NoMapping]

\* A client cancellation, a DNS error or a gateway preparation failure says
\* nothing about the channel; nor does a verdict whose transaction fails.
EndWithoutVerdict(a) ==
  /\ Finish(a)
  /\ UNCHANGED <<channel, mappingVars, models, pending>>

\* Mutant: one failure too late.
TripsLate(immediate) ==
  immediate \/ channel.failures + 1 > FailureThreshold

Trips(immediate) ==
  immediate \/ channel.failures + 1 >= FailureThreshold

\* Mutant: each failure restarts the time an open circuit has left.
CountFailureExtends ==
  /\ channel' = SetCircuit(channel, channel.failures + 1, channel.level,
                           IF CircuitOpen THEN DurationOf(channel.level) ELSE NoDeadline)
  /\ UNCHANGED <<mappingVars, pending>>

CountFailure ==
  /\ channel' = SetCircuit(channel, channel.failures + 1, channel.level,
                           IF CircuitOpen THEN channel.openFor ELSE NoDeadline)
  /\ UNCHANGED <<mappingVars, pending>>

OpenCircuit(m) ==
  LET target == channel.level + 1
  IN /\ target <= Extended
     /\ channel' = SetCircuit(channel, 0, target, DurationOf(target))
     /\ pending' = AddRecord(ResolveLevel(pending, channel.level), target, m)
     /\ UNCHANGED mappingVars

DisableMapping(m) ==
  /\ channel.level = Extended
  /\ mappingEnabled' = [mappingEnabled EXCEPT ![m] = FALSE]
  /\ circuitDisabled' = [circuitDisabled EXCEPT ![m] = TRUE]
  /\ channel' = SetCircuit(channel, 0, Closed, NoDeadline)
  /\ pending' = AddRecord(ResolveLevel(pending, channel.level), Manual, m)
  /\ UNCHANGED mappingState

\* A failure at the legacy level three only stores last_error, and one that
\* trips on a deleted mapping rolls back: both are EndWithoutVerdict.
RecordFailure(a, immediate) ==
  /\ Finish(a)
  /\ channel.exists
  /\ channel.level < Manual
  /\ \/ ~Trips(immediate) /\ CountFailure
     \/ /\ Trips(immediate)
        /\ Recordable(attempt[a])
        /\ OpenCircuit(attempt[a]) \/ DisableMapping(attempt[a])
  /\ UNCHANGED models

\* Mutant: straight back to closed.
LoweredToClosed(level) == Closed

Lowered(level) == IF level = Closed THEN Closed ELSE level - 1

\* recordChannelSuccess and recordChannelResponsive; a success may arrive
\* while the circuit is open, from an attempt that started before.
RecordRecovery(a) ==
  /\ Finish(a)
  /\ channel.exists
  /\ channel.level < Manual
  /\ channel' = SetCircuit(channel, 0, Lowered(channel.level), NoDeadline)
  /\ pending' = ResolveLevel(pending, channel.level)
  /\ UNCHANGED <<mappingVars, models>>

Tick ==
  /\ CircuitOpen
  /\ channel' = [channel EXCEPT !.openFor = @ - 1]
  /\ UNCHANGED <<mappingVars, models, pending, attempt>>

-----------------------------------------------------------------------------
(* Administration. *)

ResetChannelCircuit ==
  /\ channel.exists
  /\ channel' = QuietRow(TRUE, TRUE, Closed)
  /\ mappingEnabled' = [m \in Mappings |-> mappingEnabled[m] \/ circuitDisabled[m]]
  /\ circuitDisabled' = [m \in Mappings |-> FALSE]
  /\ pending' = [l \in Levels |-> NoRecords]
  /\ UNCHANGED <<mappingState, models, attempt>>

ReopenCircuitMapping(m) ==
  /\ pending[Manual][m] > 0
  /\ m \in Live
  /\ circuitDisabled[m]
  /\ mappingEnabled' = [mappingEnabled EXCEPT ![m] = TRUE]
  /\ circuitDisabled' = [circuitDisabled EXCEPT ![m] = FALSE]
  /\ pending' = [pending EXCEPT ![Manual][m] = 0]
  /\ UNCHANGED <<channel, mappingState, models, attempt>>

\* replaceChannelModels: the request maps the models to keep to their enabled
\* flag; fresh holds the new id of each kept model that has no mapping yet.
ReplaceMappings(request, fresh) ==
  LET requested(m) == ModelOf[m] \in DOMAIN request
      kept    == {m \in Live : requested(m)}
      removed == Live \ kept
      reopened == {m \in kept : circuitDisabled[m] /\ request[ModelOf[m]]}
  IN /\ DOMAIN request \subseteq models
     /\ \A m \in fresh : m \in Unused /\ requested(m)
     /\ \A m, n \in kept \cup fresh : ModelOf[m] = ModelOf[n] => m = n
     /\ \A x \in DOMAIN request : \E m \in kept \cup fresh : ModelOf[m] = x
     /\ mappingState' = [m \in Mappings |->
                           CASE m \in fresh   -> "live"
                             [] m \in removed -> "gone"
                             [] OTHER         -> mappingState[m]]
     /\ mappingEnabled' = [m \in Mappings |->
                             m \in kept \cup fresh /\ request[ModelOf[m]]]
     /\ circuitDisabled' = [m \in Mappings |->
                              m \in kept /\ circuitDisabled[m] /\ ~request[ModelOf[m]]]
     /\ pending' = [pending EXCEPT ![Manual] =
                      [m \in Mappings |-> IF m \in reopened \cup removed THEN 0 ELSE @[m]]]

ReplaceChannelModels(request, fresh) ==
  /\ channel.exists
  /\ ReplaceMappings(request, fresh)
  /\ UNCHANGED <<channel, models, attempt>>

\* The columns updateChannel rewrites in the row it has read.
EditedRow(row, enable) ==
  IF row.level = Manual /\ enable
  THEN QuietRow(row.exists, TRUE, Closed)
  ELSE [row EXCEPT !.enabled = enable]

SaveChannelConfiguration(enable, request, fresh) ==
  /\ channel.exists
  /\ channel' = EditedRow(channel, enable)
  /\ ReplaceMappings(request, fresh)
  /\ UNCHANGED <<models, attempt>>

RemoveMappings(removed) ==
  /\ mappingState' = [m \in Mappings |-> IF m \in removed THEN "gone" ELSE mappingState[m]]
  /\ mappingEnabled' = [m \in Mappings |-> m \notin removed /\ mappingEnabled[m]]
  /\ circuitDisabled' = [m \in Mappings |-> m \notin removed /\ circuitDisabled[m]]

\* DeleteModel removes the mappings and leaves their circuit records alone.
DeleteModel(x) ==
  /\ x \in models
  /\ models' = models \ {x}
  /\ RemoveMappings({m \in Live : ModelOf[m] = x})
  /\ UNCHANGED <<channel, pending, attempt>>

DeleteChannel ==
  /\ channel.exists
  /\ channel' = NoRow
  /\ RemoveMappings(Live)
  /\ pending' = [l \in Levels |-> NoRecords]
  /\ UNCHANGED <<models, attempt>>

-----------------------------------------------------------------------------
Requests == UNION {[S -> BOOLEAN] : S \in SUBSET Models}

\* A new channel has no mappings.  A database written by an older release may
\* hold a channel at level three.
Init ==
  /\ channel \in {QuietRow(TRUE, TRUE, Closed), QuietRow(TRUE, FALSE, Manual)}
  /\ mappingState = [m \in Mappings |-> "unused"]
  /\ mappingEnabled = [m \in Mappings |-> FALSE]
  /\ circuitDisabled = [m \in Mappings |-> FALSE]
  /\ models = Models
  /\ pending = [l \in Levels |-> NoRecords]
  /\ attempt = [a \in Attempts |-> NoMapping]

RelayStep ==
  \E a \in Attempts :
    \/ \E m \in Mappings : StartAttempt(a, m)
    \/ EndWithoutVerdict(a)
    \/ \E immediate \in BOOLEAN : RecordFailure(a, immediate)
    \/ RecordRecovery(a)

AdminStep ==
  \/ ResetChannelCircuit
  \/ \E m \in Mappings : ReopenCircuitMapping(m)
  \/ \E request \in Requests, fresh \in SUBSET Unused :
       \/ ReplaceChannelModels(request, fresh)
       \/ \E enable \in BOOLEAN : SaveChannelConfiguration(enable, request, fresh)
  \/ \E x \in Models : DeleteModel(x)
  \/ DeleteChannel

Next == RelayStep \/ AdminStep \/ Tick

Spec == Init /\ [][Next]_vars

-----------------------------------------------------------------------------
(* Properties. *)

\* Every variable keeps its type.
TypeOK ==
  /\ channel \in Rows
  /\ mappingState \in [Mappings -> {"unused", "live", "gone"}]
  /\ mappingEnabled \in [Mappings -> BOOLEAN]
  /\ circuitDisabled \in [Mappings -> BOOLEAN]
  /\ models \subseteq Models
  /\ pending \in [Levels -> [Mappings -> Nat]]
  /\ attempt \in [Attempts -> Mappings \cup {NoMapping}]

\* The circuit columns of a row agree, however late verdicts interleave with
\* resets and edits: a deadline is stored only at the temporary or extended
\* level and within that level's duration, and the failure counter never
\* rests at the threshold.
RowConsistent(row) ==
  /\ row.failures < FailureThreshold
  /\ row.openFor >= NoDeadline
  /\ row.openFor # NoDeadline =>
       /\ row.level \in {Temporary, Extended}
       /\ row.openFor <= DurationOf(row.level)

ChannelRowConsistent == RowConsistent(channel)

\* The records page never shows a temporary or extended event as pending when
\* the channel has left that level, and shows at most one such event: every
\* path that changes the level resolves the old level's records.
PendingMatchesLevel ==
  \A l \in {Temporary, Extended}, m \in Mappings :
    pending[l][m] > 0 =>
      /\ channel.level = l
      /\ pending[l][m] = 1
      /\ \A n \in Mappings : pending[l][n] > 0 => n = m

\* A mapping the breaker disabled is out of routing and can be reopened: a
\* level-three record for it is pending.
DisabledMappingReopenable ==
  \A m \in Mappings :
    circuitDisabled[m] => /\ m \in Live
                          /\ ~mappingEnabled[m]
                          /\ pending[Manual][m] > 0

\* Conversely a pending level-three record belongs to a mapping that the
\* breaker still disables, unless its model was deleted.
ManualRecordAccounted ==
  \A m \in Mappings :
    pending[Manual][m] > 0 => circuitDisabled[m] \/ ModelOf[m] \notin models

\* No interleaving of late verdicts makes the circuit skip a level: it moves
\* one step at a time, except that a third trip takes the mapping out and
\* closes the circuit, and that an administrator may reset it, which clears
\* every record unless the level was the legacy one.
LevelMovesOneStep ==
  [][ \/ channel'.level - channel.level \in {-1, 0, 1}
      \/ /\ channel.level = Extended /\ channel'.level = Closed
         /\ \E m \in Mappings : pending'[Manual][m] > pending[Manual][m]
      \/ /\ attempt' = attempt
         /\ channel'.level = Closed /\ channel'.failures = 0
         /\ channel.level < Manual => \A l \in Levels : pending'[l] = NoRecords
    ]_vars

\* A relay verdict never puts a mapping back in routing that the breaker took
\* out: only an administrator does.
RelayNeverReopens ==
  [][attempt' # attempt =>
       \A m \in Mappings : /\ circuitDisabled[m] => circuitDisabled'[m]
                           /\ mappingEnabled'[m] => mappingEnabled[m]]_vars

\* A deadline is set or moved back only by the failure that raises the level:
\* failures that arrive late, while the circuit is open, extend nothing.
DeadlineOnlyWithEscalation ==
  [][channel'.openFor > 0 /\ channel'.openFor > channel.openFor =>
       channel'.level = channel.level + 1]_vars
=============================================================================
