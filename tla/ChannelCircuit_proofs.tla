----------------------- MODULE ChannelCircuit_proofs -----------------------
(***************************************************************************)
(* Type correctness and the safety of the circuit breaker, for any number  *)
(* of mappings, models and attempts in flight, any failure threshold and   *)
(* any pair of durations.                                                  *)
(***************************************************************************)
EXTENDS ChannelCircuit, TLAPS

USE ModelOfAssumption, NoMappingAssumption, ThresholdAssumption,
    DurationAssumption
    DEF Closed, Temporary, Extended, Manual, Levels, NoDeadline

(* The type invariant holds: every handler of the relay and of the         *)
(* administration leaves each column and record count in its type.         *)
THEOREM TypeCorrect == Spec => []TypeOK
<1> USE DEF TypeOK, Rows, NoRow, QuietRow, SetCircuit, NoRecords, Live, Unused
<1>1. Init => TypeOK
  <2> SUFFICES ASSUME Init
               PROVE  TypeOK
    OBVIOUS
  <2>1. channel \in Rows
    <3>1. CASE channel = QuietRow(TRUE, TRUE, Closed)
      BY <3>1
    <3>2. CASE channel = QuietRow(TRUE, FALSE, Manual)
      BY <3>2
    <3>3. QED
      BY <3>1, <3>2 DEF Init
  <2>2. pending \in [Levels -> [Mappings -> Nat]]
    BY DEF Init
  <2>3. QED
    BY <2>1, <2>2 DEF Init
<1>2. TypeOK /\ [Next]_vars => TypeOK'
  <2> SUFFICES ASSUME TypeOK, [Next]_vars
               PROVE  TypeOK'
    OBVIOUS
  <2>1. ASSUME NEW a \in Attempts, NEW m \in Mappings, StartAttempt(a, m)
        PROVE  TypeOK'
    BY <2>1 DEF StartAttempt, mappingVars
  <2>2. ASSUME NEW a \in Attempts, EndWithoutVerdict(a)
        PROVE  TypeOK'
    BY <2>2 DEF EndWithoutVerdict, Finish, mappingVars
  <2>3. ASSUME NEW a \in Attempts, NEW immediate \in BOOLEAN,
               RecordFailure(a, immediate)
        PROVE  TypeOK'
    <3>1. attempt' \in [Attempts -> Mappings \cup {NoMapping}]
          /\ attempt[a] \in Mappings /\ models' \subseteq Models
      BY <2>3 DEF RecordFailure, Finish
    <3>2. CASE CountFailure
      BY <3>1, <3>2 DEF CountFailure, mappingVars
    <3>3. CASE OpenCircuit(attempt[a])
      BY <3>1, <3>3 DEF OpenCircuit, AddRecord, ResolveLevel, DurationOf, mappingVars
    <3>4. CASE DisableMapping(attempt[a])
      BY <3>1, <3>4 DEF DisableMapping, AddRecord, ResolveLevel
    <3>5. QED
      BY <2>3, <3>2, <3>3, <3>4 DEF RecordFailure
  <2>4. ASSUME NEW a \in Attempts, RecordRecovery(a)
        PROVE  TypeOK'
    BY <2>4 DEF RecordRecovery, Lowered, Finish, ResolveLevel, mappingVars
  <2>5. CASE Tick
    BY <2>5 DEF Tick, CircuitOpen, mappingVars
  <2>6. CASE ResetChannelCircuit
    BY <2>6 DEF ResetChannelCircuit
  <2>7. ASSUME NEW m \in Mappings, ReopenCircuitMapping(m)
        PROVE  TypeOK'
    BY <2>7 DEF ReopenCircuitMapping
  <2>8. ASSUME NEW request \in Requests, NEW fresh \in SUBSET Unused,
               ReplaceChannelModels(request, fresh)
        PROVE  TypeOK'
    BY <2>8 DEF ReplaceChannelModels, ReplaceMappings
  <2>9. ASSUME NEW request \in Requests, NEW fresh \in SUBSET Unused,
               NEW enable \in BOOLEAN,
               SaveChannelConfiguration(enable, request, fresh)
        PROVE  TypeOK'
    BY <2>9 DEF SaveChannelConfiguration, ReplaceMappings, EditedRow
  <2>10. ASSUME NEW x \in Models, DeleteModel(x)
         PROVE  TypeOK'
    BY <2>10 DEF DeleteModel, RemoveMappings
  <2>11. CASE DeleteChannel
    <3>1. channel' \in Rows
      BY <2>11 DEF DeleteChannel
    <3>2. pending' \in [Levels -> [Mappings -> Nat]]
      BY <2>11 DEF DeleteChannel
    <3>3. QED
      BY <3>1, <3>2, <2>11 DEF DeleteChannel, RemoveMappings
  <2>12. CASE UNCHANGED vars
    BY <2>12 DEF vars, mappingVars
  <2> HIDE DEF TypeOK, Rows, NoRow, QuietRow, SetCircuit, NoRecords, Live, Unused
  <2>13. QED
    BY <2>1, <2>2, <2>3, <2>4, <2>5, <2>6, <2>7, <2>8, <2>9, <2>10, <2>11,
       <2>12 DEF Next, RelayStep, AdminStep
<1>3. QED
  BY <1>1, <1>2, PTL DEF Spec

-----------------------------------------------------------------------------
(* What the handlers do to the two tables of counts.                       *)

LEMMA AddRecordCount ==
  ASSUME NEW p \in [Levels -> [Mappings -> Nat]],
         NEW l \in Levels, NEW m \in Mappings,
         NEW k \in Levels, NEW n \in Mappings
  PROVE  AddRecord(p, l, m)[k][n] =
           IF k = l /\ n = m THEN p[k][n] + 1 ELSE p[k][n]
BY DEF AddRecord

LEMMA ResolveLevelType ==
  ASSUME NEW p \in [Levels -> [Mappings -> Nat]], NEW l \in Closed .. Manual
  PROVE  ResolveLevel(p, l) \in [Levels -> [Mappings -> Nat]]
BY DEF ResolveLevel, NoRecords

LEMMA ResolveLevelCount ==
  ASSUME NEW p \in [Levels -> [Mappings -> Nat]], NEW l \in Closed .. Manual,
         NEW k \in Levels, NEW n \in Mappings
  PROVE  ResolveLevel(p, l)[k][n] = IF k = l THEN 0 ELSE p[k][n]
BY DEF ResolveLevel, NoRecords

(* The inductive invariant.  PendingMatchesLevel and ChannelRowConsistent  *)
(* are inductive given the types; the two clauses about mappings need each *)
(* other, since an edit of the mappings drops the records of those it      *)
(* reopens only if the disabled ones are known to be live.                 *)
BreakerInv ==
  /\ ChannelRowConsistent
  /\ PendingMatchesLevel
  /\ DisabledMappingReopenable
  /\ ManualRecordAccounted

LEMMA BreakerInit == Init => BreakerInv
<1> SUFFICES ASSUME Init
             PROVE  BreakerInv
  OBVIOUS
<1>1. ChannelRowConsistent
  <2>1. CASE channel = QuietRow(TRUE, TRUE, Closed)
    BY <2>1 DEF ChannelRowConsistent, RowConsistent, QuietRow
  <2>2. CASE channel = QuietRow(TRUE, FALSE, Manual)
    BY <2>2 DEF ChannelRowConsistent, RowConsistent, QuietRow
  <2>3. QED
    BY <2>1, <2>2 DEF Init
<1>2. \A l \in Levels, m \in Mappings : pending[l][m] = 0
  BY DEF Init, NoRecords
<1>3. PendingMatchesLevel /\ ManualRecordAccounted
  BY <1>2 DEF PendingMatchesLevel, ManualRecordAccounted
<1>4. DisabledMappingReopenable
  BY DEF Init, DisabledMappingReopenable
<1>5. QED
  BY <1>1, <1>3, <1>4 DEF BreakerInv

(* A verdict that reports a failure keeps the invariant, whichever of the  *)
(* three reactions it triggers.                                            *)
LEMMA FailureStep ==
  ASSUME TypeOK, BreakerInv,
         NEW a \in Attempts, NEW immediate \in BOOLEAN,
         RecordFailure(a, immediate)
  PROVE  BreakerInv'
<1>1. attempt[a] \in Mappings /\ UNCHANGED models /\ channel.level < Manual
  BY DEF TypeOK, RecordFailure, Finish
<1> DEFINE m == attempt[a]
           resolved == ResolveLevel(pending, channel.level)
<1>2. CASE ~Trips(immediate) /\ CountFailure
  BY <1>1, <1>2 DEF Trips, CountFailure, CircuitOpen, TypeOK, Rows, SetCircuit,
     BreakerInv, ChannelRowConsistent, RowConsistent, DurationOf,
     PendingMatchesLevel, DisabledMappingReopenable, ManualRecordAccounted,
     mappingVars, Live
<1>3. CASE Recordable(m) /\ OpenCircuit(m)
  <2> DEFINE target == channel.level + 1
  <2>1. /\ target \in {Temporary, Extended}
        /\ channel'.level = target
        /\ \A l \in Levels, n \in Mappings :
             pending'[l][n] = IF l = target /\ n = m THEN resolved[l][n] + 1
                                                     ELSE resolved[l][n]
    <3>1. /\ target \in {Temporary, Extended}
          /\ channel'.level = target
          /\ pending' = AddRecord(resolved, target, m)
      BY <1>3 DEF OpenCircuit, TypeOK, Rows, SetCircuit
    <3>2. resolved \in [Levels -> [Mappings -> Nat]]
      BY ResolveLevelType DEF TypeOK, Rows
    <3> HIDE DEF resolved, target, m
    <3>3. QED
      BY <1>1, <3>1, <3>2, AddRecordCount DEF m
  <2>2. \A l \in Levels, n \in Mappings :
          resolved[l][n] = IF l = channel.level THEN 0 ELSE pending[l][n]
    BY ResolveLevelCount DEF TypeOK, Rows
  <2>3. ChannelRowConsistent'
    BY <1>3, <2>1 DEF OpenCircuit, SetCircuit, ChannelRowConsistent,
       RowConsistent, DurationOf
  <2>4. PendingMatchesLevel'
    <3>1. \A l \in {Temporary, Extended}, n \in Mappings :
            resolved[l][n] = 0
      BY <2>1, <2>2 DEF BreakerInv, PendingMatchesLevel, TypeOK
    <3> HIDE DEF resolved, m
    <3>2. QED
      BY <2>1, <3>1 DEF PendingMatchesLevel
  <2>5. \A n \in Mappings : pending'[Manual][n] = pending[Manual][n]
    BY <1>1, <2>1, <2>2
  <2>6. DisabledMappingReopenable' /\ ManualRecordAccounted'
    BY <1>1, <1>3, <2>5 DEF OpenCircuit, BreakerInv, DisabledMappingReopenable,
       ManualRecordAccounted, mappingVars, Live
  <2>7. QED
    BY <2>3, <2>4, <2>6 DEF BreakerInv
<1>4. CASE Recordable(m) /\ DisableMapping(m)
  <2>1. \A l \in Levels, n \in Mappings :
          resolved[l][n] = IF l = channel.level THEN 0 ELSE pending[l][n]
    BY ResolveLevelCount DEF TypeOK, Rows
  <2>2. \A l \in Levels, n \in Mappings :
          pending'[l][n] = IF l = Manual /\ n = m THEN resolved[l][n] + 1
                                                  ELSE resolved[l][n]
    <3>1. pending' = AddRecord(resolved, Manual, m)
      BY <1>4 DEF DisableMapping
    <3>2. resolved \in [Levels -> [Mappings -> Nat]]
      BY ResolveLevelType DEF TypeOK, Rows
    <3> HIDE DEF resolved, m
    <3>3. QED
      BY <1>1, <3>1, <3>2, AddRecordCount DEF m
  <2>3. ChannelRowConsistent'
    BY <1>4 DEF DisableMapping, SetCircuit, ChannelRowConsistent, RowConsistent
  <2>4. PendingMatchesLevel'
    BY <1>4, <2>1, <2>2 DEF DisableMapping, BreakerInv, PendingMatchesLevel, TypeOK
  <2>5. DisabledMappingReopenable'
    <3>1. m \in Live /\ Live' = Live
      BY <1>4 DEF Recordable, DisableMapping, Live
    <3>2. \A n \in Mappings :
            /\ mappingEnabled'[n] => n # m /\ mappingEnabled[n]
            /\ circuitDisabled'[n] => n = m \/ circuitDisabled[n]
      BY <1>4 DEF DisableMapping, TypeOK
    <3>3. \A n \in Mappings :
            n = m \/ pending[Manual][n] > 0 => pending'[Manual][n] > 0
      BY <1>1, <1>4, <2>1, <2>2 DEF DisableMapping, TypeOK
    <3> HIDE DEF m
    <3>4. QED
      BY <3>1, <3>2, <3>3 DEF BreakerInv, DisabledMappingReopenable, TypeOK
  <2>6. ManualRecordAccounted'
    BY <1>1, <1>4, <2>1, <2>2 DEF DisableMapping, BreakerInv,
       ManualRecordAccounted, TypeOK
  <2>7. QED
    BY <2>3, <2>4, <2>5, <2>6 DEF BreakerInv
<1>5. QED
  BY <1>2, <1>3, <1>4 DEF RecordFailure

(* A verdict that reports a success steps the level down and resolves the  *)
(* level it leaves.                                                        *)
LEMMA RecoveryStep ==
  ASSUME TypeOK, BreakerInv, NEW a \in Attempts, RecordRecovery(a)
  PROVE  BreakerInv'
<1>1. ChannelRowConsistent'
  BY DEF RecordRecovery, SetCircuit, ChannelRowConsistent, RowConsistent
<1>2. \A l \in Levels, n \in Mappings :
        pending'[l][n] = IF l = channel.level THEN 0 ELSE pending[l][n]
  BY ResolveLevelCount DEF RecordRecovery, TypeOK, Rows
<1>3. PendingMatchesLevel'
  BY <1>2 DEF BreakerInv, PendingMatchesLevel
<1>4. channel.level # Manual
  BY DEF RecordRecovery, TypeOK, Rows
<1>5. DisabledMappingReopenable' /\ ManualRecordAccounted'
  BY <1>2, <1>4 DEF RecordRecovery, BreakerInv, DisabledMappingReopenable,
     ManualRecordAccounted, mappingVars, Live
<1>6. QED
  BY <1>1, <1>3, <1>5 DEF BreakerInv

(* An edit of the channel's mappings, with or without the channel itself.  *)
LEMMA ReplaceStep ==
  ASSUME TypeOK, BreakerInv, NEW request \in Requests,
         NEW fresh \in SUBSET Unused, ReplaceMappings(request, fresh),
         UNCHANGED models,
         channel' = channel \/ \E enable \in BOOLEAN : channel' = EditedRow(channel, enable)
  PROVE  BreakerInv'
<1>1. ChannelRowConsistent'
  BY DEF EditedRow, QuietRow, BreakerInv, ChannelRowConsistent, RowConsistent,
     TypeOK, Rows, DurationOf
<1>2. \/ channel'.level = channel.level
      \/ channel.level = Manual /\ channel'.level = Closed
  BY DEF EditedRow, QuietRow, TypeOK, Rows
<1>3. \A l \in {Temporary, Extended} : pending'[l] = pending[l]
  BY DEF ReplaceMappings, TypeOK
<1>4. PendingMatchesLevel'
  BY <1>2, <1>3 DEF BreakerInv, PendingMatchesLevel
<1>5. ASSUME NEW m \in Mappings, circuitDisabled[m]
      PROVE  m \in Live /\ ~mappingEnabled[m] /\ pending[Manual][m] > 0
  BY <1>5 DEF BreakerInv, DisabledMappingReopenable
<1>6. ASSUME NEW m \in Mappings, circuitDisabled'[m]
      PROVE  /\ m \in Live' /\ ~mappingEnabled'[m]
             /\ pending'[Manual][m] = pending[Manual][m]
             /\ circuitDisabled[m]
  <2>1. /\ m \in Live /\ ModelOf[m] \in DOMAIN request
        /\ circuitDisabled[m] /\ ~request[ModelOf[m]]
    BY <1>6 DEF ReplaceMappings
  <2>2. mappingState'[m] = "live"
    BY <2>1 DEF ReplaceMappings, Live
  <2>3. ~mappingEnabled'[m]
    BY <2>1 DEF ReplaceMappings
  <2>4. pending'[Manual][m] = pending[Manual][m]
    BY <2>1 DEF ReplaceMappings, TypeOK
  <2>5. QED
    BY <2>1, <2>2, <2>3, <2>4 DEF Live
<1>7. DisabledMappingReopenable'
  BY <1>5, <1>6 DEF DisabledMappingReopenable
<1>8. ASSUME NEW m \in Mappings, pending'[Manual][m] > 0, circuitDisabled[m]
      PROVE  circuitDisabled'[m]
  BY <1>5, <1>8 DEF ReplaceMappings, TypeOK
<1>9. ASSUME NEW m \in Mappings, pending'[Manual][m] > 0
      PROVE  pending[Manual][m] > 0
  BY <1>9 DEF ReplaceMappings, TypeOK
<1>10. ManualRecordAccounted'
  BY <1>8, <1>9 DEF BreakerInv, ManualRecordAccounted
<1>11. QED
  BY <1>1, <1>4, <1>7, <1>10 DEF BreakerInv

(* The remaining administrative handlers.                                  *)
LEMMA ResetStep ==
  ASSUME TypeOK, BreakerInv, ResetChannelCircuit
  PROVE  BreakerInv'
<1>1. ChannelRowConsistent'
  BY DEF ResetChannelCircuit, QuietRow, ChannelRowConsistent, RowConsistent
<1>2. \A l \in Levels, m \in Mappings : pending'[l][m] = 0
  BY DEF ResetChannelCircuit, NoRecords
<1>3. PendingMatchesLevel' /\ ManualRecordAccounted'
  BY <1>2 DEF PendingMatchesLevel, ManualRecordAccounted
<1>4. DisabledMappingReopenable'
  BY DEF ResetChannelCircuit, DisabledMappingReopenable
<1>5. QED
  BY <1>1, <1>3, <1>4 DEF BreakerInv

LEMMA ReopenStep ==
  ASSUME TypeOK, BreakerInv, NEW m \in Mappings, ReopenCircuitMapping(m)
  PROVE  BreakerInv'
<1>1. ChannelRowConsistent'
  BY DEF ReopenCircuitMapping, BreakerInv, ChannelRowConsistent, RowConsistent,
     DurationOf
<1>2. \A l \in Levels, n \in Mappings :
        pending'[l][n] = IF l = Manual /\ n = m THEN 0 ELSE pending[l][n]
  BY DEF ReopenCircuitMapping, TypeOK
<1>3. PendingMatchesLevel'
  BY <1>2 DEF ReopenCircuitMapping, BreakerInv, PendingMatchesLevel
<1>4. \A n \in Mappings :
        /\ circuitDisabled'[n] => n # m /\ circuitDisabled[n]
        /\ circuitDisabled[n] => n = m \/ circuitDisabled'[n]
        /\ mappingEnabled'[n] => n = m \/ mappingEnabled[n]
  BY DEF ReopenCircuitMapping, TypeOK
<1>5. DisabledMappingReopenable'
  BY <1>2, <1>4 DEF ReopenCircuitMapping, BreakerInv, DisabledMappingReopenable, Live
<1>6. ManualRecordAccounted'
  BY <1>2, <1>4 DEF ReopenCircuitMapping, BreakerInv, ManualRecordAccounted
<1>7. QED
  BY <1>1, <1>3, <1>5, <1>6 DEF BreakerInv

LEMMA RemovalStep ==
  ASSUME TypeOK, BreakerInv,
         DeleteChannel \/ \E x \in Models : DeleteModel(x)
  PROVE  BreakerInv'
<1>1. CASE DeleteChannel
  <2>1. ChannelRowConsistent'
    BY <1>1 DEF DeleteChannel, NoRow, QuietRow, ChannelRowConsistent, RowConsistent
  <2>2. \A l \in Levels, m \in Mappings : pending'[l][m] = 0
    BY <1>1 DEF DeleteChannel, NoRecords
  <2>3. \A m \in Mappings : ~circuitDisabled'[m]
    BY <1>1 DEF DeleteChannel, RemoveMappings, BreakerInv, DisabledMappingReopenable
  <2>4. QED
    BY <2>1, <2>2, <2>3 DEF BreakerInv, PendingMatchesLevel,
       DisabledMappingReopenable, ManualRecordAccounted
<1>2. ASSUME NEW x \in Models, DeleteModel(x)
      PROVE  BreakerInv'
  <2>1. ChannelRowConsistent' /\ PendingMatchesLevel'
    BY <1>2 DEF DeleteModel, BreakerInv, ChannelRowConsistent, RowConsistent,
       DurationOf, PendingMatchesLevel
  <2>2. \A m \in Mappings :
          /\ circuitDisabled'[m] => circuitDisabled[m] /\ mappingState'[m] = "live"
          /\ mappingEnabled'[m] => mappingEnabled[m]
          /\ circuitDisabled[m] => circuitDisabled'[m] \/ ModelOf[m] = x
    BY <1>2 DEF DeleteModel, RemoveMappings, Live, BreakerInv,
       DisabledMappingReopenable, TypeOK
  <2>3. DisabledMappingReopenable' /\ ManualRecordAccounted'
    BY <1>2, <2>2 DEF DeleteModel, BreakerInv, DisabledMappingReopenable,
       ManualRecordAccounted, Live
  <2>4. QED
    BY <2>1, <2>3 DEF BreakerInv
<1>3. QED
  BY <1>1, <1>2

(* The breaker's rows, flags and records agree in every reachable state.   *)
THEOREM BreakerSafety == Spec => []BreakerInv
<1>1. TypeOK /\ BreakerInv /\ [Next]_vars => BreakerInv'
  <2> SUFFICES ASSUME TypeOK, BreakerInv, [Next]_vars
               PROVE  BreakerInv'
    OBVIOUS
  <2>1. CASE UNCHANGED <<channel, mappingVars, models, pending>>
    BY <2>1 DEF mappingVars, BreakerInv, ChannelRowConsistent, RowConsistent,
       DurationOf, PendingMatchesLevel, DisabledMappingReopenable,
       ManualRecordAccounted, Live
  <2>2. CASE Tick
    BY <2>2 DEF Tick, CircuitOpen, mappingVars, BreakerInv, ChannelRowConsistent,
       RowConsistent, DurationOf, PendingMatchesLevel,
       DisabledMappingReopenable, ManualRecordAccounted, Live, TypeOK, Rows
  <2>3. ASSUME NEW a \in Attempts, NEW immediate \in BOOLEAN,
               RecordFailure(a, immediate)
        PROVE  BreakerInv'
    BY <2>3, FailureStep
  <2>4. ASSUME NEW a \in Attempts, RecordRecovery(a)
        PROVE  BreakerInv'
    BY <2>4, RecoveryStep
  <2>5. CASE ResetChannelCircuit
    BY <2>5, ResetStep
  <2>6. ASSUME NEW m \in Mappings, ReopenCircuitMapping(m)
        PROVE  BreakerInv'
    BY <2>6, ReopenStep
  <2>7. ASSUME NEW request \in Requests, NEW fresh \in SUBSET Unused,
               \/ ReplaceChannelModels(request, fresh)
               \/ \E enable \in BOOLEAN :
                    SaveChannelConfiguration(enable, request, fresh)
        PROVE  BreakerInv'
    BY <2>7, ReplaceStep DEF ReplaceChannelModels, SaveChannelConfiguration
  <2>8. CASE DeleteChannel \/ \E x \in Models : DeleteModel(x)
    BY <2>8, RemovalStep
  <2>9. QED
    BY <2>1, <2>2, <2>3, <2>4, <2>5, <2>6, <2>7, <2>8
       DEF Next, RelayStep, AdminStep, StartAttempt, EndWithoutVerdict, vars,
           mappingVars
<1>2. QED
  BY <1>1, BreakerInit, TypeCorrect, PTL DEF Spec

(* A mapping the breaker disabled stays out of routing and reopenable.     *)
THEOREM DisabledStaysReopenable == Spec => []DisabledMappingReopenable
BY BreakerSafety, PTL DEF BreakerInv

(* The level, the deadline and the failure counter of the row agree.       *)
THEOREM RowStaysConsistent == Spec => []ChannelRowConsistent
BY BreakerSafety, PTL DEF BreakerInv

(* A temporary or extended record is pending only at its level.            *)
THEOREM RecordsFollowLevel == Spec => []PendingMatchesLevel
BY BreakerSafety, PTL DEF BreakerInv

(* A pending level-three record has its mapping, or its model is gone.     *)
THEOREM ManualRecordsAccounted == Spec => []ManualRecordAccounted
BY BreakerSafety, PTL DEF BreakerInv

-----------------------------------------------------------------------------
(* The circuit moves one level at a time in every behaviour: a relay       *)
(* verdict changes the level by at most one or takes the mapping out.      *)
THEOREM EscalationInOrder == Spec => LevelMovesOneStep
<1> DEFINE Step ==
      \/ channel'.level - channel.level \in {-1, 0, 1}
      \/ /\ channel.level = Extended /\ channel'.level = Closed
         /\ \E m \in Mappings : pending'[Manual][m] > pending[Manual][m]
      \/ /\ attempt' = attempt
         /\ channel'.level = Closed /\ channel'.failures = 0
         /\ channel.level < Manual => \A l \in Levels : pending'[l] = NoRecords
<1>1. TypeOK /\ Next => Step
  <2> SUFFICES ASSUME TypeOK, Next
               PROVE  Step
    OBVIOUS
  <2>1. channel.level \in Closed .. Manual
    BY DEF TypeOK, Rows
  <2>2. CASE channel'.level = channel.level
    BY <2>1, <2>2
  <2>3. ASSUME NEW a \in Attempts, NEW immediate \in BOOLEAN,
               RecordFailure(a, immediate)
        PROVE  Step
    <3>1. attempt[a] \in Mappings
      BY <2>3 DEF TypeOK, RecordFailure, Finish
    <3>2. CASE CountFailure
      BY <2>2, <3>2 DEF CountFailure, SetCircuit
    <3>3. CASE OpenCircuit(attempt[a])
      BY <2>1, <3>3 DEF OpenCircuit, SetCircuit
    <3>4. CASE DisableMapping(attempt[a])
      <4> DEFINE resolved == ResolveLevel(pending, channel.level)
      <4>1. pending' = AddRecord(resolved, Manual, attempt[a]) /\ channel.level = Extended
        BY <3>4 DEF DisableMapping
      <4>2. /\ resolved \in [Levels -> [Mappings -> Nat]]
            /\ resolved[Manual][attempt[a]] = pending[Manual][attempt[a]]
        BY <2>1, <3>1, <4>1, ResolveLevelType, ResolveLevelCount DEF TypeOK
      <4>3. pending'[Manual][attempt[a]] = resolved[Manual][attempt[a]] + 1
        <5> HIDE DEF resolved
        <5>1. QED
          BY <3>1, <4>1, <4>2, AddRecordCount
      <4>4. pending'[Manual][attempt[a]] > pending[Manual][attempt[a]]
        BY <3>1, <4>2, <4>3 DEF TypeOK
      <4>5. QED
        BY <3>1, <3>4, <4>4 DEF DisableMapping, SetCircuit
    <3>5. QED
      BY <2>3, <3>2, <3>3, <3>4 DEF RecordFailure
  <2>4. ASSUME NEW a \in Attempts, RecordRecovery(a)
        PROVE  Step
    BY <2>1, <2>4 DEF RecordRecovery, Lowered, SetCircuit
  <2>5. CASE Tick
    BY <2>2, <2>5 DEF Tick, TypeOK, Rows
  <2>6. CASE ResetChannelCircuit \/ DeleteChannel
    BY <2>6 DEF ResetChannelCircuit, DeleteChannel, NoRow, QuietRow
  <2>7. ASSUME NEW request \in Requests, NEW fresh \in SUBSET Unused,
               NEW enable \in BOOLEAN,
               SaveChannelConfiguration(enable, request, fresh)
        PROVE  Step
    BY <2>1, <2>2, <2>7 DEF SaveChannelConfiguration, EditedRow, QuietRow, TypeOK, Rows
  <2>8. QED
    BY <2>2, <2>3, <2>4, <2>5, <2>6, <2>7
       DEF Next, RelayStep, AdminStep, StartAttempt, EndWithoutVerdict,
           ReopenCircuitMapping, ReplaceChannelModels, DeleteModel
<1>2. TypeOK /\ [Next]_vars => [Step]_vars
  BY <1>1
<1>3. QED
  BY <1>2, TypeCorrect, PTL DEF Spec, LevelMovesOneStep

(* Failures that arrive while the circuit is open never extend it.         *)
THEOREM NoLateExtension == Spec => DeadlineOnlyWithEscalation
<1> DEFINE Step == channel'.openFor > 0 /\ channel'.openFor > channel.openFor =>
                     channel'.level = channel.level + 1
<1>1. TypeOK /\ Next => Step
  <2> SUFFICES ASSUME TypeOK, Next
               PROVE  Step
    OBVIOUS
  <2>1. channel.openFor \in Int
    BY DEF TypeOK, Rows
  <2>2. CASE channel'.openFor \in {channel.openFor, channel.openFor - 1, NoDeadline}
    BY <2>1, <2>2
  <2>3. ASSUME NEW a \in Attempts, NEW immediate \in BOOLEAN,
               RecordFailure(a, immediate)
        PROVE  Step
    BY <2>2, <2>3 DEF RecordFailure, CountFailure, OpenCircuit, DisableMapping, SetCircuit
  <2>4. ASSUME NEW a \in Attempts, RecordRecovery(a)
        PROVE  Step
    BY <2>2, <2>4 DEF RecordRecovery, Lowered, SetCircuit
  <2>5. CASE Tick
    BY <2>2, <2>5 DEF Tick, TypeOK, Rows
  <2>6. CASE ResetChannelCircuit \/ DeleteChannel
    BY <2>2, <2>6 DEF ResetChannelCircuit, DeleteChannel, NoRow, QuietRow
  <2>7. ASSUME NEW request \in Requests, NEW fresh \in SUBSET Unused,
               NEW enable \in BOOLEAN,
               SaveChannelConfiguration(enable, request, fresh)
        PROVE  Step
    BY <2>2, <2>7 DEF SaveChannelConfiguration, EditedRow, QuietRow, TypeOK, Rows
  <2>8. QED
    BY <2>2, <2>3, <2>4, <2>5, <2>6, <2>7
       DEF Next, RelayStep, AdminStep, StartAttempt, EndWithoutVerdict,
           ReopenCircuitMapping, ReplaceChannelModels, DeleteModel
<1>2. TypeOK /\ [Next]_vars => [Step]_vars
  BY <1>1
<1>3. QED
  BY <1>2, TypeCorrect, PTL DEF Spec, DeadlineOnlyWithEscalation

(* No verdict of the relay puts a mapping back in routing: the steps that  *)
(* end or start an attempt only ever disable one.                          *)
THEOREM OnlyAdministratorsReopen == Spec => RelayNeverReopens
<1> DEFINE Step == attempt' # attempt =>
                     \A m \in Mappings : /\ circuitDisabled[m] => circuitDisabled'[m]
                                         /\ mappingEnabled'[m] => mappingEnabled[m]
<1>1. TypeOK /\ Next => Step
  <2> SUFFICES ASSUME TypeOK, Next
               PROVE  Step
    OBVIOUS
  <2>1. CASE UNCHANGED mappingVars
    BY <2>1 DEF mappingVars
  <2>2. ASSUME NEW m \in Mappings, DisableMapping(m)
        PROVE  Step
    BY <2>2 DEF DisableMapping, TypeOK
  <2>3. ASSUME NEW a \in Attempts, NEW immediate \in BOOLEAN,
               RecordFailure(a, immediate)
        PROVE  Step
    <3>1. attempt[a] \in Mappings
      BY <2>3 DEF TypeOK, RecordFailure, Finish
    <3>2. QED
      BY <2>1, <2>2, <2>3, <3>1 DEF RecordFailure, CountFailure, OpenCircuit
  <2>4. CASE AdminStep
    BY <2>4 DEF AdminStep, ResetChannelCircuit, ReopenCircuitMapping,
                ReplaceChannelModels, SaveChannelConfiguration, DeleteModel, DeleteChannel
  <2>5. QED
    BY <2>1, <2>3, <2>4
       DEF Next, RelayStep, StartAttempt, EndWithoutVerdict, RecordRecovery, Tick
<1>2. TypeOK /\ [Next]_vars => [Step]_vars
  BY <1>1
<1>3. QED
  BY <1>2, TypeCorrect, PTL DEF Spec, RelayNeverReopens
=============================================================================
