----------------------------- MODULE ChannelEdit -----------------------------
(***************************************************************************)
(* The circuit breaker together with UpdateChannel.                        *)
(*                                                                         *)
(* UpdateChannel loads the whole channels row, edits it and saves every    *)
(* column, outside any transaction and without the per-channel mutex.      *)
(* Between its two statements the relay may record verdicts, and an        *)
(* administrator may reset, reopen, replace or delete; the save then       *)
(* writes back the circuit columns as they were read.                      *)
(***************************************************************************)
EXTENDS ChannelCircuit

CONSTANT MaxEdits   \* bound of the model: calls of UpdateChannel

VARIABLES
  edit,       \* the row a running UpdateChannel has read, or NoRow
  editsLeft   \* calls still to come

editVars == <<vars, edit, editsLeft>>

\* A stored deadline is absolute: it comes nearer in a copy as in the row.
Aged(row) == [row EXCEPT !.openFor = IF @ > 0 THEN @ - 1 ELSE @]

-----------------------------------------------------------------------------
BeginEdit ==
  /\ ~edit.exists
  /\ editsLeft > 0
  /\ editsLeft' = editsLeft - 1
  /\ channel.exists
  /\ edit' = channel
  /\ UNCHANGED vars

\* The save of a row deleted meanwhile inserts it anew, and the insert gives
\* a column holding its zero value the default of the schema: enabled.
Inserted(row) == [row EXCEPT !.enabled = TRUE]

CommitEdit(enable) ==
  /\ edit.exists
  /\ edit' = NoRow
  /\ channel' = IF channel.exists THEN EditedRow(edit, enable)
                                 ELSE Inserted(EditedRow(edit, enable))
  /\ UNCHANGED <<mappingVars, models, pending, attempt, editsLeft>>

EditTick ==
  /\ CircuitOpen \/ edit.openFor > 0
  /\ channel' = Aged(channel)
  /\ edit' = Aged(edit)
  /\ UNCHANGED <<mappingVars, models, pending, attempt, editsLeft>>

EditInit == Init /\ edit = NoRow /\ editsLeft = MaxEdits

EditNext ==
  \/ (RelayStep \/ AdminStep) /\ UNCHANGED <<edit, editsLeft>>
  \/ BeginEdit
  \/ \E enable \in BOOLEAN : CommitEdit(enable)
  \/ EditTick

EditSpec == EditInit /\ [][EditNext]_editVars

\* The wall clock advances whatever the gateway does; no handler has to run.
FairEditSpec == EditSpec /\ WF_editVars(EditTick)

-----------------------------------------------------------------------------
(* Properties. *)

\* A circuit does not stay open for ever, whatever stale rows are saved: an
\* old deadline that comes back has aged with the clock, no attempt starts
\* while the circuit is open, and those in flight are finitely many.
CircuitEventuallyElapses == CircuitOpen ~> ~CircuitOpen
=============================================================================
