----------------------------- MODULE SessionLog -----------------------------
(***************************************************************************)
(* The sessions of one token as the request log records them: the rows of  *)
(* relay_request_logs and relay_session_states that recordRequestStarted   *)
(* and recordRequest write, with what else writes them - renames, the      *)
(* daily cleanup, the manual deletion and the one-off backfill of an       *)
(* upgraded database.                                                      *)
(*                                                                         *)
(* An agent's turn is a main request; beside it the client may send a      *)
(* title request under a session key of its own, whose row is to be moved  *)
(* into the main session, and a guardian request, whose key names the      *)
(* session it belongs to.  Every transaction is one action.  Bodies are    *)
(* PayloadLog's subject.                                                   *)
(***************************************************************************)
EXTENDS Naturals, FiniteSets, Sequences

CONSTANTS
  Requests,     \* requests relayed for the token
  Kind,         \* of a request: "main", "title", "guardian" or "compaction"
  Key,          \* the session key the client sends with a request
  Sessions,     \* session ids
  Canonical,    \* the session a key names; a guardian's key names its parent
  SamePrompt,   \* pairs <<title request, main request>> of one prompt, begun together
  Slow,         \* requests longer than codexTitleStartTolerance: created_at is their
                \* start, and the matching subtracts their duration from it once more
  Structured,   \* other requests that ask for a JSON schema
  CreatedAt,    \* created_at of a request's row; one moment is one request's
  StartTolerance, MatchWindow,    \* codexTitleStartTolerance and codexTitleMatchWindow
  CandidateLimit, BackfillLimit,  \* rows a recording and the backfill look at
  TitleOrder,   \* the title requests by created_at
  Histories,    \* sets of requests that an older version has recorded
  None,         \* no row, no state
  MaxRenames, MaxAge  \* bounds of the model

Titles    == {"", "named", "generated", "chosen"}
Outcomes  == {"processing", "success", "failed"}
Sources   == {"key", "title", "guardian"}
Row       == [outcome : Outcomes, session : Sessions, source : Sources, name : Titles, created : 0..MaxAge]
State     == [title : Titles, custom : BOOLEAN, compactions : Nat, updated : 0..MaxAge]

ASSUME KindAssumption == Kind \in [Requests -> {"main", "title", "guardian", "compaction"}]
ASSUME KeyAssumption  == /\ Key \in [Requests -> Sessions]
                         /\ Canonical \in [Sessions -> Sessions]
                         /\ \A s \in Sessions : Canonical[Canonical[s]] = Canonical[s]
ASSUME PairAssumption == SamePrompt \subseteq Requests \X Requests
ASSUME CreatedAssumption == /\ CreatedAt \in [Requests -> Nat]
                            /\ \A r, q \in Requests : CreatedAt[r] = CreatedAt[q] => r = q
                            /\ CandidateLimit \in Nat \ {0} /\ BackfillLimit \in Nat \ {0}
\* A guardian's review is too short to be compacted: the backfill, which moves a guardian's
\* row and not its count, meets no compaction.
\* What is inherited came first; a guardian's place does not matter, no lookup reads its row.
ASSUME HistoryAssumption == /\ Histories \subseteq SUBSET Requests
                            /\ \A old \in Histories : \A r \in old :
                                 /\ Kind[r] = "compaction" => Canonical[Key[r]] = Key[r]
                                 /\ \A q \in Requests \ old :
                                      Canonical[Key[q]] = Key[q] => CreatedAt[r] < CreatedAt[q]
\* A client asks for titles in sessions of their own: what is under the key of one that may
\* move to another session is no compaction.
ASSUME TitleAssumption == \A t, m, c \in Requests :
  (/\ Kind[t] = "title" /\ <<t, m>> \in SamePrompt /\ Key[t] # Key[m]
   /\ Kind[c] = "compaction") => Canonical[Key[c]] # Canonical[Key[t]]
ASSUME OrderAssumption == /\ TitleOrder \in Seq({t \in Requests : Kind[t] = "title"})
                          /\ \A t \in Requests : Kind[t] = "title" =>
                               \E i \in DOMAIN TitleOrder : TitleOrder[i] = t
ASSUME NoneAssumption == /\ None \notin Row /\ None \notin State
ASSUME BoundAssumption == IsFiniteSet(Requests) /\ MaxRenames \in Nat /\ MaxAge \in Nat

VARIABLES
  row,       \* relay_request_logs
  state,     \* relay_session_states
  stage,     \* of each request: "new", "running" or "over"
  today,     \* age of the data: what is older than today has expired
  serving,   \* the process has started up
  upgraded,  \* the row codex_auxiliary_sessions_v3 of gateway_migrations
  sweeping,  \* cleanupExpired is between its deletion of rows and of states
  renames,   \* bound
  settled    \* history: main requests recorded before each title request was

vars == <<row, state, stage, today, serving, upgraded, sweeping, renames, settled>>

-----------------------------------------------------------------------------
Auxiliary == {"title", "guardian"}

Rows(db, s)     == {r \in Requests : db.row[r] # None /\ db.row[r].session = s}
Succeeded(db)   == {r \in Requests : db.row[r] # None /\ db.row[r].outcome = "success"}
IsTitle(r)      == Kind[r] = "title"
\* Mutant: a guardian keeps the session of its key.
SessionOfKey(r)  == Key[r]

SessionOf(r)    == Canonical[Key[r]]
SourceOf(r)     == IF Canonical[Key[r]] # Key[r] THEN "guardian" ELSE "key"
NameOf(r)       == IF IsTitle(r) THEN "" ELSE "named"
Fresh(title)    == [title |-> title, custom |-> FALSE, compactions |-> 0, updated |-> today]
Finished(r)     == row[r] # None /\ row[r].outcome # "processing"
Matches(t, m)   == <<t, m>> \in SamePrompt

\* The rows a lookup reads: those of a span of time, of which it takes the first n.
Within(r, q) == /\ CreatedAt[r] <= CreatedAt[q] + StartTolerance
                /\ CreatedAt[q] <= CreatedAt[r] + MatchWindow
Around(r, q) == /\ CreatedAt[r] <= CreatedAt[q] + MatchWindow
                /\ CreatedAt[q] <= CreatedAt[r] + MatchWindow
Newest(S, n) == {r \in S : Cardinality({q \in S : CreatedAt[q] > CreatedAt[r]}) < n}
Oldest(S, n) == {r \in S : Cardinality({q \in S : CreatedAt[q] < CreatedAt[r]}) < n}

-----------------------------------------------------------------------------
(***************************************************************************)
(* The pieces of the recording transaction, on a record of the two tables. *)
(***************************************************************************)
db0 == [row |-> row, state |-> state]

\* The title request t becomes a row of session s; its own session's state goes,
\* and a title the user gave that session goes with the request.
MergedTitle(db, t) ==
  LET old == db.state[db.row[t].session] IN
  IF old # None /\ old.custom THEN old.title ELSE "generated"

MergeTitle(db, t, s) ==
  [row   |-> [db.row EXCEPT ![t].session = s, ![t].source = "title",
                            ![t].name = MergedTitle(db, t)],
   state |-> [db.state EXCEPT ![db.row[t].session] = None]]

\* Mutant: a title the user chose is overwritten.
ApplyTitleAlways(db, s, title) ==
  IF db.state[s] = None THEN [db EXCEPT !.state[s] = Fresh(title)]
                        ELSE [db EXCEPT !.state[s].title = title, !.state[s].updated = today]

ApplyTitle(db, s, title) ==
  LET st == db.state[s] IN
  CASE st = None             -> [db EXCEPT !.state[s] = Fresh(title)]
    [] st # None /\ st.custom -> db
    [] OTHER -> [db EXCEPT !.state[s].title = title, !.state[s].updated = today]

\* A finished title request whose session a first main request of s takes over: the
\* latest that matches among the latest that ask for a JSON schema.
TitleCandidates(db, m) ==
  {t \in Succeeded(db) : /\ IsTitle(t) \/ t \in Structured
                         /\ db.row[t].source = "key" /\ db.row[t].session # SessionOf(m)
                         /\ Within(m, t)}

Preceding(db, m) ==
  IF SourceOf(m) # "key"
       \/ \E r \in Rows(db, SessionOf(m)) : db.row[r].source \notin Auxiliary
  THEN {}
  ELSE Newest({t \in Newest(TitleCandidates(db, m), CandidateLimit) :
                 /\ IsTitle(t) /\ Matches(t, m) /\ t \notin Slow
                 /\ Cardinality(Rows(db, db.row[t].session)) = 1}, 1)

\* A finished main request whose session takes over the title request t: the latest
\* that matches among the latest of other sessions.
MainCandidates(db, t) ==
  {m \in Succeeded(db) : /\ ~IsTitle(m) /\ Within(t, m)
                         /\ db.row[m].source = "key" /\ db.row[m].session # db.row[t].session}

\* Mutant: only the session's first request is looked at, as in Preceding.
FollowingFirst(db, t) ==
  {m \in MainCandidates(db, t) :
     /\ IsTitle(t) /\ db.row[t].outcome = "success" /\ Matches(t, m) /\ m \notin Slow
     /\ Cardinality(Rows(db, db.row[m].session)) = 1}

Following(db, t) ==
  IF ~IsTitle(t) \/ db.row[t].outcome # "success" \/ db.row[t].source # "key"
  THEN {}
  ELSE Newest({m \in Newest(MainCandidates(db, t), CandidateLimit) : Matches(t, m) /\ m \notin Slow}, 1)

\* Mutant: the state is written anew.
TouchSessionAnew(db, s, title) == [db EXCEPT !.state[s] = Fresh(title)]

\* compactSessionPayload: only a session without a title takes the request's.
TouchSession(db, s, title) ==
  LET st == db.state[s] IN
  IF st = None
  THEN [db EXCEPT !.state[s] = Fresh(title)]
  ELSE [db EXCEPT !.state[s].updated = today,
                  !.state[s].title = IF ~st.custom /\ @ = "" THEN title ELSE @]

SaveRow(db, r, outcome, name) ==
  [db EXCEPT !.row[r] = [outcome |-> outcome, session |-> SessionOf(r), source |-> SourceOf(r),
                         name |-> name, created |-> today]]

CountCompaction(db, r, outcome) ==
  LET repeated == row[r] # None /\ row[r].outcome = "success" IN
  IF Kind[r] = "compaction" /\ outcome = "success" /\ ~repeated
  THEN [db EXCEPT !.state[db.row[r].session].compactions = @ + 1]
  ELSE db

-----------------------------------------------------------------------------
(***************************************************************************)
(* Recording a request.                                                    *)
(***************************************************************************)
\* The row of a request that begins; a failed write is only traced.
RecordStarted(r) ==
  /\ serving /\ stage[r] = "new"
  /\ stage' = [stage EXCEPT ![r] = "running"]
  /\ \/ row' = [row EXCEPT ![r] = [outcome |-> "processing", session |-> Key[r], source |-> "key",
                                   name |-> "", created |-> today]]
     \/ UNCHANGED row
  /\ UNCHANGED <<state, today, serving, upgraded, sweeping, renames, settled>>

Recorded(db, r, outcome, title) ==
  LET touched == TouchSession(db, SessionOf(r), title)
      saved   == SaveRow(touched, r, outcome, title)
  IN  IF Following(saved, r) = {}
      THEN {CountCompaction(saved, r, outcome)}
      ELSE {CountCompaction(
              ApplyTitle(MergeTitle(saved, r, saved.row[m].session), saved.row[m].session,
                         MergedTitle(saved, r)), r, outcome)
              : m \in Following(saved, r)}

RecordRequest(r, outcome) ==
  /\ serving /\ stage[r] = "running"
  /\ stage' = [stage EXCEPT ![r] = "over"]
  /\ settled' = [settled EXCEPT ![r] = Succeeded(db0)]
  /\ \E db \in IF Preceding(db0, r) = {}
               THEN Recorded(db0, r, outcome, NameOf(r))
               ELSE UNION {Recorded(MergeTitle(db0, t, SessionOf(r)), r, outcome, MergedTitle(db0, t))
                             : t \in Preceding(db0, r)} :
       row' = db.row /\ state' = db.state
  /\ UNCHANGED <<today, serving, upgraded, sweeping, renames>>

\* The transaction fails; the error is traced and the client answered all the same.
RecordLost(r) ==
  /\ serving /\ stage[r] = "running"
  /\ stage' = [stage EXCEPT ![r] = "over"]
  /\ UNCHANGED <<row, state, today, serving, upgraded, sweeping, renames, settled>>

-----------------------------------------------------------------------------
(***************************************************************************)
(* What else writes the two tables.                                        *)
(***************************************************************************)
RenameSession(s) ==
  /\ serving /\ renames < MaxRenames
  /\ \E r \in Rows(db0, s) : row[r].created >= today
  /\ state' = [state EXCEPT ![s] =
                 [(IF @ = None THEN Fresh("") ELSE @) EXCEPT
                    !.title = "chosen", !.custom = TRUE, !.updated = today]]
  /\ row' = [r \in Requests |-> IF r \in Rows(db0, s) THEN [row[r] EXCEPT !.name = "chosen"] ELSE row[r]]
  /\ renames' = renames + 1
  /\ UNCHANGED <<stage, today, serving, upgraded, sweeping, settled>>

UnexpiredRows(db)   == [r \in Requests |-> IF db.row[r] # None /\ db.row[r].created < today
                                          THEN None ELSE db.row[r]]
UnexpiredStates(db) == [s \in Sessions |-> IF db.state[s] # None /\ db.state[s].updated < today
                                          THEN None ELSE db.state[s]]

DeleteHistoricalLogsBefore ==
  /\ serving
  /\ row' = UnexpiredRows(db0)
  /\ state' = [s \in Sessions |->
                 IF \E r \in Requests : row'[r] # None /\ row'[r].session = s THEN state[s] ELSE None]
  /\ UNCHANGED <<stage, today, serving, upgraded, sweeping, renames, settled>>

\* cleanupExpired is no transaction: requests are recorded between its statements.
CleanupRows ==
  /\ serving /\ ~sweeping
  /\ row' = UnexpiredRows(db0)
  /\ sweeping' = TRUE
  /\ UNCHANGED <<state, stage, today, serving, upgraded, renames, settled>>

CleanupStates ==
  /\ serving /\ sweeping
  /\ state' = UnexpiredStates(db0)
  /\ sweeping' = FALSE
  /\ UNCHANGED <<row, stage, today, serving, upgraded, renames, settled>>

\* The upgrade's backfill, in one transaction: guardians first, then each title.
\* An older version stored the end of a request as created_at, so that the start it
\* computes is right however long the request ran.  The start-up ends with a cleanup
\* that nothing runs beside.
BackfillGuardians(db) ==
  [db EXCEPT !.row = [r \in Requests |->
     IF db.row[r] # None /\ db.row[r].created >= today /\ Canonical[db.row[r].session] # db.row[r].session
     THEN [db.row[r] EXCEPT !.session = Canonical[db.row[r].session], !.source = "guardian"]
     ELSE db.row[r]]]

BackfillCandidates(db, t) ==
  {m \in Requests : /\ db.row[m] # None /\ db.row[m].source = "key" /\ Around(t, m)
                    /\ db.row[m].session # db.row[t].session}

BackfillTitle(db, t) ==
  LET mains == {m \in Oldest(BackfillCandidates(db, t), BackfillLimit) : Matches(t, m)}
      s == db.row[CHOOSE m \in Oldest(mains, 1) : TRUE].session
  IN  IF t \in Succeeded(db) /\ db.row[t].source = "key" /\ db.row[t].created >= today /\ mains # {}
      THEN ApplyTitle(MergeTitle(db, t, s), s, MergedTitle(db, t))
      ELSE db

\* The first n title requests are done.
Backfilled[n \in 0..Len(TitleOrder)] ==
  IF n = 0 THEN BackfillGuardians(db0) ELSE BackfillTitle(Backfilled[n - 1], TitleOrder[n])

StartUp ==
  /\ ~serving /\ serving' = TRUE
  /\ LET db == IF upgraded THEN db0 ELSE Backfilled[Len(TitleOrder)]
     IN  row' = UnexpiredRows(db) /\ state' = UnexpiredStates(db)
  /\ upgraded' = TRUE
  /\ UNCHANGED <<stage, today, sweeping, renames, settled>>

\* The process dies: what it was relaying is never recorded.
Crash ==
  /\ serving /\ serving' = FALSE
  /\ stage' = [r \in Requests |-> IF stage[r] = "running" THEN "over" ELSE stage[r]]
  /\ sweeping' = FALSE
  /\ UNCHANGED <<row, state, today, upgraded, renames, settled>>

\* Everything recorded so far passes the retention limit.  That takes days and a
\* request minutes: none is running, and none whose pair was sent is still to come.
GrowOld ==
  /\ ~sweeping /\ today < MaxAge /\ today' = today + 1
  /\ \A r \in Requests : stage[r] # "running"
  /\ stage' = [r \in Requests |->
                 IF \E q \in Requests : stage[q] = "over" /\ (Matches(q, r) \/ Matches(r, q))
                 THEN "over" ELSE stage[r]]
  /\ UNCHANGED <<row, state, serving, upgraded, sweeping, renames, settled>>

-----------------------------------------------------------------------------
\* A database of an older version, whose requests were recorded under the keys sent.
Inherited(old) ==
  /\ row = [r \in Requests |->
              IF r \in old THEN [outcome |-> "success", session |-> Key[r], source |-> "key",
                                 name |-> NameOf(r), created |-> today] ELSE None]
  /\ state = [s \in Sessions |->
                IF \E r \in old : Key[r] = s
                THEN [Fresh(IF \E r \in old : Key[r] = s /\ ~IsTitle(r) THEN "named" ELSE "")
                        EXCEPT !.compactions = Cardinality({r \in old : Key[r] = s /\ Kind[r] = "compaction"})]
                ELSE None]
  /\ stage = [r \in Requests |-> IF r \in old THEN "over" ELSE "new"]
  /\ settled = [r \in Requests |-> IF r \in old THEN old ELSE {}]

Init ==
  /\ today = 0 /\ serving = FALSE /\ upgraded = FALSE /\ sweeping = FALSE /\ renames = 0
  /\ \E old \in Histories : Inherited(old)

Next ==
  \/ \E r \in Requests : \/ RecordStarted(r) \/ RecordLost(r)
                         \/ \E outcome \in {"success", "failed"} : RecordRequest(r, outcome)
  \/ \E s \in Sessions : RenameSession(s)
  \/ DeleteHistoricalLogsBefore \/ CleanupRows \/ CleanupStates
  \/ StartUp \/ Crash \/ GrowOld

Spec == Init /\ [][Next]_vars

-----------------------------------------------------------------------------
TypeOK ==
  /\ row \in [Requests -> Row \cup {None}] /\ state \in [Sessions -> State \cup {None}]
  /\ stage \in [Requests -> {"new", "running", "over"}]
  /\ today \in 0..MaxAge /\ renames \in 0..MaxRenames
  /\ serving \in BOOLEAN /\ upgraded \in BOOLEAN /\ sweeping \in BOOLEAN
  /\ settled \in [Requests -> SUBSET Requests]

\* What the code brings together: a title request and a request of another session, neither
\* under a guardian's key.
Paired(t, m) == /\ IsTitle(t) /\ ~IsTitle(m) /\ Matches(t, m)
                /\ SourceOf(t) = "key" /\ SourceOf(m) = "key" /\ SessionOf(t) # SessionOf(m)

\* The lookup of the title request t, which could see the requests seen, reads the row of m:
\* it is in the span, and too few of the others come before it.  An inherited request, for
\* which the backfill looks, is itself among the seen.
InReach(seen, t, m) ==
  IF t \in seen
  THEN /\ Around(t, m)
       /\ Cardinality({q \in seen : Around(t, q) /\ CreatedAt[q] < CreatedAt[m]}) < BackfillLimit
  ELSE /\ Within(t, m)
       /\ Cardinality({q \in seen : /\ Within(t, q) /\ ~IsTitle(q)
                                    /\ CreatedAt[q] > CreatedAt[m]}) < CandidateLimit

\* A title request recorded after a main request of its prompt has succeeded, or
\* inherited beside one, is found in that session, whatever the user, a cleanup or a
\* crash does meanwhile - unless more requests came between than its lookup reads.
LateTitleMerged ==
  \A t, m \in Requests :
    (/\ serving /\ Paired(t, m) /\ m \in settled[t] \ Slow /\ InReach(settled[t], t, m)
     /\ t \in Succeeded(db0) /\ m \in Succeeded(db0))
      => row[t].source = "title"

\* A title the user chose is never replaced: only an expiry, a deletion or the merge
\* of the session takes it away.
ChosenTitleKept ==
  [][\A s \in Sessions :
       (state[s] # None /\ state'[s] # None /\ state[s].custom)
         => state'[s].custom /\ state'[s].title = "chosen"]_vars

\* A session counts every successful compaction the log still shows for it, although
\* cleanups, merges and crashes delete rows and states separately.
CompactionsCounted ==
  \A s \in Sessions :
    LET shown == {r \in Rows(db0, s) : Kind[r] = "compaction" /\ row[r].outcome = "success"}
    IN  shown # {} => state[s] # None /\ state[s].compactions >= Cardinality(shown)

\* After the start-up no recorded guardian request stands in a session of its own.
GuardianInParent ==
  \A r \in Requests : (serving /\ Finished(r) /\ Kind[r] = "guardian") => row[r].session = Canonical[Key[r]]

\* What accompanies a session's turns is found in the session.
AuxiliariesMerged == LateTitleMerged /\ GuardianInParent

=============================================================================
