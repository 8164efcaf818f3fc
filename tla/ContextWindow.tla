---------------------------- MODULE ContextWindow ----------------------------
(***************************************************************************)
(* The context window that the sessions of one token show.                 *)
(*                                                                         *)
(* No client tells its window.  It is learned from the sizes at which      *)
(* agents compact a session on their own: a session that has done so shows *)
(* its own estimate, another one that of the profile of its client and     *)
(* model.  A session's model is the one that most of its logged requests   *)
(* ask for, so that it changes as rows come and go.  Every step here is    *)
(* one transaction of the code; rows and states expire separately,         *)
(* profiles never.                                                         *)
(***************************************************************************)
EXTENDS Naturals, FiniteSets, SequencesExt

CONSTANTS
  Sessions, Clients,
  ModelNames,
  Sizes,        \* input tokens of a compaction
  SampleLimit,  \* contextWindowSampleLimit (32)
  Profiles,     \* what has been learned before, by sets of samples
  ClientsOf,    \* the clients a session is used with, or Unknown: one that sends no fingerprint
  Histories,    \* logs of a version that learned nothing
  Unknown,      \* no state, no profile, no model, no fingerprint
  MaxRecorded   \* bound of the model

VARIABLES
  log,       \* relay_request_logs, in the order of created_at
  shown,     \* relay_session_states
  profile,   \* model_agent_context_windows: of a client and a model
  begun,     \* bound
  serving,   \* the process has started up
  upgraded   \* the row model_agent_context_windows_v1 of gateway_migrations

windowVars == <<log, shown, profile, begun, serving, upgraded>>

-----------------------------------------------------------------------------
\* What a request asks for: a turn of its session, a compaction the agent began on its
\* own, or an auxiliary request, whose model says nothing about the session.
RowKinds == {"turn", "auto", "auxiliary", "running"}
Sources  == {"", "agent", "session"}
Minimum  == 1024  \* minimumCompactionSampleTokens

Samples == [model : ModelNames, size : Nat]
LogRows == [session : Sessions \cup {Unknown}, model : ModelNames, kind : RowKinds, size : Nat]
Learnt  == [window : Nat, count : Nat, samples : Seq(Samples)]
ShownStates ==
  [client : Clients \cup {Unknown}, model : ModelNames \cup {Unknown}, source : Sources,
   window : Nat, count : Nat, samples : Seq(Samples), settled : BOOLEAN]

ASSUME UnknownAssumption ==
  Unknown \notin Sessions \cup Clients \cup ModelNames \cup Learnt \cup ShownStates
ASSUME SizesAssumption   == Sizes \subseteq Nat /\ Profiles \subseteq Seq(Nat)
ASSUME LimitsAssumption  == SampleLimit \in Nat \ {0} /\ MaxRecorded \in Nat
ASSUME ClientsAssumption == ClientsOf \in [Sessions -> SUBSET (Clients \cup {Unknown})]
ASSUME LogsAssumption    ==
  Histories \subseteq Seq(Sessions \X ModelNames \X (RowKinds \ {"running"}) \X Nat)

\* A row; that of a running request has no kind yet, and counts as a turn.
LogRow(s, model, kind, size) == [session |-> s, model |-> model, kind |-> kind, size |-> size]

\* settled: its client is the one its window was last looked up for (history).
NewState(client) ==
  [client |-> client, model |-> Unknown, source |-> "", window |-> 0, count |-> 0, samples |-> <<>>,
   settled |-> FALSE]

db0 == [log |-> log, state |-> shown, profile |-> profile]

-----------------------------------------------------------------------------
(* appendContextWindowSample.  Samples are kept with the model they came   *)
(* from, which the code does not store (history).                          *)

Quartile(n) == (3 * n + 3) \div 4

Below(samples, size)  == Cardinality({i \in DOMAIN samples : samples[i].size < size})
AtMost(samples, size) == Cardinality({i \in DOMAIN samples : samples[i].size <= size})

\* The size at this place, of all in ascending order.
Threshold(samples) ==
  CHOOSE size \in {samples[i].size : i \in DOMAIN samples} :
    Below(samples, size) < Quartile(Len(samples)) /\ Quartile(Len(samples)) <= AtMost(samples, size)

\* The threshold is 92 percent of the window, which is rounded to thousands.
WindowOf(samples) ==
  LET threshold == Threshold(samples)
      window    == 1000 * ((2 * threshold + 920) \div 1840)
  IN  IF window < threshold THEN threshold ELSE window

AppendSample(samples, sample) ==
  LET all == Append(samples, sample)
  IN  IF Len(all) > SampleLimit THEN Tail(all) ELSE all

Learned(samples, count) == [window |-> WindowOf(samples), count |-> count, samples |-> samples]

-----------------------------------------------------------------------------
(* updateSessionContextWindow, on a record of the three tables.            *)

Asking(db, s, m) ==
  {i \in DOMAIN db.log : /\ db.log[i].session = s /\ db.log[i].model = m
                         /\ db.log[i].kind # "auxiliary"}
Latest(rows) == CHOOSE i \in rows : \A j \in rows : j <= i

\* The model asked for most often and, of two, the one asked for last.
AskedBefore(db, s, m, n) ==
  LET a == Asking(db, s, m)  b == Asking(db, s, n)
  IN  \/ Cardinality(a) > Cardinality(b)
      \/ Cardinality(a) = Cardinality(b) /\ Latest(a) > Latest(b)

SessionPrimaryModel(db, s) ==
  LET asked == {m \in ModelNames : Asking(db, s, m) # {}}
  IN  IF asked = {} THEN Unknown
      ELSE CHOOSE m \in asked : \A n \in asked \ {m} : AskedBefore(db, s, m, n)

\* Mutant: what the session has learned of another model stays.
PrimaryModelOnly(st, model) == [st EXCEPT !.model = model]

WithPrimaryModel(st, model) ==
  IF st.model = model THEN st
  ELSE [st EXCEPT !.model = model, !.source = "", !.window = 0, !.count = 0, !.samples = <<>>]

Show(st, source, learned, samples) ==
  [st EXCEPT !.source = source, !.window = learned.window, !.count = learned.count, !.samples = samples]

\* Mutant: only sessions that have inherited a window take the new one over.
PropagateToHeirs(states, client, model, learned) ==
  [s \in Sessions |->
     IF states[s] # Unknown /\ states[s].client = client /\ states[s].model = model /\ states[s].source = "agent"
     THEN Show(states[s], "agent", learned, <<>>) ELSE states[s]]

Propagate(states, client, model, learned) ==
  [s \in Sessions |->
     IF states[s] # Unknown /\ states[s].client = client /\ states[s].model = model
          /\ states[s].source \in {"", "agent"}
     THEN Show(states[s], "agent", learned, <<>>) ELSE states[s]]

\* A compaction of the session teaches the profile, the session and its siblings.
Learn(db, s, client, sample) ==
  LET st      == db.state[s]
      known   == db.profile[<<client, st.model>>]
      taught  == IF known = Unknown THEN Learned(<<sample>>, 1)
                 ELSE Learned(AppendSample(known.samples, sample), known.count + 1)
      own     == st.source = "session"
      samples == AppendSample(IF own THEN st.samples ELSE <<>>, sample)
      mine    == Show(st, "session", Learned(samples, (IF own THEN st.count ELSE 0) + 1), samples)
  IN  [db EXCEPT !.profile[<<client, st.model>>] = taught,
                 !.state = Propagate([db.state EXCEPT ![s] = mine], client, st.model, taught)]

Inherit(db, st, client) ==
  LET known == db.profile[<<client, st.model>>]
  IN  IF known = Unknown THEN st ELSE Show(st, "agent", known, <<>>)

IsSample(row) == row.kind = "auto" /\ row.size >= Minimum

UpdateSessionContextWindow(db, row, fingerprint) ==
  LET s       == row.session
      model   == SessionPrimaryModel(db, s)
      st      == [WithPrimaryModel(db.state[s], model) EXCEPT !.settled = TRUE]
      client  == IF fingerprint = Unknown THEN st.client ELSE fingerprint
      current == [db EXCEPT !.state[s] = st]
  IN  IF model = Unknown \/ db.state[s] = Unknown THEN db
      ELSE IF IsSample(row) /\ row.model = model /\ client # Unknown
           THEN Learn(current, s, client, [model |-> row.model, size |-> row.size])
      ELSE IF st.source # "session" /\ client # Unknown
           THEN [current EXCEPT !.state[s] = Inherit(current, st, client)]
      ELSE current

-----------------------------------------------------------------------------
(* Requests. *)

\* The row of a request that begins stands in the session its body names, if any;
\* headers and histories are looked at later.
RecordStarted(named, model) ==
  /\ serving /\ begun < MaxRecorded
  /\ begun' = begun + 1
  /\ log' = Append(log, LogRow(named, model, "running", 0))
  /\ UNCHANGED <<shown, profile, serving, upgraded>>

\* compactSessionPayload and persistAgentSessionIdentity.
Touch(st, client) ==
  IF st = Unknown THEN NewState(client)
  ELSE [st EXCEPT !.client = IF client = Unknown THEN @ ELSE client,
                  !.settled = @ /\ client \in {Unknown, st.client}]

\* recordRequest.  A compaction that failed is a turn here, as one that is recorded is to
\* all who read it later.
RecordWindow(i, s, client, kind, size) ==
  LET row     == LogRow(s, log[i].model, kind, size)
      kept    == [row EXCEPT !.kind = IF @ = "auto" THEN "turn" ELSE @, !.size = 0]
      touched == [log |-> [log EXCEPT ![i] = kept],
                  state |-> [shown EXCEPT ![s] = Touch(@, client)], profile |-> profile]
      db      == UpdateSessionContextWindow(touched, row, client)
  IN  /\ log[i].kind = "running" /\ client \in ClientsOf[s]
      /\ log[i].session \in IF kind = "auxiliary" THEN {Unknown} ELSE {s, Unknown}
      /\ log' = db.log /\ shown' = db.state /\ profile' = db.profile
      /\ UNCHANGED <<begun, serving, upgraded>>

\* The transaction fails, or the process stops and starts again: the row stays as it is.
RecordMissing(i) ==
  /\ log[i].kind = "running"
  /\ log' = [log EXCEPT ![i].kind = "turn"]
  /\ UNCHANGED <<shown, profile, begun, serving, upgraded>>

-----------------------------------------------------------------------------
(* Retention: the first n rows have expired, and with them the states that *)
(* only their requests have updated.                                       *)

ExpiredRows(n) ==
  /\ serving /\ n \in DOMAIN log
  /\ \A i \in 1..n : log[i].kind # "running"
  /\ log' = SubSeq(log, n + 1, Len(log))

StatesOf(rows) ==
  [s \in Sessions |-> IF \E i \in DOMAIN rows : rows[i].session = s THEN shown[s] ELSE Unknown]

\* cleanupExpired is no transaction.
CleanupLog(n) == ExpiredRows(n) /\ UNCHANGED <<shown, profile, begun, serving, upgraded>>

CleanupShown ==
  /\ serving
  /\ shown' = StatesOf(log)
  /\ UNCHANGED <<log, profile, begun, serving, upgraded>>

DeleteLogsBefore(n) ==
  /\ ExpiredRows(n)
  /\ shown' = StatesOf(log')
  /\ UNCHANGED <<profile, begun, serving, upgraded>>

-----------------------------------------------------------------------------
(* backfillModelAgentContextWindows, in one transaction at start-up. *)

Recorded(db, row) ==
  IF ~IsSample(row) \/ row.session = Unknown THEN db
  ELSE IF db.state[row.session] = Unknown THEN db
       ELSE UpdateSessionContextWindow(db, row, db.state[row.session].client)

Inherited(db, s) ==
  LET st == db.state[s]
  IN  IF st = Unknown THEN st
      ELSE IF st.source = "session" \/ st.model = Unknown \/ st.client = Unknown THEN st
           ELSE Inherit(db, st, st.client)

Named(s) ==
  IF shown[s] = Unknown THEN Unknown ELSE [shown[s] EXCEPT !.model = SessionPrimaryModel(db0, s)]

\* After the first n rows of the log.
Replayed[n \in 0..Len(log)] ==
  IF n = 0 THEN [db0 EXCEPT !.state = [s \in Sessions |-> Named(s)]]
  ELSE Recorded(Replayed[n - 1], log[n])

Backfilled ==
  LET db == Replayed[Len(log)]
  IN  [db EXCEPT !.state = [s \in Sessions |-> Inherited(db, s)]]

StartUp ==
  /\ ~serving /\ serving' = TRUE
  /\ LET db == IF upgraded THEN db0 ELSE Backfilled
     IN  shown' = db.state /\ profile' = db.profile
  /\ upgraded' = TRUE
  /\ UNCHANGED <<log, begun>>

-----------------------------------------------------------------------------
\* A database that knows a profile, or one of a version that learned nothing.
WindowInit ==
  /\ begun = 0 /\ serving = FALSE
  /\ \/ /\ upgraded = TRUE /\ log = <<>> /\ shown = [s \in Sessions |-> Unknown]
        /\ \E samples \in Profiles, client \in Clients, model \in ModelNames :
             profile = [p \in Clients \X ModelNames |->
                          IF p # <<client, model>> \/ samples = <<>> THEN Unknown
                          ELSE LET tagged == [i \in DOMAIN samples |-> [model |-> model, size |-> samples[i]]]
                               IN  Learned(tagged, Len(samples))]
     \/ /\ upgraded = FALSE /\ profile = [p \in Clients \X ModelNames |-> Unknown]
        /\ \E history \in Histories, client \in [Sessions -> Clients \cup {Unknown}] :
             /\ \A s \in Sessions : client[s] \in ClientsOf[s]
             /\ log = [i \in DOMAIN history |->
                         LogRow(history[i][1], history[i][2], history[i][3], history[i][4])]
             /\ shown = [s \in Sessions |-> IF \E i \in DOMAIN history : history[i][1] = s
                                            THEN NewState(client[s]) ELSE Unknown]

WindowNext ==
  \/ \E s \in Sessions \cup {Unknown}, model \in ModelNames : RecordStarted(s, model)
  \/ \E i \in DOMAIN log :
       \/ RecordMissing(i)
       \/ \E s \in Sessions, client \in Clients \cup {Unknown} :
            \/ \E kind \in {"turn", "auxiliary"} : RecordWindow(i, s, client, kind, 0)
            \/ \E size \in Sizes : RecordWindow(i, s, client, "auto", size)
  \/ \E n \in DOMAIN log : CleanupLog(n) \/ DeleteLogsBefore(n)
  \/ CleanupShown \/ StartUp

WindowSpec == WindowInit /\ [][WindowNext]_windowVars

-----------------------------------------------------------------------------
(* Properties. *)

\* Once there are four samples, neither the largest nor the three smallest alone decide.
Balanced(samples) ==
  Len(samples) >= 4 =>
    /\ Cardinality({i \in DOMAIN samples : samples[i].size >= Threshold(samples)}) >= 2
    /\ 4 * AtMost(samples, Threshold(samples)) >= 3 * Len(samples)

LearnedFrom(samples, model, window) ==
  /\ samples # <<>> /\ window = WindowOf(samples) /\ Balanced(samples)
  /\ \A i \in DOMAIN samples : samples[i].model = model

\* What a session shows as its own, and what a profile says, is learned from compactions
\* of its present model, however often the model has changed.
WindowOfModel ==
  /\ \A s \in Sessions :
       shown[s] # Unknown =>
         (shown[s].source = "session" => LearnedFrom(shown[s].samples, shown[s].model, shown[s].window))
  /\ \A c \in Clients, m \in ModelNames :
       profile[<<c, m>>] # Unknown => LearnedFrom(profile[<<c, m>>].samples, m, profile[<<c, m>>].window)

\* A session that has learned nothing of its own, but was looked at since its client changed.
Heir(st) == st.settled /\ st.model # Unknown /\ st.client # Unknown /\ st.source # "session"

ShowsKnown(st, known) ==
  known # Unknown => st.source = "agent" /\ st.window = known.window /\ st.count = known.count

\* Two sessions of one client and model that have learned nothing of their own show the
\* same window, the profile's, in whatever order their requests, the compactions of a
\* third one and the expiry of rows and states are recorded.  Excepted are sessions whose
\* client has changed while the log held none of their requests.
WindowCurrent ==
  \A s \in Sessions :
    (serving /\ shown[s] # Unknown) =>
      (Heir(shown[s]) => ShowsKnown(shown[s], profile[<<shown[s].client, shown[s].model>>]))

\* A window is learned from compactions of the model it stands for, and is the latest of
\* its profile.
WindowTrue == WindowOfModel /\ WindowCurrent

=============================================================================
