----------------------------- MODULE PayloadLog -----------------------------
(***************************************************************************)
(* The bodies and the resources of the requests of one token, as the       *)
(* recording transaction, the cleanups and the deletions leave them.       *)
(*                                                                         *)
(* A request of a session is stored as its difference from the request the *)
(* session's state names as its latest: the messages whose hashes are      *)
(* those of the messages this request and its answer held are left out,    *)
(* and counted.  The row shows the rest and names the request; nothing     *)
(* puts the two together again.  Resources found in a body are catalogued, *)
(* and linked once per session.                                            *)
(*                                                                         *)
(* Abstractions: a body is its array of messages (the other fields follow  *)
(* the rule of an unchanged array).  The hash of a whole field, a digest   *)
(* of its text, is the field; that of one message is ItemHash, which       *)
(* passes over what conversationItemHash does, such as images and what a   *)
(* reasoning item holds, so that different messages may have one hash.  An *)
(* attempt's body either repeats the request's messages or is stored whole *)
(***************************************************************************)
EXTENDS Naturals, FiniteSets, SequencesExt

CONSTANTS
  Requests,
  Sessions,     \* sessions a client names
  Bodies,       \* arrays of messages a client may send
  Answers,      \* arrays of messages a response may add
  ItemHash,     \* conversationItemHash of a message
  Carries,      \* the resources detectResources finds in a message
  Resources,
  Short,        \* bodies of which no difference is shorter
  KeptChoices,  \* what payload_log_detail and the size limits may let a row keep
  None,
  MaxDay, MaxCleanups, MaxRunning  \* bounds of the model

Parts == {"request", "attempt"}

\* The rows of the request log.
Messages == DOMAIN Carries
Stored   == [kind : {"gone", "whole", "delta"}, base : Requests \cup {None}, count : Nat,
             items : Seq(Messages)]
Rows     == [created : Nat, request : Stored, attempt : Stored \cup {None}]

\* What a client may send.
Sendable == [session : Sessions \cup {None}, form : BOOLEAN, items : Bodies \cup {<<>>}]

ASSUME BodiesAssumption  == Bodies \cup Answers \subseteq Seq(Messages)
ASSUME CarriesAssumption == Carries \in [Messages -> SUBSET Resources]
ASSUME HashAssumption    == DOMAIN ItemHash = Messages
ASSUME ShortAssumption   == Short \subseteq Bodies
ASSUME KeptAssumption    == KeptChoices \subseteq SUBSET Parts
ASSUME NoneAssumption    == /\ None \notin Requests \cup Sessions \cup Resources \cup Nat \cup Rows \cup Stored
                            /\ None \notin Sendable \cup Seq(Messages)
ASSUME BoundsAssumption  == {MaxDay, MaxCleanups, MaxRunning} \subseteq Nat

VARIABLES
  request,   \* what each client sent and what it was answered
  row,       \* relay_request_logs with its payload and its attempt
  state,     \* relay_session_states: latest_request_id and payload_manifest_json
  catalog,   \* gateway_resources: last_seen_at
  refs,      \* request_resources
  today,
  sweep,     \* cleanupExpired between its statements
  cleanups,  \* bound
  purged,    \* history: days up to which resources were cleaned up
  unlinked   \* history: sessions that lost a row which may have held a link

logVars == <<request, row, state>>
resourceVars == <<catalog, refs, purged, unlinked>>
vars == <<logVars, resourceVars, today, sweep, cleanups>>

-----------------------------------------------------------------------------
(* A stored body. *)

Gone         == [kind |-> "gone",  base |-> None, count |-> 0, items |-> <<>>]
Whole(items) == [kind |-> "whole", base |-> None, count |-> 0, items |-> items]
Delta(base, count, items) ==
  [kind |-> "delta", base |-> base, count |-> count, items |-> items]

Unsent == [stage |-> "new", session |-> None, form |-> FALSE, items |-> <<>>,
           answer |-> <<>>, started |-> 0, recorded |-> 0]

Carried(r) == IF request[r].form THEN {} ELSE UNION {Carries[m] : m \in ToSet(request[r].items)}

Hashes(items) == [i \in DOMAIN items |-> ItemHash[items[i]]]

\* The hashes of a body: of the field, and of the messages in it, behind which
\* those of the answer are put.
PayloadManifest(items)           == [field |-> items, array |-> Hashes(items)]
AppendResponse(manifest, answer) ==
  [field |-> manifest.field, array |-> manifest.array \o Hashes(answer)]

Continues(items, hashes) == hashes # <<>> /\ IsPrefix(hashes, Hashes(items))

\* Mutant: the previous answer's messages are left out, but not counted.
CompactedUncounted(items, manifest, base) ==
  IF Continues(items, manifest.array)
  THEN Delta(base, Len(manifest.field), SubSeq(items, Len(manifest.array) + 1, Len(items)))
  ELSE IF manifest.field = items THEN Delta(base, Len(items), <<>>)
  ELSE Whole(items)

\* A prefix must be the whole of the previous array; otherwise the array is left
\* out if it is the previous request's.
Compacted(items, manifest, base) ==
  IF Continues(items, manifest.array)
  THEN Delta(base, Len(manifest.array), SubSeq(items, Len(manifest.array) + 1, Len(items)))
  ELSE IF manifest.field = items THEN Delta(base, Len(items), <<>>)
  ELSE Whole(items)

\* A difference is stored if it is shorter than the body.
CompactSessionPayload(r) ==
  LET mine == request[r]
      s    == state[mine.session] IN
  IF \/ mine.session = None \/ mine.form \/ mine.items \in Short
     \/ s = None \/ s.manifest = {}
  THEN Whole(mine.items)
  ELSE Compacted(mine.items, CHOOSE m \in s.manifest : TRUE, s.latest)

CompactAttemptPayload(r) ==
  IF request[r].form \/ request[r].items \in Short THEN Whole(request[r].items)
  ELSE Compacted(request[r].items, PayloadManifest(request[r].items), r)

\* A form has no manifest: the state names it as the latest request and keeps the
\* hashes of the one before.
NextState(r, answer) ==
  LET s == state[request[r].session] IN
  [latest   |-> r,
   manifest |-> IF request[r].form THEN IF s = None THEN {} ELSE s.manifest
                                   ELSE {AppendResponse(PayloadManifest(request[r].items), answer)},
   updated  |-> today]

\* A summary, like a body that is too long or not logged, tells nothing of the array.
Retained(part, kept, body) == IF part \in kept THEN body ELSE Gone

SavedRow(r, kept) ==
  [created |-> request[r].started,
   request |-> Retained("request", kept, CompactSessionPayload(r)),
   attempt |-> Retained("attempt", kept, CompactAttemptPayload(r))]

-----------------------------------------------------------------------------
(* Resources. *)

RowsOf(s)  == {r \in Requests : row[r] # None /\ request[r].session = s}
\* Mutant: the link is looked for among all of the token's rows.
LinkedAnywhere(s, res) == \E r \in Requests : row[r] # None /\ <<r, res>> \in refs

Linked(s, res) == s # None /\ \E r \in RowsOf(s) : <<r, res>> \in refs

\* Mutant: a resource seen again keeps the day it was first seen.
SeenFirst(res) == IF catalog[res] = None THEN today ELSE catalog[res]

Seen(res) == today

PersistRequestResources(r) ==
  /\ catalog' = [res \in Resources |-> IF res \in Carried(r) THEN Seen(res) ELSE catalog[res]]
  /\ refs' = refs \cup {<<r, res>> : res \in {c \in Carried(r) : ~Linked(request[r].session, c)}}

-----------------------------------------------------------------------------
(* Requests. *)

Init ==
  /\ request = [r \in Requests |-> Unsent]
  /\ row = [r \in Requests |-> None]
  /\ state = [s \in Sessions |-> None]
  /\ catalog = [res \in Resources |-> None] /\ refs = {}
  /\ today = 1 /\ sweep = None /\ cleanups = 0
  /\ purged = 0 /\ unlinked = {}

\* The client's request arrives, and its row is written as processing.
RecordRequestStarted(r, s, form, items) ==
  /\ request[r].stage = "new"
  /\ Cardinality({q \in Requests : request[q].stage = "running"}) < MaxRunning
  /\ form => items = <<>>
  /\ request' = [request EXCEPT ![r] = [Unsent EXCEPT !.stage = "running", !.session = s,
                                                      !.form = form, !.items = items,
                                                      !.started = today]]
  /\ row' = [row EXCEPT ![r] = [created |-> today, request |-> Gone, attempt |-> None]]
  /\ UNCHANGED <<state, resourceVars, today, sweep, cleanups>>

\* The transaction of recordRequest.
RecordRequest(r, answer, kept) ==
  LET s == request[r].session IN
  /\ request[r].stage = "running"
  /\ request' = [request EXCEPT ![r].stage = "over", ![r].answer = answer, ![r].recorded = today]
  /\ row' = [row EXCEPT ![r] = SavedRow(r, kept)]
  /\ state' = IF s = None THEN state ELSE [state EXCEPT ![s] = NextState(r, answer)]
  /\ PersistRequestResources(r)
  /\ UNCHANGED <<today, sweep, cleanups, purged, unlinked>>

-----------------------------------------------------------------------------
(* What administrators and the daily cleanup remove. *)

Counted     == cleanups < MaxCleanups /\ cleanups' = cleanups + 1
Before(c)   == {r \in Requests : row[r] # None /\ row[r].created < c}
Cleared(rw) == [rw EXCEPT !.request = Gone, !.attempt = IF @ = None THEN None ELSE Gone]

\* Days are positive: what is of today stays.
ClearHistoricalLogPayloadsBefore(c) ==
  /\ Counted
  /\ row' = [r \in Requests |-> IF r \in Before(c) THEN Cleared(row[r]) ELSE row[r]]
  /\ UNCHANGED <<request, state, resourceVars, today, sweep>>

DeleteHistoricalLogsBefore(c) ==
  LET left == [r \in Requests |-> IF r \in Before(c) THEN None ELSE row[r]] IN
  /\ Counted
  /\ row' = left
  /\ refs' = {l \in refs : l[1] \notin Before(c)}
  /\ state' = [s \in Sessions |->
       IF \E r \in Requests : left[r] # None /\ request[r].session = s THEN state[s] ELSE None]
  /\ unlinked' = unlinked \cup {request[r].session : r \in Before(c)}
  /\ UNCHANGED <<request, catalog, today, sweep, purged>>

CleanupResourcesBefore(c) ==
  LET old == {res \in Resources : catalog[res] # None /\ catalog[res] < c} IN
  /\ Counted
  /\ refs' = {l \in refs : l[2] \notin old}
  /\ catalog' = [res \in Resources |-> IF res \in old THEN None ELSE catalog[res]]
  /\ purged' = IF c > purged THEN c ELSE purged
  /\ UNCHANGED <<logVars, today, sweep, unlinked>>

\* cleanupExpired: statements of their own, the cutoff of the first.
BeginSweep(c) == /\ Counted
                 /\ sweep = None
                 /\ sweep' = [cutoff |-> c, next |-> "attempt payloads"]
                 /\ UNCHANGED <<logVars, resourceVars, today>>

Sweeping(from, to) == /\ sweep # None /\ sweep.next = from
                      /\ sweep' = IF to = "done" THEN None ELSE [sweep EXCEPT !.next = to]
                      /\ UNCHANGED <<request, today, cleanups>>
Expired == Before(sweep.cutoff)

SweepAttemptPayloads ==
  /\ Sweeping("attempt payloads", "payloads")
  /\ row' = [r \in Requests |-> IF r \in Expired /\ row[r].attempt # None
                                  THEN [row[r] EXCEPT !.attempt = Gone] ELSE row[r]]
  /\ UNCHANGED <<state, resourceVars>>

SweepPayloads ==
  /\ Sweeping("payloads", "attempts")
  /\ row' = [r \in Requests |-> IF r \in Expired THEN [row[r] EXCEPT !.request = Gone] ELSE row[r]]
  /\ UNCHANGED <<state, resourceVars>>

SweepAttempts ==
  /\ Sweeping("attempts", "references")
  /\ row' = [r \in Requests |-> IF r \in Expired THEN [row[r] EXCEPT !.attempt = None] ELSE row[r]]
  /\ UNCHANGED <<state, resourceVars>>

SweepReferences ==
  /\ Sweeping("references", "rows")
  /\ refs' = {l \in refs : l[1] \notin Expired}
  /\ unlinked' = unlinked \cup {request[r].session : r \in Expired}
  /\ UNCHANGED <<row, state, catalog, purged>>

SweepRows ==
  /\ Sweeping("rows", "states")
  /\ row' = [r \in Requests |-> IF r \in Expired THEN None ELSE row[r]]
  /\ unlinked' = unlinked \cup {request[r].session : r \in Expired}
  /\ UNCHANGED <<state, catalog, refs, purged>>

SweepStates ==
  /\ Sweeping("states", "done")
  /\ state' = [s \in Sessions |-> IF state[s] # None /\ state[s].updated < sweep.cutoff
                                    THEN None ELSE state[s]]
  /\ UNCHANGED <<row, resourceVars>>

Tick == /\ today < MaxDay /\ today' = today + 1
        /\ UNCHANGED <<logVars, resourceVars, sweep, cleanups>>

Next ==
  \/ \E r \in Requests, s \in Sessions \cup {None}, b \in Bodies :
       RecordRequestStarted(r, s, FALSE, b)
  \/ \E r \in Requests, s \in Sessions : RecordRequestStarted(r, s, TRUE, <<>>)
  \/ \E r \in Requests, a \in Answers, kept \in KeptChoices :
       RecordRequest(r, a, kept)
  \/ \E c \in 2..today : \/ ClearHistoricalLogPayloadsBefore(c)
                         \/ DeleteHistoricalLogsBefore(c)
                         \/ CleanupResourcesBefore(c)
                         \/ BeginSweep(c)
  \/ SweepAttemptPayloads \/ SweepPayloads \/ SweepAttempts
  \/ SweepReferences \/ SweepRows \/ SweepStates
  \/ Tick

Spec == Init /\ [][Next]_vars

-----------------------------------------------------------------------------
(* Properties. *)

\* What a request's body and its attempt's are shown as: what is stored, with the
\* number of the messages left out and the request they were recorded with.  A whole array
\* that is left out as an unchanged field counts as all its messages.
Entries == Requests \X {"request", "attempt"}
Body(e) == IF e[2] = "request" THEN row[e[1]].request ELSE row[e[1]].attempt

DeltaDescription(e) ==
  CASE request[e[1]].stage # "over" -> [state |-> "pending"]
    [] request[e[1]].stage = "over" ->
         IF row[e[1]] = None \/ Body(e) = None THEN [state |-> "deleted"]
         ELSE IF Body(e).kind = "gone" THEN [state |-> "lost"]
         ELSE [state |-> "told", base |-> Body(e).base, omitted |-> Body(e).count,
               shown |-> Body(e).items]

Archive == INSTANCE RequestArchive WITH
  sent <- [r \in Requests |->
             IF request[r].stage = "new" THEN None
             ELSE [session |-> request[r].session, form |-> request[r].form, items |-> request[r].items]],
  held <- [r \in Requests |->
             IF request[r].stage # "over" THEN None ELSE request[r].items \o request[r].answer],
  told <- [e \in Entries |-> DeltaDescription(e)]

\* The log implements RequestArchive: in whatever order the requests of a session
\* are recorded, cleared and deleted, a body that is shown as a difference is the
\* end of what was sent, and what is said to have been recorded before was, but
\* for what the hash of a message passes over.
ImplementsArchive == Archive!Spec

\* A resource seen in a request is catalogued for as long as resources are kept:
\* a cleanup takes only what no request has carried since its cutoff.
RecentResourceKept ==
  \A r \in Requests : \A res \in Carried(r) :
    request[r].stage = "over" /\ request[r].recorded >= purged =>
      catalog[res] # None /\ catalog[res] >= request[r].recorded

\* A resource is linked to every session that carries it, once, unless a cleanup
\* or a deletion has taken the row that held the link.
SessionsLinked ==
  \A s \in Sessions : \A res \in Resources :
    /\ Cardinality({r \in RowsOf(s) : <<r, res>> \in refs}) <= 1
    /\ s \notin unlinked /\ purged = 0 /\ (\E r \in RowsOf(s) : request[r].stage = "over" /\ res \in Carried(r))
         => Linked(s, res)

\* The catalogue and its links agree with the rows.
ResourcesTrue == RecentResourceKept /\ SessionsLinked

=============================================================================
