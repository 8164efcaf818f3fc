---------------------------- MODULE SessionRoute ----------------------------
(***************************************************************************)
(* The route of one client session: Router.PlanWithOptions and the rows    *)
(* session_affinities and response_affinities.                             *)
(*                                                                         *)
(* Every request of the session reads the route of the session's previous  *)
(* request, plans over the mappings usable at that moment, tries           *)
(* candidates, and may remember the mapping that served it.  To remember   *)
(* it reads the row, compares it with what it planned with, and writes it, *)
(* in separate statements, while other requests of the session do the      *)
(* same.  The order of candidates that nothing pins is RouteOrder's        *)
(* subject; here any order is possible.                                    *)
(***************************************************************************)
EXTENDS Integers, FiniteSets

CONSTANTS
  MaxRequests, \* bound of the model: requests of the session
  Channels, Models,
  Mappings,    \* the (channel, model) pairs that channel_models holds
  None,        \* no mapping, no request
  MaxOverlap,  \* bound of the model: requests that run together
  MaxChanges   \* bound of the model: changes of availability and expiries

ASSUME MappingsAssumption == Mappings \subseteq Channels \X Models
ASSUME BoundsAssumption   == {MaxRequests, MaxOverlap, MaxChanges} \subseteq Nat
ASSUME NoneAssumption     == None \notin Mappings

\* The requests of the session, in the order in which they begin.
Requests == 1..MaxRequests

VARIABLES
  usable,     \* mappings enabled in a channel that is enabled and not circuited
  route,      \* session_affinities: for each model the mapping and updated_at
  responses,  \* response_affinities: the mapping that gave a request's response
  latest,     \* relay_session_states.latest_request_id
  request,    \* each request: the handler, and its log row once it is recorded
  clock,      \* requests begun so far
  changes     \* bound

vars == <<usable, route, responses, latest, request, clock, changes>>

-----------------------------------------------------------------------------
ChannelOf(m) == m[1]
ModelOf(m)   == m[2]
NoRoute      == [mapping |-> None, updated |-> 0]

Kinds    == {"plain", "pinned", "continued"}
Outcomes == {"none", "success", "canceled", "failed"}

Idle == [model |-> None, stage |-> "idle",
         planned |-> None,     \* SessionAffinityMappingID
         refresh |-> FALSE,    \* RefreshSessionAffinity
         bound |-> FALSE,      \* RoutePlan.Affinity
         first |-> None, left |-> {},
         mapping |-> None, outcome |-> "none",
         kind |-> "plain",     \* what the client asked for (history)
         opening |-> None,     \* the first mapping tried (history)
         seen |-> None,        \* the model's route when it began (history)
         alone |-> FALSE]      \* nothing else moved meanwhile (history)

Stage(r)   == request[r].stage
Row(r)     == route[request[r].model]
InFlight   == {r \in Requests : Stage(r) \notin {"idle", "done"}}

\* Something that other requests of the session can notice has moved; the history of
\* a request that is not alone is of no use.
NobodyAlone(req) == [q \in Requests |-> 
  [req[q] EXCEPT !.alone = FALSE, !.kind = "plain", !.opening = None, !.seen = None]]

-----------------------------------------------------------------------------
(* The session's previous route: of the latest request recorded or, if it  *)
(* made no attempt, of the one that began last among those that did.       *)

Served == {q \in Requests : Stage(q) = "done" /\ request[q].mapping # None}

PreviousRoute ==
  IF latest \in Served THEN latest
  ELSE IF Served = {} THEN None
  ELSE CHOOSE q \in Served : \A p \in Served : p <= q

\* Mutant: a canceled attempt says nothing about its route.
ReusableIfServed(q) == request[q].outcome = "success"

Reusable(q) == request[q].outcome \in {"success", "canceled"}

Switches(model) ==
  /\ PreviousRoute # None
  /\ Reusable(PreviousRoute)
  /\ request[PreviousRoute].model # model

-----------------------------------------------------------------------------
(* PlanWithOptions, after recordRequestStarted: one action for each way a  *)
(* plan can come about, in the order the code tries them.                  *)

Candidates(model) == {m \in usable : ModelOf(m) = model}

OnChannel(model, c) == {m \in Candidates(model) : ChannelOf(m) = c}

SwitchKeepsRoute(model) == Switches(model) /\ route[model].mapping \in Candidates(model)

OnPreviousChannel(model) == OnChannel(model, ChannelOf(request[PreviousRoute].mapping))

SwitchKeepsChannel(model) ==
  /\ Switches(model)
  /\ ~SwitchKeepsRoute(model)
  /\ OnPreviousChannel(model) # {}

\* A switched model without a candidate fails before a previous response is
\* looked up.
SwitchFails(model) == Switches(model) /\ Candidates(model) = {}

Unswitched(model) ==
  ~SwitchKeepsRoute(model) /\ ~SwitchKeepsChannel(model) /\ ~SwitchFails(model)

Begin(r, handler) ==
  /\ clock' = clock + 1
  /\ request' = [NobodyAlone(request) EXCEPT ![r] =
        IF InFlight = {}
        THEN [handler EXCEPT !.alone = TRUE, !.seen = route[handler.model].mapping]
        ELSE [handler EXCEPT !.kind = "plain"]]
  /\ UNCHANGED <<usable, route, responses, latest, changes>>

Handler(model, kind, candidates) ==
  [Idle EXCEPT !.model = model, !.kind = kind, !.stage = "choosing", !.left = candidates]

\* What a handler has at a stage: behind the attempts no candidates.  It is behind them
\* too when none is left.  (The limit on attempts is RelayRequest's subject.)
Enter(stage, handler) ==
  CASE stage = "choosing" /\ handler.left # {} -> handler
    [] stage \in {"remembering", "writing"}    -> [handler EXCEPT !.stage = stage, !.left = {}]
    [] OTHER -> [handler EXCEPT !.stage = "recording", !.left = {}, !.planned = None, !.bound = FALSE]

PlanPinned(r, model, c) ==
  /\ OnChannel(model, c) # {}
  /\ Begin(r, Handler(model, "pinned", OnChannel(model, c)))

PlanByModelRoute(r, model, kind) ==
  /\ kind # "pinned"
  /\ SwitchKeepsRoute(model)
  /\ Begin(r, [Handler(model, kind, Candidates(model)) EXCEPT
                 !.first = route[model].mapping, !.planned = route[model].mapping])

PlanOnPreviousChannel(r, model, kind) ==
  /\ kind # "pinned"
  /\ SwitchKeepsChannel(model)
  /\ \E m \in OnPreviousChannel(model) :
       Begin(r, [Handler(model, kind, Candidates(model)) EXCEPT !.first = m, !.refresh = TRUE])

PlanByResponse(r, model, q) ==
  /\ Unswitched(model)
  /\ responses[q] \in Candidates(model)
  /\ Begin(r, [Handler(model, "continued", {responses[q]}) EXCEPT !.bound = TRUE])

\* A route that is remembered but not usable is not pinned: the plan still
\* names it as the route it was made with.
PlanByRoute(r, model) ==
  /\ Unswitched(model)
  /\ Candidates(model) # {}
  /\ route[model].mapping # None
  /\ Begin(r, [Handler(model, "plain", Candidates(model)) EXCEPT
                 !.first = route[model].mapping, !.planned = route[model].mapping])

PlanAfresh(r, model) ==
  /\ Unswitched(model)
  /\ Candidates(model) # {}
  /\ route[model].mapping = None
  /\ Begin(r, Handler(model, "plain", Candidates(model)))

\* No candidate, no usable mapping for the previous response, or none on the
\* pinned channel: the request is recorded without an attempt.
PlanFails(r, model, kind) ==
  /\ \/ kind = "pinned" /\ \E c \in Channels : OnChannel(model, c) = {}
     \/ kind # "pinned" /\ SwitchFails(model)
     \/ kind = "plain" /\ Candidates(model) = {}
     \/ /\ kind = "continued"
        /\ Unswitched(model)
        /\ \E q \in Requests : Stage(q) = "done" /\ responses[q] \notin Candidates(model)
  /\ Begin(r, Enter("recording", Handler(model, kind, {})))

-----------------------------------------------------------------------------
(* The attempts.  Nobody looks at an attempt while it runs, so that it and *)
(* its result are one action.                                              *)

\* The candidates in order: the pinned one first, then the others in any.
IsNext(r, m) == /\ m \in request[r].left
                /\ request[r].first \in request[r].left => m = request[r].first

Skip(r, m) ==
  /\ Stage(r) = "choosing"
  /\ IsNext(r, m)
  /\ m \notin usable
  /\ LET h    == request[r]
         next == [h EXCEPT !.left = h.left \ {m}, !.first = None]
     IN  request' = [request EXCEPT ![r] =
                       Enter(IF h.bound THEN "recording" ELSE "choosing", next)]
  /\ UNCHANGED <<usable, route, responses, latest, clock, changes>>

Tried(r, m, stage, outcome, rejected) ==
  /\ Stage(r) = "choosing"
  /\ IsNext(r, m)
  /\ m \in usable
  /\ LET h    == request[r]
         next == [h EXCEPT !.left = h.left \ {m}, !.first = None,
                           !.mapping = m, !.outcome = outcome, !.refresh = h.refresh \/ rejected,
                           !.opening = IF h.opening = None /\ h.alone THEN m ELSE h.opening]
     IN  request' = [request EXCEPT ![r] = Enter(stage, next)]
  /\ UNCHANGED <<usable, route, latest, clock, changes>>

\* The response is remembered at once; the session's route next.
Succeed(r, m) ==
  /\ Tried(r, m, "remembering", "success", FALSE)
  /\ responses' = [responses EXCEPT ![r] = m]

\* The client left: nothing speaks against the mapping.
Cancel(r, m) ==
  /\ Tried(r, m, "remembering", "canceled", FALSE)
  /\ UNCHANGED responses

\* A bound request ends with its attempt, another one goes on.  rejected: the
\* upstream refused the request in a way another channel may not, and what
\* serves it now replaces the session's route.
Fail(r, m, rejected) ==
  /\ Tried(r, m, IF request[r].bound THEN "recording" ELSE "choosing", "failed", rejected)
  /\ UNCHANGED responses

\* Mutant: what delivered a failure is remembered.
DeliverRemembered(r, m) ==
  /\ Tried(r, m, "remembering", "failed", FALSE)
  /\ UNCHANGED responses

\* A failure that ends the request: it was delivered to the client.
Deliver(r, m) ==
  /\ Tried(r, m, "recording", "failed", FALSE)
  /\ UNCHANGED responses

-----------------------------------------------------------------------------
(* RecordSessionAffinityAfterSuccess, and recordRequest.                   *)

StartedAfter(r) == r > Row(r).updated

\* Mutant: a usable route is replaced.
MayRememberOver(r) ==
  IF request[r].planned = None
  THEN Row(r).mapping = None \/ StartedAfter(r)
  ELSE Row(r).mapping = request[r].planned

MayRemember(r) ==
  LET planned == request[r].planned
  IN  IF planned = None
      THEN Row(r).mapping = None \/ StartedAfter(r)
      ELSE /\ Row(r).mapping = planned
           /\ planned = request[r].mapping \/ planned \notin usable

Compare(r) ==
  /\ Stage(r) = "remembering"
  /\ LET kept == request[r].refresh \/ MayRemember(r)
     IN  request' = [request EXCEPT ![r] = Enter(IF kept THEN "writing" ELSE "recording", @)]
  /\ UNCHANGED <<usable, route, responses, latest, clock, changes>>

\* RecordSessionAffinity: the row is inserted or overwritten.
Write(r) ==
  /\ Stage(r) = "writing"
  /\ route' = [route EXCEPT ![request[r].model] =
                 [mapping |-> request[r].mapping, updated |-> clock]]
  /\ request' = [request EXCEPT ![r] = Enter("recording", @)]
  /\ UNCHANGED <<usable, responses, latest, clock, changes>>

\* The transaction of recordRequest: attempts, request and session state.
\* What stays is the log: model, last mapping and outcome.
Record(r) ==
  /\ Stage(r) = "recording"
  /\ request' = [request EXCEPT ![r] =
       [Idle EXCEPT !.stage = "done", !.model = request[r].model,
                    !.mapping = request[r].mapping, !.outcome = request[r].outcome]]
  /\ latest' = r
  /\ UNCHANGED <<usable, route, responses, clock, changes>>

-----------------------------------------------------------------------------
(* What the rest of the gateway does to the rows read here.                *)

\* A circuit opens or elapses, a channel or mapping is edited, or deleted.
ChangeUsable(m) ==
  /\ changes < MaxChanges
  /\ changes' = changes + 1
  /\ usable' = IF m \in usable THEN usable \ {m} ELSE usable \cup {m}
  /\ request' = NobodyAlone(request)
  /\ UNCHANGED <<route, responses, latest, clock>>

\* A route not used for thirty days: it is not read any more, and deleted.
Expire(model) ==
  /\ changes < MaxChanges
  /\ route[model] # NoRoute
  /\ changes' = changes + 1
  /\ route' = [route EXCEPT ![model] = NoRoute]
  /\ request' = NobodyAlone(request)
  /\ UNCHANGED <<usable, responses, latest, clock>>

-----------------------------------------------------------------------------
Init ==
  /\ usable = Mappings
  /\ route = [model \in Models |-> NoRoute]
  /\ responses = [r \in Requests |-> None]
  /\ latest = None
  /\ request = [r \in Requests |-> Idle]
  /\ clock = 0
  /\ changes = 0

Plan(r, model) ==
  /\ r = clock + 1
  /\ Cardinality(InFlight) < MaxOverlap
  /\ \/ \E c \in Channels : PlanPinned(r, model, c)
     \/ \E kind \in Kinds : \/ PlanByModelRoute(r, model, kind)
                            \/ PlanOnPreviousChannel(r, model, kind)
                            \/ PlanFails(r, model, kind)
     \/ \E q \in Requests : PlanByResponse(r, model, q)
     \/ PlanByRoute(r, model)
     \/ PlanAfresh(r, model)

Attempt(r, m) ==
  \/ Skip(r, m) \/ Succeed(r, m) \/ Cancel(r, m) \/ Deliver(r, m)
  \/ \E rejected \in BOOLEAN : Fail(r, m, rejected)

Next ==
  \/ \E r \in Requests, model \in Models : Plan(r, model)
  \/ \E r \in Requests, m \in Mappings : Attempt(r, m)
  \/ \E r \in Requests : Compare(r) \/ Write(r) \/ Record(r)
  \/ \E m \in Mappings : ChangeUsable(m)
  \/ \E model \in Models : Expire(model)

Spec == Init /\ [][Next]_vars

-----------------------------------------------------------------------------
(* Properties. *)

\* Rows and handlers hold values of the code; a route leads to a mapping of
\* its model.
TypeOK ==
  /\ usable \subseteq Mappings
  /\ \A model \in Models : /\ route[model].updated \in 0..MaxRequests
                           /\ route[model].mapping \in {None} \cup {m \in Mappings : ModelOf(m) = model}
  /\ responses \in [Requests -> Mappings \cup {None}]
  /\ latest \in Requests \cup {None}
  /\ \A r \in Requests :
       /\ request[r].model \in Models \cup {None}
       /\ request[r].kind \in Kinds
       /\ Stage(r) \in {"idle", "choosing", "remembering", "writing", "recording", "done"}
       /\ {request[r].planned, request[r].first, request[r].mapping} \subseteq Mappings \cup {None}
       /\ request[r].left \subseteq Mappings
       /\ request[r].outcome \in Outcomes

\* A session is only sent back to a mapping that served one of its requests
\* for that model, or was serving it when the client left.
RouteEarned ==
  \A model \in Models :
    route[model] # NoRoute =>
      \E r \in Requests : /\ request[r].model = model
                          /\ request[r].mapping = route[model].mapping
                          /\ Reusable(r)

Settled(r) == request[r].alone /\ Stage(r) = "recording"

\* A request that nothing overlaps starts on the session's route while it is
\* usable and leaves it in place, unless an upstream rejected the request.
UsableRouteKept ==
  \A r \in Requests :
    Settled(r) /\ request[r].kind = "plain" /\ request[r].seen \in usable =>
      /\ request[r].opening \in {None, request[r].seen}
      /\ request[r].refresh \/ Row(r).mapping = request[r].seen

\* A session that changes its model stays on its channel if the channel has
\* the model, unless the session has a usable route for that model.
SwitchStaysOnChannel ==
  \A r \in Requests :
    /\ Settled(r)
    /\ request[r].kind # "pinned"
    /\ PreviousRoute # None
    /\ request[PreviousRoute].outcome \in {"success", "canceled"}
    /\ request[PreviousRoute].model # request[r].model
    /\ request[r].seen \notin usable
    /\ OnPreviousChannel(request[r].model) # {}
    => request[r].opening \in OnPreviousChannel(request[r].model)

=============================================================================
