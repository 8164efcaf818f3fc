-------------------------- MODULE Session_proofs --------------------------
(***************************************************************************)
(* What a session keeps.                                                   *)
(*                                                                         *)
(* SessionRoute: a session is only sent back to a mapping that served it,  *)
(* a request that nothing overlaps keeps a usable route, and a session     *)
(* that changes its model stays on its channel: for any mappings, any      *)
(* number of requests and any overlap of their handlers, although a route  *)
(* is compared and written in separate statements.                         *)
(*                                                                         *)
(* ChatSession: conversations that name no session are told apart, and     *)
(* each stays in its session: for any conversations and answers, any       *)
(* number of requests and any overlap, ageing, expiry and deletion.        *)
(*                                                                         *)
(* ContextWindow: every window is learned from compactions of the model it *)
(* stands for and is the latest of its profile: for any sessions, clients, *)
(* models, samples and histories.                                          *)
(***************************************************************************)
EXTENDS SessionRoute, ChatSession, ContextWindow, FiniteSetTheorems, WellFoundedInduction, TLAPS

USE BoundsAssumption, MappingsAssumption, NoneAssumption

Place  == Mappings \cup {None}
Stages == {"idle", "choosing", "remembering", "writing", "recording", "done"}

Handlers ==
  [model : Models \cup {None}, stage : Stages, planned : Place, refresh : BOOLEAN,
   bound : BOOLEAN, first : Place, left : SUBSET Mappings, mapping : Place,
   outcome : Outcomes, kind : Kinds, opening : Place, seen : Place, alone : BOOLEAN]

HasServed(h) == h.outcome \in {"success", "canceled"}

\* A handler tries mappings of its model only, and remembers one that served.
Sound(h) ==
  /\ h.stage # "idle" => h.model \in Models
  /\ \A m \in h.left : ModelOf(m) = h.model
  /\ h.mapping # None => ModelOf(h.mapping) = h.model
  /\ h.stage \in {"remembering", "writing"} => HasServed(h) /\ h.mapping # None
  /\ h.stage \in {"idle", "choosing"} => ~HasServed(h)

\* What has served a request is not forgotten.
Keeps(g, h) ==
  HasServed(g) => h.model = g.model /\ h.mapping = g.mapping /\ HasServed(h)

Rows == [mapping : Place, updated : 0 .. MaxRequests]

Typed ==
  /\ usable \subseteq Mappings
  /\ route \in [Models -> Rows]
  /\ responses \in [Requests -> Place]
  /\ latest \in Requests \cup {None}
  /\ request \in [Requests -> Handlers]
  /\ clock \in 0 .. MaxRequests

\* Handlers are sound, those that have not begun are idle, and a route leads
\* to a mapping of its model.
Inv ==
  /\ Typed
  /\ \A r \in Requests : Sound(request[r]) /\ (r > clock => Stage(r) = "idle")
  /\ \A model \in Models :
       route[model].mapping # None => ModelOf(route[model].mapping) = model
  /\ RouteEarned

-----------------------------------------------------------------------------
\* A step that leaves the routes alone, or expires some, and moves handlers on
\* soundly, keeps every route earned.
LEMMA HandlersMoveOn ==
  ASSUME Inv, Typed',
         \A r \in Requests : /\ Sound(request'[r])
                             /\ Keeps(request[r], request'[r])
                             /\ r > clock' => request'[r].stage = "idle",
         \A model \in Models : route'[model] = route[model] \/ route'[model] = NoRoute
  PROVE  Inv'
<1> USE DEF Inv
<1>1. RouteEarned'
  <2> SUFFICES ASSUME NEW model \in Models, route'[model] # NoRoute
               PROVE  \E r \in Requests : /\ request'[r].model = model
                                          /\ request'[r].mapping = route'[model].mapping
                                          /\ Reusable(r)'
    BY DEF RouteEarned
  <2>1. route'[model] = route[model] /\ route[model] # NoRoute
    OBVIOUS
  <2>2. PICK r \in Requests : /\ request[r].model = model
                              /\ request[r].mapping = route[model].mapping
                              /\ Reusable(r)
    BY <2>1 DEF RouteEarned
  <2>3. QED
    BY <2>1, <2>2 DEF Keeps, HasServed, Reusable
<1>2. \A model \in Models :
        route'[model].mapping # None => ModelOf(route'[model].mapping) = model
  BY DEF NoRoute
<1>3. QED
  BY <1>1, <1>2 DEF Stage

\* The histories are no part of what a handler does.
LEMMA QuietSound ==
  ASSUME Inv, NEW q \in Requests
  PROVE  /\ NobodyAlone(request)[q] \in Handlers
         /\ Sound(NobodyAlone(request)[q])
         /\ Keeps(request[q], NobodyAlone(request)[q])
         /\ NobodyAlone(request)[q].stage = request[q].stage
<1> DEFINE quiet == NobodyAlone(request)
<1>1. request[q] \in Handlers /\ Sound(request[q])
  BY DEF Inv, Typed
<1>2. quiet[q] = [request[q] EXCEPT !.alone = FALSE, !.kind = "plain", !.opening = None,
                                    !.seen = None]
  BY DEF NobodyAlone
<1>3. quiet[q] \in Handlers
  BY <1>1, <1>2 DEF Handlers, Kinds, Place
<1>4. /\ quiet[q].stage = request[q].stage /\ quiet[q].model = request[q].model
      /\ quiet[q].mapping = request[q].mapping /\ quiet[q].outcome = request[q].outcome
      /\ quiet[q].left = request[q].left
  BY <1>1, <1>2 DEF Handlers
<1> HIDE DEF quiet
<1>5. Sound(quiet[q]) /\ Keeps(request[q], quiet[q])
  BY <1>1, <1>3, <1>4 DEF Sound, Keeps, HasServed
<1>6. QED
  BY <1>3, <1>4, <1>5 DEF quiet

\* A handler of an idle request takes its place.
LEMMA BeginKeepsInv ==
  ASSUME Inv, NEW r \in Requests, r = clock + 1, NEW handler \in Handlers, Sound(handler),
         handler.stage # "idle", Begin(r, handler)
  PROVE  Inv'
<1> USE DEF Inv
<1> DEFINE quiet == NobodyAlone(request)
           mine  == IF InFlight = {}
                    THEN [handler EXCEPT !.alone = TRUE, !.seen = route[handler.model].mapping]
                    ELSE [handler EXCEPT !.kind = "plain"]
<1>1. \A q \in Requests :
        /\ quiet[q] \in Handlers /\ Sound(quiet[q]) /\ Keeps(request[q], quiet[q])
        /\ quiet[q].stage = request[q].stage
  BY QuietSound
<1>2. mine \in Handlers /\ Sound(mine)
  <2>1. handler.model \in Models
    BY DEF Sound
  <2>2. route[handler.model].mapping \in Place
    BY <2>1 DEF Typed, Rows
  <2>3. QED
    BY <2>1, <2>2 DEF Handlers, Sound, HasServed, Kinds
<1>3. /\ request' = [quiet EXCEPT ![r] = mine] /\ clock' = clock + 1
      /\ UNCHANGED <<usable, route, responses, latest>>
  BY DEF Begin
<1>4. /\ DOMAIN quiet = Requests
      /\ request'[r] = mine
      /\ \A q \in Requests \ {r} : request'[q] = quiet[q]
  BY <1>3 DEF NobodyAlone
<1>5. clock \in Nat /\ clock' \in 0 .. MaxRequests
  BY <1>3 DEF Typed, Requests
<1>6. Typed'
  <2>1. request' \in [Requests -> Handlers]
    BY <1>1, <1>2, <1>3 DEF NobodyAlone
  <2>2. QED
    BY <1>3, <1>5, <2>1 DEF Typed
<1>7. ~HasServed(request[r])
  BY <1>5 DEF Sound, Stage
<1> HIDE DEF quiet, mine
<1>8. \A q \in Requests : /\ Sound(request'[q])
                          /\ Keeps(request[q], request'[q])
                          /\ q > clock' => request'[q].stage = "idle"
  <2> SUFFICES ASSUME NEW q \in Requests
               PROVE  /\ Sound(request'[q])
                      /\ Keeps(request[q], request'[q])
                      /\ q > clock' => request'[q].stage = "idle"
    OBVIOUS
  <2>1. CASE q = r
    BY <1>2, <1>3, <1>4, <1>5, <1>7, <2>1 DEF Keeps
  <2>2. CASE q # r
    BY <1>1, <1>3, <1>4, <1>5, <2>2 DEF Stage, Requests
  <2>3. QED
    BY <2>1, <2>2
<1>9. QED
  BY <1>3, <1>6, <1>8, HandlersMoveOn

\* A handler that has begun goes on; the routes stay.
LEMMA HandlerGoesOn ==
  ASSUME Inv, NEW r \in Requests, Stage(r) # "idle", NEW h \in Handlers, Sound(h),
         Keeps(request[r], h),
         request' = [request EXCEPT ![r] = h],
         UNCHANGED <<usable, route, clock>>,
         responses' \in [Requests -> Place], latest' \in Requests \cup {None}
  PROVE  Inv'
<1> USE DEF Inv
<1>1. request \in [Requests -> Handlers]
  BY DEF Typed
<1>2. Typed'
  BY <1>1 DEF Typed
<1>3. \A q \in Requests : request'[q] = IF q = r THEN h ELSE request[q]
  BY <1>1
<1>4. \A q \in Requests : /\ Sound(request'[q])
                          /\ Keeps(request[q], request'[q])
                          /\ q > clock' => request'[q].stage = "idle"
  BY <1>3 DEF Keeps, Stage
<1>5. QED
  BY <1>2, <1>4, HandlersMoveOn

\* Where a handler goes with nothing left to try, or something.
LEMMA EnterSound ==
  ASSUME NEW g \in Handlers, g.model \in Models, g.stage \in Stages,
         \A m \in g.left : ModelOf(m) = g.model,
         g.mapping # None => ModelOf(g.mapping) = g.model,
         NEW stage \in {"choosing", "remembering", "writing", "recording"},
         stage \in {"remembering", "writing"} => HasServed(g) /\ g.mapping # None,
         g.stage = "choosing" /\ stage = "choosing" => ~HasServed(g),
         stage = "choosing" => g.stage = "choosing"
  PROVE  /\ Enter(stage, g) \in Handlers /\ Sound(Enter(stage, g))
         /\ Enter(stage, g).model = g.model /\ Enter(stage, g).mapping = g.mapping
         /\ Enter(stage, g).outcome = g.outcome
         /\ Enter(stage, g).stage # "idle"
<1>1. CASE stage = "choosing" /\ g.left # {}
  <2>1. Enter(stage, g) = g
    BY <1>1 DEF Enter
  <2>2. QED
    BY <1>1, <2>1 DEF Sound, HasServed
<1>2. CASE stage \in {"remembering", "writing"}
  <2>1. Enter(stage, g) = [g EXCEPT !.stage = stage, !.left = {}]
    BY <1>2 DEF Enter
  <2> DEFINE h == [g EXCEPT !.stage = stage, !.left = {}]
  <2>2. /\ h \in Handlers /\ h.model = g.model /\ h.mapping = g.mapping /\ h.outcome = g.outcome
        /\ h.stage = stage /\ h.left = {}
    BY DEF Handlers, Stages
  <2> HIDE DEF h
  <2>3. Sound(h)
    BY <1>2, <2>2 DEF Sound, HasServed
  <2>4. QED
    BY <1>2, <2>1, <2>2, <2>3 DEF h
<1>3. CASE ~(stage = "choosing" /\ g.left # {}) /\ stage \notin {"remembering", "writing"}
  <2> DEFINE h == [g EXCEPT !.stage = "recording", !.left = {}, !.planned = None, !.bound = FALSE]
  <2>1. Enter(stage, g) = h
    BY <1>3 DEF Enter
  <2>2. /\ h \in Handlers /\ h.model = g.model /\ h.mapping = g.mapping /\ h.outcome = g.outcome
        /\ h.stage = "recording" /\ h.left = {}
    BY DEF Handlers, Stages, Place
  <2> HIDE DEF h
  <2>3. Sound(h)
    BY <2>2 DEF Sound, HasServed
  <2>4. QED
    BY <2>1, <2>2, <2>3
<1>4. QED
  BY <1>1, <1>2, <1>3

-----------------------------------------------------------------------------
(* The actions. *)

\* A handler that is about to try candidates of its model.
Opens(h, model) ==
  /\ h \in Handlers
  /\ h.model = model /\ h.stage = "choosing" /\ h.mapping = None /\ h.outcome = "none"
  /\ h.left \subseteq Candidates(model)

LEMMA PlanKeepsInv ==
  ASSUME Inv, NEW r \in Requests, NEW model \in Models, Plan(r, model)
  PROVE  Inv'
<1> USE DEF Inv
<1>1. /\ r = clock + 1 /\ usable \subseteq Mappings /\ None \in Place
      /\ route[model].mapping \in Place
  BY DEF Plan, Typed, Place, Rows
<1>2. ASSUME NEW h, Opens(h, model), Begin(r, h) PROVE Inv'
  <2>1. Sound(h)
    BY <1>2 DEF Opens, Sound, HasServed, Candidates
  <2>2. QED
    BY <1>1, <1>2, <2>1, BeginKeepsInv DEF Opens
<1>3. ASSUME NEW kind \in Kinds, NEW left, left \subseteq Candidates(model)
      PROVE  /\ Opens(Handler(model, kind, left), model)
             /\ Opens([Handler(model, kind, left) EXCEPT !.bound = TRUE], model)
             /\ \A first, planned \in Place :
                  /\ Opens([Handler(model, kind, left) EXCEPT !.first = first, !.planned = planned], model)
                  /\ Opens([Handler(model, kind, left) EXCEPT !.first = first, !.refresh = TRUE], model)
  <2>1. left \subseteq Mappings
    BY <1>1, <1>3 DEF Candidates
  <2> DEFINE g == Handler(model, kind, left)
  <2>2. /\ g \in Handlers
        /\ g.model = model /\ g.stage = "choosing" /\ g.mapping = None /\ g.outcome = "none"
        /\ g.left = left
    BY <1>1, <2>1 DEF Handler, Idle, Handlers, Stages, Outcomes
  <2> HIDE DEF g
  <2>3. Opens(g, model) /\ Opens([g EXCEPT !.bound = TRUE], model)
    BY <1>3, <2>2 DEF Opens, Handlers
  <2>4. ASSUME NEW first \in Place, NEW planned \in Place
        PROVE  /\ Opens([g EXCEPT !.first = first, !.planned = planned], model)
               /\ Opens([g EXCEPT !.first = first, !.refresh = TRUE], model)
    BY <1>3, <2>2 DEF Opens, Handlers
  <2>5. QED
    BY <2>3, <2>4 DEF g
<1>4. ASSUME NEW c \in Channels, PlanPinned(r, model, c) PROVE Inv'
  <2>1. OnChannel(model, c) \subseteq Candidates(model) /\ "pinned" \in Kinds
    BY DEF OnChannel, Kinds
  <2>2. QED
    BY <1>2, <1>3, <1>4, <2>1 DEF PlanPinned
<1>5. ASSUME NEW kind \in Kinds, PlanByModelRoute(r, model, kind) PROVE Inv'
  BY <1>1, <1>2, <1>3, <1>5 DEF PlanByModelRoute
<1>6. ASSUME NEW kind \in Kinds, PlanOnPreviousChannel(r, model, kind) PROVE Inv'
  <2>1. PICK m \in OnPreviousChannel(model) :
          Begin(r, [Handler(model, kind, Candidates(model)) EXCEPT !.first = m, !.refresh = TRUE])
    BY <1>6 DEF PlanOnPreviousChannel
  <2>2. m \in Place
    BY <1>1 DEF OnPreviousChannel, OnChannel, Candidates, Place
  <2>3. QED
    BY <1>2, <1>3, <2>1, <2>2
<1>7. ASSUME NEW kind \in Kinds, PlanFails(r, model, kind) PROVE Inv'
  <2> DEFINE h == Enter("recording", Handler(model, kind, {}))
  <2>1. h = [model |-> model, stage |-> "recording", planned |-> None, refresh |-> FALSE,
             bound |-> FALSE, first |-> None, left |-> {}, mapping |-> None, outcome |-> "none",
             kind |-> kind, opening |-> None, seen |-> None, alone |-> FALSE]
    BY DEF Enter, Handler, Idle
  <2>2. Begin(r, h)
    BY <1>7 DEF PlanFails
  <2> HIDE DEF h
  <2>3. h \in Handlers /\ h.stage # "idle"
    BY <1>1, <2>1 DEF Handlers, Stages, Outcomes
  <2>4. Sound(h)
    BY <2>1 DEF Sound, HasServed
  <2>5. QED
    BY <1>1, <2>2, <2>3, <2>4, BeginKeepsInv
<1>8. ASSUME NEW q \in Requests, PlanByResponse(r, model, q) PROVE Inv'
  <2>1. {responses[q]} \subseteq Candidates(model) /\ "continued" \in Kinds
    BY <1>8 DEF PlanByResponse, Kinds
  <2>2. QED
    BY <1>2, <1>3, <1>8, <2>1 DEF PlanByResponse
<1>9. CASE PlanByRoute(r, model)
  <2>1. "plain" \in Kinds
    BY DEF Kinds
  <2>2. QED
    BY <1>1, <1>2, <1>3, <1>9, <2>1 DEF PlanByRoute
<1>10. CASE PlanAfresh(r, model)
  <2>1. "plain" \in Kinds
    BY DEF Kinds
  <2>2. QED
    BY <1>1, <1>2, <1>3, <1>10, <2>1 DEF PlanAfresh
<1>11. QED
  BY <1>4, <1>5, <1>6, <1>7, <1>8, <1>9, <1>10 DEF Plan

\* What a handler in flight is.
LEMMA InFlightSound ==
  ASSUME Inv, NEW r \in Requests, Stage(r) # "idle"
  PROVE  /\ request[r] \in Handlers /\ Sound(request[r])
         /\ request[r].model \in Models /\ request[r].stage \in Stages
  BY DEF Inv, Typed, Sound, Handlers, Stage

LEMMA AttemptKeepsInv ==
  ASSUME Inv, NEW r \in Requests, NEW m \in Mappings, Attempt(r, m)
  PROVE  Inv'
<1> DEFINE g == request[r]
<1>1. /\ Stage(r) = "choosing" /\ m \in g.left
      /\ UNCHANGED <<usable, route, latest, clock>>
  BY DEF Attempt, Skip, Succeed, Cancel, Deliver, Fail, Tried, IsNext
<1>2. /\ g \in Handlers /\ Sound(g) /\ g.model \in Models /\ g.stage = "choosing"
      /\ responses \in [Requests -> Place] /\ latest \in Requests \cup {None}
      /\ None \in Place /\ m \in Place
  BY <1>1, InFlightSound DEF Stage, Inv, Typed, Place
<1>3. CASE Skip(r, m)
  <2> DEFINE h == [g EXCEPT !.left = g.left \ {m}, !.first = None]
             s == IF g.bound THEN "recording" ELSE "choosing"
  <2>1. /\ h \in Handlers /\ h.model = g.model /\ h.stage = "choosing" /\ h.left = g.left \ {m}
        /\ h.mapping = g.mapping /\ h.outcome = g.outcome
    BY <1>2 DEF Handlers
  <2>2. request' = [request EXCEPT ![r] = Enter(s, h)] /\ responses' = responses
    BY <1>3 DEF Skip
  <2>3. s \in {"choosing", "recording"}
    OBVIOUS
  <2> HIDE DEF h, s
  <2>4. /\ Enter(s, h) \in Handlers /\ Sound(Enter(s, h)) /\ Keeps(g, Enter(s, h))
    BY <1>2, <2>1, <2>3, EnterSound DEF Sound, HasServed, Keeps, Stages
  <2>5. QED
    BY <1>1, <1>2, <2>2, <2>4, HandlerGoesOn
<1>4. ASSUME NEW stage \in {"choosing", "remembering", "recording"},
             NEW outcome \in Outcomes \ {"none"}, NEW rejected \in BOOLEAN,
             Tried(r, m, stage, outcome, rejected), responses' \in [Requests -> Place],
             stage = "choosing" => outcome = "failed",
             stage = "remembering" => outcome \in {"success", "canceled"}
      PROVE  Inv'
  <2> DEFINE h == [g EXCEPT !.left = g.left \ {m}, !.first = None, !.mapping = m,
                            !.outcome = outcome, !.refresh = g.refresh \/ rejected,
                            !.opening = IF g.opening = None /\ g.alone THEN m ELSE g.opening]
  <2>1. /\ h \in Handlers /\ h.model = g.model /\ h.stage = "choosing" /\ h.left = g.left \ {m}
        /\ h.mapping = m /\ h.outcome = outcome
    BY <1>2 DEF Handlers
  <2>2. request' = [request EXCEPT ![r] = Enter(stage, h)]
    BY <1>4 DEF Tried
  <2> HIDE DEF h
  <2>3. ModelOf(m) = g.model /\ m # None /\ ~HasServed(g)
    BY <1>1, <1>2 DEF Sound
  <2>4. /\ Enter(stage, h) \in Handlers /\ Sound(Enter(stage, h)) /\ Keeps(g, Enter(stage, h))
    <3>1. \A n \in h.left : ModelOf(n) = h.model
      BY <1>2, <2>1 DEF Sound
    <3>2. /\ stage = "remembering" => HasServed(h) /\ h.mapping # None
          /\ stage = "choosing" => ~HasServed(h)
      BY <1>4, <2>1, <2>3 DEF HasServed
    <3>3. QED
      BY <1>2, <2>1, <2>3, <3>1, <3>2, EnterSound DEF Keeps, Stages
  <2>5. QED
    BY <1>1, <1>2, <1>4, <2>2, <2>4, HandlerGoesOn
<1>5. CASE Succeed(r, m)
  <2>1. responses' \in [Requests -> Place]
    BY <1>2, <1>5 DEF Succeed
  <2>2. QED
    BY <1>4, <1>5, <2>1 DEF Succeed, Outcomes
<1>6. CASE Cancel(r, m)
  BY <1>2, <1>4, <1>6 DEF Cancel, Outcomes
<1>7. CASE Deliver(r, m)
  BY <1>2, <1>4, <1>7 DEF Deliver, Outcomes
<1>8. ASSUME NEW rejected \in BOOLEAN, Fail(r, m, rejected) PROVE Inv'
  BY <1>2, <1>4, <1>8 DEF Fail, Outcomes
<1>9. QED
  BY <1>3, <1>5, <1>6, <1>7, <1>8 DEF Attempt

LEMMA CompareKeepsInv ==
  ASSUME Inv, NEW r \in Requests, Compare(r)
  PROVE  Inv'
<1> DEFINE g == request[r]
           s == IF g.refresh \/ MayRemember(r) THEN "writing" ELSE "recording"
<1>1. /\ g \in Handlers /\ Sound(g) /\ g.model \in Models /\ g.stage = "remembering"
      /\ Stage(r) # "idle"
      /\ responses \in [Requests -> Place] /\ latest \in Requests \cup {None}
  BY InFlightSound DEF Compare, Stage, Inv, Typed
<1>2. request' = [request EXCEPT ![r] = Enter(s, g)] /\ s \in {"writing", "recording"}
  BY DEF Compare
<1> HIDE DEF s
<1>3. Enter(s, g) \in Handlers /\ Sound(Enter(s, g)) /\ Keeps(g, Enter(s, g))
  BY <1>1, <1>2, EnterSound DEF Sound, HasServed, Keeps, Stages
<1>4. QED
  BY <1>1, <1>2, <1>3, HandlerGoesOn DEF Compare

\* The row that is written names the mapping that served this request.
LEMMA WriteKeepsInv ==
  ASSUME Inv, NEW r \in Requests, Write(r)
  PROVE  Inv'
<1> DEFINE g   == request[r]
           row == [mapping |-> g.mapping, updated |-> clock]
           h   == Enter("recording", g)
<1>1. /\ g \in Handlers /\ Sound(g) /\ g.model \in Models /\ g.stage = "writing"
      /\ HasServed(g) /\ g.mapping # None
  BY InFlightSound DEF Write, Stage, Sound
<1>2. /\ request' = [request EXCEPT ![r] = h] /\ route' = [route EXCEPT ![g.model] = row]
      /\ UNCHANGED <<usable, responses, latest, clock>>
  BY DEF Write
<1>3. /\ h \in Handlers /\ Sound(h) /\ h.model = g.model /\ h.mapping = g.mapping
      /\ h.outcome = g.outcome
  BY <1>1, EnterSound DEF Sound, Stages, HasServed
<1>4. /\ request \in [Requests -> Handlers] /\ route \in [Models -> Rows]
      /\ row \in Rows
  BY <1>1 DEF Inv, Typed, Rows, Handlers
<1>5. Typed'
  BY <1>2, <1>3, <1>4 DEF Inv, Typed
<1>6. /\ \A q \in Requests : request'[q] = IF q = r THEN h ELSE request[q]
      /\ \A model \in Models : route'[model] = IF model = g.model THEN row ELSE route[model]
  BY <1>2, <1>4
<1> HIDE DEF h
<1>7. \A q \in Requests : Sound(request'[q]) /\ (q > clock' => request'[q].stage = "idle")
  BY <1>1, <1>2, <1>3, <1>6 DEF Inv, Stage
<1>8. \A model \in Models :
        route'[model].mapping # None => ModelOf(route'[model].mapping) = model
  BY <1>1, <1>6 DEF Inv, Sound
<1>9. RouteEarned'
  <2> SUFFICES ASSUME NEW model \in Models, route'[model] # NoRoute
               PROVE  \E q \in Requests : /\ request'[q].model = model
                                          /\ request'[q].mapping = route'[model].mapping
                                          /\ Reusable(q)'
    BY DEF RouteEarned
  <2>1. CASE model = g.model
    BY <1>1, <1>3, <1>6, <2>1 DEF Reusable, HasServed
  <2>2. CASE model # g.model
    <3>1. route[model] # NoRoute /\ route'[model] = route[model]
      BY <1>6, <2>2
    <3>2. PICK q \in Requests : /\ request[q].model = model
                                /\ request[q].mapping = route[model].mapping
                                /\ Reusable(q)
      BY <3>1 DEF Inv, RouteEarned
    <3>3. q # r
      BY <2>2, <3>2
    <3>4. QED
      BY <1>6, <3>1, <3>2, <3>3 DEF Reusable
  <2>3. QED
    BY <2>1, <2>2
<1>10. QED
  BY <1>5, <1>7, <1>8, <1>9 DEF Inv, Stage

LEMMA RecordKeepsInv ==
  ASSUME Inv, NEW r \in Requests, Record(r)
  PROVE  Inv'
<1> DEFINE g == request[r]
           h == [Idle EXCEPT !.stage = "done", !.model = g.model, !.mapping = g.mapping,
                             !.outcome = g.outcome]
<1>1. /\ g \in Handlers /\ Sound(g) /\ g.model \in Models /\ Stage(r) # "idle"
      /\ responses \in [Requests -> Place]
  BY InFlightSound DEF Record, Stage, Inv, Typed
<1>2. Idle \in Handlers /\ Idle.left = {}
  BY DEF Idle, Handlers, Stages, Place, Outcomes, Kinds
<1>3. /\ request' = [request EXCEPT ![r] = h] /\ latest' = r
      /\ UNCHANGED <<usable, route, responses, clock>>
  BY DEF Record
<1>4. /\ h \in Handlers /\ h.stage = "done" /\ h.model = g.model /\ h.mapping = g.mapping
      /\ h.outcome = g.outcome /\ h.left = {}
  BY <1>1, <1>2 DEF Handlers, Stages
<1> HIDE DEF h
<1>5. Sound(h) /\ Keeps(g, h)
  BY <1>1, <1>4 DEF Sound, Keeps, HasServed
<1>6. QED
  BY <1>1, <1>3, <1>4, <1>5, HandlerGoesOn

\* The rest of the gateway: only histories and availability change, or a
\* route is forgotten.
LEMMA OthersKeepInv ==
  ASSUME Inv, (\E m \in Mappings : ChangeUsable(m)) \/ (\E model \in Models : Expire(model))
  PROVE  Inv'
<1>1. /\ request' = NobodyAlone(request) /\ UNCHANGED <<responses, latest, clock>>
      /\ usable' \subseteq Mappings
  BY DEF ChangeUsable, Expire, Inv, Typed
<1>2. /\ route' \in [Models -> Rows]
      /\ \A model \in Models : route'[model] = route[model] \/ route'[model] = NoRoute
  <2>1. NoRoute \in Rows /\ route \in [Models -> Rows]
    BY DEF Inv, Typed, Rows, NoRoute, Place
  <2>2. CASE \E m \in Mappings : ChangeUsable(m)
    BY <2>1, <2>2 DEF ChangeUsable
  <2>3. CASE \E model \in Models : Expire(model)
    BY <2>1, <2>3 DEF Expire
  <2>4. QED
    BY <2>2, <2>3
<1>3. \A q \in Requests : /\ request'[q] \in Handlers
                          /\ Sound(request'[q]) /\ Keeps(request[q], request'[q])
                          /\ request'[q].stage = request[q].stage
  BY <1>1, QuietSound
<1>4. Typed'
  <2>1. request' \in [Requests -> Handlers]
    BY <1>1, <1>3 DEF NobodyAlone
  <2>2. QED
    BY <1>1, <1>2, <2>1 DEF Inv, Typed
<1>5. QED
  BY <1>1, <1>2, <1>3, <1>4, HandlersMoveOn DEF Inv, Stage

-----------------------------------------------------------------------------
LEMMA InitInv == Init => Inv
<1> SUFFICES ASSUME Init PROVE Inv
  OBVIOUS
<1>1. Idle \in Handlers /\ Sound(Idle) /\ Idle.stage = "idle"
  BY DEF Idle, Handlers, Stages, Place, Outcomes, Kinds, Sound, HasServed
<1>2. \A r \in Requests : request[r] = Idle
  BY DEF Init
<1>3. \A model \in Models : route[model] = NoRoute
  BY DEF Init
<1>4. Typed
  BY <1>1 DEF Init, Typed, Rows, NoRoute, Place
<1>5. RouteEarned
  BY <1>3 DEF RouteEarned
<1>6. QED
  BY <1>1, <1>2, <1>3, <1>4, <1>5 DEF Inv, Stage, NoRoute

LEMMA StepInv == Inv /\ [Next]_vars => Inv'
<1> SUFFICES ASSUME Inv, [Next]_vars PROVE Inv'
  OBVIOUS
<1>1. CASE UNCHANGED vars
  BY <1>1 DEF vars, Inv, Typed, RouteEarned, Reusable, Stage
<1>2. QED
  BY <1>1, PlanKeepsInv, AttemptKeepsInv, CompareKeepsInv, WriteKeepsInv, RecordKeepsInv,
     OthersKeepInv DEF Next

LEMMA Invariance == Spec => []Inv
  BY InitInv, StepInv, PTL DEF Spec

\* Rows and handlers keep their types, and a route leads to its own model.
THEOREM TypeCorrect == Spec => []TypeOK
<1>1. Inv => TypeOK
  <2> SUFFICES ASSUME Inv PROVE TypeOK
    OBVIOUS
  <2>1. \A r \in Requests : request[r] \in Handlers
    BY DEF Inv, Typed
  <2>2. \A model \in Models : route[model] \in Rows
    BY DEF Inv, Typed
  <2>3. \A model \in Models :
          /\ route[model].updated \in 0 .. MaxRequests
          /\ route[model].mapping \in {None} \cup {m \in Mappings : ModelOf(m) = model}
    BY <2>2 DEF Inv, Rows, Place
  <2>4. \A r \in Requests :
          /\ request[r].model \in Models \cup {None}
          /\ request[r].kind \in Kinds
          /\ Stage(r) \in {"idle", "choosing", "remembering", "writing", "recording", "done"}
          /\ {request[r].planned, request[r].first, request[r].mapping} \subseteq Mappings \cup {None}
          /\ request[r].left \subseteq Mappings
          /\ request[r].outcome \in Outcomes
    BY <2>1 DEF Handlers, Stage, Stages, Place
  <2>5. QED
    BY <2>3, <2>4 DEF Inv, Typed, TypeOK, Place
<1>2. QED
  BY Invariance, <1>1, PTL

\* Whatever requests of a session overlap, and whatever else changes, a
\* remembered route names a mapping that served a request of the session for
\* that model, or was serving it when the client left.
THEOREM RoutesEarned == Spec => []RouteEarned
<1>1. Inv => RouteEarned
  BY DEF Inv
<1>2. QED
  BY Invariance, <1>1, PTL

-----------------------------------------------------------------------------
(* A request that nothing overlaps. *)

InFlightStages == {"choosing", "remembering", "writing", "recording"}

\* What it owes to the route it found, while that is usable.  It tries the route first,
\* and compares, and writes, with what it found.
KeepsRoute(h, row) ==
  h.kind = "plain" /\ h.seen \in usable =>
    /\ h.opening \in {None, h.seen}
    /\ h.stage = "choosing" /\ h.opening = None => h.first = h.seen /\ h.seen \in h.left
    /\ h.stage \in {"choosing", "remembering"} => h.refresh \/ h.planned = h.seen
    /\ h.stage = "writing" => h.refresh \/ h.mapping = h.seen
    /\ row = h.seen \/ (h.stage = "recording" /\ h.refresh)

\* What it owes to the channel of the session's previous model.
StaysOn(h) ==
  /\ h.kind # "pinned" /\ Switches(h.model) /\ h.seen \notin usable
  /\ OnPreviousChannel(h.model) # {}
  => \/ h.opening \in OnPreviousChannel(h.model)
     \/ /\ h.stage = "choosing" /\ h.opening = None
        /\ h.first \in h.left /\ h.first \in OnPreviousChannel(h.model)

\* What a handler must be when it begins, for both to hold.
Fits(h) ==
  /\ h.stage \in {"choosing", "recording"} /\ h.opening = None /\ h.alone = FALSE
  /\ LET seen == route[h.model].mapping
     IN  /\ h.stage = "choosing" /\ h.kind = "plain" /\ seen \in usable =>
              h.first = seen /\ h.planned = seen /\ seen \in h.left
         /\ /\ h.kind # "pinned" /\ Switches(h.model) /\ seen \notin usable
            /\ OnPreviousChannel(h.model) # {}
            => /\ h.stage = "choosing"
               /\ h.first \in h.left /\ h.first \in OnPreviousChannel(h.model)

\* Among the requests that were served one began last: what PreviousRoute chooses exists.
LastServed == Served # {} => \E q \in Served : \A p \in Served : p <= q

LoneInv ==
  /\ Inv
  /\ LastServed
  /\ \A r \in Requests : request[r].alone =>
       /\ InFlight = {r}
       /\ KeepsRoute(request[r], Row(r).mapping)
       /\ StaysOn(request[r])

LEMMA PreviousServed ==
  ASSUME LastServed, PreviousRoute # None
  PROVE  PreviousRoute \in Served
  BY DEF LastServed, PreviousRoute

\* While no request is recorded, none is deleted from the log, and nothing changes
\* availability, the previous route and its channel stay what they are.
LEMMA PreviousStays ==
  ASSUME LastServed, usable' = usable, latest' = latest, NEW model,
         \A q \in Requests : request'[q].stage = "done" <=> Stage(q) = "done",
         \A q \in Requests : Stage(q) = "done" =>
           /\ request'[q].model = request[q].model
           /\ request'[q].mapping = request[q].mapping
           /\ request'[q].outcome = request[q].outcome
  PROVE  /\ LastServed'
         /\ Switches(model)' <=> Switches(model)
         /\ Switches(model) => OnPreviousChannel(model)' = OnPreviousChannel(model)
<1>1. Served' = Served
  BY DEF Served, Stage
<1>2. LastServed'
  BY <1>1 DEF LastServed
<1>3. PreviousRoute' = PreviousRoute
  BY <1>1 DEF PreviousRoute
<1>4. CASE PreviousRoute = None
  BY <1>2, <1>3, <1>4 DEF Switches
<1>5. CASE PreviousRoute # None
  <2> DEFINE q == PreviousRoute
  <2>1. q \in Requests /\ Stage(q) = "done"
    BY <1>5, PreviousServed DEF Served
  <2>2. /\ request'[q].model = request[q].model
        /\ request'[q].mapping = request[q].mapping
        /\ request'[q].outcome = request[q].outcome
    BY <2>1
  <2>3. Switches(model)' <=> Switches(model)
    BY <1>3, <2>2 DEF Switches, Reusable
  <2>4. OnPreviousChannel(model)' = OnPreviousChannel(model)
    BY <1>3, <2>2 DEF OnPreviousChannel, OnChannel, Candidates
  <2>5. QED
    BY <1>2, <2>3, <2>4
<1>6. QED
  BY <1>4, <1>5

\* A handler in flight goes on: whoever is alone is that one.
LEMMA AloneGoesOn ==
  ASSUME LoneInv, Inv', NEW r \in Requests, Stage(r) \in InFlightStages, NEW h,
         request' = [request EXCEPT ![r] = h], h.stage \in InFlightStages,
         usable' = usable, latest' = latest, h.alone = request[r].alone,
         request[r].alone => KeepsRoute(h, route'[h.model].mapping) /\ StaysOn(h)
  PROVE  LoneInv'
<1>1. request \in [Requests -> Handlers]
  BY DEF LoneInv, Inv, Typed
<1>2. \A q \in Requests : request'[q] = IF q = r THEN h ELSE request[q]
  BY <1>1
<1>3. \A q \in Requests : q # r => ~request[q].alone
  BY DEF LoneInv, InFlight, InFlightStages
<1>4. \A q \in Requests : /\ request'[q].stage = "done" <=> Stage(q) = "done"
                          /\ Stage(q) = "done" => request'[q] = request[q]
  BY <1>2 DEF Stage, InFlightStages
<1>5. LastServed' /\ (StaysOn(h) => StaysOn(h)')
  <2>1. /\ LastServed'
        /\ Switches(h.model)' <=> Switches(h.model)
        /\ Switches(h.model) => OnPreviousChannel(h.model)' = OnPreviousChannel(h.model)
    BY <1>4, PreviousStays DEF LoneInv
  <2>2. QED
    BY <2>1 DEF StaysOn
<1>6. InFlight' = InFlight
  BY <1>2 DEF InFlight, InFlightStages, Stage
<1>7. ASSUME NEW q \in Requests, request'[q].alone
      PROVE  /\ InFlight' = {q}
             /\ KeepsRoute(request[q], Row(q).mapping)'
             /\ StaysOn(request[q])'
  <2>1. q = r /\ request'[q] = h /\ request[r].alone
    BY <1>2, <1>3, <1>7
  <2>2. InFlight' = {q}
    BY <1>6, <2>1 DEF LoneInv
  <2>3. KeepsRoute(request[q], Row(q).mapping)'
    BY <2>1 DEF KeepsRoute, Row
  <2>4. StaysOn(request[q])'
    BY <1>5, <2>1 DEF StaysOn
  <2>5. QED
    BY <2>2, <2>3, <2>4
<1>8. QED
  BY <1>5, <1>7 DEF LoneInv


\* A request begins: it alone may be alone.
LEMMA BeginKeepsLone ==
  ASSUME LoneInv, Inv', NEW r \in Requests, r = clock + 1, NEW handler \in Handlers,
         handler.model \in Models, Fits(handler), Begin(r, handler)
  PROVE  LoneInv'
<1> DEFINE quiet == NobodyAlone(request)
           mine  == IF InFlight = {}
                    THEN [handler EXCEPT !.alone = TRUE, !.seen = route[handler.model].mapping]
                    ELSE [handler EXCEPT !.kind = "plain"]
           seen  == route[handler.model].mapping
<1>1. /\ request' = [quiet EXCEPT ![r] = mine]
      /\ UNCHANGED <<usable, route, latest>>
  BY DEF Begin
<1>2. request \in [Requests -> Handlers] /\ Stage(r) = "idle"
  BY DEF LoneInv, Inv, Typed, Requests
<1>3. \A q \in Requests :
        /\ quiet[q].stage = request[q].stage /\ quiet[q].model = request[q].model
        /\ quiet[q].mapping = request[q].mapping /\ quiet[q].outcome = request[q].outcome
        /\ quiet[q].alone = FALSE
  BY <1>2 DEF NobodyAlone, Handlers
<1>4. \A q \in Requests : request'[q] = IF q = r THEN mine ELSE quiet[q]
  BY <1>1, <1>2 DEF NobodyAlone
<1>5. mine.stage = handler.stage /\ mine.model = handler.model
  BY DEF Handlers
<1> HIDE DEF quiet
<1>6. \A q \in Requests :
        /\ request'[q].stage = "done" <=> Stage(q) = "done"
        /\ Stage(q) = "done" => /\ request'[q].model = request[q].model
                                /\ request'[q].mapping = request[q].mapping
                                /\ request'[q].outcome = request[q].outcome
  BY <1>2, <1>3, <1>4, <1>5 DEF Stage, Fits
<1>7. /\ LastServed'
      /\ \A model \in Models :
           /\ Switches(model)' <=> Switches(model)
           /\ Switches(model) => OnPreviousChannel(model)' = OnPreviousChannel(model)
  BY <1>1, <1>6, PreviousStays DEF LoneInv
<1>8. ASSUME NEW q \in Requests, request'[q].alone, InFlight = {}
      PROVE  /\ InFlight' = {q}
             /\ KeepsRoute(request[q], Row(q).mapping)'
             /\ StaysOn(request[q])'
  <2>1. q = r /\ request'[q] = mine
    BY <1>3, <1>4, <1>8
  <2> DEFINE h == request'[q]
  <2>2. /\ h.stage = handler.stage /\ h.model = handler.model /\ h.kind = handler.kind
        /\ h.first = handler.first /\ h.left = handler.left /\ h.planned = handler.planned
        /\ h.opening = handler.opening /\ h.seen = seen /\ h.refresh = handler.refresh
    BY <1>8, <2>1 DEF Handlers
  <2> HIDE DEF h, mine
  <2>3. InFlight' = {q}
    BY <1>3, <1>4, <1>5, <1>8, <2>1 DEF InFlight, Stage, Fits
  <2>4. KeepsRoute(request[q], Row(q).mapping)'
    <3>1. Row(q)'.mapping = seen
      BY <1>1, <2>2 DEF Row, h
    <3>2. /\ h.opening = None /\ h.stage \in {"choosing", "recording"}
          /\ h.stage = "choosing" /\ h.kind = "plain" /\ seen \in usable =>
               h.first = seen /\ h.planned = seen /\ seen \in h.left
      BY <2>2 DEF Fits
    <3>3. KeepsRoute(h, seen)
      BY <2>2, <3>2 DEF KeepsRoute
    <3>4. QED
      BY <1>1, <3>1, <3>3 DEF KeepsRoute, h
  <2>5. StaysOn(request[q])'
    BY <1>1, <1>7, <2>2 DEF StaysOn, Fits, h
  <2>6. QED
    BY <2>3, <2>4, <2>5
<1>9. ASSUME NEW q \in Requests, request'[q].alone PROVE InFlight = {}
  <2>1. handler.alone = FALSE
    BY DEF Fits
  <2>2. QED
    BY <1>3, <1>4, <1>9, <2>1 DEF Handlers
<1>10. QED
  BY <1>7, <1>8, <1>9 DEF LoneInv

\* A new handler's fields that matter for it.
HandlerBegins(h, model, kind, left, first, planned) ==
  /\ h \in Handlers /\ h.stage \in {"choosing", "recording"} /\ h.model = model
  /\ h.kind = kind /\ h.left = left /\ h.first = first /\ h.planned = planned
  /\ h.opening = None /\ h.alone = FALSE

\* The plan of a request begins as it must: on the route it finds, or on the channel of
\* the previous model, whichever applies.
LEMMA PlanKeepsLone ==
  ASSUME LoneInv, Inv', NEW r \in Requests, NEW model \in Models, Plan(r, model)
  PROVE  LoneInv'
<1> DEFINE seen == route[model].mapping
<1>1. /\ r = clock + 1 /\ usable \subseteq Mappings /\ None \in Place /\ None \notin usable
      /\ seen \in Place
      /\ seen \in usable => seen \in Candidates(model)
  BY DEF LoneInv, Inv, Plan, Typed, Place, Rows, Candidates
<1>2. ASSUME NEW h, NEW kind, NEW left, NEW first, NEW planned, Begin(r, h),
             HandlerBegins(h, model, kind, left, first, planned),
             h.stage = "choosing" /\ kind = "plain" /\ seen \in usable =>
               first = seen /\ planned = seen /\ seen \in left,
             /\ kind # "pinned" /\ Switches(model) /\ seen \notin usable
             /\ OnPreviousChannel(model) # {}
             => h.stage = "choosing" /\ first \in left /\ first \in OnPreviousChannel(model)
      PROVE  LoneInv'
  <2>1. Fits(h)
    BY <1>2 DEF Fits, HandlerBegins
  <2>2. QED
    BY <1>1, <1>2, <2>1, BeginKeepsLone DEF HandlerBegins
<1>3. ASSUME NEW kind \in Kinds, NEW left, left \subseteq Candidates(model)
      PROVE  /\ HandlerBegins(Handler(model, kind, left), model, kind, left, None, None)
             /\ Handler(model, kind, left).stage = "choosing"
             /\ HandlerBegins([Handler(model, kind, left) EXCEPT !.bound = TRUE], model, kind, left, None, None)
             /\ \A first, planned \in Place :
                  /\ HandlerBegins([Handler(model, kind, left) EXCEPT !.first = first, !.planned = planned],
                            model, kind, left, first, planned)
                  /\ HandlerBegins([Handler(model, kind, left) EXCEPT !.first = first, !.refresh = TRUE],
                            model, kind, left, first, None)
                  /\ [Handler(model, kind, left) EXCEPT !.first = first, !.refresh = TRUE].stage = "choosing"
  <2>1. left \subseteq Mappings
    BY <1>1, <1>3 DEF Candidates
  <2> DEFINE g == Handler(model, kind, left)
  <2>2. HandlerBegins(g, model, kind, left, None, None) /\ g.stage = "choosing"
    BY <1>1, <2>1 DEF Handler, Idle, Handlers, Stages, Outcomes, HandlerBegins
  <2> HIDE DEF g
  <2>3. HandlerBegins([g EXCEPT !.bound = TRUE], model, kind, left, None, None)
    BY <2>2 DEF HandlerBegins, Handlers
  <2>4. ASSUME NEW first \in Place, NEW planned \in Place
        PROVE  /\ HandlerBegins([g EXCEPT !.first = first, !.planned = planned], model, kind, left, first, planned)
               /\ HandlerBegins([g EXCEPT !.first = first, !.refresh = TRUE], model, kind, left, first, None)
               /\ [g EXCEPT !.first = first, !.refresh = TRUE].stage = "choosing"
    BY <1>1, <2>2 DEF HandlerBegins, Handlers
  <2>5. QED
    BY <2>2, <2>3, <2>4 DEF g
<1>4. ASSUME NEW c \in Channels, PlanPinned(r, model, c) PROVE LoneInv'
  <2>1. OnChannel(model, c) \subseteq Candidates(model) /\ "pinned" \in Kinds
    BY DEF OnChannel, Kinds
  <2>2. QED
    BY <1>1, <1>2, <1>3, <1>4, <2>1 DEF PlanPinned
<1>5. ASSUME NEW kind \in Kinds, PlanByModelRoute(r, model, kind) PROVE LoneInv'
  <2>1. seen \in Candidates(model) /\ seen \in usable
    BY <1>5 DEF PlanByModelRoute, SwitchKeepsRoute, Candidates
  <2>2. QED
    BY <1>1, <1>2, <1>3, <1>5, <2>1 DEF PlanByModelRoute
<1>6. ASSUME NEW kind \in Kinds, PlanOnPreviousChannel(r, model, kind) PROVE LoneInv'
  <2>1. PICK m \in OnPreviousChannel(model) :
          Begin(r, [Handler(model, kind, Candidates(model)) EXCEPT !.first = m, !.refresh = TRUE])
    BY <1>6 DEF PlanOnPreviousChannel
  <2>2. m \in Place /\ m \in Candidates(model)
    BY <1>1 DEF OnPreviousChannel, OnChannel, Candidates, Place
  <2>3. seen \notin usable
    BY <1>1, <1>6 DEF PlanOnPreviousChannel, SwitchKeepsChannel, SwitchKeepsRoute
  <2>4. QED
    BY <1>1, <1>2, <1>3, <2>1, <2>2, <2>3
<1>7. ASSUME NEW kind \in Kinds, PlanFails(r, model, kind) PROVE LoneInv'
  <2> DEFINE h == Enter("recording", Handler(model, kind, {}))
  <2>1. Begin(r, h) /\ HandlerBegins(h, model, kind, {}, None, None) /\ h.stage = "recording"
    <3>1. h = [model |-> model, stage |-> "recording", planned |-> None, refresh |-> FALSE,
               bound |-> FALSE, first |-> None, left |-> {}, mapping |-> None, outcome |-> "none",
               kind |-> kind, opening |-> None, seen |-> None, alone |-> FALSE]
      BY DEF Enter, Handler, Idle
    <3>2. Begin(r, h)
      BY <1>7 DEF PlanFails
    <3> HIDE DEF h
    <3>3. QED
      BY <1>1, <3>1, <3>2 DEF HandlerBegins, Handlers, Stages, Outcomes
  <2> HIDE DEF h
  <2>2. /\ OnPreviousChannel(model) \subseteq Candidates(model)
        /\ seen \notin usable => ~SwitchKeepsRoute(model)
    BY DEF OnPreviousChannel, OnChannel, SwitchKeepsRoute, Candidates
  <2>3. ~(/\ kind # "pinned" /\ Switches(model) /\ seen \notin usable
          /\ OnPreviousChannel(model) # {})
    BY <1>7, <2>2 DEF PlanFails, SwitchFails, Unswitched, SwitchKeepsChannel
  <2>4. QED
    BY <1>2, <2>1, <2>3
<1>8. ASSUME Unswitched(model), seen \notin usable
      PROVE  ~Switches(model) \/ OnPreviousChannel(model) = {}
  BY <1>8 DEF Unswitched, SwitchKeepsChannel, SwitchKeepsRoute, Candidates
<1>9. ASSUME NEW q \in Requests, PlanByResponse(r, model, q) PROVE LoneInv'
  <2>1. {responses[q]} \subseteq Candidates(model) /\ "continued" \in Kinds
    BY <1>9 DEF PlanByResponse, Kinds
  <2>2. QED
    BY <1>1, <1>2, <1>3, <1>8, <1>9, <2>1 DEF PlanByResponse
<1>10. CASE PlanByRoute(r, model)
  <2>1. "plain" \in Kinds
    BY DEF Kinds
  <2>2. QED
    BY <1>1, <1>2, <1>3, <1>8, <1>10, <2>1 DEF PlanByRoute
<1>11. CASE PlanAfresh(r, model)
  <2>1. "plain" \in Kinds
    BY DEF Kinds
  <2>2. QED
    BY <1>1, <1>2, <1>3, <1>8, <1>11, <2>1 DEF PlanAfresh
<1>12. QED
  BY <1>4, <1>5, <1>6, <1>7, <1>9, <1>10, <1>11 DEF Plan


\* Where Enter takes a handler, and what it leaves of it.
LEMMA EnterKeeps ==
  ASSUME NEW g \in Handlers, NEW stage \in InFlightStages,
         stage = "choosing" => g.stage = "choosing"
  PROVE  LET h == Enter(stage, g)
         IN  /\ h.model = g.model /\ h.kind = g.kind /\ h.seen = g.seen /\ h.alone = g.alone
             /\ h.opening = g.opening /\ h.mapping = g.mapping /\ h.refresh = g.refresh
             /\ h.stage = stage \/ h.stage = "recording"
             /\ h.stage = "choosing" => h = g
             /\ h.stage \in {"remembering", "writing"} => h.planned = g.planned
<1>1. CASE stage = "choosing" /\ g.left # {}
  <2>1. Enter(stage, g) = g
    BY <1>1 DEF Enter
  <2>2. QED
    BY <1>1, <2>1
<1>2. CASE stage \in {"remembering", "writing"}
  <2>1. Enter(stage, g) = [g EXCEPT !.stage = stage, !.left = {}]
    BY <1>2 DEF Enter
  <2>2. QED
    BY <1>2, <2>1 DEF Handlers
<1>3. CASE ~(stage = "choosing" /\ g.left # {}) /\ stage \notin {"remembering", "writing"}
  <2>1. Enter(stage, g) =
          [g EXCEPT !.stage = "recording", !.left = {}, !.planned = None, !.bound = FALSE]
    BY <1>3 DEF Enter
  <2>2. QED
    BY <1>3, <2>1 DEF Handlers
<1>4. QED
  BY <1>1, <1>2, <1>3

\* While the route it found, or the channel it stays on, is usable, an attempt opens with
\* it: it is first in turn, and not skipped.
LEMMA AttemptKeepsLone ==
  ASSUME LoneInv, Inv', NEW r \in Requests, NEW m \in Mappings, Attempt(r, m)
  PROVE  LoneInv'
<1> DEFINE g == request[r]
<1>1. /\ Stage(r) = "choosing" /\ IsNext(r, m) /\ UNCHANGED <<usable, route, latest>>
  BY DEF Attempt, Skip, Succeed, Cancel, Deliver, Fail, Tried
<1>2. /\ g \in Handlers /\ g.stage = "choosing" /\ Stage(r) \in InFlightStages
      /\ None \in Place /\ m \in Place /\ m # None
  BY <1>1 DEF LoneInv, Inv, Typed, Stage, InFlightStages, Place
<1>3. /\ m \in g.left /\ (g.first \in g.left => m = g.first)
      /\ None \notin OnPreviousChannel(g.model) /\ OnPreviousChannel(g.model) \subseteq usable
  BY <1>1 DEF IsNext, OnPreviousChannel, OnChannel, Candidates, LoneInv, Inv, Typed
<1>4. g.alone => KeepsRoute(g, Row(r).mapping) /\ StaysOn(g)
  BY DEF LoneInv
<1>5. CASE Skip(r, m)
  <2> DEFINE next == [g EXCEPT !.left = g.left \ {m}, !.first = None]
             s == IF g.bound THEN "recording" ELSE "choosing"
             h == Enter(s, next)
  <2>1. /\ next \in Handlers /\ next.stage = "choosing" /\ next.model = g.model
        /\ next.kind = g.kind /\ next.seen = g.seen /\ next.alone = g.alone
        /\ next.opening = g.opening /\ next.mapping = g.mapping /\ next.refresh = g.refresh
        /\ next.planned = g.planned
    BY <1>2 DEF Handlers
  <2>2. s \in {"choosing", "recording"} /\ request' = [request EXCEPT ![r] = h]
    BY <1>5 DEF Skip
  <2> HIDE DEF next, s
  <2>3. /\ h.model = g.model /\ h.kind = g.kind /\ h.seen = g.seen /\ h.alone = g.alone
        /\ h.opening = g.opening /\ h.refresh = g.refresh
        /\ h.stage \in {"choosing", "recording"}
        /\ h.stage = "choosing" => h.planned = g.planned
    BY <2>1, <2>2, EnterKeeps DEF InFlightStages
  <2> HIDE DEF h
  <2>4. m \notin usable
    BY <1>5 DEF Skip
  <2>5. ASSUME g.alone PROVE KeepsRoute(h, Row(r).mapping)
    BY <1>2, <1>3, <1>4, <2>3, <2>4, <2>5 DEF KeepsRoute
  <2>6. ASSUME g.alone PROVE StaysOn(h)
    BY <1>2, <1>3, <1>4, <2>3, <2>4, <2>6 DEF StaysOn
  <2>7. QED
    BY <1>1, <1>2, <2>2, <2>3, <2>5, <2>6, AloneGoesOn DEF Row, InFlightStages
<1>6. ASSUME NEW stage \in {"choosing", "remembering", "recording"},
             NEW outcome \in Outcomes, NEW rejected \in BOOLEAN,
             Tried(r, m, stage, outcome, rejected)
      PROVE  LoneInv'
  <2> DEFINE next == [g EXCEPT !.left = g.left \ {m}, !.first = None, !.mapping = m,
                               !.outcome = outcome, !.refresh = g.refresh \/ rejected,
                               !.opening = IF g.opening = None /\ g.alone THEN m ELSE g.opening]
             h == Enter(stage, next)
  <2>1. /\ next \in Handlers /\ next.stage = "choosing" /\ next.model = g.model
        /\ next.kind = g.kind /\ next.seen = g.seen /\ next.alone = g.alone
        /\ next.opening = (IF g.opening = None /\ g.alone THEN m ELSE g.opening)
        /\ g.refresh => next.refresh
        /\ next.planned = g.planned
    BY <1>2 DEF Handlers
  <2>2. request' = [request EXCEPT ![r] = h]
    BY <1>6 DEF Tried
  <2> HIDE DEF next
  <2>3. /\ h.model = g.model /\ h.kind = g.kind /\ h.seen = g.seen /\ h.alone = g.alone
        /\ h.opening = (IF g.opening = None /\ g.alone THEN m ELSE g.opening)
        /\ g.refresh => h.refresh
        /\ h.stage \in {"choosing", "remembering", "recording"}
        /\ h.stage \in {"choosing", "remembering"} => h.planned = g.planned
    BY <2>1, EnterKeeps DEF InFlightStages
  <2> HIDE DEF h
  <2>4. m \in usable
    BY <1>6 DEF Tried
  <2>5. ASSUME g.alone PROVE KeepsRoute(h, Row(r).mapping)
    BY <1>2, <1>3, <1>4, <2>3, <2>4, <2>5 DEF KeepsRoute
  <2>6. ASSUME g.alone PROVE StaysOn(h)
    BY <1>2, <1>3, <1>4, <2>3, <2>4, <2>6 DEF StaysOn
  <2>7. QED
    BY <1>1, <1>2, <2>2, <2>3, <2>5, <2>6, AloneGoesOn DEF Row, InFlightStages
<1>7. QED
  BY <1>1, <1>5, <1>6 DEF Attempt, Succeed, Cancel, Deliver, Fail, Outcomes

\* With the route it found in place and usable, a request compares and writes only what
\* it found, unless it must refresh.
LEMMA CompareKeepsLone ==
  ASSUME LoneInv, Inv', NEW r \in Requests, Compare(r)
  PROVE  LoneInv'
<1> DEFINE g == request[r]
           s == IF g.refresh \/ MayRemember(r) THEN "writing" ELSE "recording"
           h == Enter(s, g)
<1>1. /\ g \in Handlers /\ g.stage = "remembering" /\ Stage(r) \in InFlightStages
      /\ g.alone => KeepsRoute(g, Row(r).mapping) /\ StaysOn(g)
  BY DEF LoneInv, Inv, Typed, Compare, Stage, InFlightStages
<1>2. /\ s \in {"writing", "recording"} /\ (s = "writing" => g.refresh \/ MayRemember(r))
      /\ request' = [request EXCEPT ![r] = h] /\ UNCHANGED <<usable, route, latest>>
  BY DEF Compare
<1>3. None \notin usable
  BY DEF LoneInv, Inv, Typed
<1> HIDE DEF s
<1>4. /\ h.model = g.model /\ h.kind = g.kind /\ h.seen = g.seen /\ h.alone = g.alone
      /\ h.opening = g.opening /\ h.refresh = g.refresh /\ h.mapping = g.mapping
      /\ h.stage \in {"writing", "recording"}
      /\ h.stage = "writing" => s = "writing"
  BY <1>1, <1>2, EnterKeeps DEF InFlightStages
<1> HIDE DEF h
<1>5. ASSUME g.alone PROVE KeepsRoute(h, Row(r).mapping)
  BY <1>1, <1>2, <1>3, <1>4, <1>5 DEF KeepsRoute, MayRemember
<1>6. ASSUME g.alone PROVE StaysOn(h)
  BY <1>1, <1>4, <1>6 DEF StaysOn
<1>7. QED
  BY <1>1, <1>2, <1>4, <1>5, <1>6, AloneGoesOn DEF Row, InFlightStages

LEMMA WriteKeepsLone ==
  ASSUME LoneInv, Inv', NEW r \in Requests, Write(r)
  PROVE  LoneInv'
<1> DEFINE g == request[r]
           h == Enter("recording", g)
<1>1. /\ g \in Handlers /\ g.stage = "writing" /\ Stage(r) \in InFlightStages
      /\ g.model \in Models
      /\ g.alone => KeepsRoute(g, Row(r).mapping) /\ StaysOn(g)
  BY InFlightSound DEF LoneInv, Write, Stage, InFlightStages
<1>2. /\ request' = [request EXCEPT ![r] = h] /\ UNCHANGED <<usable, latest>>
      /\ route'[g.model].mapping = g.mapping
  BY <1>1 DEF Write, LoneInv, Inv, Typed
<1>3. /\ h.model = g.model /\ h.kind = g.kind /\ h.seen = g.seen /\ h.alone = g.alone
      /\ h.opening = g.opening /\ h.refresh = g.refresh /\ h.mapping = g.mapping
      /\ h.stage = "recording"
  BY <1>1, EnterKeeps DEF InFlightStages
<1> HIDE DEF h
<1>4. ASSUME g.alone PROVE KeepsRoute(h, g.mapping)
  BY <1>1, <1>3, <1>4 DEF KeepsRoute
<1>5. ASSUME g.alone PROVE StaysOn(h)
  BY <1>1, <1>3, <1>5 DEF StaysOn
<1>6. QED
  BY <1>1, <1>2, <1>3, <1>4, <1>5, AloneGoesOn DEF InFlightStages

\* A recorded request is not alone any more, and no other one was.
LEMMA RecordKeepsLone ==
  ASSUME LoneInv, Inv', NEW r \in Requests, Record(r)
  PROVE  LoneInv'
<1> DEFINE g == request[r]
           h == [Idle EXCEPT !.stage = "done", !.model = g.model, !.mapping = g.mapping,
                             !.outcome = g.outcome]
<1>1. h.stage = "done" /\ h.alone = FALSE
  BY DEF Idle
<1> HIDE DEF h
<1>2. \A q \in Requests : request'[q] = IF q = r THEN h ELSE request[q]
  BY DEF Record, LoneInv, Inv, Typed, h
<1>3. \A q \in Requests : ~request'[q].alone
  BY <1>1, <1>2 DEF LoneInv, InFlight, Record, Stage
<1>4. \A q \in Requests : q \in Served' => q = r \/ q \in Served
  BY <1>2 DEF Served, Stage
<1>5. Served \subseteq Served'
  BY <1>2 DEF Served, Stage, Record
<1>6. LastServed'
  <2> SUFFICES ASSUME Served' # {}
               PROVE  \E q \in Served' : \A p \in Served' : p <= q
    BY DEF LastServed
  <2>1. \A q \in Served' : q \in Int /\ q \in Requests
    BY DEF Served, Requests
  <2>2. CASE Served = {}
    BY <1>4, <2>1, <2>2
  <2>3. CASE Served # {}
    <3>1. PICK q \in Served : \A p \in Served : p <= q
      BY <2>3 DEF LoneInv, LastServed
    <3>2. CASE r \in Served' /\ q < r
      BY <1>4, <1>5, <2>1, <3>1, <3>2
    <3>3. CASE ~(r \in Served' /\ q < r)
      BY <1>4, <1>5, <2>1, <3>1, <3>3
    <3>4. QED
      BY <3>2, <3>3
  <2>4. QED
    BY <2>2, <2>3
<1>7. QED
  BY <1>3, <1>6 DEF LoneInv

LEMMA OthersKeepLone ==
  ASSUME LoneInv, Inv', 
         (\E m \in Mappings : ChangeUsable(m)) \/ (\E model \in Models : Expire(model))
  PROVE  LoneInv'
<1>1. request' = NobodyAlone(request)
  BY DEF ChangeUsable, Expire
<1>2. \A q \in Requests : /\ request'[q].alone = FALSE
                          /\ request'[q].stage = request[q].stage
                          /\ request'[q].mapping = request[q].mapping
  <2>1. request \in [Requests -> Handlers]
    BY DEF LoneInv, Inv, Typed
  <2>2. QED
    BY <1>1, <2>1 DEF NobodyAlone, Handlers
<1>3. Served' = Served
  BY <1>2 DEF Served, Stage
<1>4. QED
  BY <1>2, <1>3 DEF LoneInv, LastServed

LEMMA LoneInvariance == Spec => []LoneInv
<1>1. Init => LoneInv
  <2> SUFFICES ASSUME Init PROVE LoneInv
    OBVIOUS
  <2>1. \A r \in Requests : request[r].alone = FALSE /\ Stage(r) = "idle"
    BY DEF Init, Idle, Stage
  <2>2. QED
    BY <2>1, InitInv DEF LoneInv, LastServed, Served
<1>2. LoneInv /\ [Next]_vars => LoneInv'
  <2> SUFFICES ASSUME LoneInv, [Next]_vars PROVE LoneInv'
    OBVIOUS
  <2>1. Inv'
    BY StepInv DEF LoneInv
  <2>2. CASE UNCHANGED vars
    <3>1. UNCHANGED <<usable, route, latest, request>>
      BY <2>2 DEF vars
    <3>2. /\ LastServed'
          /\ \A model \in Models :
               /\ Switches(model)' <=> Switches(model)
               /\ Switches(model) => OnPreviousChannel(model)' = OnPreviousChannel(model)
      BY <3>1, PreviousStays DEF LoneInv, Stage
    <3>3. ASSUME NEW r \in Requests, request[r].alone
          PROVE  /\ (InFlight = {r})'
                 /\ KeepsRoute(request[r], Row(r).mapping)'
                 /\ StaysOn(request[r])'
      <4>1. request[r].model \in Models
        BY <3>3, InFlightSound DEF LoneInv, InFlight
      <4>2. (InFlight = {r})'
        BY <3>1, <3>3 DEF LoneInv, InFlight, Stage
      <4>3. KeepsRoute(request[r], Row(r).mapping)'
        BY <3>1, <3>3 DEF LoneInv, KeepsRoute, Row
      <4>4. StaysOn(request[r])'
        BY <3>1, <3>2, <3>3, <4>1 DEF LoneInv, StaysOn
      <4>5. QED
        BY <4>2, <4>3, <4>4
    <3>4. QED
      BY <2>1, <3>1, <3>2, <3>3 DEF LoneInv
  <2>3. QED
    BY <2>1, <2>2, PlanKeepsLone, AttemptKeepsLone, CompareKeepsLone, WriteKeepsLone,
       RecordKeepsLone, OthersKeepLone DEF Next
<1>3. QED
  BY <1>1, <1>2, PTL DEF Spec

\* A request that nothing overlaps starts on the session's route while the route is
\* usable and leaves it in place, unless an upstream rejected the request.
THEOREM RoutesKept == Spec => []UsableRouteKept
<1>1. LoneInv => UsableRouteKept
  BY DEF LoneInv, UsableRouteKept, Settled, Stage, KeepsRoute
<1>2. QED
  BY LoneInvariance, <1>1, PTL

\* A session that changes its model stays on its channel if the channel has the model,
\* unless the session has a usable route for that model: whatever the previous route was,
\* how many channels there are, and what ran before.
THEOREM SwitchesStay == Spec => []SwitchStaysOnChannel
<1>1. LoneInv => SwitchStaysOnChannel
  BY DEF LoneInv, SwitchStaysOnChannel, Settled, Stage, StaysOn, Switches, Reusable
<1>2. QED
  BY LoneInvariance, <1>1, PTL

-----------------------------------------------------------------------------
(* ChatSession: the session of a conversation that names none. *)

ChatTyped ==
  /\ claim \in [Conversations -> Claims \cup {Nothing}]
  /\ state \in [Ids -> States \cup {Nothing}]
  /\ DOMAIN chat = Chats
  /\ sessions \in 0 .. MaxSessions
  /\ past \subseteq Pasts

\* A session was given the conversation of each of its claims, and no other session
\* was given it in the window.
ClaimsGiven ==
  \A c \in Conversations :
    claim[c] # Nothing =>
      [session |-> claim[c].session, conversation |-> c, age |-> claim[c].age] \in past

RecentClaimed ==
  \A p \in past :
    p.age = Recent => /\ Is(claim[p.conversation], Recent)
                      /\ claim[p.conversation].session = p.session

WasGiven(s, c) == \E p \in past : p.session = s /\ p.conversation = c

\* A state begins with a conversation that its session was given.
StatesGiven ==
  \A s \in Ids :
    state[s] # Nothing =>
      /\ IsPrefix(state[s].request, state[s].payload)
      /\ WasGiven(s, state[s].request)

PastMade == \A p \in past : p.session <= sessions

RunningGiven ==
  \A r \in Running : WasGiven(chat[r].session, chat[r].conversation)

ChatInv ==
  /\ ChatTyped /\ ClaimsGiven /\ RecentClaimed /\ StatesGiven
  /\ PastMade /\ RunningGiven /\ SessionOfConversation

\* The sessions that recorded conversations of the window or those on their way speak for.
SpokenFor(c) == Known(c, {p \in past : p.age = Recent}) \cup {n \in Ids : Score(n, c) > 0}

-----------------------------------------------------------------------------
(* Prefixes. *)

LEMMA PrefixOfItself == \A s \in Seq(Messages) : IsPrefix(s, s)
  BY DEF IsPrefix

LEMMA PrefixOfPrefix ==
  \A s, t, w \in Seq(Messages) : IsPrefix(s, t) /\ IsPrefix(t, w) => IsPrefix(s, w)
<1> SUFFICES ASSUME NEW s \in Seq(Messages), NEW t \in Seq(Messages), NEW w \in Seq(Messages),
                    IsPrefix(s, t), IsPrefix(t, w)
             PROVE  IsPrefix(s, w)
    OBVIOUS
<1>1. Len(s) <= Len(t) /\ Len(t) <= Len(w) /\ Len(s) \in Nat /\ Len(t) \in Nat /\ Len(w) \in Nat
    BY DEF IsPrefix
<1>2. \A i \in 1 .. Len(s) : SubSeq(s, 1, Len(s))[i] = s[i] /\ SubSeq(t, 1, Len(s))[i] = t[i]
    BY <1>1
<1>3. \A i \in 1 .. Len(t) : SubSeq(t, 1, Len(t))[i] = t[i] /\ SubSeq(w, 1, Len(t))[i] = w[i]
    BY <1>1
<1>4. \A i \in 1 .. Len(s) : s[i] = t[i]
    BY <1>2 DEF IsPrefix
<1>5. \A i \in 1 .. Len(t) : t[i] = w[i]
    BY <1>3 DEF IsPrefix
<1>6. \A i \in 1 .. Len(s) : s[i] = w[i]
    BY <1>1, <1>4, <1>5
<1>7. SubSeq(s, 1, Len(s)) = SubSeq(w, 1, Len(s))
    BY <1>1, <1>6
<1> QED BY <1>1, <1>7 DEF IsPrefix

LEMMA PrefixOfLonger == \A s, t \in Seq(Messages) : IsPrefix(s, s \o t)
<1> SUFFICES ASSUME NEW s \in Seq(Messages), NEW t \in Seq(Messages)
             PROVE  IsPrefix(s, s \o t)
    OBVIOUS
<1>1. s \o t \in Seq(Messages) /\ Len(s \o t) = Len(s) + Len(t) /\ Len(s) \in Nat /\ Len(t) \in Nat
    OBVIOUS
<1>2. \A i \in 1 .. Len(s) : (s \o t)[i] = s[i]
    OBVIOUS
<1>3. SubSeq(s, 1, Len(s)) = SubSeq(s \o t, 1, Len(s))
    BY <1>1, <1>2
<1> QED BY <1>1, <1>3 DEF IsPrefix

-----------------------------------------------------------------------------
(* The candidate. *)

LEMMA ScoreIsGreatest ==
  ASSUME NEW s, NEW current
  PROVE  /\ Score(s, current) \in Scores(s, current)
         /\ Scores(s, current) \subseteq {0, 2, 3, 4}
         /\ \A m \in Scores(s, current) : m <= Score(s, current)
<1>1. Scores(s, current) \subseteq {0, 2, 3, 4} /\ 0 \in Scores(s, current)
    BY DEF Scores
<1>2. \E n \in Scores(s, current) : \A m \in Scores(s, current) : m <= n
    BY <1>1
<1> QED BY <1>1, <1>2 DEF Score

\* What speaks for a session is a conversation that the session was given and that the
\* current one repeats or goes on with.
LEMMA SpeaksForGiven ==
  ASSUME ChatTyped, ClaimsGiven, StatesGiven,
         NEW s \in Ids, NEW current \in Conversations, Score(s, current) > 0
  PROVE  \E p \in past : p.session = s /\ IsPrefix(p.conversation, current)
<1>1. Score(s, current) \in Scores(s, current) /\ Score(s, current) # 0
    BY ScoreIsGreatest
<1>2. current \in Seq(Messages) /\ \A c \in Conversations : c \in Seq(Messages)
    BY ConversationsAssumption
<1>3. CASE \E c \in Conversations : Leads(s, c, current)
  <2>1. PICK c \in Conversations : Leads(s, c, current)
      BY <1>3
  <2>2. claim[c] # Nothing /\ claim[c].session = s /\ IsPrefix(c, current)
      BY <2>1 DEF Leads, Is, Goes, IsHashPrefix
  <2>3. [session |-> s, conversation |-> c, age |-> claim[c].age] \in past
      BY <2>2 DEF ClaimsGiven
  <2> QED BY <2>2, <2>3
<1>4. CASE state[s] # Nothing /\ (IsPrefix(state[s].payload, current) \/ IsPrefix(state[s].request, current))
  <2>1. state[s] \in States
      BY <1>4 DEF ChatTyped
  <2>2. state[s].request \in Seq(Messages) /\ state[s].payload \in Seq(Messages)
      BY <2>1, <1>2 DEF States
  <2>3. IsPrefix(state[s].request, state[s].payload)
      BY <1>4 DEF StatesGiven
  <2>4. IsPrefix(state[s].request, current)
      BY <1>2, <1>4, <2>2, <2>3, PrefixOfPrefix
  <2>5. PICK p \in past : p.session = s /\ p.conversation = state[s].request
      BY <1>4 DEF StatesGiven, WasGiven
  <2> QED BY <2>4, <2>5
<1>5. \/ \E c \in Conversations : Leads(s, c, current)
      \/ state[s] # Nothing /\ (IsPrefix(state[s].payload, current) \/ IsPrefix(state[s].request, current))
  <2>1. \/ \E st \in {state[s]} : Is(st, Recent) /\ Len(st.payload) > Len(st.request)
                                        /\ IsHashPrefix(st.payload, current)
        \/ \E st \in {state[s]} : Is(st, Recent) /\ Goes(st.request, current)
        \/ \E c \in Conversations : Leads(s, c, current)
      BY <1>1 DEF Scores
  <2> QED BY <2>1 DEF Is, Goes, IsHashPrefix
<1> QED BY <1>3, <1>4, <1>5

\* A conversation of the window that the current one goes on with speaks for its session.
LEMMA GivenSpeaks ==
  ASSUME ChatTyped, RecentClaimed, NEW current \in Conversations, ~Is(claim[current], Recent),
         NEW p \in past, p.age = Recent, IsPrefix(p.conversation, current)
  PROVE  p.session \in Ids /\ Score(p.session, current) > 0
<1> DEFINE c == p.conversation  s == p.session
<1>1. p \in Pasts /\ c \in Conversations /\ s \in Ids
    BY DEF ChatTyped, Pasts
<1>2. Is(claim[c], Recent) /\ claim[c].session = s
    BY DEF RecentClaimed
<1>3. c # current
    BY <1>2
<1>4. c \in Seq(Messages) /\ current \in Seq(Messages) /\ c # <<>>
    BY <1>1, ConversationsAssumption
<1>5. Len(c) < Len(current)
  <2>1. Len(c) <= Len(current) /\ SubSeq(c, 1, Len(c)) = SubSeq(current, 1, Len(c))
      BY DEF IsPrefix
  <2>2. c = SubSeq(c, 1, Len(c)) /\ current = SubSeq(current, 1, Len(current))
      BY <1>4
  <2>3. Len(c) # Len(current)
      BY <2>1, <2>2, <1>3
  <2>4. Len(c) \in Nat /\ Len(current) \in Nat
      BY <1>4
  <2> QED BY <2>1, <2>3, <2>4
<1>6. Leads(s, c, current)
    BY <1>2, <1>4, <1>5 DEF Leads, Goes, IsHashPrefix
<1>7. 2 \in Scores(s, current)
    BY <1>1, <1>6 DEF Scores
<1>8. 2 <= Score(s, current) /\ Score(s, current) \in {0, 2, 3, 4}
    BY <1>7, ScoreIsGreatest
<1> QED BY <1>1, <1>8

LEMMA IdsFinite == \A S : S \subseteq Ids => IsFiniteSet(S)
<1>1. IsFiniteSet(Ids)
  <2>1. 1 \in Int /\ MaxSessions \in Int
      BY SessionsAssumption
  <2> QED BY <2>1, FS_Interval DEF Ids
<1> QED BY <1>1, FS_Subset

LEMMA OneElement == 
  ASSUME NEW S, S \subseteq Ids
  PROVE  Cardinality(S) = 1 <=> \E n : S = {n}
<1>1. IsFiniteSet(S)
    BY IdsFinite
<1>2. \A n : Cardinality({n}) = 1
    BY FS_Singleton
<1>3. ASSUME Cardinality(S) = 1 PROVE \E n : S = {n}
    BY <1>1, <1>3, FS_Singleton
<1> QED BY <1>2, <1>3

LEMMA CandidateSpeaks ==
  ASSUME NEW current, Candidate(current) # Nothing
  PROVE  Candidate(current) \in Ids /\ Score(Candidate(current), current) > 0
<1>1. Cardinality(Best(current)) = 1
    BY DEF Candidate
<1>2. Best(current) \subseteq Ids
    BY DEF Best
<1>3. PICK n : Best(current) = {n}
    BY <1>1, <1>2, OneElement
<1>4. Candidate(current) \in Best(current)
    BY <1>1, <1>3 DEF Candidate
<1> QED BY <1>4 DEF Best

LEMMA OneSpeaksForIsCandidate ==
  ASSUME NEW current, NEW n \in Ids, Score(n, current) > 0,
         \A t \in Ids : Score(t, current) > 0 => t = n
  PROVE  Candidate(current) = n
<1>1. \A t : Score(t, current) \in {0, 2, 3, 4}
    BY ScoreIsGreatest
<1>2. \A t \in Ids : Score(t, current) <= Score(n, current)
    BY <1>1
<1>3. Best(current) = {n}
    BY <1>1, <1>2 DEF Best
<1>4. Cardinality(Best(current)) = 1
    BY <1>3, OneElement
<1> QED BY <1>3, <1>4 DEF Candidate

-----------------------------------------------------------------------------
(* The steps. *)

\* Requests end, claims and states go, none of the claims of the window among them, and
\* states are written of what was given.
LEMMA NothingGiven ==
  ASSUME ChatInv,
         claim' \in [Conversations -> Claims \cup {Nothing}],
         \A c \in Conversations : claim'[c] # Nothing \/ Is(claim[c], Recent) => claim'[c] = claim[c],
         state' \in [Ids -> States \cup {Nothing}],
         \A s \in Ids : state'[s] # Nothing =>
           \/ state'[s] = state[s]
           \/ IsPrefix(state'[s].request, state'[s].payload) /\ WasGiven(s, state'[s].request),
         DOMAIN chat' = Chats,
         \A r \in Chats : chat'[r].stage = "running" => chat'[r] = chat[r],
         sessions' = sessions, past' = past
  PROVE  ChatInv'
<1>1. ChatTyped'
    BY DEF ChatInv, ChatTyped
<1>2. ClaimsGiven'
    BY DEF ChatInv, ClaimsGiven
<1>3. RecentClaimed'
  <2> SUFFICES ASSUME NEW p \in past, p.age = Recent
               PROVE  Is(claim'[p.conversation], Recent) /\ claim'[p.conversation].session = p.session
      BY DEF RecentClaimed, Is
  <2>1. Is(claim[p.conversation], Recent) /\ claim[p.conversation].session = p.session
      BY DEF ChatInv, RecentClaimed
  <2>2. p.conversation \in Conversations
      BY DEF ChatInv, ChatTyped, Pasts
  <2> QED BY <2>1, <2>2
<1>4. StatesGiven'
  <2> SUFFICES ASSUME NEW s \in Ids, state'[s] # Nothing
               PROVE  IsPrefix(state'[s].request, state'[s].payload) /\ WasGiven(s, state'[s].request)
      BY DEF StatesGiven, WasGiven
  <2> QED BY DEF ChatInv, StatesGiven
<1>5. PastMade'
    BY DEF ChatInv, PastMade
<1>6. Running' \subseteq Running /\ \A r \in Running' : chat'[r] = chat[r]
    BY DEF Running
<1>7. RunningGiven'
    BY <1>6 DEF ChatInv, RunningGiven, WasGiven
<1>8. SessionOfConversation'
    BY <1>6 DEF ChatInv, SessionOfConversation, ConversationsApart, ConversationKept
<1> QED BY <1>1, <1>2, <1>3, <1>4, <1>5, <1>7, <1>8 DEF ChatInv

\* A request is given a session, by the claim that its conversation then has.
LEMMA SessionGiven ==
  ASSUME ChatInv, NEW r \in Chats, NEW c \in Conversations, NEW s \in Ids, NEW age \in Ages,
         BeginChat(r, c, s, age),
         claim' \in [Conversations -> Claims \cup {Nothing}],
         claim'[c] = [session |-> s, age |-> age],
         \A d \in Conversations : d # c => claim'[d] = claim[d],
         state' \in [Ids -> States \cup {Nothing}],
         \A t \in Ids : state'[t] # state[t] =>
           t = s /\ state'[t] = [request |-> c, payload |-> c, age |-> Recent],
         sessions' \in 0 .. MaxSessions, sessions <= sessions', s <= sessions',
         \A p \in past : p.age = Recent /\ p.conversation = c => age = Recent /\ p.session = s,
         s \in Known(c, past) \/ \A p \in past : p.session # s,
         age = Recent /\ Cardinality(SpokenFor(c)) = 1 => s \in SpokenFor(c)
  PROVE  ChatInv'
<1> DEFINE given == [session |-> s, conversation |-> c, age |-> age]
           R == SpokenFor(c)
           K == Known(c, past) \cup {n \in {s} : \A p \in past : p.session # n}
<1>1. past' = {p \in past : p.session # s \/ p.conversation # c} \cup {given}
    BY DEF BeginChat
<1>2. given \in Pasts /\ given.session = s /\ given.conversation = c /\ given.age = age
    BY DEF Pasts
<1>3. DOMAIN chat' = Chats /\ \A q \in Chats : q # r => chat'[q] = chat[q]
    BY DEF BeginChat, ChatInv, ChatTyped
<1>4. /\ chat'[r].session = s /\ chat'[r].conversation = c
      /\ chat'[r].known = K /\ chat'[r].recent = IF age # Recent THEN {} ELSE R
    BY DEF BeginChat, ChatInv, ChatTyped, SpokenFor
<1>5. \A t, d : WasGiven(t, d) => WasGiven(t, d)'
  <2> SUFFICES ASSUME NEW t, NEW d, NEW p \in past, p.session = t, p.conversation = d
               PROVE  \E q \in past' : q.session = t /\ q.conversation = d
      BY DEF WasGiven
  <2>1. CASE p.session = s /\ p.conversation = c
      BY <1>1, <1>2, <2>1
  <2>2. CASE ~(p.session = s /\ p.conversation = c)
      BY <1>1, <2>2
  <2> QED BY <2>1, <2>2
<1>6. WasGiven(s, c)'
    BY <1>1, <1>2 DEF WasGiven
<1> HIDE DEF given, R, K
<1>7. ChatTyped'
  <2>1. past' \subseteq Pasts
      BY <1>1, <1>2 DEF ChatInv, ChatTyped
  <2> QED BY <1>3, <2>1 DEF ChatTyped
<1>8. ClaimsGiven'
  <2> SUFFICES ASSUME NEW d \in Conversations, claim'[d] # Nothing
               PROVE  [session |-> claim'[d].session, conversation |-> d, age |-> claim'[d].age] \in past'
      BY DEF ClaimsGiven
  <2>1. CASE d = c
      BY <1>1, <2>1 DEF given
  <2>2. CASE d # c
    <3>1. [session |-> claim'[d].session, conversation |-> d, age |-> claim'[d].age] \in past
        BY <2>2 DEF ChatInv, ClaimsGiven
    <3> QED BY <1>1, <2>2, <3>1
  <2> QED BY <2>1, <2>2
<1>9. RecentClaimed'
  <2> SUFFICES ASSUME NEW p \in past', p.age = Recent
               PROVE  /\ claim'[p.conversation] # Nothing /\ claim'[p.conversation].age = Recent
                      /\ claim'[p.conversation].session = p.session
      BY DEF RecentClaimed, Is
  <2>1. claim'[c] # Nothing /\ claim'[c].age = age /\ claim'[c].session = s
    <3>1. [session |-> s, age |-> age] \in Claims
        BY DEF Claims
    <3> QED BY <3>1, NothingAssumption
  <2>2. CASE p = given
      BY <1>2, <2>1, <2>2
  <2>3. CASE p # given
    <3>1. p \in past /\ (p.session # s \/ p.conversation # c)
        BY <1>1, <2>3
    <3>2. p.conversation # c
        BY <3>1
    <3>3. p.conversation \in Conversations
        BY <3>1 DEF ChatInv, ChatTyped, Pasts
    <3> QED BY <3>1, <3>2, <3>3 DEF ChatInv, RecentClaimed, Is
  <2> QED BY <2>2, <2>3
<1>10. StatesGiven'
  <2> SUFFICES ASSUME NEW t \in Ids, state'[t] # Nothing
               PROVE  /\ IsPrefix(state'[t].request, state'[t].payload)
                      /\ \E p \in past' : p.session = t /\ p.conversation = state'[t].request
      BY DEF StatesGiven, WasGiven
  <2>1. CASE state'[t] = state[t]
    <3>1. IsPrefix(state[t].request, state[t].payload) /\ WasGiven(t, state[t].request)
        BY <2>1 DEF ChatInv, StatesGiven
    <3>2. \A d : WasGiven(t, d) => \E p \in past' : p.session = t /\ p.conversation = d
        BY <1>5 DEF WasGiven
    <3> QED BY <2>1, <3>1, <3>2
  <2>2. CASE state'[t] # state[t]
    <3>1. t = s /\ state'[t].request = c /\ state'[t].payload = c
        BY <2>2
    <3>2. IsPrefix(c, c)
        BY PrefixOfItself, ConversationsAssumption
    <3> QED BY <1>6, <3>1, <3>2 DEF WasGiven
  <2> QED BY <2>1, <2>2
<1>11. PastMade'
  <2>1. \A p \in past : p.session <= sessions /\ p.session \in Nat
      BY DEF ChatInv, PastMade, ChatTyped, Pasts, Ids
  <2>2. sessions \in Nat /\ sessions' \in Nat
      BY DEF ChatInv, ChatTyped
  <2> QED BY <1>1, <1>2, <2>1, <2>2 DEF PastMade
<1>12. \A q \in Running' : q = r \/ (q \in Running /\ chat'[q] = chat[q])
    BY <1>3 DEF Running
<1>13. RunningGiven'
  <2> SUFFICES ASSUME NEW q \in Running'
               PROVE  \E p \in past' : p.session = chat'[q].session /\ p.conversation = chat'[q].conversation
      BY DEF RunningGiven, WasGiven
  <2>1. CASE q = r
      BY <1>4, <1>6, <2>1 DEF WasGiven
  <2>2. CASE q \in Running /\ chat'[q] = chat[q]
    <3>1. WasGiven(chat[q].session, chat[q].conversation)
        BY <2>2 DEF ChatInv, RunningGiven
    <3>2. \A t, d : WasGiven(t, d) => \E p \in past' : p.session = t /\ p.conversation = d
        BY <1>5 DEF WasGiven
    <3> QED BY <2>2, <3>1, <3>2
  <2> QED BY <1>12, <2>1, <2>2
<1>14. s \in K
    BY DEF K
<1>15. ConversationsApart'
    BY <1>4, <1>12, <1>14 DEF ChatInv, SessionOfConversation, ConversationsApart
<1>16. Cardinality(IF age # Recent THEN {} ELSE R) = 1 => s \in (IF age # Recent THEN {} ELSE R)
  <2>1. Cardinality({}) = 0
      BY FS_EmptySet
  <2>2. age = Recent /\ Cardinality(R) = 1 => s \in R
      BY DEF R
  <2> QED BY <2>1, <2>2
<1>17. ConversationKept'
    BY <1>4, <1>12, <1>16 DEF ChatInv, SessionOfConversation, ConversationKept
<1> QED BY <1>7, <1>8, <1>9, <1>10, <1>11, <1>13, <1>15, <1>17 DEF ChatInv, SessionOfConversation

LEMMA ClaimOfConversation ==
  ASSUME ChatInv, NEW c \in Conversations, claim[c] # Nothing
  PROVE  /\ claim[c] \in Claims
         /\ claim[c] = [session |-> claim[c].session, age |-> claim[c].age]
         /\ claim[c].session \in Ids /\ claim[c].age \in Ages
         /\ claim[c].session \in Known(c, past)
         /\ claim[c].age = Recent => claim[c].session \in Known(c, {p \in past : p.age = Recent})
         /\ claim[c].session <= sessions
<1> DEFINE p == [session |-> claim[c].session, conversation |-> c, age |-> claim[c].age]
<1>1. claim[c] \in Claims
    BY DEF ChatInv, ChatTyped
<1>2. /\ claim[c] = [session |-> claim[c].session, age |-> claim[c].age]
      /\ claim[c].session \in Ids /\ claim[c].age \in Ages
    BY <1>1 DEF Claims
<1>3. p \in past
    BY DEF ChatInv, ClaimsGiven
<1>4. IsPrefix(c, c)
    BY PrefixOfItself, ConversationsAssumption
<1>5. p.session = claim[c].session /\ p.conversation = c /\ p.age = claim[c].age
    OBVIOUS
<1> HIDE DEF p
<1>6. claim[c].session \in Known(c, past)
    BY <1>3, <1>4, <1>5 DEF Known
<1>7. claim[c].age = Recent => claim[c].session \in Known(c, {q \in past : q.age = Recent})
    BY <1>3, <1>4, <1>5 DEF Known
<1>8. claim[c].session <= sessions
    BY <1>3, <1>5 DEF ChatInv, PastMade
<1> QED BY <1>1, <1>2, <1>6, <1>7, <1>8

LEMMA RecentGivenOfClaim ==
  ASSUME ChatInv, NEW p \in past, p.age = Recent
  PROVE  Is(claim[p.conversation], Recent) /\ claim[p.conversation].session = p.session
  BY DEF ChatInv, RecentClaimed

LEMMA ClaimedKeeps ==
  ASSUME ChatInv, NEW r \in Chats, NEW c \in Conversations, ResolveClaimed(r, c)
  PROVE  ChatInv'
<1> DEFINE s == claim[c].session
<1>1. claim[c] # Nothing /\ claim[c].age = Recent
    BY DEF ResolveClaimed, Is
<1>2. /\ claim[c] = [session |-> s, age |-> Recent] /\ s \in Ids /\ s \in Known(c, past)
      /\ s \in Known(c, {p \in past : p.age = Recent}) /\ s <= sessions
    BY <1>1, ClaimOfConversation
<1>3. /\ BeginChat(r, c, s, Recent) /\ Recent \in Ages
      /\ claim' = claim /\ state' = state /\ sessions' = sessions
    BY DEF ResolveClaimed, Recent, Expired, Ages
<1>4. \A p \in past : p.age = Recent /\ p.conversation = c => p.session = s
    BY RecentGivenOfClaim
<1>5. /\ claim' \in [Conversations -> Claims \cup {Nothing}] /\ state' \in [Ids -> States \cup {Nothing}]
      /\ sessions' \in 0 .. MaxSessions /\ sessions <= sessions'
    BY <1>3 DEF ChatInv, ChatTyped
<1>6. s \in SpokenFor(c)
    BY <1>2 DEF SpokenFor
<1>7. \A t \in Ids : state'[t] = state[t]
    BY <1>3
<1> HIDE DEF s
<1> QED BY <1>2, <1>3, <1>4, <1>5, <1>6, <1>7, SessionGiven

LEMMA HistoryKeeps ==
  ASSUME ChatInv, NEW r \in Chats, NEW c \in Conversations, ResolveByHistory(r, c)
  PROVE  ChatInv'
<1> DEFINE found == Candidate(c)
           named == IF found = Nothing THEN sessions + 1 ELSE found
           kept  == KeptOr(claim[c], [session |-> named, age |-> Recent])
           R == SpokenFor(c)
<1>1. /\ ~Is(claim[c], Recent) /\ named \in Ids
      /\ sessions' = IF found = Nothing THEN sessions + 1 ELSE sessions
      /\ claim' = [claim EXCEPT ![c] = kept]
      /\ state' = [state EXCEPT ![kept.session] =
                     KeptOr(@, [request |-> c, payload |-> c, age |-> Recent])]
      /\ BeginChat(r, c, kept.session, kept.age)
    BY DEF ResolveByHistory
<1>2. /\ Recent \in Ages /\ sessions \in Nat /\ MaxSessions \in Nat
      /\ claim \in [Conversations -> Claims \cup {Nothing}] /\ state \in [Ids -> States \cup {Nothing}]
    BY SessionsAssumption DEF Recent, Expired, Ages, ChatInv, ChatTyped
<1>3. found # Nothing => /\ found \in Ids /\ Score(found, c) > 0
                         /\ \E p \in past : p.session = found /\ IsPrefix(p.conversation, c)
    BY CandidateSpeaks, SpeaksForGiven DEF ChatInv
<1>4. found # Nothing => found \in Known(c, past) /\ found <= sessions
    BY <1>3 DEF Known, ChatInv, PastMade
<1>5. found = Nothing => \A p \in past : p.session # named
    BY <1>2 DEF ChatInv, PastMade, ChatTyped, Pasts, Ids
<1>6. ASSUME kept \in Claims, kept = [session |-> kept.session, age |-> kept.age],
             kept.session \in Ids, kept.age \in Ages,
             kept.session \in Known(c, past) \/ \A p \in past : p.session # kept.session,
             kept.age = Recent /\ Cardinality(R) = 1 => kept.session \in R,
             \A p \in past : p.age = Recent /\ p.conversation = c => kept.age = Recent /\ p.session = kept.session,
             sessions' \in 0 .. MaxSessions, sessions <= sessions', kept.session <= sessions'
      PROVE  ChatInv'
  <2> HIDE DEF kept
  <2> DEFINE new == [request |-> c, payload |-> c, age |-> Recent]
  <2>1. new \in States
      BY <1>2, ConversationsAssumption DEF States
  <2>2. KeptOr(state[kept.session], new) \in States \cup {Nothing}
      BY <1>2, <1>6, <2>1 DEF KeptOr
  <2>3. \A t \in Ids : state'[t] = IF t = kept.session THEN KeptOr(state[t], new) ELSE state[t]
      BY <1>1, <1>2
  <2>4. state' \in [Ids -> States \cup {Nothing}]
      BY <1>1, <1>2, <2>2
  <2>5. \A t \in Ids : state'[t] # state[t] => t = kept.session /\ state'[t] = new
      BY <2>3 DEF KeptOr
  <2>6. claim' \in [Conversations -> Claims \cup {Nothing}] /\ claim'[c] = kept
      BY <1>1, <1>2, <1>6
  <2>7. \A d \in Conversations : d # c => claim'[d] = claim[d]
      BY <1>1, <1>2
  <2>8. BeginChat(r, c, kept.session, kept.age)
      BY <1>1
  <2> QED BY <1>6, <2>4, <2>5, <2>6, <2>7, <2>8, SessionGiven
<1>7. CASE claim[c] # Nothing
  <2>1. kept = claim[c] /\ kept.age # Recent
      BY <1>1, <1>7 DEF KeptOr, Is
  <2>2. /\ kept = [session |-> kept.session, age |-> kept.age] /\ kept \in Claims
        /\ kept.session \in Ids /\ kept.age \in Ages
        /\ kept.session \in Known(c, past) /\ kept.session <= sessions
      BY <1>7, <2>1, ClaimOfConversation
  <2>3. \A p \in past : p.age = Recent => p.conversation # c
      BY <1>1, RecentGivenOfClaim
  <2>4. /\ kept.session \in Known(c, past) \/ \A p \in past : p.session # kept.session
        /\ kept.age = Recent /\ Cardinality(R) = 1 => kept.session \in R
        /\ \A p \in past : p.age = Recent /\ p.conversation = c => kept.age = Recent /\ p.session = kept.session
      BY <2>1, <2>2, <2>3
  <2>5. /\ kept = [session |-> kept.session, age |-> kept.age] /\ kept \in Claims
        /\ kept.session \in Ids /\ kept.age \in Ages /\ kept.session <= sessions
      BY <2>2
  <2>6. sessions' \in 0 .. MaxSessions /\ sessions <= sessions' /\ kept.session <= sessions'
    <3> HIDE DEF found, kept
    <3>1. kept.session \in Nat /\ (found = Nothing => sessions + 1 <= MaxSessions)
        BY <1>1, <2>5 DEF Ids
    <3>2. sessions \in 0 .. MaxSessions
        BY DEF ChatInv, ChatTyped
    <3> QED BY <1>1, <1>2, <2>5, <3>1, <3>2
  <2> QED BY <1>6, <2>4, <2>5, <2>6
<1>8. CASE claim[c] = Nothing
  <2>1. kept = [session |-> named, age |-> Recent] /\ kept.session = named /\ kept.age = Recent
      BY <1>8 DEF KeptOr
  <2>2. \A p \in past : p.age = Recent => p.conversation # c
      BY <1>1, RecentGivenOfClaim
  <2>3. named \in Known(c, past) \/ \A p \in past : p.session # named
      BY <1>4, <1>5
  <2>4. Cardinality(R) = 1 => named \in R
    <3>1. CASE found # Nothing
        BY <1>3, <3>1 DEF SpokenFor
    <3>2. CASE found = Nothing
      <4>1. R = {n \in Ids : Score(n, c) > 0}
        <5>1. \A p \in past : p.age = Recent /\ IsPrefix(p.conversation, c) =>
                p.session \in Ids /\ Score(p.session, c) > 0
            BY <1>1, GivenSpeaks DEF ChatInv
        <5> QED BY <5>1 DEF SpokenFor, Known
      <4>2. SUFFICES ASSUME Cardinality(R) = 1 PROVE FALSE
          OBVIOUS
      <4>3. PICK n : R = {n}
          BY <4>1, <4>2, OneElement
      <4>4. n \in Ids /\ Score(n, c) > 0 /\ \A t \in Ids : Score(t, c) > 0 => t = n
          BY <4>1, <4>3
      <4>5. found = n
          BY <4>4, OneSpeaksForIsCandidate
      <4> QED BY <3>2, <4>4, <4>5, NothingAssumption
    <3> QED BY <3>1, <3>2
  <2>5. kept \in Claims
      BY <1>1, <1>2, <2>1 DEF Claims
  <2>6. sessions' \in 0 .. MaxSessions /\ sessions <= sessions' /\ named <= sessions'
    <3> HIDE DEF found
    <3>1. named \in 1 .. MaxSessions /\ sessions \in 0 .. MaxSessions
        BY <1>1 DEF Ids, ChatInv, ChatTyped
    <3>2. CASE found = Nothing
        BY <1>1, <1>2, <3>1, <3>2
    <3>3. CASE found # Nothing
        BY <1>1, <1>2, <1>4, <3>1, <3>3
    <3> QED BY <3>2, <3>3
  <2>7. kept = [session |-> kept.session, age |-> kept.age] /\ kept.session \in Ids /\ kept.age \in Ages
      BY <1>1, <1>2, <2>1
  <2> QED BY <1>6, <2>1, <2>2, <2>3, <2>4, <2>5, <2>6, <2>7
<1> QED BY <1>7, <1>8

LEMMA RequestEnds ==
  ASSUME ChatInv, NEW r \in Chats, ResolveFails(r) \/ RecordLost(r)
  PROVE  ChatInv'
<1>1. /\ claim' = claim /\ state' = state /\ sessions' = sessions /\ past' = past
      /\ DOMAIN chat' = Chats /\ chat'[r].stage # "running"
      /\ \A q \in Chats : q # r => chat'[q] = chat[q]
  <2>1. CASE ResolveFails(r)
      BY <2>1 DEF ResolveFails, Begins, ChatInv, ChatTyped
  <2>2. CASE RecordLost(r)
      BY <2>2 DEF RecordLost, IdleChat, ChatInv, ChatTyped
  <2> QED BY <2>1, <2>2
<1>2. claim \in [Conversations -> Claims \cup {Nothing}] /\ state \in [Ids -> States \cup {Nothing}]
    BY DEF ChatInv, ChatTyped
<1> QED BY <1>1, <1>2, NothingGiven

LEMMA RecordKeeps ==
  ASSUME ChatInv, NEW r \in Chats, NEW answer \in Answers, RecordRequest(r, answer)
  PROVE  ChatInv'
<1> DEFINE c == chat[r].conversation  s == chat[r].session
           new == [request |-> c, payload |-> c \o answer, age |-> Recent]
<1>1. /\ claim' = claim /\ sessions' = sessions /\ past' = past
      /\ state' = [state EXCEPT ![s] = new]
      /\ chat' = [chat EXCEPT ![r] = [IdleChat EXCEPT !.stage = "over"]]
      /\ r \in Running
    BY DEF RecordRequest, Running
<1>2. DOMAIN chat' = Chats /\ chat'[r].stage # "running" /\ \A q \in Chats : q # r => chat'[q] = chat[q]
    BY <1>1 DEF IdleChat, ChatInv, ChatTyped
<1>3. WasGiven(s, c)
    BY <1>1 DEF ChatInv, RunningGiven
<1>4. s \in Ids /\ c \in Conversations
    BY <1>3 DEF WasGiven, ChatInv, ChatTyped, Pasts
<1>5. c \in Seq(Messages) /\ answer \in Seq(Messages) /\ c \o answer \in Seq(Messages)
    BY <1>4, ConversationsAssumption, AnswersAssumption
<1>6. IsPrefix(c, c \o answer)
    BY <1>5, PrefixOfLonger
<1>7. claim \in [Conversations -> Claims \cup {Nothing}] /\ state \in [Ids -> States \cup {Nothing}]
    BY DEF ChatInv, ChatTyped
<1>8. new \in States /\ new.request = c /\ new.payload = c \o answer
    BY <1>4, <1>5 DEF States, Ages, Recent, Expired
<1> HIDE DEF c, s, new
<1>9. state' \in [Ids -> States \cup {Nothing}]
    BY <1>1, <1>4, <1>7, <1>8
<1>10. \A t \in Ids : state'[t] = IF t = s THEN new ELSE state[t]
    BY <1>1, <1>4, <1>7
<1>11. \A t \in Ids : state'[t] # Nothing =>
           \/ state'[t] = state[t]
           \/ IsPrefix(state'[t].request, state'[t].payload) /\ WasGiven(t, state'[t].request)
    BY <1>3, <1>6, <1>8, <1>10
<1>12. \A q \in Chats : chat'[q].stage = "running" => chat'[q] = chat[q]
    BY <1>2
<1> QED BY <1>1, <1>2, <1>7, <1>9, <1>11, <1>12, NothingGiven

LEMMA CleanupKeeps ==
  ASSUME ChatInv, CleanupRows \/ CleanupStates \/ CleanupClaims
  PROVE  ChatInv'
<1>1. claim \in [Conversations -> Claims \cup {Nothing}] /\ state \in [Ids -> States \cup {Nothing}]
    BY DEF ChatInv, ChatTyped
<1>2. /\ chat' = chat /\ sessions' = sessions /\ past' = past
      /\ claim' = claim \/ claim' = [c \in Conversations |-> IF Is(claim[c], Expired) THEN Nothing ELSE claim[c]]
      /\ state' = state \/ state' = [s \in Ids |-> IF Is(state[s], Expired) THEN Nothing ELSE state[s]]
    BY DEF CleanupRows, CleanupStates, CleanupClaims
<1>3. /\ claim' \in [Conversations -> Claims \cup {Nothing}]
      /\ \A c \in Conversations : claim'[c] # Nothing \/ Is(claim[c], Recent) => claim'[c] = claim[c]
  <2>1. CASE claim' = claim
      BY <1>1, <2>1
  <2>2. CASE claim' = [c \in Conversations |-> IF Is(claim[c], Expired) THEN Nothing ELSE claim[c]]
    <3>1. \A c \in Conversations : claim'[c] = IF Is(claim[c], Expired) THEN Nothing ELSE claim[c]
        BY <2>2
    <3>2. \A c \in Conversations : Is(claim[c], Recent) => ~Is(claim[c], Expired)
        BY DEF Is, Recent, Expired
    <3> QED BY <1>1, <2>2, <3>1, <3>2
  <2> QED BY <1>2, <2>1, <2>2
<1>4. state' \in [Ids -> States \cup {Nothing}] /\ \A s \in Ids : state'[s] # Nothing => state'[s] = state[s]
  <2>1. CASE state' = state
      BY <1>1, <2>1
  <2>2. CASE state' = [s \in Ids |-> IF Is(state[s], Expired) THEN Nothing ELSE state[s]]
      BY <1>1, <2>2
  <2> QED BY <1>2, <2>1, <2>2
<1>5. DOMAIN chat' = Chats /\ \A q \in Chats : chat'[q] = chat[q]
    BY <1>2 DEF ChatInv, ChatTyped
<1> QED BY <1>2, <1>3, <1>4, <1>5, NothingGiven

-----------------------------------------------------------------------------
(* Time, and the deletion of logs. *)

LEMMA AgedIsOlder ==
  ASSUME NEW entry, entry # Nothing, entry \in Claims \cup States \cup Pasts
  PROVE  /\ entry \in Claims => Aged(entry) \in Claims /\ Aged(entry).session = entry.session
         /\ entry \in States => /\ Aged(entry) \in States
                                /\ Aged(entry).request = entry.request
                                /\ Aged(entry).payload = entry.payload
         /\ entry \in Pasts => /\ Aged(entry) \in Pasts
                               /\ Aged(entry).session = entry.session
                               /\ Aged(entry).conversation = entry.conversation
         /\ Aged(entry).age = IF entry.age = Expired THEN entry.age ELSE entry.age + 1
         /\ Aged(entry).age # Recent
<1> DEFINE older == IF entry.age = Expired THEN entry.age ELSE entry.age + 1
<1>1. Aged(entry) = [entry EXCEPT !.age = older]
    BY DEF Aged
<1>2. entry.age \in 0 .. 2
    BY DEF Claims, States, Pasts, Ages, Recent, Expired
<1>3. older \in Ages /\ older # Recent
    BY <1>2 DEF Ages, Recent, Expired
<1> HIDE DEF older
<1>4. entry \in Claims => /\ Aged(entry) \in Claims /\ Aged(entry).session = entry.session
                          /\ Aged(entry).age = older
    BY <1>1, <1>3 DEF Claims
<1>5. entry \in States => /\ Aged(entry) \in States
                          /\ Aged(entry).request = entry.request
                          /\ Aged(entry).payload = entry.payload
                          /\ Aged(entry).age = older
    BY <1>1, <1>3 DEF States
<1>6. entry \in Pasts => /\ Aged(entry) \in Pasts
                         /\ Aged(entry).session = entry.session
                         /\ Aged(entry).conversation = entry.conversation
                         /\ Aged(entry).age = older
    BY <1>1, <1>3 DEF Pasts
<1> QED BY <1>3, <1>4, <1>5, <1>6 DEF older

\* Claims and what was given age together, whether time passes or logs are deleted.
LEMMA EntriesAge ==
  ASSUME ChatInv,
         claim' \in [Conversations -> Claims \cup {Nothing}],
         state' \in [Ids -> States \cup {Nothing}],
         \A s \in Ids : state'[s] # Nothing => /\ state[s] # Nothing
                                               /\ state'[s].request = state[s].request
                                               /\ state'[s].payload = state[s].payload,
         chat' = chat, sessions' = sessions,
         past' \subseteq Pasts,
         \A p \in past : \E q \in past' : p.session = q.session /\ p.conversation = q.conversation,
         \A q \in past' : \E p \in past : p.session = q.session /\ p.conversation = q.conversation,
         ClaimsGiven', RecentClaimed'
  PROVE  ChatInv'
<1>1. ChatTyped'
    BY DEF ChatInv, ChatTyped
<1>2. \A s, c : WasGiven(s, c) => \E q \in past' : q.session = s /\ q.conversation = c
    BY DEF WasGiven
<1>3. StatesGiven'
  <2> SUFFICES ASSUME NEW s \in Ids, state'[s] # Nothing
               PROVE  /\ IsPrefix(state'[s].request, state'[s].payload)
                      /\ \E q \in past' : q.session = s /\ q.conversation = state'[s].request
      BY DEF StatesGiven, WasGiven
  <2>1. IsPrefix(state[s].request, state[s].payload) /\ WasGiven(s, state[s].request)
      BY DEF ChatInv, StatesGiven
  <2> QED BY <1>2, <2>1
<1>4. PastMade'
    BY DEF ChatInv, PastMade
<1>5. RunningGiven'
  <2> SUFFICES ASSUME NEW r \in Running
               PROVE  \E q \in past' : q.session = chat[r].session /\ q.conversation = chat[r].conversation
      BY DEF RunningGiven, WasGiven, Running
  <2> QED BY <1>2 DEF ChatInv, RunningGiven
<1>6. SessionOfConversation'
    BY DEF ChatInv, SessionOfConversation, ConversationsApart, ConversationKept, Running
<1> QED BY <1>1, <1>3, <1>4, <1>5, <1>6 DEF ChatInv

LEMMA TickKeeps ==
  ASSUME ChatInv, Tick
  PROVE  ChatInv'
<1>1. /\ claim \in [Conversations -> Claims \cup {Nothing}] /\ state \in [Ids -> States \cup {Nothing}]
      /\ past \subseteq Pasts
    BY DEF ChatInv, ChatTyped
<1>2. /\ claim' = [c \in Conversations |-> Aged(claim[c])]
      /\ state' = [s \in Ids |-> Aged(state[s])]
      /\ past' = {Aged(p) : p \in past}
      /\ chat' = chat /\ sessions' = sessions
    BY DEF Tick
<1>3. Aged(Nothing) = Nothing
    BY DEF Aged
<1>4. claim' \in [Conversations -> Claims \cup {Nothing}] /\ state' \in [Ids -> States \cup {Nothing}]
  <2>1. \A c \in Conversations : Aged(claim[c]) \in Claims \cup {Nothing}
      BY <1>1, <1>3, AgedIsOlder
  <2>2. \A s \in Ids : Aged(state[s]) \in States \cup {Nothing}
      BY <1>1, <1>3, AgedIsOlder
  <2> QED BY <1>2, <2>1, <2>2
<1>5. \A p \in past : /\ Aged(p) \in past' /\ Aged(p) \in Pasts
                      /\ Aged(p).session = p.session /\ Aged(p).conversation = p.conversation
                      /\ Aged(p).age = IF p.age = Expired THEN p.age ELSE p.age + 1
                      /\ Aged(p).age # Recent
  <2>1. \A p \in past : p \in Pasts /\ p # Nothing
      BY <1>1, NothingAssumption
  <2> QED BY <1>2, <2>1, AgedIsOlder
<1>6. \A q \in past' : \E p \in past : q = Aged(p)
    BY <1>2
<1>7. \A s \in Ids : state'[s] # Nothing => /\ state[s] # Nothing
                                            /\ state'[s].request = state[s].request
                                            /\ state'[s].payload = state[s].payload
  <2> SUFFICES ASSUME NEW s \in Ids, state'[s] # Nothing
               PROVE  /\ state[s] # Nothing
                      /\ state'[s].request = state[s].request
                      /\ state'[s].payload = state[s].payload
      OBVIOUS
  <2>1. state'[s] = Aged(state[s])
      BY <1>2
  <2>2. state[s] # Nothing /\ state[s] \in States
      BY <1>1, <1>3, <2>1
  <2> QED BY <2>1, <2>2, AgedIsOlder
<1>8. ClaimsGiven'
  <2> SUFFICES ASSUME NEW c \in Conversations, claim'[c] # Nothing
               PROVE  [session |-> claim'[c].session, conversation |-> c, age |-> claim'[c].age] \in past'
      BY DEF ClaimsGiven
  <2> DEFINE p == [session |-> claim[c].session, conversation |-> c, age |-> claim[c].age]
  <2>1. claim'[c] = Aged(claim[c])
      BY <1>2
  <2>2. claim[c] # Nothing /\ claim[c] \in Claims
      BY <1>1, <1>3, <2>1
  <2>3. p \in past
      BY <2>2 DEF ChatInv, ClaimsGiven
  <2>4. /\ claim'[c].session = claim[c].session
        /\ claim'[c].age = IF claim[c].age = Expired THEN claim[c].age ELSE claim[c].age + 1
      BY <2>1, <2>2, AgedIsOlder
  <2>5. p.session = claim[c].session /\ p.conversation = c /\ p.age = claim[c].age
      OBVIOUS
  <2> HIDE DEF p
  <2>6. /\ Aged(p) \in past' /\ Aged(p) \in Pasts
        /\ Aged(p).session = claim'[c].session /\ Aged(p).conversation = c
        /\ Aged(p).age = claim'[c].age
      BY <1>5, <2>3, <2>4, <2>5
  <2>7. Aged(p) = [session |-> Aged(p).session, conversation |-> Aged(p).conversation, age |-> Aged(p).age]
      BY <2>6 DEF Pasts
  <2> QED BY <2>6, <2>7
<1>9. RecentClaimed'
    BY <1>5, <1>6 DEF RecentClaimed
<1>10. /\ past' \subseteq Pasts
       /\ \A p \in past : \E q \in past' : p.session = q.session /\ p.conversation = q.conversation
       /\ \A q \in past' : \E p \in past : p.session = q.session /\ p.conversation = q.conversation
  <2>1. past' \subseteq Pasts
      BY <1>5, <1>6
  <2>2. \A p \in past : \E q \in past' : p.session = q.session /\ p.conversation = q.conversation
      BY <1>5
  <2>3. \A q \in past' : \E p \in past : p.session = q.session /\ p.conversation = q.conversation
      BY <1>5, <1>6
  <2> QED BY <2>1, <2>2, <2>3
<1> QED BY <1>2, <1>4, <1>7, <1>8, <1>9, <1>10, EntriesAge

LEMMA DeletionKeeps ==
  ASSUME ChatInv, DeleteHistoricalLogsBefore
  PROVE  ChatInv'
<1> DEFINE left == {s \in Ids : rows[s] \notin {Nothing, Expired}}
           Deleted(p) == IF p.session \in left THEN p ELSE [p EXCEPT !.age = Expired]
<1>1. /\ claim \in [Conversations -> Claims \cup {Nothing}] /\ state \in [Ids -> States \cup {Nothing}]
      /\ past \subseteq Pasts
    BY DEF ChatInv, ChatTyped
<1>2. /\ state' = [s \in Ids |-> IF s \in left THEN state[s] ELSE Nothing]
      /\ claim' = [c \in Conversations |-> IF claim[c] # Nothing /\ claim[c].session \notin left THEN Nothing
                                          ELSE claim[c]]
      /\ past' = {Deleted(p) : p \in past}
      /\ chat' = chat /\ sessions' = sessions
    BY DEF DeleteHistoricalLogsBefore
<1>3. \A p \in past : /\ Deleted(p) \in past' /\ Deleted(p) \in Pasts
                      /\ Deleted(p).session = p.session /\ Deleted(p).conversation = p.conversation
                      /\ p.session \in left => Deleted(p) = p
                      /\ p.session \notin left => Deleted(p).age # Recent
  <2> SUFFICES ASSUME NEW p \in past
               PROVE  /\ Deleted(p) \in past' /\ Deleted(p) \in Pasts
                      /\ Deleted(p).session = p.session /\ Deleted(p).conversation = p.conversation
                      /\ p.session \in left => Deleted(p) = p
                      /\ p.session \notin left => Deleted(p).age # Recent
      OBVIOUS
  <2>1. Deleted(p) \in past'
      BY <1>2
  <2>2. p \in Pasts
      BY <1>1
  <2> HIDE DEF left
  <2>3. [p EXCEPT !.age = Expired] \in Pasts
      BY <2>2 DEF Pasts, Ages, Recent, Expired
  <2>4. /\ [p EXCEPT !.age = Expired].session = p.session
        /\ [p EXCEPT !.age = Expired].conversation = p.conversation
        /\ [p EXCEPT !.age = Expired].age # Recent
      BY <2>2 DEF Pasts, Recent, Expired
  <2> QED BY <2>1, <2>2, <2>3, <2>4
<1>4. \A q \in past' : \E p \in past : q = Deleted(p)
    BY <1>2
<1>5. /\ claim' \in [Conversations -> Claims \cup {Nothing}]
      /\ \A c \in Conversations : claim'[c] # Nothing => claim'[c] = claim[c] /\ claim[c].session \in left
    BY <1>1, <1>2
<1>6. /\ state' \in [Ids -> States \cup {Nothing}]
      /\ \A s \in Ids : state'[s] # Nothing => state'[s] = state[s]
    BY <1>1, <1>2
<1>7. \A c \in Conversations : claim[c] # Nothing /\ claim[c].session \in left => claim'[c] = claim[c]
    BY <1>2
<1> HIDE DEF left, Deleted
<1>8. ClaimsGiven'
  <2> SUFFICES ASSUME NEW c \in Conversations, claim'[c] # Nothing
               PROVE  [session |-> claim'[c].session, conversation |-> c, age |-> claim'[c].age] \in past'
      BY DEF ClaimsGiven
  <2> DEFINE p == [session |-> claim[c].session, conversation |-> c, age |-> claim[c].age]
  <2>1. claim'[c] = claim[c] /\ claim[c].session \in left
      BY <1>5
  <2>2. p \in past /\ p.session \in left
      BY <2>1 DEF ChatInv, ClaimsGiven
  <2> HIDE DEF p
  <2>3. p \in past'
      BY <1>3, <2>2
  <2> QED BY <2>1, <2>3 DEF p
<1>9. RecentClaimed'
  <2> SUFFICES ASSUME NEW q \in past', q.age = Recent
               PROVE  Is(claim'[q.conversation], Recent) /\ claim'[q.conversation].session = q.session
      BY DEF RecentClaimed, Is
  <2>1. PICK p \in past : q = Deleted(p)
      BY <1>4
  <2>2. q = p /\ q.session \in left
      BY <1>3, <2>1
  <2>3. Is(claim[q.conversation], Recent) /\ claim[q.conversation].session = q.session
      BY <2>2, RecentGivenOfClaim
  <2>4. q.conversation \in Conversations
      BY <1>1, <2>2 DEF Pasts
  <2>5. claim'[q.conversation] = claim[q.conversation]
      BY <1>7, <2>2, <2>3, <2>4 DEF Is
  <2> QED BY <2>3, <2>5
<1>10. /\ past' \subseteq Pasts
       /\ \A p \in past : \E q \in past' : p.session = q.session /\ p.conversation = q.conversation
       /\ \A q \in past' : \E p \in past : p.session = q.session /\ p.conversation = q.conversation
  <2>1. past' \subseteq Pasts
      BY <1>3, <1>4
  <2>2. \A p \in past : \E q \in past' : p.session = q.session /\ p.conversation = q.conversation
      BY <1>3
  <2>3. \A q \in past' : \E p \in past : p.session = q.session /\ p.conversation = q.conversation
      BY <1>3, <1>4
  <2> QED BY <2>1, <2>2, <2>3
<1> QED BY <1>2, <1>5, <1>6, <1>8, <1>9, <1>10, EntriesAge

-----------------------------------------------------------------------------
LEMMA ChatStarts == ChatInit => ChatInv
<1> SUFFICES ASSUME ChatInit PROVE ChatInv
    OBVIOUS
<1>1. ChatTyped /\ ClaimsGiven /\ RecentClaimed /\ StatesGiven /\ PastMade
    BY SessionsAssumption DEF ChatInit, ChatTyped, ClaimsGiven, RecentClaimed, StatesGiven, PastMade
<1>2. Running = {}
    BY DEF ChatInit, Running, IdleChat
<1> QED BY <1>1, <1>2 DEF ChatInv, RunningGiven, SessionOfConversation, ConversationsApart, ConversationKept

LEMMA ChatStutters == ChatInv /\ UNCHANGED chatVars => ChatInv'
  BY DEF ChatInv, chatVars, ChatTyped, ClaimsGiven, RecentClaimed, StatesGiven, WasGiven, PastMade,
         RunningGiven, Running, SessionOfConversation, ConversationsApart, ConversationKept, Is

LEMMA ChatSteps == ChatInv /\ [ChatNext]_chatVars => ChatInv'
<1> SUFFICES ASSUME ChatInv, ChatNext PROVE ChatInv'
    BY ChatStutters
<1>1. CASE \E r \in Chats, c \in Conversations : ResolveClaimed(r, c)
    BY <1>1, ClaimedKeeps
<1>2. CASE \E r \in Chats, c \in Conversations : ResolveByHistory(r, c)
    BY <1>2, HistoryKeeps
<1>3. CASE \E r \in Chats, answer \in Answers : RecordRequest(r, answer)
    BY <1>3, RecordKeeps
<1>4. CASE \E r \in Chats : ResolveFails(r) \/ RecordLost(r)
    BY <1>4, RequestEnds
<1>5. CASE Tick
    BY <1>5, TickKeeps
<1>6. CASE CleanupRows \/ CleanupStates \/ CleanupClaims
    BY <1>6, CleanupKeeps
<1>7. CASE DeleteHistoricalLogsBefore
    BY <1>7, DeletionKeeps
<1> QED BY <1>1, <1>2, <1>3, <1>4, <1>5, <1>6, <1>7 DEF ChatNext

\* A chat request is only given the session of a conversation which it repeats or goes on
\* with, or a new one, and it is given the session of those of the window if they are all
\* of one: resolveCopilotChatSession, whatever requests overlap and whatever ages, expires
\* and is deleted in between.
THEOREM ConversationsKeepTheirSession == ChatSpec => []SessionOfConversation
<1>1. ChatInv => SessionOfConversation
    BY DEF ChatInv
<1> QED BY <1>1, ChatStarts, ChatSteps, PTL DEF ChatSpec

-----------------------------------------------------------------------------
(* ContextWindow: the window that the sessions of a token show. *)

WindowTables ==
  [log : Seq(LogRows), state : [Sessions -> ShownStates \cup {Unknown}],
   profile : [Clients \X ModelNames -> Learnt \cup {Unknown}]]

Less == {p \in Nat \X Nat : p[1] < p[2]}

\* Induction: a set of numbers has a least one, and one that is bounded a greatest one.
LEMMA LeastNumber ==
  ASSUME NEW T, T \subseteq Nat, T # {}
  PROVE  \E n \in T : \A m \in T : n <= m
<1>1. IsWellFoundedOn(Less, Nat)
  <2>1. Less = OpToRel(<, Nat)
      BY DEF OpToRel, Less
  <2> QED BY <2>1, NatLessThanWellFounded, Zenon
<1>2. PICK n \in T : \A m \in T : ~(<<m, n>> \in Less)
    BY <1>1, WFMin, Zenon
<1>3. ASSUME NEW m \in T PROVE n <= m
  <2>1. m \in Nat /\ n \in Nat
      OBVIOUS
  <2>2. m < n => <<m, n>> \in Less
      BY <2>1 DEF Less
  <2> QED BY <1>2, <2>1, <2>2
<1> QED BY <1>3

LEMMA GreatestNumber ==
  ASSUME NEW T, T \subseteq Nat, T # {}, NEW bound \in Nat, \A n \in T : n <= bound
  PROVE  \E n \in T : \A m \in T : m <= n
<1> DEFINE U == {bound - n : n \in T}
<1>1. U \subseteq Nat /\ U # {}
  <2>1. \A n \in T : n \in Nat /\ n <= bound
      OBVIOUS
  <2>2. \A n \in T : bound - n \in Nat /\ bound - n \in U
      BY <2>1
  <2>3. \E n : n \in T
      OBVIOUS
  <2> QED BY <2>2, <2>3
<1>2. PICK u \in U : \A w \in U : u <= w
  <2> HIDE DEF U
  <2> QED BY <1>1, LeastNumber
<1>3. PICK n \in T : u = bound - n
    OBVIOUS
<1>4. ASSUME NEW m \in T PROVE m <= n
  <2>1. bound - m \in U /\ m \in Nat /\ n \in Nat
      OBVIOUS
  <2>2. u <= bound - m
      BY <1>2, <2>1
  <2> QED BY <1>3, <2>1, <2>2
<1> QED BY <1>4

-----------------------------------------------------------------------------
(* The threshold. *)

SamplesOf == Seq(Samples) \ {<<>>}

LEMMA SamplesCounted ==
  ASSUME NEW samples \in SamplesOf
  PROVE  /\ Len(samples) \in Nat \ {0} /\ DOMAIN samples = 1 .. Len(samples)
         /\ \A i \in DOMAIN samples : samples[i] \in Samples /\ samples[i].size \in Nat
         /\ \A T : T \subseteq DOMAIN samples => /\ IsFiniteSet(T) /\ Cardinality(T) \in Nat
                                                 /\ Cardinality(T) <= Len(samples)
         /\ Cardinality(DOMAIN samples) = Len(samples)
<1>1. Len(samples) \in Nat \ {0} /\ DOMAIN samples = 1 .. Len(samples)
    BY DEF SamplesOf
<1>2. \A i \in DOMAIN samples : samples[i] \in Samples /\ samples[i].size \in Nat
  <2>1. \A i \in DOMAIN samples : samples[i] \in Samples
      BY DEF SamplesOf
  <2> QED BY <2>1 DEF Samples
<1>3. IsFiniteSet(DOMAIN samples) /\ Cardinality(DOMAIN samples) = Len(samples)
  <2>1. 1 \in Int /\ Len(samples) \in Int /\ ~(1 > Len(samples)) /\ Len(samples) - 1 + 1 = Len(samples)
      BY <1>1
  <2> QED BY <1>1, <2>1, FS_Interval
<1>4. ASSUME NEW T, T \subseteq DOMAIN samples
      PROVE  IsFiniteSet(T) /\ Cardinality(T) \in Nat /\ Cardinality(T) <= Len(samples)
    BY <1>3, <1>4, FS_Subset, FS_CardinalityType
<1> QED BY <1>1, <1>2, <1>3, <1>4

LEMMA QuartileInside ==
  \A n \in Nat \ {0} : /\ Quartile(n) \in 1 .. n /\ 4 * Quartile(n) >= 3 * n
                       /\ n >= 4 => Quartile(n) + 1 <= n
  BY DEF Quartile

\* The size at the place of the quartile exists: the least one that so many do not exceed.
LEMMA ThresholdThere ==
  ASSUME NEW samples \in SamplesOf
  PROVE  LET size == Threshold(samples) IN
         /\ \E i \in DOMAIN samples : size = samples[i].size
         /\ size \in Nat
         /\ Below(samples, size) < Quartile(Len(samples))
         /\ Quartile(Len(samples)) <= AtMost(samples, size)
<1> DEFINE n == Len(samples)
           q == Quartile(n)
           S == {samples[i].size : i \in DOMAIN samples}
           T == {size \in S : q <= AtMost(samples, size)}
<1>1. n \in Nat \ {0} /\ DOMAIN samples = 1 .. n /\ q \in 1 .. n /\ S \subseteq Nat
    BY SamplesCounted, QuartileInside
<1>2. \A size : /\ Below(samples, size) \in Nat
                /\ AtMost(samples, size) \in Nat
    BY SamplesCounted DEF Below, AtMost
<1>3. T # {}
  <2>1. S # {}
      BY <1>1
  <2>2. \E bound \in Nat : \A size \in S : size <= bound
      \* the largest of finitely many
    <3> DEFINE K == {k \in 0 .. n : \E b \in Nat : \A i \in 1 .. k : samples[i].size <= b}
    <3>1. K \subseteq Nat /\ K # {} /\ \A k \in K : k <= n
      <4>1. 0 \in K
          BY <1>1
      <4>2. K \subseteq 0 .. n
          OBVIOUS
      <4> HIDE DEF K
      <4> QED BY <1>1, <4>1, <4>2
    <3>2. PICK k \in K : \A m \in K : m <= k
      <4> HIDE DEF K
      <4> QED BY <1>1, <3>1, GreatestNumber
    <3>3. PICK b \in Nat : \A i \in 1 .. k : samples[i].size <= b
        OBVIOUS
    <3>4. k = n
      <4> SUFFICES ASSUME k # n PROVE FALSE
          OBVIOUS
      <4>1. k \in Nat /\ k + 1 \in 1 .. n
        <5>1. k \in 0 .. n
            OBVIOUS
        <5> HIDE DEF K, n
        <5> QED BY <1>1, <5>1
      <4>2. samples[k + 1].size \in Nat
          BY <1>1, <4>1, SamplesCounted
      <4> DEFINE c == IF samples[k + 1].size <= b THEN b ELSE samples[k + 1].size
      <4>3. c \in Nat /\ b <= c /\ samples[k + 1].size <= c
          BY <4>2
      <4>4. \A i \in 1 .. k + 1 : samples[i].size <= c
        <5> SUFFICES ASSUME NEW i \in 1 .. k + 1 PROVE samples[i].size <= c
            OBVIOUS
        <5>1. CASE i = k + 1
            BY <4>3, <5>1
        <5>2. CASE i # k + 1
          <6>1. i \in 1 .. k /\ i \in DOMAIN samples
            <7> HIDE DEF K, n, c
            <7> QED BY <1>1, <4>1, <5>2
          <6>2. samples[i].size \in Nat /\ samples[i].size <= b
              BY <3>3, <6>1, SamplesCounted
          <6> HIDE DEF c
          <6> QED BY <4>3, <6>2
        <5> QED BY <5>1, <5>2
      <4>5. k + 1 \in K
        <5>1. k + 1 \in 0 .. n
          <6> HIDE DEF K, n, c
          <6> QED BY <1>1, <4>1
        <5> HIDE DEF n, c
        <5> QED BY <4>3, <4>4, <5>1
      <4> HIDE DEF K
      <4> QED BY <3>2, <4>1, <4>5
    <3> QED BY <1>1, <3>3, <3>4
  <2>3. PICK large \in S : \A size \in S : size <= large
    <3> HIDE DEF S
    <3> QED BY <1>1, <2>1, <2>2, GreatestNumber
  <2>4. {i \in DOMAIN samples : samples[i].size <= large} = DOMAIN samples
      BY <2>3
  <2>5. AtMost(samples, large) = n
      BY <2>4, SamplesCounted DEF AtMost
  <2> QED BY <1>1, <2>3, <2>5
<1>4. PICK size \in T : \A other \in T : size <= other
  <2>1. T \subseteq Nat
      BY <1>1
  <2> HIDE DEF T
  <2> QED BY <1>3, <2>1, LeastNumber
<1>5. Below(samples, size) < q
  <2> SUFFICES ASSUME q <= Below(samples, size) PROVE FALSE
      BY <1>1, <1>2
  <2> DEFINE B == {i \in DOMAIN samples : samples[i].size < size}
             V == {samples[i].size : i \in B}
  <2>1. Cardinality(B) # 0 /\ B # {}
    <3>1. q <= Cardinality(B)
        BY DEF Below
    <3>2. Cardinality({}) = 0
        BY FS_EmptySet
    <3>3. q \in Nat /\ 1 <= q
        BY <1>1
    <3> HIDE DEF B, q, n
    <3>4. Cardinality(B) # 0
        BY <3>1, <3>3
    <3> QED BY <3>2, <3>4
  <2>2. V \subseteq Nat /\ V # {} /\ size \in Nat /\ \A v \in V : v <= size
    <3>1. size \in Nat
        BY <1>1
    <3>2. \A i \in B : samples[i].size \in Nat /\ samples[i].size < size
        BY SamplesCounted
    <3>3. \E i : i \in B
        BY <2>1
    <3> HIDE DEF B
    <3> QED BY <3>1, <3>2, <3>3
  <2>3. PICK v \in V : \A w \in V : w <= v
    <3> HIDE DEF V
    <3> QED BY <2>2, GreatestNumber
  <2>4. v \in S /\ v < size /\ v \in Nat
      BY <1>1
  <2>5. B = {i \in DOMAIN samples : samples[i].size <= v}
    <3>1. \A i \in DOMAIN samples : samples[i].size \in Nat
        BY SamplesCounted
    <3> QED BY <2>2, <2>3, <2>4, <3>1
  <2>6. AtMost(samples, v) = Below(samples, size)
      BY <2>5 DEF AtMost, Below
  <2>7. v \in T
      BY <2>4, <2>6
  <2> HIDE DEF T
  <2> QED BY <1>4, <2>2, <2>4, <2>7
<1> DEFINE P(t) == Below(samples, t) < q /\ q <= AtMost(samples, t)
<1>6. size \in S /\ P(size)
    BY <1>5
<1>7. Threshold(samples) = CHOOSE t \in S : P(t)
    BY DEF Threshold
<1> HIDE DEF P
<1>8. Threshold(samples) \in S /\ P(Threshold(samples))
    BY <1>6, <1>7
<1> QED BY <1>1, <1>8 DEF P

LEMMA SamplesBalanced ==
  ASSUME NEW samples \in SamplesOf
  PROVE  Balanced(samples)
<1> DEFINE n == Len(samples)
           q == Quartile(n)
           size == Threshold(samples)
           A == {i \in DOMAIN samples : samples[i].size >= size}
           B == {i \in DOMAIN samples : samples[i].size < size}
<1>1. n \in Nat \ {0} /\ q \in 1 .. n /\ 4 * q >= 3 * n /\ (n >= 4 => q + 1 <= n)
    BY SamplesCounted, QuartileInside
<1>2. size \in Nat /\ Cardinality(B) < q /\ q <= AtMost(samples, size)
    BY ThresholdThere DEF Below
<1>3. AtMost(samples, size) \in Nat
    BY SamplesCounted DEF AtMost
<1>4. IsFiniteSet(A) /\ IsFiniteSet(B) /\ Cardinality(A) \in Nat /\ Cardinality(B) \in Nat
    BY SamplesCounted
<1>5. A \cup B = DOMAIN samples /\ A \cap B = {}
  <2>1. \A i \in DOMAIN samples : samples[i].size \in Nat
      BY SamplesCounted
  <2>2. size \in Nat
      BY <1>2
  <2> HIDE DEF size
  <2>3. \A i \in DOMAIN samples : samples[i].size < size <=> ~(samples[i].size >= size)
      BY <2>1, <2>2
  <2> QED BY <2>3
<1>6. Cardinality(A) + Cardinality(B) = n
  <2>1. Cardinality(A \cup B) = Cardinality(A) + Cardinality(B) - Cardinality(A \cap B)
      BY <1>4, FS_Union
  <2>2. Cardinality(A \cap B) = 0 /\ Cardinality(A \cup B) = n
      BY <1>5, FS_EmptySet, SamplesCounted
  <2> HIDE DEF A, B
  <2> QED BY <1>4, <2>1, <2>2
<1> HIDE DEF n, q, size, B
<1>7. n >= 4 => Cardinality(A) >= 2 /\ 4 * AtMost(samples, size) >= 3 * n
    BY <1>1, <1>2, <1>3, <1>4, <1>6
<1> QED BY <1>7 DEF Balanced, n, size

LEMMA WindowTyped == \A samples \in SamplesOf : WindowOf(samples) \in Nat
<1> SUFFICES ASSUME NEW samples \in SamplesOf PROVE WindowOf(samples) \in Nat
    OBVIOUS
<1>1. Threshold(samples) \in Nat
    BY ThresholdThere
<1> QED BY <1>1 DEF WindowOf

LEMMA SamplesAppended ==
  ASSUME NEW samples \in Seq(Samples), NEW model \in ModelNames, NEW sample \in Samples,
         sample.model = model, \A i \in DOMAIN samples : samples[i].model = model
  PROVE  /\ AppendSample(samples, sample) \in SamplesOf
         /\ \A i \in DOMAIN AppendSample(samples, sample) : AppendSample(samples, sample)[i].model = model
<1> DEFINE all == Append(samples, sample)
<1>1. all \in Seq(Samples) /\ Len(all) = Len(samples) + 1 /\ Len(samples) \in Nat
    OBVIOUS
<1>2. \A i \in 1 .. Len(all) : all[i].model = model
    OBVIOUS
<1>3. Len(all) > SampleLimit => /\ Tail(all) \in Seq(Samples) /\ Len(Tail(all)) = Len(samples)
                                /\ Len(samples) # 0
                                /\ \A i \in 1 .. Len(Tail(all)) : Tail(all)[i] = all[i + 1]
  <2> HIDE DEF all
  <2>1. all \in Seq(Samples) /\ Len(all) \in Nat \ {0}
      BY <1>1
  <2>2. /\ Tail(all) \in Seq(Samples) /\ Len(Tail(all)) = Len(all) - 1
        /\ \A i \in 1 .. Len(Tail(all)) : Tail(all)[i] = all[i + 1]
      BY <2>1
  <2>3. Len(all) > SampleLimit => Len(samples) # 0
      BY <1>1, LimitsAssumption
  <2> QED BY <1>1, <2>2, <2>3
<1> HIDE DEF all
<1>4. CASE Len(all) > SampleLimit
  <2>1. \A i \in 1 .. Len(Tail(all)) : Tail(all)[i].model = model
      BY <1>1, <1>2, <1>3, <1>4
  <2> QED BY <1>1, <1>3, <1>4, <2>1 DEF AppendSample, SamplesOf, all
<1>5. CASE ~(Len(all) > SampleLimit)
  <2>1. all # <<>> /\ DOMAIN all = 1 .. Len(all)
      BY <1>1
  <2> QED BY <1>1, <1>2, <1>5, <2>1 DEF AppendSample, SamplesOf, all
<1> QED BY <1>4, <1>5

-----------------------------------------------------------------------------
(* The model of a session. *)

LEMMA AskingCounted ==
  ASSUME NEW db \in WindowTables, NEW s, NEW m
  PROVE  /\ Asking(db, s, m) \subseteq 1 .. Len(db.log) /\ Len(db.log) \in Nat
         /\ Cardinality(Asking(db, s, m)) \in Nat /\ Cardinality(Asking(db, s, m)) <= Len(db.log)
         /\ Asking(db, s, m) # {} => /\ Latest(Asking(db, s, m)) \in Asking(db, s, m)
                                     /\ \A j \in Asking(db, s, m) : j <= Latest(Asking(db, s, m))
<1> DEFINE A == Asking(db, s, m)  n == Len(db.log)
<1>1. db.log \in Seq(LogRows) /\ n \in Nat /\ A \subseteq 1 .. n
    BY DEF WindowTables, Asking
<1>2. IsFiniteSet(1 .. n) /\ Cardinality(1 .. n) = n
  <2>1. 1 \in Int /\ n \in Int /\ (IF 1 > n THEN 0 ELSE n - 1 + 1) = n
      BY <1>1
  <2> QED BY <2>1, FS_Interval
<1>3. Cardinality(A) \in Nat /\ Cardinality(A) <= n
    BY <1>1, <1>2, FS_Subset, FS_CardinalityType
<1>4. ASSUME A # {}
      PROVE  Latest(A) \in A /\ \A j \in A : j <= Latest(A)
  <2>1. A \subseteq Nat /\ \A i \in A : i <= n
      BY <1>1
  <2> HIDE DEF A, n
  <2>2. \E i \in A : \A j \in A : j <= i
      BY <1>1, <1>4, <2>1, GreatestNumber
  <2> QED BY <2>2 DEF Latest
<1> QED BY <1>1, <1>3, <1>4

\* Of the models that are asked for one comes before all others.
LEMMA PrimaryModelThere ==
  ASSUME NEW db \in WindowTables, NEW s
  PROVE  SessionPrimaryModel(db, s) \in ModelNames \cup {Unknown}
<1> DEFINE A(m) == Asking(db, s, m)
           n == Len(db.log)
           asked == {m \in ModelNames : A(m) # {}}
           Counts == {Cardinality(A(m)) : m \in asked}
<1> SUFFICES ASSUME asked # {}
             PROVE  \E m \in asked : \A o \in asked \ {m} : AskedBefore(db, s, m, o)
    BY DEF SessionPrimaryModel
<1>1. \A m : /\ A(m) \subseteq 1 .. n /\ n \in Nat
             /\ Cardinality(A(m)) \in Nat /\ Cardinality(A(m)) <= n
             /\ A(m) # {} => Latest(A(m)) \in A(m)
    BY AskingCounted
<1>2. \A m, o : m # o => A(m) \cap A(o) = {}
    BY DEF Asking
<1> HIDE DEF A, n
<1>3. PICK count \in Counts : \A other \in Counts : other <= count
  <2>1. Counts \subseteq Nat /\ Counts # {} /\ n \in Nat /\ \A c \in Counts : c <= n
      BY <1>1
  <2> HIDE DEF Counts
  <2> QED BY <2>1, GreatestNumber
<1> DEFINE most == {m \in asked : Cardinality(A(m)) = count}
           LatestOf == {Latest(A(m)) : m \in most}
<1>4. most # {} /\ most \subseteq asked
    OBVIOUS
<1>5. PICK last \in LatestOf : \A other \in LatestOf : other <= last
  <2>1. \A m \in most : Latest(A(m)) \in 1 .. n
      BY <1>1
  <2>2. LatestOf \subseteq 1 .. n /\ LatestOf # {}
      BY <1>4, <2>1
  <2> HIDE DEF LatestOf
  <2>3. LatestOf \subseteq Nat /\ n \in Nat /\ \A c \in LatestOf : c <= n
      BY <1>1, <2>2
  <2> QED BY <2>2, <2>3, GreatestNumber
<1>6. PICK m \in most : last = Latest(A(m))
    OBVIOUS
<1>7. ASSUME NEW o \in asked \ {m}
      PROVE  AskedBefore(db, s, m, o)
  <2>1. /\ Cardinality(A(o)) \in Nat /\ Cardinality(A(m)) \in Nat /\ Cardinality(A(m)) = count
        /\ Cardinality(A(o)) \in Counts
      BY <1>1
  <2>2. Cardinality(A(o)) <= count
      BY <1>3, <2>1
  <2>3. CASE Cardinality(A(o)) # count
    <3>1. Cardinality(A(m)) > Cardinality(A(o))
      <4> HIDE DEF Counts, most
      <4> QED BY <2>1, <2>2, <2>3
    <3> QED BY <3>1 DEF AskedBefore, A
  <2>4. CASE Cardinality(A(o)) = count
    <3>1. o \in most /\ Latest(A(o)) <= Latest(A(m))
        BY <1>5, <1>6, <2>4
    <3>2. Latest(A(o)) \in A(o) /\ Latest(A(m)) \in A(m) /\ Latest(A(o)) \in 1 .. n /\ Latest(A(m)) \in 1 .. n
        BY <1>1
    <3>3. Latest(A(o)) # Latest(A(m))
        BY <1>2, <3>2
    <3>4. Latest(A(m)) > Latest(A(o)) /\ Cardinality(A(m)) = Cardinality(A(o))
      <4> HIDE DEF Counts, most
      <4> QED BY <2>1, <2>4, <3>1, <3>2, <3>3
    <3> QED BY <3>4 DEF AskedBefore, A
  <2> QED BY <2>3, <2>4
<1> QED BY <1>7

-----------------------------------------------------------------------------
(* updateSessionContextWindow. *)

LearnedRightly(samples, model, window) ==
  /\ samples \in SamplesOf /\ window = WindowOf(samples)
  /\ \A i \in DOMAIN samples : samples[i].model = model

OwnTrue(st) == st.source = "session" => LearnedRightly(st.samples, st.model, st.window)

\* What a state may hold, given the profiles.
StateTrue(st, profiles) ==
  /\ OwnTrue(st)
  /\ Heir(st) => ShowsKnown(st, profiles[<<st.client, st.model>>])

ProfilesTrue(db) ==
  \A c \in Clients, m \in ModelNames :
       db.profile[<<c, m>>] # Unknown => LearnedRightly(db.profile[<<c, m>>].samples, m, db.profile[<<c, m>>].window)

TablesTrue(db) ==
  /\ db \in WindowTables
  /\ \A s \in Sessions : db.state[s] # Unknown => StateTrue(db.state[s], db.profile)
  /\ ProfilesTrue(db)

\* One session may show another window than it should.
TablesTrueBut(db, s) ==
  /\ db \in WindowTables
  /\ \A t \in Sessions : db.state[t] # Unknown => /\ OwnTrue(db.state[t])
                                                  /\ t # s => StateTrue(db.state[t], db.profile)
  /\ ProfilesTrue(db)

LEMMA TableFields ==
  ASSUME NEW db \in WindowTables
  PROVE  /\ db.log \in Seq(LogRows)
         /\ \A s \in Sessions : db.state[s] # Unknown => db.state[s] \in ShownStates
         /\ \A c \in Clients, m \in ModelNames : db.profile[<<c, m>>] # Unknown => db.profile[<<c, m>>] \in Learnt
  BY DEF WindowTables

LEMMA TrueOfState ==
  ASSUME NEW db, NEW s, TablesTrueBut(db, s), NEW t \in Sessions, db.state[t] # Unknown
  PROVE  OwnTrue(db.state[t]) /\ (t # s => StateTrue(db.state[t], db.profile))
  BY Zenon DEF TablesTrueBut

LEMMA LearnedTyped ==
  ASSUME NEW samples \in SamplesOf, NEW count \in Nat
  PROVE  /\ Learned(samples, count) \in Learnt
         /\ Learned(samples, count).samples = samples
         /\ Learned(samples, count).window = WindowOf(samples)
         /\ Learned(samples, count).count = count
  BY WindowTyped DEF Learned, Learnt, SamplesOf

LEMMA ShowTyped ==
  ASSUME NEW st \in ShownStates, NEW source \in Sources, NEW learned \in Learnt, NEW samples \in Seq(Samples)
  PROVE  LET new == Show(st, source, learned, samples) IN
         /\ new \in ShownStates /\ new.client = st.client /\ new.model = st.model
         /\ new.source = source /\ new.window = learned.window /\ new.count = learned.count
         /\ new.samples = samples /\ new.settled = st.settled
  BY DEF Show, ShownStates, Learnt

\* A state of the primary model, whose client is the one looked up.
LEMMA LearnKeeps ==
  ASSUME NEW db, NEW s \in Sessions, TablesTrueBut(db, s), NEW client \in Clients, NEW sample \in Samples,
         db.state[s] # Unknown, db.state[s].client = client, db.state[s].model = sample.model
  PROVE  TablesTrue(Learn(db, s, client, sample)) /\ Learn(db, s, client, sample).log = db.log
<1> DEFINE st      == db.state[s]
           model   == sample.model
           known   == db.profile[<<client, model>>]
           taught  == IF known = Unknown THEN Learned(<<sample>>, 1)
                      ELSE Learned(AppendSample(known.samples, sample), known.count + 1)
           own     == st.source = "session"
           samples == AppendSample(IF own THEN st.samples ELSE <<>>, sample)
           mine    == Show(st, "session", Learned(samples, (IF own THEN st.count ELSE 0) + 1), samples)
           states  == [db.state EXCEPT ![s] = mine]
           new     == Learn(db, s, client, sample)
<1>1. /\ db \in WindowTables /\ st \in ShownStates /\ model \in ModelNames
      /\ db.profile \in [Clients \X ModelNames -> Learnt \cup {Unknown}]
      /\ db.state \in [Sessions -> ShownStates \cup {Unknown}] /\ db.log \in Seq(LogRows)
      /\ sample.model = model /\ st.model = model /\ st.client = client
  <2>1. db \in WindowTables /\ st \in ShownStates
      BY TableFields DEF TablesTrueBut
  <2>2. model \in ModelNames
      BY DEF Samples
  <2> QED BY <2>1, <2>2 DEF WindowTables
<1>2. taught \in Learnt /\ LearnedRightly(taught.samples, model, taught.window)
  <2>1. CASE known = Unknown
    <3>1. <<sample>> \in SamplesOf /\ \A i \in DOMAIN <<sample>> : <<sample>>[i].model = model
        BY DEF SamplesOf
    <3> QED BY <2>1, <3>1, LearnedTyped DEF LearnedRightly
  <2>2. CASE known # Unknown
    <3>1. known \in Learnt /\ LearnedRightly(known.samples, model, known.window)
        BY <1>1, <2>2, TableFields DEF TablesTrueBut, ProfilesTrue
    <3>2. known.samples \in Seq(Samples) /\ known.count + 1 \in Nat
        BY <3>1 DEF Learnt
    <3> DEFINE more == AppendSample(known.samples, sample)
    <3>3. more \in SamplesOf /\ \A i \in DOMAIN more : more[i].model = model
        BY <1>1, <3>1, <3>2, SamplesAppended DEF LearnedRightly
    <3> HIDE DEF more
    <3>4. taught = Learned(more, known.count + 1)
        BY <2>2 DEF more
    <3> HIDE DEF taught
    <3>5. taught \in Learnt /\ taught.samples = more /\ taught.window = WindowOf(more)
        BY <3>2, <3>3, <3>4, LearnedTyped, Zenon
    <3> QED BY <3>3, <3>5 DEF LearnedRightly
  <2> QED BY <2>1, <2>2
<1>3. samples \in SamplesOf /\ \A i \in DOMAIN samples : samples[i].model = model
  <2>1. CASE own
    <3>1. LearnedRightly(st.samples, model, st.window)
      <4>1. OwnTrue(st)
          BY TrueOfState
      <4> HIDE DEF st, samples, mine, new, taught, known
      <4> QED BY <1>1, <2>1, <4>1 DEF OwnTrue
    <3>2. st.samples \in Seq(Samples)
        BY <1>1 DEF ShownStates
    <3> QED BY <1>1, <2>1, <3>1, <3>2, SamplesAppended DEF LearnedRightly
  <2>2. CASE ~own
    <3> DEFINE none == <<>>
    <3>1. none \in Seq(Samples) /\ \A i \in DOMAIN none : none[i].model = model
        OBVIOUS
    <3>2. samples = AppendSample(none, sample)
        BY <2>2
    <3> HIDE DEF samples, none
    <3> QED BY <1>1, <3>1, <3>2, SamplesAppended
  <2> QED BY <2>1, <2>2
<1> DEFINE count == (IF own THEN st.count ELSE 0) + 1
<1>4. Learned(samples, count) \in Learnt /\ Learned(samples, count).window = WindowOf(samples)
  <2>1. count \in Nat
      BY <1>1 DEF ShownStates
  <2> HIDE DEF count, samples
  <2> QED BY <1>3, <2>1, LearnedTyped
<1>5. /\ mine \in ShownStates /\ mine.client = client /\ mine.model = model /\ mine.source = "session"
      /\ mine.samples = samples /\ mine.window = WindowOf(samples)
  <2>1. samples \in Seq(Samples) /\ "session" \in Sources
      BY <1>3 DEF SamplesOf, Sources
  <2> HIDE DEF samples
  <2> QED BY <1>1, <1>4, <2>1, ShowTyped
<1>6. LearnedRightly(mine.samples, mine.model, mine.window)
    BY <1>3, <1>5 DEF LearnedRightly
<1>7. new = [db EXCEPT !.profile = [db.profile EXCEPT ![<<client, model>>] = taught],
                       !.state = Propagate(states, client, model, taught)]
    BY <1>1 DEF Learn
<1> DEFINE after == Propagate(states, client, model, taught)
           Follows(t) == /\ states[t] # Unknown /\ states[t].client = client /\ states[t].model = model
                         /\ states[t].source \in {"", "agent"}
<1> HIDE DEF st, known, taught, own, samples, mine, new, count
<1>8. /\ \A t \in Sessions : t # s => states[t] = db.state[t]
      /\ states[s] = mine /\ states \in [Sessions -> ShownStates \cup {Unknown}]
    BY <1>1, <1>5
<1> HIDE DEF states
<1>9. ASSUME NEW t \in Sessions, Follows(t)
       PROVE  LET heir == Show(states[t], "agent", taught, <<>>) IN
              /\ heir \in ShownStates /\ heir.client = client /\ heir.model = model
              /\ heir.source = "agent" /\ heir.window = taught.window /\ heir.count = taught.count
  <2> DEFINE none == <<>>  agent == "agent"
  <2>1. none \in Seq(Samples)
      OBVIOUS
  <2>2. agent \in Sources
      BY DEF Sources
  <2>3. states[t] \in ShownStates /\ states[t].client = client /\ states[t].model = model
      BY <1>8, <1>9
  <2> HIDE DEF Follows, none, agent
  <2>4. LET heir == Show(states[t], agent, taught, none) IN
        /\ heir \in ShownStates /\ heir.client = client /\ heir.model = model
        /\ heir.source = agent /\ heir.window = taught.window /\ heir.count = taught.count
      BY <1>2, <2>1, <2>2, <2>3, ShowTyped
  <2> QED BY <2>4 DEF none, agent
<1>10. /\ \A t \in Sessions : after[t] = IF Follows(t) THEN Show(states[t], "agent", taught, <<>>) ELSE states[t]
      /\ DOMAIN after = Sessions
      /\ after = [t \in Sessions |-> after[t]]
    BY DEF Propagate
<1> HIDE DEF after
<1>11. \A t \in Sessions : after[t] \in ShownStates \cup {Unknown}
  <2> SUFFICES ASSUME NEW t \in Sessions PROVE after[t] \in ShownStates \cup {Unknown}
      OBVIOUS
  <2>2. CASE Follows(t)
    <3> HIDE DEF Follows
    <3> QED BY <1>10, <1>9, <2>2
  <2>3. CASE ~Follows(t)
      BY <1>8, <1>10, <2>3
  <2> QED BY <2>2, <2>3
<1>12. after \in [Sessions -> ShownStates \cup {Unknown}]
    BY <1>10, <1>11
<1> DEFINE profiles == [db.profile EXCEPT ![<<client, model>>] = taught]
<1>13. /\ profiles \in [Clients \X ModelNames -> Learnt \cup {Unknown}]
       /\ \A c \in Clients, m \in ModelNames :
            profiles[<<c, m>>] = IF c = client /\ m = model THEN taught ELSE db.profile[<<c, m>>]
    BY <1>1, <1>2
<1> HIDE DEF profiles
<1>14. new \in WindowTables /\ new.log = db.log /\ new.state = after /\ new.profile = profiles
  <2>1. new = [db EXCEPT !.profile = profiles, !.state = after]
      BY <1>7 DEF profiles, after
  <2> QED BY <1>1, <1>12, <1>13, <2>1 DEF WindowTables
<1>15. ASSUME NEW t \in Sessions, after[t] # Unknown
       PROVE  StateTrue(after[t], profiles)
  <2>1. CASE Follows(t)
    <3> DEFINE heir == Show(states[t], "agent", taught, <<>>)
    <3>2. /\ heir.source = "agent" /\ heir.window = taught.window /\ heir.count = taught.count
          /\ heir.client = client /\ heir.model = model
        BY <1>9, <2>1
    <3>3. after[t] = heir
        BY <1>10, <2>1
    <3> HIDE DEF heir
    <3>4. profiles[<<heir.client, heir.model>>] = taught
        BY <1>1, <1>13, <3>2
    <3> QED BY <3>2, <3>3, <3>4 DEF StateTrue, OwnTrue, ShowsKnown
  <2>2. CASE ~Follows(t) /\ t = s
      BY <1>5, <1>6, <1>8, <1>10, <2>2 DEF StateTrue, OwnTrue, Heir
  <2>3. CASE ~Follows(t) /\ t # s
    <3>1. after[t] = db.state[t] /\ states[t] = db.state[t]
        BY <1>8, <1>10, <2>3
    <3>2. StateTrue(db.state[t], db.profile) /\ db.state[t] \in ShownStates
      <4>1. db.state[t] # Unknown /\ t # s
          BY <1>15, <2>3, <3>1
      <4>2. StateTrue(db.state[t], db.profile)
          BY <4>1, TrueOfState
      <4> QED BY <1>1, <4>1, <4>2
    <3>3. ASSUME Heir(db.state[t])
          PROVE  profiles[<<db.state[t].client, db.state[t].model>>] = db.profile[<<db.state[t].client, db.state[t].model>>]
      <4>1. db.state[t].client \in Clients /\ db.state[t].model \in ModelNames
          BY <3>2, <3>3 DEF ShownStates, Heir
      <4>2. db.state[t].source \in {"", "agent"}
          BY <3>2, <3>3 DEF ShownStates, Heir, Sources
      <4>3. ~(db.state[t].client = client /\ db.state[t].model = model)
          BY <1>15, <2>3, <3>1, <4>2
      <4> QED BY <1>13, <4>1, <4>3
    <3> QED BY <3>1, <3>2, <3>3 DEF StateTrue
  <2> QED BY <2>1, <2>2, <2>3
<1>16. ASSUME NEW c \in Clients, NEW m \in ModelNames, profiles[<<c, m>>] # Unknown
       PROVE  LearnedRightly(profiles[<<c, m>>].samples, m, profiles[<<c, m>>].window)
  <2>1. CASE c = client /\ m = model
      BY <1>2, <1>13, <2>1
  <2>2. CASE ~(c = client /\ m = model)
      BY <1>13, <1>16, <2>2 DEF TablesTrueBut, ProfilesTrue
  <2> QED BY <2>1, <2>2
<1> QED BY <1>14, <1>15, <1>16 DEF TablesTrue, ProfilesTrue, new

LEMMA InheritKeeps ==
  ASSUME NEW db, NEW s \in Sessions, TablesTrueBut(db, s), NEW st \in ShownStates,
         db.state[s] = st, st.client \in Clients, st.model \in ModelNames, st.source # "session"
  PROVE  LET new == Inherit(db, st, st.client) IN
         new \in ShownStates /\ StateTrue(new, db.profile)
<1> DEFINE known == db.profile[<<st.client, st.model>>]
           none == <<>>
           agent == "agent"
           heir == Show(st, agent, known, none)
<1>1. none \in Seq(Samples)
    OBVIOUS
<1>2. agent \in Sources
    BY DEF Sources
<1>3. CASE known = Unknown
    BY <1>3 DEF Inherit, StateTrue, OwnTrue, ShowsKnown
<1>4. CASE known # Unknown
  <2>1. known \in Learnt
      BY <1>4, TableFields DEF TablesTrueBut
  <2>2. Inherit(db, st, st.client) = heir
      BY <1>4 DEF Inherit
  <2> HIDE DEF known, none, agent
  <2>3. /\ heir \in ShownStates /\ heir.client = st.client /\ heir.model = st.model
        /\ heir.source = agent /\ heir.window = known.window /\ heir.count = known.count
      BY <1>1, <1>2, <2>1, ShowTyped
  <2> HIDE DEF heir
  <2>4. StateTrue(heir, db.profile)
      BY <2>3 DEF StateTrue, OwnTrue, ShowsKnown, known, agent
  <2> QED BY <2>2, <2>3, <2>4
<1> QED BY <1>3, <1>4

LEMMA PrimaryTyped ==
  ASSUME NEW st \in ShownStates, OwnTrue(st), NEW model \in ModelNames
  PROVE  LET new == [WithPrimaryModel(st, model) EXCEPT !.settled = TRUE] IN
         /\ new \in ShownStates /\ OwnTrue(new)
         /\ new.client = st.client /\ new.model = model
<1> DEFINE none == <<>>
           old == WithPrimaryModel(st, model)
           new == [old EXCEPT !.settled = TRUE]
<1>1. none \in Seq(Samples)
    OBVIOUS
<1>2. CASE st.model = model
  <2>1. old = st
      BY <1>2 DEF WithPrimaryModel
  <2>2. new \in ShownStates /\ new.client = st.client /\ new.model = st.model /\ new.source = st.source
        /\ new.samples = st.samples /\ new.window = st.window
      BY <2>1 DEF ShownStates
  <2> QED BY <1>2, <2>2 DEF OwnTrue
<1>3. CASE st.model # model
  <2>1. old = [st EXCEPT !.model = model, !.source = "", !.window = 0, !.count = 0, !.samples = none]
      BY <1>3 DEF WithPrimaryModel
  <2> HIDE DEF none, old
  <2>2. new \in ShownStates /\ new.client = st.client /\ new.model = model /\ new.source = ""
      BY <1>1, <2>1 DEF ShownStates, Sources
  <2> QED BY <2>2 DEF OwnTrue, old
<1> QED BY <1>2, <1>3

LEMMA WithState ==
  ASSUME NEW db, NEW s \in Sessions, TablesTrueBut(db, s), NEW st \in ShownStates, OwnTrue(st)
  PROVE  LET new == [db EXCEPT !.state[s] = st] IN
         /\ TablesTrueBut(new, s) /\ new.state[s] = st /\ new.log = db.log /\ new.profile = db.profile
         /\ StateTrue(st, db.profile) => TablesTrue(new)
<1> DEFINE new == [db EXCEPT !.state[s] = st]
<1>1. /\ db \in WindowTables /\ db.state \in [Sessions -> ShownStates \cup {Unknown}]
      /\ db.profile \in [Clients \X ModelNames -> Learnt \cup {Unknown}] /\ db.log \in Seq(LogRows)
    BY DEF TablesTrueBut, WindowTables
<1>2. new = [db EXCEPT !.state = [db.state EXCEPT ![s] = st]]
    BY <1>1 DEF WindowTables
<1>3. new \in WindowTables /\ new.log = db.log /\ new.profile = db.profile /\ new.state = [db.state EXCEPT ![s] = st]
    BY <1>1, <1>2 DEF WindowTables
<1>4. new.state[s] = st /\ \A t \in Sessions : t # s => new.state[t] = db.state[t]
    BY <1>1, <1>3
<1> HIDE DEF new
<1>5. ProfilesTrue(new)
    BY <1>3 DEF TablesTrueBut, ProfilesTrue
<1>6. \A t \in Sessions : new.state[t] # Unknown => /\ OwnTrue(new.state[t])
                                                    /\ t # s => StateTrue(new.state[t], new.profile)
    BY <1>3, <1>4, TrueOfState
<1>7. TablesTrueBut(new, s)
    BY <1>3, <1>5, <1>6 DEF TablesTrueBut
<1>8. ASSUME StateTrue(st, db.profile)
      PROVE  TablesTrue(new)
  <2>1. \A t \in Sessions : new.state[t] # Unknown => StateTrue(new.state[t], new.profile)
      BY <1>3, <1>4, <1>6, <1>8
  <2> QED BY <1>3, <1>5, <2>1 DEF TablesTrue
<1> QED BY <1>3, <1>4, <1>7, <1>8 DEF new

LEMMA UpdateKeeps ==
  ASSUME NEW db, TablesTrue(db), NEW row \in LogRows, row.session \in Sessions,
         NEW fingerprint \in Clients \cup {Unknown},
         db.state[row.session] # Unknown => fingerprint \in {Unknown, db.state[row.session].client}
  PROVE  /\ TablesTrue(UpdateSessionContextWindow(db, row, fingerprint))
         /\ UpdateSessionContextWindow(db, row, fingerprint).log = db.log
<1> DEFINE s       == row.session
           model   == SessionPrimaryModel(db, s)
           st      == [WithPrimaryModel(db.state[s], model) EXCEPT !.settled = TRUE]
           client  == IF fingerprint = Unknown THEN st.client ELSE fingerprint
           current == [db EXCEPT !.state[s] = st]
           sample  == [model |-> row.model, size |-> row.size]
           heir    == Inherit(current, st, client)
           new     == UpdateSessionContextWindow(db, row, fingerprint)
<1>1. CASE model = Unknown \/ db.state[s] = Unknown
    BY <1>1 DEF UpdateSessionContextWindow
<1>2. CASE ~(model = Unknown \/ db.state[s] = Unknown)
  <2>1. new = IF IsSample(row) /\ row.model = model /\ client # Unknown
              THEN Learn(current, s, client, sample)
              ELSE IF st.source # "session" /\ client # Unknown
              THEN [current EXCEPT !.state[s] = heir] ELSE current
      BY <1>2 DEF UpdateSessionContextWindow
  <2>2. TablesTrueBut(db, s) /\ db \in WindowTables
      BY DEF TablesTrue, TablesTrueBut, StateTrue
  <2>3. s \in Sessions /\ model \in ModelNames /\ db.state[s] \in ShownStates /\ OwnTrue(db.state[s])
    <3>1. model \in ModelNames \cup {Unknown}
        BY <2>2, PrimaryModelThere
    <3>2. db.state[s] \in ShownStates
        BY <1>2, <2>2, TableFields
    <3>3. OwnTrue(db.state[s])
        BY <1>2, <2>2, TrueOfState
    <3> HIDE DEF model
    <3> QED BY <1>2, <3>1, <3>2, <3>3
  <2>4. st \in ShownStates /\ OwnTrue(st) /\ st.client = db.state[s].client /\ st.model = model
    <3> HIDE DEF model
    <3> QED BY <2>3, PrimaryTyped
  <2>5. client = st.client /\ client \in Clients \cup {Unknown}
    <3>1. fingerprint \in {Unknown, db.state[s].client}
        BY <1>2
    <3>2. st.client \in Clients \cup {Unknown}
      <4> HIDE DEF st
      <4> QED BY <2>4 DEF ShownStates
    <3> HIDE DEF st, model, s
    <3> QED BY <2>4, <3>1, <3>2
  <2> HIDE DEF st, model, client, new, heir
  <2>6. /\ TablesTrueBut(current, s) /\ current.state[s] = st /\ current.log = db.log /\ current.profile = db.profile
        /\ StateTrue(st, db.profile) => TablesTrue(current)
      BY <2>2, <2>3, <2>4, WithState
  <2> HIDE DEF current
  <2>7. CASE IsSample(row) /\ row.model = model /\ client # Unknown
    <3>1. sample \in Samples /\ sample.model = model
        BY <2>7 DEF Samples, LogRows
    <3>2. st # Unknown
        BY <2>4, UnknownAssumption
    <3> HIDE DEF sample, s
    <3>3. TablesTrue(Learn(current, s, client, sample)) /\ Learn(current, s, client, sample).log = current.log
        BY <2>3, <2>4, <2>5, <2>6, <2>7, <3>1, <3>2, LearnKeeps
    <3> QED BY <2>1, <2>6, <2>7, <3>3 DEF new
  <2>8. CASE ~(IsSample(row) /\ row.model = model /\ client # Unknown) /\ st.source # "session" /\ client # Unknown
    <3>1. st.client \in Clients /\ st.model \in ModelNames
        BY <2>3, <2>4, <2>5, <2>8
    <3>2. heir \in ShownStates /\ StateTrue(heir, current.profile)
        BY <2>3, <2>4, <2>5, <2>6, <2>8, <3>1, InheritKeeps DEF heir
    <3>3. TablesTrue([current EXCEPT !.state[s] = heir]) /\ [current EXCEPT !.state[s] = heir].log = current.log
        BY <2>3, <2>6, <3>2, WithState DEF StateTrue
    <3> QED BY <2>1, <2>6, <2>8, <3>3 DEF new
  <2>9. CASE ~(IsSample(row) /\ row.model = model /\ client # Unknown) /\ ~(st.source # "session" /\ client # Unknown)
    <3>1. StateTrue(st, db.profile)
        BY <2>4, <2>5, <2>9 DEF StateTrue, Heir
    <3> QED BY <2>1, <2>6, <2>9, <3>1 DEF new
  <2> QED BY <2>7, <2>8, <2>9 DEF new
<1> QED BY <1>1, <1>2

-----------------------------------------------------------------------------
(* The backfill. *)

NextReplayed(f, n) ==
  IF n = 0 THEN [db0 EXCEPT !.state = [s \in Sessions |-> Named(s)]]
  ELSE Recorded(f[n - 1], log[n])

\* Replayed is what its equation says: a longest beginning for which it is cannot end.
LEMMA ReplayedEquation ==
  ASSUME Len(log) \in Nat
  PROVE  \A n \in 0 .. Len(log) : Replayed[n] = NextReplayed(Replayed, n)
<1> DEFINE Places == 0 .. Len(log)
           Solves(g, k) == /\ g = [n \in Places |-> g[n]]
                           /\ \A n \in Places : n < k => g[n] = NextReplayed(g, n)
           Unsolved == {k \in Nat : ~ \E g : Solves(g, k)}
<1>1. Places \subseteq Nat /\ \A n \in Places : n # 0 => n - 1 \in Places
    OBVIOUS
<1> HIDE DEF Places
<1>2. Unsolved = {}
  <2> SUFFICES ASSUME Unsolved # {} PROVE FALSE
      OBVIOUS
  <2>1. PICK k \in Unsolved : \A j \in Unsolved : k <= j
    <3>1. Unsolved \subseteq Nat
        OBVIOUS
    <3> HIDE DEF Unsolved
    <3> QED BY <3>1, LeastNumber
  <2>2. k # 0
    <3>1. Solves([n \in Places |-> {}], 0)
        BY <1>1
    <3> QED BY <3>1
  <2>3. PICK g : Solves(g, k - 1)
    <3>1. k - 1 \in Nat /\ ~(k <= k - 1)
        BY <2>2
    <3>2. k - 1 \notin Unsolved
        BY <2>1, <3>1
    <3> QED BY <3>1, <3>2
  <2> DEFINE next == [n \in Places |-> IF n < k - 1 THEN g[n] ELSE NextReplayed(g, n)]
  <2>4. \A n \in Places : next[n] = IF n < k - 1 THEN g[n] ELSE NextReplayed(g, n)
      OBVIOUS
  <2>5. next = [n \in Places |-> next[n]]
      OBVIOUS
  <2> HIDE DEF next
  <2>6. ASSUME NEW n \in Places, n < k
        PROVE  next[n] = NextReplayed(next, n)
    <3>1. next[n] = NextReplayed(g, n)
        BY <2>3, <2>4
    <3>2. n # 0 => n - 1 \in Places /\ n - 1 < k - 1 /\ next[n - 1] = g[n - 1]
        BY <1>1, <2>4, <2>6
    <3> QED BY <3>1, <3>2 DEF NextReplayed
  <2>7. Solves(next, k)
      BY <2>5, <2>6
  <2> QED BY <2>7
<1>3. PICK g : Solves(g, Len(log) + 1)
  <2>1. Len(log) + 1 \in Nat
      OBVIOUS
  <2> QED BY <1>2, <2>1
<1>4. \A n \in Places : g[n] = NextReplayed(g, n)
  <2>1. \A n \in Places : n < Len(log) + 1
      BY DEF Places
  <2> QED BY <1>3, <2>1
<1>5. g = [n \in Places |-> NextReplayed(g, n)]
    BY <1>3, <1>4
<1> DEFINE F(f) == f = [n \in Places |-> NextReplayed(f, n)]
<1>6. Replayed = CHOOSE f : F(f)
    BY DEF Replayed, NextReplayed, Places
<1>7. F(g)
    BY <1>5
<1> HIDE DEF F
<1>8. F(Replayed)
    BY <1>6, <1>7
<1>9. Replayed = [n \in Places |-> NextReplayed(Replayed, n)]
    BY <1>8 DEF F
<1>10. \A n \in Places : Replayed[n] = NextReplayed(Replayed, n)
    BY <1>9, Zenon
<1> QED BY <1>10 DEF Places

\* Before the first start of this version no session has learned anything.
Unlearned == \A s \in Sessions : shown[s] # Unknown => /\ ~upgraded /\ ~shown[s].settled
                                                       /\ shown[s].source = ""

LEMMA NamedTrue ==
  ASSUME TablesTrue(db0), Unlearned
  PROVE  LET new == [db0 EXCEPT !.state = [s \in Sessions |-> Named(s)]] IN
         TablesTrue(new) /\ new.log = log
<1> DEFINE named == [s \in Sessions |-> Named(s)]
           new == [db0 EXCEPT !.state = named]
<1>1. /\ db0 \in WindowTables /\ db0.log = log /\ db0.state = shown /\ db0.profile = profile
      /\ log \in Seq(LogRows) /\ shown \in [Sessions -> ShownStates \cup {Unknown}]
      /\ profile \in [Clients \X ModelNames -> Learnt \cup {Unknown}]
    BY DEF TablesTrue, WindowTables, db0
<1>2. ASSUME NEW s \in Sessions
      PROVE  /\ Named(s) \in ShownStates \cup {Unknown}
             /\ Named(s) # Unknown => StateTrue(Named(s), profile)
  <2> DEFINE model == SessionPrimaryModel(db0, s)
  <2>1. model \in ModelNames \cup {Unknown}
      BY <1>1, PrimaryModelThere
  <2> HIDE DEF model
  <2>2. CASE shown[s] = Unknown
      BY <2>2 DEF Named
  <2>3. CASE shown[s] # Unknown
    <3>1. shown[s] \in ShownStates /\ ~shown[s].settled /\ shown[s].source = ""
        BY <1>1, <2>3 DEF Unlearned
    <3>2. Named(s) = [shown[s] EXCEPT !.model = model]
        BY <2>3 DEF Named, model
    <3>3. Named(s) \in ShownStates /\ Named(s).source = "" /\ Named(s).settled = shown[s].settled
        BY <2>1, <3>1, <3>2 DEF ShownStates
    <3> QED BY <3>1, <3>3 DEF StateTrue, OwnTrue, Heir
  <2> QED BY <2>2, <2>3
<1>3. named \in [Sessions -> ShownStates \cup {Unknown}] /\ \A s \in Sessions : named[s] = Named(s)
    BY <1>2
<1> HIDE DEF named
<1>4. new \in WindowTables /\ new.log = log /\ new.profile = profile /\ new.state = named
    BY <1>1, <1>3 DEF WindowTables, db0
<1>5. ProfilesTrue(new)
    BY <1>1, <1>4 DEF TablesTrue, ProfilesTrue
<1> QED BY <1>2, <1>3, <1>4, <1>5 DEF TablesTrue, named

LEMMA RecordedKeeps ==
  ASSUME NEW db, TablesTrue(db), NEW row \in LogRows
  PROVE  TablesTrue(Recorded(db, row)) /\ Recorded(db, row).log = db.log
<1> DEFINE s == row.session
<1>1. CASE ~IsSample(row) \/ s = Unknown
    BY <1>1 DEF Recorded
<1>2. CASE IsSample(row) /\ s # Unknown /\ db.state[s] = Unknown
    BY <1>2 DEF Recorded
<1>3. CASE IsSample(row) /\ s # Unknown /\ db.state[s] # Unknown
  <2>1. s \in Sessions
      BY <1>3 DEF LogRows
  <2>2. db.state[s].client \in Clients \cup {Unknown}
    <3>1. db.state[s] \in ShownStates
        BY <1>3, <2>1, TableFields DEF TablesTrue
    <3> QED BY <3>1 DEF ShownStates
  <2>3. Recorded(db, row) = UpdateSessionContextWindow(db, row, db.state[s].client)
      BY <1>3 DEF Recorded
  <2> QED BY <2>1, <2>2, <2>3, UpdateKeeps
<1> QED BY <1>1, <1>2, <1>3

LEMMA ReplayedTrue ==
  ASSUME TablesTrue(db0), Unlearned
  PROVE  TablesTrue(Replayed[Len(log)]) /\ Replayed[Len(log)].log = log
<1> DEFINE Fine(n) == TablesTrue(Replayed[n]) /\ Replayed[n].log = log
           Wrong == {n \in 0 .. Len(log) : ~Fine(n)}
<1>1. log \in Seq(LogRows) /\ Len(log) \in Nat
    BY DEF TablesTrue, WindowTables, db0
<1>2. Wrong = {}
  <2> SUFFICES ASSUME Wrong # {} PROVE FALSE
      OBVIOUS
  <2>1. PICK n \in Wrong : \A m \in Wrong : n <= m
    <3>1. Wrong \subseteq Nat
        BY <1>1
    <3> HIDE DEF Wrong
    <3> QED BY <3>1, LeastNumber
  <2>2. n \in 0 .. Len(log) /\ ~Fine(n)
      OBVIOUS
  <2>3. n # 0
    <3>1. SUFFICES Fine(0)
        BY <2>2
    <3>2. Replayed[0] = [db0 EXCEPT !.state = [s \in Sessions |-> Named(s)]]
      <4>1. 0 \in 0 .. Len(log)
          BY <1>1
      <4>2. NextReplayed(Replayed, 0) = [db0 EXCEPT !.state = [s \in Sessions |-> Named(s)]]
          BY Zenon DEF NextReplayed
      <4> QED BY <1>1, <4>1, <4>2, ReplayedEquation, Zenon
    <3> QED BY <3>2, NamedTrue
  <2>4. n \in 1 .. Len(log) /\ n - 1 \in 0 .. Len(log) /\ ~(n <= n - 1)
      BY <1>1, <2>2, <2>3
  <2>5. Fine(n - 1)
    <3>1. n - 1 \notin Wrong
        BY <2>1, <2>4
    <3> QED BY <2>4, <3>1
  <2>6. Replayed[n] = Recorded(Replayed[n - 1], log[n])
      BY <1>1, <2>2, <2>3, ReplayedEquation DEF NextReplayed
  <2>7. log[n] \in LogRows
      BY <1>1, <2>4
  <2>8. Fine(n)
      BY <2>5, <2>6, <2>7, RecordedKeeps
  <2> QED BY <2>2, <2>8
<1>3. Len(log) \in 0 .. Len(log)
    BY <1>1
<1> QED BY <1>2, <1>3

LEMMA BackfilledTrue ==
  ASSUME TablesTrue(db0), Unlearned
  PROVE  TablesTrue(Backfilled) /\ Backfilled.log = log
<1> DEFINE db == Replayed[Len(log)]
           heirs == [s \in Sessions |-> Inherited(db, s)]
           new == [db EXCEPT !.state = heirs]
<1>1. TablesTrue(db) /\ db.log = log
    BY ReplayedTrue
<1>2. Backfilled = new
    BY DEF Backfilled
<1> HIDE DEF db
<1>3. /\ db \in WindowTables /\ db.log \in Seq(LogRows) /\ db.state \in [Sessions -> ShownStates \cup {Unknown}]
      /\ db.profile \in [Clients \X ModelNames -> Learnt \cup {Unknown}]
    BY <1>1 DEF TablesTrue, WindowTables
<1>4. ASSUME NEW s \in Sessions
      PROVE  /\ Inherited(db, s) \in ShownStates \cup {Unknown}
             /\ Inherited(db, s) # Unknown => StateTrue(Inherited(db, s), db.profile)
  <2> DEFINE st == db.state[s]
  <2>1. st # Unknown => st \in ShownStates /\ StateTrue(st, db.profile)
      BY <1>1, <1>3 DEF TablesTrue
  <2>2. CASE st = Unknown \/ st.source = "session" \/ st.model = Unknown \/ st.client = Unknown
    <3>1. Inherited(db, s) = st
        BY <2>2 DEF Inherited
    <3> HIDE DEF st
    <3> QED BY <2>1, <3>1
  <2>3. CASE ~(st = Unknown \/ st.source = "session" \/ st.model = Unknown \/ st.client = Unknown)
    <3>1. Inherited(db, s) = Inherit(db, st, st.client)
        BY <2>3 DEF Inherited
    <3>2. st \in ShownStates /\ st.client \in Clients /\ st.model \in ModelNames
      <4> HIDE DEF st
      <4> QED BY <2>1, <2>3 DEF ShownStates
    <3>3. TablesTrueBut(db, s)
        BY <1>1 DEF TablesTrue, TablesTrueBut, StateTrue
    <3> QED BY <2>3, <3>1, <3>2, <3>3, InheritKeeps
  <2> QED BY <2>2, <2>3
<1>5. heirs \in [Sessions -> ShownStates \cup {Unknown}] /\ \A s \in Sessions : heirs[s] = Inherited(db, s)
    BY <1>4
<1> HIDE DEF heirs
<1>6. new \in WindowTables /\ new.log = db.log /\ new.profile = db.profile /\ new.state = heirs
    BY <1>3, <1>5 DEF WindowTables
<1>7. ProfilesTrue(new)
    BY <1>1, <1>6 DEF TablesTrue, ProfilesTrue
<1>8. TablesTrue(new)
    BY <1>4, <1>5, <1>6, <1>7 DEF TablesTrue
<1> QED BY <1>1, <1>2, <1>6, <1>8

LEMMA TablesBuilt ==
  ASSUME NEW db, TablesTrue(db), NEW entries \in Seq(LogRows),
         NEW states \in [Sessions -> ShownStates \cup {Unknown}],
         \A s \in Sessions : states[s] # Unknown => StateTrue(states[s], db.profile)
  PROVE  TablesTrue([log |-> entries, state |-> states, profile |-> db.profile])
<1> DEFINE new == [log |-> entries, state |-> states, profile |-> db.profile]
<1>1. /\ new.log = entries /\ new.state = states /\ new.profile = db.profile
    OBVIOUS
<1>2. new \in WindowTables
    BY DEF TablesTrue, WindowTables
<1> HIDE DEF new
<1>3. ProfilesTrue(new)
    BY <1>1 DEF TablesTrue, ProfilesTrue
<1> QED BY <1>1, <1>2, <1>3 DEF TablesTrue, new

\* What holds of the tables and, of a process that has not started up, of its requests.
WindowInv ==
  /\ TablesTrue(db0) /\ serving \in BOOLEAN
  /\ ~serving => Unlearned /\ \A i \in DOMAIN log : log[i].kind # "running"

LEMMA TablesTyped ==
  ASSUME WindowInv
  PROVE  /\ db0.log = log /\ db0.state = shown /\ db0.profile = profile
         /\ log \in Seq(LogRows) /\ Len(log) \in Nat /\ DOMAIN log = 1 .. Len(log)
         /\ shown \in [Sessions -> ShownStates \cup {Unknown}]
         /\ \A s \in Sessions : shown[s] # Unknown => shown[s] \in ShownStates /\ StateTrue(shown[s], profile)
  BY DEF WindowInv, TablesTrue, WindowTables, db0

LEMMA NewStateTyped ==
  ASSUME NEW client \in Clients \cup {Unknown}
  PROVE  /\ NewState(client) \in ShownStates /\ NewState(client).client = client
         /\ NewState(client).settled = FALSE /\ NewState(client).source = ""
         /\ NewState(client).source # "session"
<1> DEFINE none == <<>>
           blank == ""
<1>1. none \in Seq(Samples)
    OBVIOUS
<1>2. blank \in Sources /\ blank # "session"
    BY DEF Sources
<1>3. NewState(client) = [client |-> client, model |-> Unknown, source |-> blank, window |-> 0, count |-> 0,
                          samples |-> none, settled |-> FALSE]
    BY DEF NewState
<1> HIDE DEF none, blank
<1>4. /\ NewState(client).client = client /\ NewState(client).settled = FALSE
      /\ NewState(client).source = blank
    BY <1>3
<1>5. 0 \in Nat /\ client \in Clients \cup {Unknown} /\ Unknown \in ModelNames \cup {Unknown}
    OBVIOUS
<1>6. NewState(client) \in ShownStates
    BY <1>1, <1>2, <1>3, <1>5 DEF ShownStates
<1> QED BY <1>2, <1>4, <1>6 DEF blank

\* A new state, and one that a request touches, have not been looked at for its client.
LEMMA TouchKeeps ==
  ASSUME NEW st \in ShownStates \cup {Unknown}, NEW client \in Clients \cup {Unknown}, NEW profiles,
         st # Unknown => StateTrue(st, profiles)
  PROVE  LET new == Touch(st, client) IN
         new \in ShownStates /\ StateTrue(new, profiles) /\ client \in {Unknown, new.client}
<1> DEFINE new == Touch(st, client)
<1>1. CASE st = Unknown
  <2>1. new = NewState(client)
      BY <1>1 DEF Touch
  <2> HIDE DEF new
  <2> QED BY <2>1, NewStateTyped DEF StateTrue, OwnTrue, Heir, new
<1>2. CASE st # Unknown
  <2>1. st \in ShownStates /\ StateTrue(st, profiles)
      BY <1>2
  <2>2. new = [st EXCEPT !.client = IF client = Unknown THEN @ ELSE client,
                         !.settled = @ /\ client \in {Unknown, st.client}]
      BY <1>2 DEF Touch
  <2> HIDE DEF new
  <2>3. /\ new \in ShownStates /\ new.model = st.model /\ new.source = st.source /\ new.window = st.window
        /\ new.count = st.count /\ new.samples = st.samples
        /\ new.client = IF client = Unknown THEN st.client ELSE client
        /\ new.settled = (st.settled /\ client \in {Unknown, st.client})
      BY <2>1, <2>2 DEF ShownStates
  <2>4. new.settled => new.client = st.client /\ st.settled
      BY <2>3
  <2>5. StateTrue(new, profiles)
      BY <2>1, <2>3, <2>4 DEF StateTrue, OwnTrue, Heir, ShowsKnown
  <2> QED BY <2>3, <2>5 DEF new
<1> QED BY <1>1, <1>2

LEMMA RecordWindowKeeps ==
  ASSUME WindowInv, NEW i \in DOMAIN log, NEW s \in Sessions, NEW client \in Clients \cup {Unknown},
         NEW kind \in RowKinds, NEW size \in Nat, RecordWindow(i, s, client, kind, size)
  PROVE  WindowInv'
<1> DEFINE row     == LogRow(s, log[i].model, kind, size)
           kept    == [row EXCEPT !.kind = IF @ = "auto" THEN "turn" ELSE @, !.size = 0]
           entries    == [log EXCEPT ![i] = kept]
           touch   == Touch(shown[s], client)
           states  == [shown EXCEPT ![s] = touch]
           touched == [log |-> entries, state |-> states, profile |-> profile]
           db      == UpdateSessionContextWindow(touched, row, client)
<1>1. log' = db.log /\ shown' = db.state /\ profile' = db.profile /\ serving' = serving /\ log[i].kind = "running"
    BY DEF RecordWindow
<1>2. row \in LogRows /\ row.session = s
  <2>1. log[i] \in LogRows
      BY TablesTyped
  <2> QED BY <2>1 DEF LogRow, LogRows
<1>3. kept \in LogRows
    BY <1>2 DEF LogRows, RowKinds
<1> HIDE DEF row, kept
<1>4. entries \in Seq(LogRows)
    BY <1>3, TablesTyped
<1> HIDE DEF entries
<1>5. touch \in ShownStates /\ StateTrue(touch, profile) /\ client \in {Unknown, touch.client}
  <2>1. shown[s] \in ShownStates \cup {Unknown}
      BY TablesTyped
  <2> QED BY <2>1, TouchKeeps, TablesTyped
<1> HIDE DEF touch
<1>6. /\ states \in [Sessions -> ShownStates \cup {Unknown}] /\ states[s] = touch
      /\ \A t \in Sessions : t # s => states[t] = shown[t]
    BY <1>5, TablesTyped
<1> HIDE DEF states
<1>7. TablesTrue(touched) /\ touched.state = states
  <2>1. \A t \in Sessions : states[t] # Unknown => StateTrue(states[t], db0.profile)
      BY <1>5, <1>6, TablesTyped
  <2>2. TablesTrue([log |-> entries, state |-> states, profile |-> db0.profile])
      BY <1>4, <1>6, <2>1, TablesBuilt DEF WindowInv
  <2> QED BY <2>2, TablesTyped
<1> HIDE DEF touched
<1>8. TablesTrue(db)
    BY <1>2, <1>5, <1>6, <1>7, UpdateKeeps
<1> HIDE DEF db
<1>9. db0' = db
  <2>1. db \in WindowTables
      BY <1>8 DEF TablesTrue
  <2> QED BY <1>1, <2>1 DEF db0, WindowTables
<1> QED BY <1>1, <1>8, <1>9 DEF WindowInv

LEMMA ExpiryKeeps ==
  ASSUME WindowInv, serving, serving' = serving, profile' = profile, log' \in Seq(LogRows),
         \/ shown' = shown
         \/ shown' = StatesOf(log)
         \/ shown' = StatesOf(log')
  PROVE  WindowInv'
<1>1. /\ shown' \in [Sessions -> ShownStates \cup {Unknown}]
      /\ \A s \in Sessions : shown'[s] \in {shown[s], Unknown}
    BY TablesTyped DEF StatesOf
<1>2. \A s \in Sessions : shown'[s] # Unknown => StateTrue(shown'[s], db0.profile)
    BY <1>1, TablesTyped
<1>3. TablesTrue([log |-> log', state |-> shown', profile |-> db0.profile])
    BY <1>1, <1>2, TablesBuilt DEF WindowInv
<1>4. db0' = [log |-> log', state |-> shown', profile |-> db0.profile]
    BY DEF db0
<1> QED BY <1>3, <1>4 DEF WindowInv

LEMMA StartUpKeeps ==
  ASSUME WindowInv, StartUp
  PROVE  WindowInv'
<1> DEFINE db == IF upgraded THEN db0 ELSE Backfilled
<1>1. ~serving /\ serving' = TRUE /\ shown' = db.state /\ profile' = db.profile /\ log' = log
    BY DEF StartUp
<1>2. TablesTrue(db) /\ db.log = log
    BY <1>1, BackfilledTrue, TablesTyped DEF WindowInv
<1> HIDE DEF db
<1>3. db0' = db
  <2>1. db \in WindowTables
      BY <1>2 DEF TablesTrue
  <2> QED BY <1>1, <1>2, <2>1 DEF db0, WindowTables
<1> QED BY <1>1, <1>2, <1>3 DEF WindowInv

LEMMA WindowStep ==
  ASSUME WindowInv, [WindowNext]_windowVars
  PROVE  WindowInv'
<1>1. ASSUME NEW s \in Sessions \cup {Unknown}, NEW model \in ModelNames, RecordStarted(s, model)
      PROVE  WindowInv'
  <2>1. LogRow(s, model, "running", 0) \in LogRows
      BY DEF LogRow, LogRows, RowKinds
  <2>2. log' \in Seq(LogRows) /\ shown' = shown /\ profile' = profile /\ serving /\ serving' = serving
      BY <1>1, <2>1, TablesTyped DEF RecordStarted
  <2> QED BY <2>2, ExpiryKeeps
<1>2. ASSUME NEW i \in DOMAIN log, RecordMissing(i)
      PROVE  WindowInv'
  <2>1. log[i] \in LogRows
      BY TablesTyped
  <2>2. [log[i] EXCEPT !.kind = "turn"] \in LogRows
      BY <2>1 DEF LogRows, RowKinds
  <2>3. log' \in Seq(LogRows)
      BY <1>2, <2>2, TablesTyped DEF RecordMissing
  <2>4. serving
      BY <1>2 DEF RecordMissing, WindowInv
  <2> QED BY <1>2, <2>3, <2>4, ExpiryKeeps DEF RecordMissing
<1>3. ASSUME NEW i \in DOMAIN log, NEW s \in Sessions, NEW client \in Clients \cup {Unknown},
             \/ \E kind \in {"turn", "auxiliary"} : RecordWindow(i, s, client, kind, 0)
             \/ \E size \in Sizes : RecordWindow(i, s, client, "auto", size)
      PROVE  WindowInv'
  <2>1. ASSUME NEW kind \in {"turn", "auxiliary"}, RecordWindow(i, s, client, kind, 0)
        PROVE  WindowInv'
    <3>1. kind \in RowKinds /\ 0 \in Nat
        BY DEF RowKinds
    <3> QED BY <2>1, <3>1, RecordWindowKeeps
  <2>2. ASSUME NEW size \in Sizes, RecordWindow(i, s, client, "auto", size)
        PROVE  WindowInv'
    <3>1. "auto" \in RowKinds /\ size \in Nat
        BY SizesAssumption DEF RowKinds
    <3> QED BY <2>2, <3>1, RecordWindowKeeps
  <2> QED BY <1>3, <2>1, <2>2
<1>4. ASSUME NEW n \in DOMAIN log, CleanupLog(n) \/ DeleteLogsBefore(n)
      PROVE  WindowInv'
  <2>1. ExpiredRows(n)
      BY <1>4 DEF CleanupLog, DeleteLogsBefore
  <2>2. log' \in Seq(LogRows)
      BY <2>1, TablesTyped DEF ExpiredRows
  <2> QED BY <1>4, <2>1, <2>2, ExpiryKeeps DEF CleanupLog, DeleteLogsBefore, ExpiredRows
<1>5. CASE CleanupShown
    BY <1>5, ExpiryKeeps, TablesTyped DEF CleanupShown
<1>6. CASE StartUp
    BY <1>6, StartUpKeeps
<1>7. CASE UNCHANGED windowVars
    BY <1>7 DEF windowVars, WindowInv, db0, Unlearned
<1> QED BY <1>1, <1>2, <1>3, <1>4, <1>5, <1>6, <1>7 DEF WindowNext

LEMMA WindowStart ==
  ASSUME WindowInit
  PROVE  WindowInv
<1> DEFINE none == <<>>
<1>1. none \in Seq(Samples) /\ none \in Seq(LogRows)
    OBVIOUS
<1>2. ~serving /\ serving \in BOOLEAN
    BY DEF WindowInit
<1>3. CASE /\ upgraded = TRUE /\ log = <<>> /\ shown = [s \in Sessions |-> Unknown]
           /\ \E samples \in Profiles, client \in Clients, model \in ModelNames :
                profile = [p \in Clients \X ModelNames |->
                             IF p # <<client, model>> \/ samples = <<>> THEN Unknown
                             ELSE LET tagged == [i \in DOMAIN samples |-> [model |-> model, size |-> samples[i]]]
                                  IN  Learned(tagged, Len(samples))]
  <2>1. PICK samples \in Profiles, client \in Clients, model \in ModelNames :
                profile = [p \in Clients \X ModelNames |->
                             IF p # <<client, model>> \/ samples = <<>> THEN Unknown
                             ELSE LET tagged == [i \in DOMAIN samples |-> [model |-> model, size |-> samples[i]]]
                                  IN  Learned(tagged, Len(samples))]
      BY <1>3
  <2> DEFINE tagged == [i \in DOMAIN samples |-> [model |-> model, size |-> samples[i]]]
             learned == Learned(tagged, Len(samples))
  <2>2. samples \in Seq(Nat) /\ Len(samples) \in Nat /\ DOMAIN samples = 1 .. Len(samples)
      BY SizesAssumption
  <2>3. /\ \A i \in DOMAIN samples : [model |-> model, size |-> samples[i]] \in Samples
        /\ \A i \in DOMAIN tagged : tagged[i].model = model
      BY <2>2 DEF Samples
  <2>4. tagged \in Seq(Samples) /\ Len(tagged) = Len(samples)
      BY <2>2, <2>3
  <2>5. samples # <<>> => tagged \in SamplesOf
      BY <2>2, <2>4 DEF SamplesOf
  <2> HIDE DEF tagged
  <2>6. samples # <<>> => /\ learned \in Learnt /\ learned.samples = tagged /\ learned.window = WindowOf(tagged)
      BY <2>2, <2>5, LearnedTyped
  <2>7. profile = [p \in Clients \X ModelNames |-> IF p # <<client, model>> \/ samples = <<>> THEN Unknown
                                                   ELSE learned]
      BY <2>1 DEF tagged
  <2> HIDE DEF learned
  <2>8. profile \in [Clients \X ModelNames -> Learnt \cup {Unknown}]
      BY <2>6, <2>7
  <2>9. ASSUME NEW c \in Clients, NEW m \in ModelNames, profile[<<c, m>>] # Unknown
        PROVE  LearnedRightly(profile[<<c, m>>].samples, m, profile[<<c, m>>].window)
    <3>1. <<c, m>> = <<client, model>> /\ samples # <<>> /\ profile[<<c, m>>] = learned
        BY <2>7, <2>9
    <3> QED BY <2>3, <2>5, <2>6, <3>1 DEF LearnedRightly
  <2>10. \A s \in Sessions : shown[s] = Unknown
      BY <1>3
  <2>11. db0 \in WindowTables /\ db0.state = shown /\ db0.profile = profile
    <3>1. shown \in [Sessions -> ShownStates \cup {Unknown}] /\ log \in Seq(LogRows)
        BY <1>1, <1>3
    <3> QED BY <2>8, <3>1 DEF db0, WindowTables
  <2>12. ProfilesTrue(db0)
      BY <2>9, <2>11 DEF ProfilesTrue
  <2>13. TablesTrue(db0)
      BY <2>10, <2>11, <2>12 DEF TablesTrue
  <2> QED BY <1>2, <1>3, <2>10, <2>13 DEF WindowInv, Unlearned
<1>4. CASE /\ upgraded = FALSE /\ profile = [p \in Clients \X ModelNames |-> Unknown]
           /\ \E history \in Histories, client \in [Sessions -> Clients \cup {Unknown}] :
                /\ \A s \in Sessions : client[s] \in ClientsOf[s]
                /\ log = [i \in DOMAIN history |->
                            LogRow(history[i][1], history[i][2], history[i][3], history[i][4])]
                /\ shown = [s \in Sessions |-> IF \E i \in DOMAIN history : history[i][1] = s
                                               THEN NewState(client[s]) ELSE Unknown]
  <2>1. PICK history \in Histories, client \in [Sessions -> Clients \cup {Unknown}] :
                /\ log = [i \in DOMAIN history |->
                            LogRow(history[i][1], history[i][2], history[i][3], history[i][4])]
                /\ shown = [s \in Sessions |-> IF \E i \in DOMAIN history : history[i][1] = s
                                               THEN NewState(client[s]) ELSE Unknown]
      BY <1>4
  <2>2. /\ history \in Seq(Sessions \X ModelNames \X (RowKinds \ {"running"}) \X Nat)
        /\ Len(history) \in Nat /\ DOMAIN history = 1 .. Len(history)
      BY LogsAssumption
  <2>3. ASSUME NEW i \in DOMAIN history
        PROVE  /\ LogRow(history[i][1], history[i][2], history[i][3], history[i][4]) \in LogRows
               /\ LogRow(history[i][1], history[i][2], history[i][3], history[i][4]).kind # "running"
    <3>1. history[i] \in Sessions \X ModelNames \X (RowKinds \ {"running"}) \X Nat
        BY <2>2
    <3> QED BY <3>1 DEF LogRow, LogRows
  <2>4. log \in Seq(LogRows) /\ \A i \in DOMAIN log : log[i].kind # "running"
      BY <2>1, <2>2, <2>3
  <2>5. \A s \in Sessions : /\ NewState(client[s]) \in ShownStates
                            /\ NewState(client[s]).settled = FALSE /\ NewState(client[s]).source = ""
      BY NewStateTyped
  <2>6. /\ shown \in [Sessions -> ShownStates \cup {Unknown}]
        /\ \A s \in Sessions : shown[s] # Unknown => shown[s].settled = FALSE /\ shown[s].source = ""
      BY <2>1, <2>5
  <2>7. db0 \in WindowTables /\ db0.state = shown /\ db0.profile = profile
      BY <1>4, <2>4, <2>6 DEF db0, WindowTables
  <2>8. \A s \in Sessions : shown[s] # Unknown => StateTrue(shown[s], profile)
      BY <2>6 DEF StateTrue, OwnTrue, Heir
  <2>9. ProfilesTrue(db0)
      BY <1>4, <2>7 DEF ProfilesTrue
  <2>10. TablesTrue(db0)
      BY <2>7, <2>8, <2>9 DEF TablesTrue
  <2> QED BY <1>2, <1>4, <2>4, <2>6, <2>10 DEF WindowInv, Unlearned
<1> QED BY <1>3, <1>4 DEF WindowInit

LEMMA WindowInvImplies ==
  ASSUME WindowInv
  PROVE  WindowTrue
<1>1. \A samples, model, window : LearnedRightly(samples, model, window) => LearnedFrom(samples, model, window)
    BY SamplesBalanced DEF LearnedRightly, LearnedFrom, SamplesOf
<1>2. \A s \in Sessions :
         shown[s] # Unknown =>
           (shown[s].source = "session" => LearnedRightly(shown[s].samples, shown[s].model, shown[s].window))
    BY TablesTyped DEF StateTrue, OwnTrue
<1>3. \A c \in Clients, m \in ModelNames :
         profile[<<c, m>>] # Unknown => LearnedRightly(profile[<<c, m>>].samples, m, profile[<<c, m>>].window)
    BY TablesTyped DEF WindowInv, TablesTrue, ProfilesTrue
<1>4. WindowOfModel
    BY <1>1, <1>2, <1>3 DEF WindowOfModel
<1>5. WindowCurrent
    BY TablesTyped DEF WindowCurrent, StateTrue
<1> QED BY <1>4, <1>5 DEF WindowTrue

\* Whatever a session shows as the window it has learned itself, and whatever the profile of a client and a
\* model says, is the order statistic of compactions of the model it stands for, and the sessions of one client
\* and model that have learned nothing of their own show what their profile says: through turns, compactions,
\* changes of model and client, the expiry of entries and states and the backfill of an upgrade, for any
\* sets of sessions, clients, models and histories (updateSessionContextWindow, backfillModelAgentContextWindows).
THEOREM WindowsAreTrue == WindowSpec => []WindowTrue
<1>1. WindowInit => WindowInv
    BY WindowStart
<1>2. WindowInv /\ [WindowNext]_windowVars => WindowInv'
    BY WindowStep
<1>3. WindowInv => WindowTrue
    BY WindowInvImplies
<1> QED BY <1>1, <1>2, <1>3, PTL DEF WindowSpec

=============================================================================
