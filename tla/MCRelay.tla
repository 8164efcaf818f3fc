------------------------------ MODULE MCRelay ------------------------------
(* Four stages of a relayed request, one in each behaviour: the order in   *)
(* which its candidates are tried, the bodies they are sent, the attempts  *)
(* it makes, and the answer of a ChatGPT OAuth channel.  The stages share  *)
(* no state: the attempts take any plan and any body, and any answer may   *)
(* follow a header.  Four candidates, one more than the attempts a request *)
(* may make.                                                               *)
EXTENDS RelayRequest, RouteOrder, RequestBody, ChatAnswer

VARIABLE part

MCCandidates == 1..3
Setup(strategy, priority, weight, share) ==
  [strategy |-> strategy, priority |-> priority, weight |-> weight, share |-> share,
   cost |-> <<0, 4, 9>>, efficiency |-> <<500, 900, 200>>]
Usual == [price |-> 40, efficiency |-> 35, quality |-> 15, balance |-> 10]
Even  == [price |-> 0, efficiency |-> 0, quality |-> 10, balance |-> 90]
MCSetups ==
  {Setup("priority_weighted", <<1, 1, 0>>, <<1, 50, 3>>, Usual),
   Setup("lowest_cost", <<0, 1, 1>>, <<1, 50, 3>>, Even),
   Setup("lowest_latency", <<1, 1, 0>>, <<2, 1, 1>>, Usual)}

MCChannels ==
  {[oauth |-> TRUE,  supportsStreamUsage |-> FALSE],
   [oauth |-> FALSE, supportsStreamUsage |-> TRUE],
   [oauth |-> FALSE, supportsStreamUsage |-> FALSE]}

Nested(name) == Tool("nested", name)

\* A plain chat; streams with options; tools, functions and choices of all forms; and
\* what the other endpoints take.
MCWishes ==
  {Request("chat", "messages", FALSE),
   [Request("chat", "none", TRUE) EXCEPT
      !.options = "plain", !.reasoning = "object", !.effort = TRUE, !.format = "chat"],
   [Request("chat", "none", TRUE) EXCEPT !.options = "usage", !.effort = TRUE],
   [Request("chat", "none", FALSE) EXCEPT
      !.tools = <<Nested("f"), Tool("bare", "")>>, !.functions = <<"g", "">>,
      !.call = Named("name", "g")],
   [Request("chat", "none", FALSE) EXCEPT
      !.tools = <<Nested(""), Nested("f"), Tool("builtin", "")>>,
      !.choice = Named("nested", "f"), !.call = [form |-> "mode"]],
   [Request("responses", "input", TRUE) EXCEPT
      !.functions = <<"g">>, !.call = Named("name", "g"), !.reasoning = "object"],
   [Request("responses", "string", FALSE) EXCEPT
      !.tools = <<Tool("bare", "f"), Nested("")>>, !.call = [form |-> "mode"]],
   Request("responses", "odd", FALSE),
   Request("images/edits", "none", FALSE)}

MCUtterances ==
  [messages |-> {Message("system", "text"), Message("user", "text"), Message("other", "null"),
                 Calling("text", <<Call("c", "f"), Call("d", "g")>>),
                 Calling("null", <<Call("c", "f"), Call("e", "")>>),
                 Result("tool", "c"), Result("function", "d")},
   input    |-> {Message("system", "text"), Message("developer", "text"), Message("untyped", "text"),
                 Result("function_call", "c"), Result("function_call_output", "c")},
   string   |-> {Message("user", "text"), Message("user", "blank")}]

\* While one stage is at work the others stay in one of their initial states.
FirstOrder  == setup = CHOOSE s \in Setups : TRUE
FirstBody   == payload = CHOOSE w \in Wishes : TRUE
FirstAnswer == wait

MCInit ==
  /\ Init /\ OrderInit /\ BodyInit /\ AnswerInit
  /\ \/ part = "order"  /\ FirstBody /\ FirstAnswer
     \/ part = "bodies" /\ FirstOrder /\ FirstAnswer
     \/ part = "course" /\ FirstOrder /\ FirstBody /\ FirstAnswer
     \/ part = "answer" /\ FirstOrder /\ FirstBody

MCNext ==
  \/ part = "order"  /\ OrderNext /\ UNCHANGED <<part, vars, bodyVars, answerVars>>
  \/ part = "bodies" /\ BodyNext /\ UNCHANGED <<part, vars, orderVars, answerVars>>
  \/ part = "course" /\ Next /\ UNCHANGED <<part, orderVars, bodyVars, answerVars>>
  \/ part = "answer" /\ AnswerNext /\ UNCHANGED <<part, vars, orderVars, bodyVars>>

MCSpec == MCInit /\ [][MCNext]_<<part, vars, orderVars, bodyVars, answerVars>>

\* The fairness of RelayRequest while it is at work.
AtWork(step) == part = "course" /\ step

MCFairSpec ==
  /\ MCSpec
  /\ WF_vars(AtWork(LoopStep))
  /\ WF_vars(AtWork(CallStep))
  /\ WF_vars(AtWork(ReadStep))
  /\ WF_vars(AtWork(StreamEnds("canceled") \/ StreamEndsEmpty("canceled")))

\* RelayRequest: a request ends, unless its client stays and its stream goes on.
RequestEventuallyAnswered == part = "course" => EventuallyAnswered

\* RouteOrder: no history takes an eligible candidate out of the draw, and candidates
\* without recent attempts get a fifth of the requests.
NobodyStarved == part = "order" => NeverStarved /\ ColdStartShared
=============================================================================
