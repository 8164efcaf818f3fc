----------------------------- MODULE RequestBody -----------------------------
(***************************************************************************)
(* What the channels of one relayed request are sent: RelayPayload.        *)
(*                                                                         *)
(* The request is parsed once, and every attempt makes its body from the   *)
(* same parsed values, which are also logged.  An API-key channel gets     *)
(* them almost as they are (UpstreamRequestBody); a ChatGPT OAuth channel  *)
(* gets the Responses shape, whichever of two shapes the client has used   *)
(* (ChatGPTOAuthRequestBody).                                              *)
(*                                                                         *)
(* Abstractions: a text is told from others by where it stands; sampling   *)
(* options, names of models and contents of tools are left out.            *)
(***************************************************************************)
EXTENDS Naturals, SequencesExt

CONSTANTS
  Wishes,      \* what a client asks for besides its conversation
  Utterances,  \* by that form, the messages or items that make a conversation
  Channels,    \* records of oauth and supportsStreamUsage
  MaxMessages, MaxSent  \* bounds of the model

\* What a client may ask for, before its conversation: names are strings, and an object is
\* told from others by its form.
ToolChoices == [form : {"absent", "mode"}] \cup [form : {"name", "nested"}, name : STRING]
Requests ==
  [endpoint : STRING, given : {"messages", "input", "string", "none", "odd"}, stream : BOOLEAN,
   conversation : {<<>>}, instructions : {<<>>}, input : {<<>>},
   tools : Seq([shape : {"nested", "flat", "builtin", "bare"}, name : STRING]),
   functions : Seq(STRING), choice : ToolChoices, call : ToolChoices,
   reasoning : {"absent", "object"}, effort : BOOLEAN, encrypted : {FALSE},
   format : {"absent", "chat"}, options : {"absent", "plain", "usage"}]

ASSUME WishesAssumption == Wishes \subseteq Requests

\* A conversation stands in the "messages" of a chat request only; calls are read in an
\* assistant's messages only; and an input that is one string is the user's.
Utterance ==
  [role : STRING, content : {"text", "blank", "null"}, calls : Seq([id : STRING, name : STRING]), id : STRING]

ASSUME UtterancesAssumption ==
  /\ \A wish \in Wishes : wish.given = "messages" => wish.endpoint = "chat"
  /\ DOMAIN Utterances \subseteq {"messages", "input", "string"}
  /\ \A form \in DOMAIN Utterances : \A m \in Utterances[form] :
       /\ m \in Utterance
       /\ m.calls # <<>> => form = "messages" /\ m.role = "assistant"
       /\ form = "string" => m.role = "user"

VARIABLES
  payload,  \* RelayPayload.values
  asked,    \* history: the client's request
  sent      \* the attempts: channel, and body or Refused

bodyVars == <<payload, asked, sent>>

-----------------------------------------------------------------------------
\* The conversation stands in "messages" or in "input", there perhaps as one "string";
\* or nowhere ("none"), or in a form that is refused ("odd").
Request(endpoint, given, stream) ==
  [endpoint |-> endpoint, given |-> given, stream |-> stream,
   conversation |-> <<>>, instructions |-> <<>>, input |-> <<>>,
   tools |-> <<>>, functions |-> <<>>, choice |-> [form |-> "absent"], call |-> [form |-> "absent"],
   reasoning |-> "absent", effort |-> FALSE, encrypted |-> FALSE, format |-> "absent",
   options |-> "absent"]

\* content is "text", "blank" or "null"; the role of an item is its type.
Message(role, content)  == [role |-> role, content |-> content, calls |-> <<>>, id |-> ""]
Calling(content, calls) == [role |-> "assistant", content |-> content, calls |-> calls, id |-> ""]
Result(role, id)        == [role |-> role, content |-> "text", calls |-> <<>>, id |-> id]
Call(id, name)          == [id |-> id, name |-> name]

Tool(shape, name) == [shape |-> shape, name |-> name]
Named(form, name) == [form |-> form, name |-> name]

Refused == [refused |-> TRUE]

-----------------------------------------------------------------------------
(* convertChatMessagesToResponses and normalizeChatGPTInput. *)

\* An item of the upstream's input, and where it comes from: a message, or its j-th call.
Item(type, i, j, id) == [type |-> type, at |-> <<i, j>>, id |-> id]
If(condition, item)  == IF condition THEN <<item>> ELSE <<>>

CallItems(m, i) ==
  FlattenSeq([j \in DOMAIN m.calls |->
    If(m.calls[j].name # "", Item("function_call", i, j, m.calls[j].id))])

\* Mutant: an answer that calls tools says nothing else.
CallsOnly(m, i) ==
  IF m.calls # <<>> THEN CallItems(m, i) ELSE If(m.content = "text", Item("message", i, 0, ""))

AssistantItems(m, i) == If(m.content = "text", Item("message", i, 0, "")) \o CallItems(m, i)

\* A user's blank text is kept, an assistant's is not; an unknown role is the user's.
ItemsOf(m, i) ==
  CASE m.role \in {"system", "developer"} -> <<>>
    [] m.role \in {"tool", "function"}    -> If(m.id # "", Item("function_call_output", i, 0, m.id))
    [] m.role = "assistant"               -> AssistantItems(m, i)
    [] OTHER                              -> If(m.content # "null", Item("message", i, 0, ""))

\* Items keep their type; one that has neither a type nor a role is dropped.
InputItem(m, i) ==
  If(m.role \notin {"system", "untyped"},
     Item(IF m.role \in {"function_call", "function_call_output"} THEN m.role ELSE "message", i, 0, m.id))

\* Instructions found in the conversation replace those of the request.
WithInput(values, roles, items) ==
  LET said == values.conversation
      instructions == FlattenSeq([i \in DOMAIN said |->
                        If(said[i].role \in roles /\ said[i].content = "text", i)])
  IN  [values EXCEPT !.given = "input", !.conversation = <<>>,
                     !.input = FlattenSeq(items),
                     !.instructions = IF instructions = <<>> THEN @ ELSE instructions]

UserItem(m, i) == If(m.content = "text", Item("message", i, 0, ""))

Converted(values) ==
  LET said == values.conversation
      at   == DOMAIN said
  IN  CASE values.given = "messages" /\ values.endpoint = "chat" ->
             WithInput(values, {"system", "developer"}, [i \in at |-> ItemsOf(said[i], i)])
        [] values.given = "input"  ->
             WithInput(values, {"system"}, [i \in at |-> InputItem(said[i], i)])
        [] values.given = "string" ->
             WithInput(values, {}, [i \in at |-> UserItem(said[i], i)])
        [] OTHER -> [values EXCEPT !.given = "input"]

-----------------------------------------------------------------------------
(* Tools and options. *)

\* normalizeChatGPTChatTools: nested tools and functions are flattened, nameless ones and
\* tools of no type dropped.
ChatFunction(name) == If(name # "", Tool("flat", name))
ChatTool(tool)     == IF tool.shape = "nested" THEN ChatFunction(tool.name) ELSE If(tool.shape # "bare", tool)

ChatTools(values) ==
  FlattenSeq([i \in DOMAIN values.tools |-> ChatTool(values.tools[i])])
  \o FlattenSeq([i \in DOMAIN values.functions |-> ChatFunction(values.functions[i])])

ChatChoice(values) ==
  LET choice == IF values.choice.form = "absent" THEN values.call ELSE values.choice
  IN  IF choice.form \in {"nested", "name"} /\ choice.name # "" THEN Named("flat", choice.name) ELSE choice

NormalizeChatGPTChatTools(values) ==
  [values EXCEPT !.tools = ChatTools(values), !.choice = ChatChoice(values),
                 !.functions = <<>>, !.call = [form |-> "absent"]]

\* normalizeChatGPTLegacyTools: functions take the place of the tools; a tool of no type is
\* a function.
LegacyTool(tool) == If(tool.shape = "nested" => tool.name # "",
                       IF tool.shape = "bare" THEN Tool("flat", tool.name) ELSE tool)

NormalizeChatGPTLegacyTools(values) ==
  LET tools == IF values.functions = <<>> THEN values.tools
               ELSE [i \in DOMAIN values.functions |-> Tool("nested", values.functions[i])]
  IN  [values EXCEPT
         !.tools = FlattenSeq([i \in DOMAIN tools |-> LegacyTool(tools[i])]),
         !.functions = <<>>,
         !.choice = CASE values.call.form = "mode"                            -> values.call
                      [] values.call.form = "name" /\ values.call.name # "" -> Named("flat", values.call.name)
                      [] OTHER                                              -> @,
         !.call = [form |-> "absent"]]

NormalizeChatGPTChatOptions(values) ==
  [values EXCEPT !.reasoning = IF values.effort THEN "effort" ELSE @, !.effort = FALSE,
                 !.format = IF @ = "chat" THEN "text" ELSE @]

EnsureChatGPTReasoningInclude(values) ==
  [values EXCEPT !.encrypted = @ \/ values.reasoning # "absent"]

-----------------------------------------------------------------------------
(* Bodies. *)

ChatGPTOAuthRequestBody(values) ==
  LET kept == [values EXCEPT !.options = "absent", !.stream = TRUE]
  IN  CASE values.endpoint \notin {"chat", "responses"} \/ values.given = "odd" -> Refused
        [] values.endpoint = "chat" /\ values.given # "odd" ->
             EnsureChatGPTReasoningInclude(
               NormalizeChatGPTChatOptions(NormalizeChatGPTChatTools(Converted(kept))))
        [] OTHER ->
             EnsureChatGPTReasoningInclude(Converted(NormalizeChatGPTLegacyTools(kept)))

AddsUsage(values, channel) ==
  values.endpoint = "chat" /\ values.stream /\ channel.supportsStreamUsage

UpstreamRequestBody(values, channel) ==
  IF AddsUsage(values, channel) THEN [values EXCEPT !.options = "usage"] ELSE values

Body(values, channel) ==
  IF channel.oauth THEN ChatGPTOAuthRequestBody(values) ELSE UpstreamRequestBody(values, channel)

\* Mutant: objects inside the values are shared with the body.
CloneShared(values, body) ==
  IF body = Refused \/ values.reasoning = "absent" THEN values
  ELSE [values EXCEPT !.reasoning = body.reasoning]

\* What the values are after the body has been made of their clone.
Clone(values, body) == values

\* UpstreamRequestBody copies one level: stream_options of the client, if it has sent an
\* object, is the same one in the body.
SendBody(channel) ==
  LET body == Body(payload, channel) IN
  /\ asked # <<>> /\ Len(sent) < MaxSent
  /\ sent' = Append(sent, [channel |-> channel, body |-> body])
  /\ payload' = IF channel.oauth THEN Clone(payload, body)
                ELSE IF payload.options = "absent" THEN payload
                ELSE [payload EXCEPT !.options = body.options]
  /\ UNCHANGED asked

-----------------------------------------------------------------------------
(* The client. *)

Say(m) ==
  /\ asked = <<>> /\ payload.given \in DOMAIN Utterances /\ m \in Utterances[payload.given]
  /\ Len(payload.conversation) < IF payload.given = "string" THEN 1 ELSE MaxMessages
  /\ payload' = [payload EXCEPT !.conversation = Append(@, m)]
  /\ UNCHANGED <<asked, sent>>

ParseRelayPayload ==
  /\ asked = <<>> /\ asked' = <<payload>>
  /\ UNCHANGED <<payload, sent>>

BodyInit == payload \in Wishes /\ asked = <<>> /\ sent = <<>>

BodyNext == \/ \E m \in UNION {Utterances[form] : form \in DOMAIN Utterances} : Say(m)
        \/ ParseRelayPayload
        \/ \E channel \in Channels : SendBody(channel)

BodySpec == BodyInit /\ [][BodyNext]_bodyVars

-----------------------------------------------------------------------------
(* Properties. *)

\* Bodies a ChatGPT OAuth channel was sent.
ResponsesBodies == {a.body : a \in {a \in ToSet(sent) : a.channel.oauth /\ a.body # Refused}}

\* Everything a client's conversation says, by where it stands.
Said(request) ==
  LET said == request.conversation IN
  {<<i, 0>> : i \in {i \in DOMAIN said :
      \/ said[i].content = "text" /\ said[i].role \notin {"tool", "function", "untyped"}
      \/ said[i].role \in {"tool", "function"} /\ said[i].id # ""}}
  \cup UNION {{<<i, j>> : j \in {j \in DOMAIN said[i].calls : said[i].calls[j].name # ""}} : i \in DOMAIN said}

Precedes(p, q) == p[1] < q[1] \/ (p[1] = q[1] /\ p[2] < q[2])

\* What a conversation says reaches the upstream once and in its order, as input or as
\* instructions; so an output stays after the call it belongs to.  And a tool that the
\* client wants called by name and has described is described to the upstream, and chosen
\* there in the upstream's own form.
RequestConverted ==
  \A body \in ResponsesBodies :
    LET request == asked[1]
        chosen  == IF request.choice.form = "absent" THEN request.call ELSE request.choice
        Offers(name) == \/ Tool("nested", name) \in ToSet(request.tools)
                        \/ name \in ToSet(request.functions)
    IN  /\ \A i, j \in DOMAIN body.input : i < j => Precedes(body.input[i].at, body.input[j].at)
        /\ Said(request) \subseteq {item.at : item \in ToSet(body.input)}
                                    \cup {<<i, 0>> : i \in ToSet(body.instructions)}
        /\ \A i \in ToSet(body.instructions) :
             request.conversation[i].role \in {"system", "developer"}
        /\ (request.endpoint = "chat" /\ chosen.form \in {"nested", "name"}) =>
             (Offers(chosen.name) /\ chosen.name # "" =>
                /\ body.choice = Named("flat", chosen.name)
                /\ Tool("flat", chosen.name) \in ToSet(body.tools))

\* What a channel is sent follows from the request and the channel, whatever channels have
\* been tried before (the comment of ChatGPTOAuthRequestBody); include_usage excepted.
AttemptsAlike ==
  \A n \in DOMAIN sent :
    LET Plain(body) == IF body = Refused THEN body ELSE [body EXCEPT !.options = "absent"] IN
    Plain(sent[n].body) = Plain(Body(asked[1], sent[n].channel))

\* gateway.ts says of the flag "Whether Chat streaming requests may include
\* stream_options.include_usage": only channels that support it are asked for usage,
\* unless the client itself has asked.
UsageWhereSupported ==
  \A a \in ToSet(sent) : (a.body # Refused /\ ~a.channel.supportsStreamUsage) =>
    (a.body.options = "usage" => asked[1].options = "usage")

=============================================================================
