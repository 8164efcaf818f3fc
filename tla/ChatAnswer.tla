----------------------------- MODULE ChatAnswer -----------------------------
(***************************************************************************)
(* The answer of a ChatGPT OAuth channel, an event stream of the Responses *)
(* protocol, and the three forms in which a client may have asked for it:  *)
(* chat chunks (the stream converter behind the loop of streamResponse),   *)
(* a buffered chat completion, and a buffered response.  The same events   *)
(* are shown to all three, each until it has ended.                        *)
(*                                                                         *)
(* Abstractions: the n-th fragment an upstream sends is the number n, so a *)
(* text is a sequence of numbers; an index of the output is the position   *)
(* of its item; identity, model, usage and the client's write errors (see  *)
(* RelayRequest) are left out, as are answers that are not event streams.  *)
(***************************************************************************)
EXTENDS Naturals, FiniteSets, SequencesExt

CONSTANTS MaxItems, MaxFragments  \* bounds of the model

VARIABLES
  up,         \* what the upstream has said: stage, items with their fragments
  wait,       \* waitForChatUsage
  converter,  \* chatGPTOAuthChatStreamConverter
  relay,      \* streamResponse, and the chunks the client has received
  chat,       \* chatGPTOAuthResponseAccumulator
  gathered    \* chatGPTOAuthResponsesAccumulator

answerVars == <<up, wait, converter, relay, chat, gathered>>

-----------------------------------------------------------------------------
(* Events. *)

Kinds == {"message", "refusal", "reasoning", "tool"}

ItemEvent(type, index, kind, part) ==
  [type |-> type, index |-> index, kind |-> kind, part |-> part]
ResponseEvent(type, reason, output) == [type |-> type, reason |-> reason, output |-> output]

Ends    == {"completed", "incomplete", "failed"}
Reasons == {"max_output_tokens", "upstream_interrupted"}

\* upstreamApplicationError and what it says of a retry.
Failed(e)    == e.type \in {"incomplete", "failed"}
Retryable(e) == e.reason = "upstream_interrupted"

\* All the fragments of one kind, in the order of the items.
Of(kind)  == FlattenSeq([i \in DOMAIN up.items |->
               IF up.items[i].kind = kind THEN up.items[i].parts ELSE <<>>])

\* The places of the tool calls, and the calls.
ToolsSaid == FlattenSeq([i \in DOMAIN up.items |->
               IF up.items[i].kind = "tool" THEN <<i>> ELSE <<>>])
CallsSaid == [n \in DOMAIN ToolsSaid |-> [index |-> ToolsSaid[n], parts |-> up.items[ToolsSaid[n]].parts]]

-----------------------------------------------------------------------------
(* Chunks. *)

RoleChunk           == [kind |-> "role"]
DeltaChunk(kind, n) == [kind |-> kind, part |-> n]
HeaderChunk(t, i)   == [kind |-> "header", tool |-> t, index |-> i]
ArgumentsChunk(t, n)== [kind |-> "arguments", tool |-> t, part |-> n]
FinishChunk(reason) == [kind |-> "finish", reason |-> reason]
DoneSentinel        == [kind |-> "done"]
RawEvent(retryable) == [kind |-> "raw", retryable |-> retryable]

EnsureRole(e) == IF converter.role THEN <<>> ELSE <<RoleChunk>>

ToolKnown(e) == e.index \in DOMAIN converter.toolOf

Convert(e) ==
  CASE Failed(e)           -> <<RawEvent(Retryable(e))>>
    [] e.type = "created"  -> EnsureRole(e)
    [] e.type = "added"    -> IF e.kind = "tool"
                              THEN EnsureRole(e) \o <<HeaderChunk(converter.next, e.index)>>
                              ELSE <<>>
    [] e.type = "delta" /\ e.kind # "tool" -> EnsureRole(e) \o <<DeltaChunk(e.kind, e.part)>>
    [] e.type = "delta" /\ e.kind = "tool" -> IF ToolKnown(e)
                              THEN <<ArgumentsChunk(converter.toolOf[e.index], e.part)>>
                              ELSE <<>>
    [] e.type = "done"     -> <<>>
    [] e.type = "completed"-> EnsureRole(e) \o
                              <<FinishChunk(IF converter.next > 0 THEN "tool_calls" ELSE "stop"),
                                DoneSentinel>>

AddsTool(e)  == e.type = "added" /\ e.kind = "tool"
Positions(e) == [i \in DOMAIN converter.toolOf \cup {e.index} |->
                   IF i = e.index THEN converter.next ELSE converter.toolOf[i]]
RoleSent(e)  == converter.role \/ \E c \in ToSet(Convert(e)) : c.kind = "role"

\* Mutant: the calls are not numbered.
ConverterUncounted(e) ==
  [role |-> RoleSent(e), next |-> converter.next,
   toolOf |-> IF AddsTool(e) THEN Positions(e) ELSE converter.toolOf]

ConverterAfter(e) ==
  [role   |-> RoleSent(e),
   next   |-> IF AddsTool(e) THEN converter.next + 1 ELSE converter.next,
   toolOf |-> IF AddsTool(e) THEN Positions(e) ELSE converter.toolOf]

-----------------------------------------------------------------------------
(* streamResponse, one chunk at a time. *)

\* Mutant: calls are no output.
HasOutputOfText(c) == c.kind \in {"message", "refusal", "reasoning"}

HasOutput(c) == c.kind \in {"message", "refusal", "reasoning", "header", "arguments"}

\* After the loop, with or without the end of the chat stream.
Concluded(r) ==
  CASE ~r.committed               -> "retry"
    [] r.committed /\ ~r.terminal -> "failed"
    [] r.committed /\ r.terminal  -> IF r.usable THEN "success" ELSE "failed"

Forward(r, c) ==
  LET written == [r EXCEPT !.received = Append(@, c), !.committed = TRUE,
                           !.usable = @ \/ HasOutput(c),
                           !.terminal = @ \/ c.kind \in {"finish", "done"}] IN
  CASE r.result # "open" -> r
    [] r.result = "open" /\ c.kind = "raw" ->
         IF c.retryable /\ ~r.committed THEN [r EXCEPT !.result = "retry"]
                                        ELSE [written EXCEPT !.result = "failed"]
    [] OTHER -> IF written.terminal /\ (~wait \/ c.kind = "done")
                THEN [written EXCEPT !.result = Concluded(written)]
                ELSE written

\* The chunks of an event, one after another.
Streamed(chunks) ==
  LET after[n \in 0..Len(chunks)] == IF n = 0 THEN relay ELSE Forward(after[n - 1], chunks[n])
  IN  after[Len(chunks)]

-----------------------------------------------------------------------------
(* The buffered chat completion. *)

\* An output replaces what has been observed, if it holds anything of the kind.
OrElse(seq, observed) == IF seq # <<>> THEN seq ELSE observed

ObserveResponse(e) ==
  IF e.output
  THEN [chat EXCEPT !.status = e.type, !.reason = e.reason,
                    !.message   = OrElse(Of("message"), @),
                    !.refusal   = OrElse(Of("refusal"), @),
                    !.reasoning = OrElse(Of("reasoning"), @),
                    !.tools     = OrElse(CallsSaid, @)]
  ELSE [chat EXCEPT !.status = e.type, !.reason = e.reason]

\* Mutant: arguments go to the call that was added last.
ToolOfLast(e) == Len(chat.tools)

ToolOf(e) == chat.toolOf[e.index]

Observe(e) ==
  CASE e.type \in {"created", "done"} -> chat
    [] e.type = "added" -> IF e.kind # "tool" \/ e.index \in DOMAIN chat.toolOf THEN chat
         ELSE [chat EXCEPT !.tools = Append(@, [index |-> e.index, parts |-> <<>>]),
                           !.toolOf = [i \in DOMAIN @ \cup {e.index} |->
                                         IF i = e.index THEN Len(chat.tools) + 1 ELSE @[i]]]
    [] e.type = "delta" /\ e.kind # "tool" -> [chat EXCEPT ![e.kind] = Append(@, e.part)]
    [] e.type = "delta" /\ e.kind = "tool" -> IF e.index \notin DOMAIN chat.toolOf THEN chat
         ELSE [chat EXCEPT !.tools[ToolOf(e)].parts = Append(@, e.part)]
    [] e.type \in Ends -> ObserveResponse(e)

\* A failed answer is not complete: it is read as an error.
ChatResult(e) == CASE e.type \in {"completed", "incomplete"} -> "success"
                   [] e.type = "failed" -> "retry"
                   [] OTHER -> "open"

-----------------------------------------------------------------------------
(* The buffered response. *)

PartsOf(i) == IF i \in DOMAIN gathered.items THEN gathered.items[i].parts ELSE <<>>

Merged(e, parts) ==
  [i \in DOMAIN gathered.items \cup {e.index} |->
     IF i = e.index THEN [kind |-> e.kind, parts |-> parts] ELSE gathered.items[i]]

Gather(e) ==
  CASE e.type = "created" -> gathered
    [] e.type = "added"   -> [gathered EXCEPT !.items = Merged(e, <<>>)]
    [] e.type = "delta"   -> [gathered EXCEPT !.items = Merged(e, Append(PartsOf(e.index), e.part))]
    [] e.type = "done"    -> [gathered EXCEPT !.items = Merged(e, up.items[e.index].parts)]
    [] e.type \in Ends    -> IF e.output
                             THEN [gathered EXCEPT !.items = [i \in DOMAIN @ \cup DOMAIN up.items |->
                                                                up.items[i]]]
                             ELSE gathered

Usable(items) == \E i \in DOMAIN items : \/ items[i].kind = "tool"
                                         \/ items[i].kind \in {"message", "refusal"} /\ items[i].parts # <<>>

ResponseResult(e) ==
  CASE Failed(e) -> IF Retryable(e) THEN "retry" ELSE "failed"
    [] e.type = "completed" -> IF Usable(Gather(e).items) THEN "success" ELSE "retry"
    [] OTHER -> "open"

-----------------------------------------------------------------------------
AnswerInit ==
  /\ up = [stage |-> "asked", items |-> <<>>, fragments |-> 0]
  /\ wait \in BOOLEAN
  /\ converter = [role |-> FALSE, next |-> 0, toolOf |-> <<>>]
  /\ relay = [committed |-> FALSE, usable |-> FALSE, terminal |-> FALSE, result |-> "open",
              received |-> <<>>]
  /\ chat = [message |-> <<>>, refusal |-> <<>>, reasoning |-> <<>>, tools |-> <<>>,
             toolOf |-> <<>>, status |-> "", reason |-> "", result |-> "open"]
  /\ gathered = [items |-> <<>>, result |-> "open"]

\* Each consumer reads an event unless it has ended before.
Consume(e) ==
  /\ converter' = ConverterAfter(e)
  /\ relay' = Streamed(Convert(e))
  /\ chat' = [Observe(e) EXCEPT !.result = ChatResult(e)]
  /\ gathered' = [Gather(e) EXCEPT !.result = ResponseResult(e)]
  /\ UNCHANGED wait

Created == /\ up.stage = "asked" /\ up' = [up EXCEPT !.stage = "open"]
           /\ Consume([type |-> "created"])

\* The items follow one another; the arguments of tool calls may overlap.
AddItem(kind) ==
  LET i == Len(up.items) + 1 IN
  /\ up.stage = "open" /\ i <= MaxItems
  /\ up' = [up EXCEPT !.items = Append(@, [kind |-> kind, parts |-> <<>>])]
  /\ Consume(ItemEvent("added", i, kind, 0))

SendDelta(i) ==
  LET kind == up.items[i].kind IN
  /\ up.stage = "open" /\ up.fragments < MaxFragments
  /\ i = Len(up.items) \/ kind = "tool"
  /\ up' = [up EXCEPT !.fragments = @ + 1, !.items[i].parts = Append(@, up.fragments + 1)]
  /\ Consume(ItemEvent("delta", i, kind, up.fragments + 1))

ItemDone(i) == /\ up.stage = "open" /\ UNCHANGED up
               /\ Consume(ItemEvent("done", i, up.items[i].kind, 0))

\* A last event may repeat the whole output; one that stands for a failure may be
\* the first one, too.
EndWith(type, reason, output) ==
  /\ up.stage \in {"asked", "open"}
  /\ type = "completed" => up.stage = "open"
  /\ up' = [up EXCEPT !.stage = type]
  /\ Consume(ResponseEvent(type, reason, output))

\* The connection ends, or breaks.
Interrupt ==
  /\ up.stage \in {"asked", "open"}
  /\ up' = [up EXCEPT !.stage = "interrupted"]
  /\ relay' = [relay EXCEPT !.result = IF @ = "open" THEN Concluded(relay) ELSE @]
  /\ chat' = [chat EXCEPT !.result = "retry"]
  /\ gathered' = [gathered EXCEPT !.result = "retry"]
  /\ UNCHANGED <<wait, converter>>

AnswerNext ==
  \/ Created \/ Interrupt
  \/ \E kind \in Kinds : AddItem(kind)
  \/ \E i \in DOMAIN up.items : SendDelta(i) \/ ItemDone(i)
  \/ \E output \in BOOLEAN : EndWith("completed", "", output)
  \/ \E type \in {"incomplete", "failed"}, reason \in Reasons, output \in BOOLEAN :
       EndWith(type, reason, output)

AnswerSpec == AnswerInit /\ [][AnswerNext]_answerVars

-----------------------------------------------------------------------------
(* Properties. *)

\* What a message holds, as the upstream has said it.
Answer(text, refusal, reasoning, calls) ==
  [message |-> text, refusal |-> refusal, reasoning |-> reasoning, calls |-> calls]
AnswerSaid == Answer(Of("message"), Of("refusal"), Of("reasoning"), CallsSaid)

\* The message a client puts together from the chunks.
Fragments(kind) == FlattenSeq([p \in DOMAIN relay.received |->
  IF relay.received[p].kind = kind THEN <<relay.received[p].part>> ELSE <<>>])
HeadersReceived == FlattenSeq([p \in DOMAIN relay.received |->
  IF relay.received[p].kind = "header" THEN <<relay.received[p]>> ELSE <<>>])
ArgumentsOf(t)  == FlattenSeq([p \in DOMAIN relay.received |->
  IF relay.received[p].kind = "arguments" /\ relay.received[p].tool = t
  THEN <<relay.received[p].part>> ELSE <<>>])
Folded == Answer(Fragments("message"), Fragments("refusal"), Fragments("reasoning"),
                 [n \in DOMAIN HeadersReceived |-> [index |-> HeadersReceived[n].index,
                                                    parts |-> ArgumentsOf(HeadersReceived[n].tool)]])

\* In whichever form an answer is delivered, its message is the one the upstream
\* has sent: nothing is lost, doubled or given to another call, whether or not
\* the last event repeats the output.
AnswerComplete ==
  /\ relay.result = "success" => Folded = AnswerSaid
  /\ chat.result = "success" =>
       Answer(chat.message, chat.refusal, chat.reasoning, chat.tools) = AnswerSaid
  /\ gathered.result = "success" =>
       \A i \in DOMAIN up.items :
         up.items[i].parts # <<>> => i \in DOMAIN gathered.items /\ gathered.items[i] = up.items[i]

HeadersBefore(p) == {q \in 1..(p - 1) : relay.received[q].kind = "header"}

\* The chunks make a chat stream: the role comes first and once, a call's header
\* before its arguments, the calls are numbered in order, and a finish reason is
\* sent once, for a completed answer only, with nothing but [DONE] behind it.
StreamFramed ==
  LET got == relay.received IN
  /\ \A p \in DOMAIN got :
       /\ got[p].kind = "role" <=> p = 1 /\ got[1].kind # "raw"
       /\ got[p].kind = "arguments" =>
            \E q \in 1..p : got[q].kind = "header" /\ got[q].tool = got[p].tool
       /\ got[p].kind = "finish" => /\ up.stage = "completed"
                                    /\ \A q \in DOMAIN got : q > p => got[q].kind = "done"
  /\ \A p \in DOMAIN got :
       got[p].kind = "header" => got[p].tool = Cardinality(HeadersBefore(p))

\* No item holds output: nothing was said at all, or nothing but reasoning.
SaidNothing  == \A item \in ToSet(up.items) : item.kind # "tool" /\ item.parts = <<>>
OnlyReasoned == \A item \in ToSet(up.items) :
                  item.kind # "tool" /\ (item.kind = "reasoning" \/ item.parts = <<>>)

\* How the forms of one answer are logged when the client asked for another.  A
\* streamed success is a success as a chat completion, and as a buffered response
\* unless all it holds is reasoning, which that form takes for an empty answer and
\* tries again; a buffered response that succeeds does so in the other two.  A chat
\* completion is a success where the others are not in two cases: the answer was
\* cut short, or it ended without a word.
VerdictsAgree ==
  /\ relay.result = "success" =>
       /\ chat.result = "success"
       /\ gathered.result = IF OnlyReasoned THEN "retry" ELSE "success"
  /\ gathered.result = "success" => chat.result = "success" /\ relay.result = "success"
  /\ chat.result = "success" =>
       \/ relay.result = "success"
       \/ /\ up.stage = "incomplete"
          /\ relay.result \in {"retry", "failed"} /\ gathered.result \in {"retry", "failed"}
       \/ /\ up.stage = "completed" /\ SaidNothing
          /\ relay.result = "failed" /\ gathered.result = "retry"
=============================================================================
