------------------------- MODULE ResponseTranslation -------------------------
(***************************************************************************)
(* A complete answer of an upstream, turned into the client's protocol     *)
(* (translateNonstreamResponse): validateResponseReasoningState refuses    *)
(* what cannot be carried, responseToChat makes it a Chat message, and     *)
(* chatResponseToMessages or chatResponseToResponses the client's answer.  *)
(* Where an earlier target has already committed the client's stream, the  *)
(* answer is replayed on it as events (writeNonstreamAsSSE); that is also  *)
(* what becomes of an answer in the client's own protocol.                 *)
(*                                                                         *)
(* Turns, blocks, items and details are those of RequestTranslation.       *)
(***************************************************************************)
EXTENDS RequestTranslation

VARIABLES reply, delivered

responseVars == <<reply, delivered>>

Ends == {"stop", "tools", "length"}

TextBlocks == {<<>>, <<Block("text", NoToolCall)>>}
UsedBlocks == {<<>>, <<Block("tool_use", CallA)>>, <<Block("tool_use", CallA), Block("tool_use", CallB)>>}
ThoughtBlocks ==
  {<<>>} \cup {<<Block(k, NoToolCall)>> : k \in ClaudeKinds}
    \cup {<<Block("signed", NoToolCall), Block("redacted", NoToolCall)>>}

MessagesReplies == {think \o said \o used : think \in ThoughtBlocks, said \in TextBlocks, used \in UsedBlocks}

ResponsesReplies ==
  {think \o said \o used :
     think \in {<<>>} \cup {<<ThoughtItem("r1", sealed, n)>> : sealed \in BOOLEAN, n \in 0..2},
     said \in {<<>>, <<MessageItem("assistant", Listed(<<"text">>))>>},
     used \in {<<>>, <<Item("function_call", "", CallA)>>,
               <<Item("function_call", "", CallA), Item("function_call", "", CallB)>>}}

ChatReplies == AssistantTurns({Null, Bare("text"), Listed(<<"text">>)})

RepliesOf(target) ==
  CASE target = "chat" -> ChatReplies [] target = "messages" -> MessagesReplies [] target = "responses" -> ResponsesReplies

PlainReply(target) ==
  CASE target = "chat" -> Said("assistant", Bare("text"))
    [] target = "messages" -> <<Block("text", NoToolCall)>>
    [] target = "responses" -> <<MessageItem("assistant", Listed(<<"text">>))>>

(* What a request cost.  The input of a Messages answer excludes what was  *)
(* read from the cache and written to it, that of the others includes it.  *)
Figures == [input : 0..3, read : 0..1, written : 0..1, output : 0..1]
Nothing == [input |-> 0, read |-> 0, written |-> 0, output |-> 0]
FiguresOf(target) == {u \in Figures : target = "responses" => u.read = 0 /\ u.written = 0}

OfKinds(seq, kinds) == SelectSeq(seq, LAMBDA x : x.kind \in kinds)

CallsIn(language, body) ==
  IF language = "chat" THEN body.calls ELSE CallsAt(OfKinds(body, {"tool_use", "function_call"}))

(***************************************************************************)
(* validateResponseReasoningState.                                         *)
(***************************************************************************)
Sealed(body) == \E i \in DOMAIN body : body[i].kind = "reasoning" /\ body[i].sealed

CarriesAnything(target, client, body) == TRUE

Carries(target, client, body) ==
  CASE target = client -> TRUE
    [] target = "messages" /\ client # "messages" -> client = "responses" => OfKinds(body, {"signed", "redacted"}) = <<>>
    [] target = "responses" /\ client # "responses" -> client = "messages" => ~Sealed(body)
    [] target = "chat" /\ client # "chat" -> IF client = "messages" THEN Verifiable(body) ELSE Portable(body)

(***************************************************************************)
(* responseToChat.  Thinking without a signature becomes a reasoning       *)
(* detail of the Claude format all the same.                               *)
(***************************************************************************)
ReplyToChat(target, body) ==
  LET thoughts == OfKinds(body, ClaudeKinds)
      items == OfKinds(body, {"reasoning"})
      said == OfKinds(body, {"message"})
  IN CASE target = "chat" -> body
       [] target = "messages" ->
            [Said("assistant", Listed(Kinds(OfKinds(body, {"text"})))) EXCEPT
               !.calls = CallsIn(target, body),
               !.readable = OfKinds(body, {"thinking", "signed"}) # <<>>,
               !.details = [i \in DOMAIN thoughts |-> Claude(thoughts[i].kind)]]
       [] target = "responses" ->
            [Said("assistant", Listed(FlattenSeq([i \in DOMAIN said |-> said[i].content.parts]))) EXCEPT
               !.calls = CallsIn(target, body),
               !.readable = \E i \in DOMAIN items : items[i].summaries > 0,
               !.details = FlattenSeq([i \in DOMAIN items |-> DetailsOf(items[i])])]

EndInChat(target, body, end) ==
  CASE target = "chat" -> end
    [] target = "messages" -> IF end = "tools" THEN "tools" ELSE "stop"
    [] target = "responses" -> IF CallsIn(target, body) # <<>> THEN "tools" ELSE "stop"

(* A Messages answer's figures lose their cached part to the input they    *)
(* were missing from (openAIPromptTokens); towards Messages the cached     *)
(* part is taken out of the input again.                                   *)
FiguresToChat(target, u) ==
  IF target = "messages" THEN [Nothing EXCEPT !.input = u.input + u.read + u.written, !.output = u.output] ELSE u

FiguresFromChat(client, u) ==
  CASE client = "messages" -> [u EXCEPT !.input = IF u.input > u.read + u.written THEN u.input - u.read - u.written ELSE 0]
    [] client = "responses" -> [u EXCEPT !.read = 0, !.written = 0]
    [] client = "chat" -> u

(***************************************************************************)
(* chatResponseToMessages and chatResponseToResponses: opaque state in the *)
(* client's own format, else the readable reasoning, the text, the calls.  *)
(* A Responses answer always has a message item, and reasoning after it.   *)
(***************************************************************************)
ChatToMessagesReply(t) ==
  (IF OpaqueOf(t) = <<>> /\ t.readable THEN <<Block("thinking", NoToolCall)>> ELSE OpaqueOf(t)) \o ShownOf(t) \o CallsOf(t)

ChatToResponsesReply(t) ==
  <<MessageItem("assistant", Listed(SelectSeq(t.content.parts, LAMBDA p : p = "text")))>>
  \o (CASE Portable(t) /\ t.details # <<>> -> ReasoningItems(t.details)
        [] ~(Portable(t) /\ t.details # <<>>) /\ t.readable -> <<ThoughtItem("rs", FALSE, 1)>>
        [] OTHER -> <<>>)
  \o [i \in DOMAIN t.calls |-> Item("function_call", "", t.calls[i])]

FromChat(client, turn) ==
  CASE client = "chat" -> turn
    [] client = "messages" -> ChatToMessagesReply(turn)
    [] client = "responses" -> ChatToResponsesReply(turn)

EndFromChat(client, end) ==
  CASE client = "chat" -> end
    [] client = "messages" -> IF end = "tools" THEN "tools" ELSE "stop"
    [] client = "responses" -> "completed"

(***************************************************************************)
(* writeNonstreamAsSSE: the readable reasoning, the text and the calls, in *)
(* this order, then the end.  Opaque state and figures are not replayed.   *)
(***************************************************************************)
ReplayedDelta(kind, call) == [kind |-> kind, call |-> call]

Replay(client, body) ==
  LET turn == ReplyToChat(client, body)
  IN (IF turn.readable THEN <<ReplayedDelta("reasoning", NoToolCall)>> ELSE <<>>)
     \o (IF "text" \in ToSet(turn.content.parts) THEN <<ReplayedDelta("text", NoToolCall)>> ELSE <<>>)
     \o [i \in DOMAIN turn.calls |-> ReplayedDelta("tool", turn.calls[i])]

Undelivered == [ok |-> TRUE, body |-> <<>>, end |-> "waiting", figures |-> Nothing]

TranslateReply(r) ==
  LET same == r.target = r.client
      chatEnd == EndInChat(r.target, r.body, r.end)
      body == IF same THEN r.body ELSE FromChat(r.client, ReplyToChat(r.target, r.body))
      end == IF same THEN r.end ELSE EndFromChat(r.client, chatEnd)
  IN CASE ~Carries(r.target, r.client, r.body) -> [Undelivered EXCEPT !.ok = FALSE, !.end = "refused"]
       [] Carries(r.target, r.client, r.body) /\ r.committed ->
            [Undelivered EXCEPT !.body = Replay(r.client, body), !.end = EndInChat(r.client, body, end)]
       [] OTHER ->
            [ok |-> TRUE, body |-> body, end |-> end,
             figures |-> FiguresFromChat(r.client, FiguresToChat(r.target, r.figures))]

Reply(target, client, committed, body, end, figures) ==
  [target |-> target, client |-> client, committed |-> committed, body |-> body, end |-> end, figures |-> figures]

ResponseInit ==
  /\ \E target \in Dialects : \E client \in Dialects : \E committed \in BOOLEAN :
       /\ target = client => committed
       /\ \/ \E body \in RepliesOf(target) : \E end \in Ends :
               /\ end = "tools" <=> CallsIn(target, body) # <<>>
               /\ reply = Reply(target, client, committed, body, end, Nothing)
          \/ \E u \in FiguresOf(target) : reply = Reply(target, client, committed, PlainReply(target), "stop", u)
  /\ delivered = Undelivered

DeliverReply ==
  /\ delivered = Undelivered
  /\ delivered' = TranslateReply(reply)
  /\ UNCHANGED reply

ResponseNext == DeliverReply

-----------------------------------------------------------------------------
Delivered == delivered # Undelivered /\ delivered.ok
Whole == Delivered /\ ~reply.committed
Replayed == Delivered /\ reply.committed

SpokenIn(language, body) ==
  IF language = "chat" THEN Shown(body.content.parts) # <<>>
  ELSE \E i \in DOMAIN body : body[i].kind = "text" \/ (body[i].kind = "message" /\ body[i].content.parts # <<>>)

SealsOf(language, body) == Seals(language, IF language = "messages" THEN <<BlockTurn("assistant", body)>> ELSE body)

OpaqueIn(language, body) == IF language = "chat" THEN SealsIn("chat", body) ELSE SealsOf(language, body)

ReasonedIn(language, body) ==
  IF language = "chat" THEN body.readable \/ body.details # <<>>
  ELSE \E i \in DOMAIN body :
         body[i].kind \in ClaudeKinds \/ (body[i].kind = "reasoning" /\ (body[i].sealed \/ body[i].summaries > 0))

(* An answer that is delivered says what the upstream said: its text, its  *)
(* reasoning, its calls in their order, and that it ends for them          *)
(* (responseToChat, chatResponseToMessages, chatResponseToResponses).      *)
AnswerKept ==
  Whole =>
    /\ SpokenIn(reply.target, reply.body) <=> SpokenIn(reply.client, delivered.body)
    /\ ReasonedIn(reply.target, reply.body) <=> ReasonedIn(reply.client, delivered.body)
    /\ CallsIn(reply.target, reply.body) = CallsIn(reply.client, delivered.body)
    /\ reply.client # "responses" => (delivered.end = "tools" <=> CallsIn(reply.client, delivered.body) # <<>>)

(* An answer that arrives where a stream is already committed is replayed  *)
(* with its text and with its calls in their order, ends for them when it  *)
(* has any, and shows reasoning only if there was some                     *)
(* (writeNonstreamAsSSE).                                                  *)
ReplayKept ==
  Replayed =>
    /\ SpokenIn(reply.target, reply.body) <=> OfKinds(delivered.body, {"text"}) # <<>>
    /\ CallsIn(reply.target, reply.body) = CallsAt(OfKinds(delivered.body, {"tool"}))
    /\ delivered.end = "tools" <=> OfKinds(delivered.body, {"tool"}) # <<>>
    /\ OfKinds(delivered.body, {"reasoning"}) # <<>> => ReasonedIn(reply.target, reply.body)

(* "Signed or encrypted state is rejected when the target cannot           *)
(* round-trip it" (validateResponseReasoningState): what is delivered      *)
(* whole carries all of it.                                                *)
OpaqueStateArrives ==
  Whole => OpaqueIn(reply.client, delivered.body) >= OpaqueIn(reply.target, reply.body)

InputIn(language, u) == IF language = "messages" THEN u.input + u.read + u.written ELSE u.input

(* A client is told the whole input and the output the upstream counted,   *)
(* whichever of the two ways each of them counts the cached part           *)
(* (openAIPromptTokens, chatResponseToMessages); more only when the        *)
(* upstream's cached part exceeds its input.                               *)
FiguresArrive ==
  (Whole /\ ~(reply.target = "chat" /\ reply.figures.read + reply.figures.written > reply.figures.input)) =>
    /\ InputIn(reply.client, delivered.figures) = InputIn(reply.target, reply.figures)
    /\ delivered.figures.output = reply.figures.output

(* What the code does not do: an answer cut at its output limit reaches    *)
(* every client of another protocol as one that ended of itself.           *)
TruncationIsTold ==
  (Whole /\ reply.end = "length") => delivered.end = "length"

(* What the code does not do: an answer that is replayed on a committed    *)
(* stream loses its signatures and its encrypted reasoning.                *)
ReplayKeepsState == Replayed => OpaqueIn(reply.target, reply.body) = 0

(* What the translation of a whole answer promises.                        *)
AnswerArrives == AnswerKept /\ ReplayKept /\ OpaqueStateArrives /\ FiguresArrive
=============================================================================
