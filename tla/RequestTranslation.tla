------------------------- MODULE RequestTranslation -------------------------
(***************************************************************************)
(* The request side of the translation (translateRequestObserved): what a  *)
(* client sends is turned into a Chat request (requestToChat) and this     *)
(* into what the target speaks (chatToMessagesRequest,                     *)
(* chatToResponsesRequest).  The conversions are total functions of the    *)
(* request; TLC evaluates them on every history of at most MaxTurns turns, *)
(* and on one plain history with every setting around it.                  *)
(*                                                                         *)
(* A turn keeps what the conversions branch on: its role, its content      *)
(* (absent, a bare string or a list of parts), the calls it makes or the   *)
(* call it answers, whether its reasoning can be read, and the opaque      *)
(* details of its reasoning.  Texts and arguments are left out.            *)
(***************************************************************************)
EXTENDS Naturals, FiniteSets, SequencesExt

CONSTANTS CallA, CallB, NoToolCall, MaxTurns

ASSUME RequestAssumption ==
  /\ Cardinality({CallA, CallB, NoToolCall}) = 3
  /\ MaxTurns \in Nat \ {0}

VARIABLES asked, answered

requestVars == <<asked, answered>>

Dialects == {"chat", "messages", "responses"}
Both == <<CallA, CallB>>

(***************************************************************************)
(* Content and reasoning.  A "blank" part is the empty string.  Details of *)
(* the Claude format are the thinking of a Messages block; those of the    *)
(* Responses format belong to the item with their id.                      *)
(***************************************************************************)
Null == [form |-> "null", parts |-> <<>>]
Bare(part) == [form |-> "string", parts |-> <<part>>]
Listed(parts) == [form |-> "list", parts |-> parts]

ClaudeKinds == {"thinking", "signed", "redacted"}
Detail(kind, id) == [kind |-> kind, id |-> id]
Claude(kind) == Detail(kind, "none")

Turn(role) == [role |-> role, content |-> Null, calls |-> <<>>, result |-> NoToolCall,
               readable |-> FALSE, details |-> <<>>, inner |-> 0]
Said(role, content) == [Turn(role) EXCEPT !.content = content]
Result(c, content) == [Said("tool", content) EXCEPT !.result = c]

(* A block of a Messages message: `inner` counts the cache markers inside  *)
(* a tool result, `marked` is the block's own.                             *)
Block(kind, call) == [kind |-> kind, call |-> call, content |-> Null, marked |-> FALSE, inner |-> 0]
BlockTurn(role, blocks) == [role |-> role, said |-> Null, blocks |-> blocks]
BareTurn(role, content) == [role |-> role, said |-> content, blocks |-> <<>>]

Item(kind, who, call) == [kind |-> kind, who |-> who, call |-> call, content |-> Null,
                          id |-> "none", sealed |-> FALSE, summaries |-> 0]
MessageItem(who, content) == [Item("message", who, NoToolCall) EXCEPT !.content = content]
CallOutput(c, content) == [Item("function_call_output", "", c) EXCEPT !.content = content]
ThoughtItem(id, sealed, n) ==
  [Item("reasoning", "assistant", NoToolCall) EXCEPT !.id = id, !.sealed = sealed, !.summaries = n]

(***************************************************************************)
(* The clients' histories.                                                 *)
(***************************************************************************)
DetailLists ==
  {<<>>, <<Claude("signed")>>, <<Claude("signed"), Claude("redacted")>>,
   <<Detail("sealed", "r1"), Detail("summary", "r1")>>, <<Detail("sealed", "r1"), Detail("sealed", "r2")>>,
   <<Claude("signed"), Detail("sealed", "r1")>>}

AssistantTurns(contents) ==
  {[Said("assistant", c) EXCEPT !.calls = cs, !.readable = r, !.details = d] :
     c \in contents, cs \in {<<>>, Both}, r \in BOOLEAN, d \in DetailLists}

ChatTurns ==
  {Said(role, c) : role \in {"system", "developer"}, c \in {Bare("text"), Bare("blank"), Listed(<<"text", "text">>)}}
    \cup {Said("user", c) : c \in {Bare("text"), Bare("blank"), Listed(<<"text", "image">>), Listed(<<"file", "text">>)}}
    \cup AssistantTurns({Null, Bare("blank"), Bare("text")})
    \cup {Result(c, Bare("text")) : c \in {CallA, CallB}}
    \cup {[Result(CallA, Listed(<<"text">>)) EXCEPT !.inner = n] : n \in {0, 3}}

(* The system prompt of a Messages client, a field of its own, is written  *)
(* as a first message, and so are the instructions of a Responses client.  *)
MessagesTurns ==
  {BareTurn("system", c) : c \in {Bare("text"), Listed(<<"text", "text">>)}}
    \cup {BareTurn(role, Bare("text")) : role \in {"user", "assistant"}}
    \cup {BlockTurn("user", b) :
     b \in {<<Block("text", NoToolCall), Block("image", NoToolCall)>>, <<Block("document", NoToolCall), Block("text", NoToolCall)>>}
           \cup {<<[Block("tool_result", c) EXCEPT !.content = Bare("text")]>> : c \in {CallA, CallB}}
           \cup {<<[Block("tool_result", CallA) EXCEPT !.content = Listed(<<"text">>)], Block("text", NoToolCall)>>}}
    \cup {BlockTurn("assistant", think \o said \o used) :
            think \in {<<>>} \cup {<<Block(k, NoToolCall)>> : k \in ClaudeKinds},
            said \in {<<>>, <<Block("text", NoToolCall)>>},
            used \in {<<>>, <<Block("tool_use", CallA), Block("tool_use", CallB)>>}}

ResponsesItems ==
  {Item("instructions", "system", NoToolCall), Item("input", "user", NoToolCall)}
    \cup {MessageItem(role, c) : role \in {"developer", "user", "assistant"}, c \in {Bare("text"), Listed(<<"text">>)}}
    \cup {MessageItem("user", Listed(<<"text", "image">>)), MessageItem("user", Listed(<<"file", "text">>))}
    \cup {ThoughtItem("r1", TRUE, 0), ThoughtItem("r1", TRUE, 2), ThoughtItem("r2", FALSE, 1), ThoughtItem("r2", FALSE, 0)}
    \cup {Item("function_call", "", c) : c \in {CallA, CallB}}
    \cup {CallOutput(c, Bare("text")) : c \in {CallA, CallB}} \cup {CallOutput(CallA, Listed(<<"text">>))}

TurnsOf(from) ==
  CASE from = "chat" -> ChatTurns [] from = "messages" -> MessagesTurns [] from = "responses" -> ResponsesItems

FieldsFirst(from, h) ==
  CASE from = "chat" -> TRUE
    [] from = "messages" -> \A i \in DOMAIN h : h[i].role = "system" => i = 1
    [] from = "responses" ->
         \A i \in DOMAIN h :
           /\ h[i].kind = "instructions" => i = 1
           /\ h[i].kind = "input" => \A j \in DOMAIN h \ {i} : h[j].kind = "instructions"

Histories(from) == UNION {{h \in [1..n -> TurnsOf(from)] : FieldsFirst(from, h)} : n \in 1..MaxTurns}

PlainHistory(from) ==
  CASE from = "chat" -> <<Said("user", Bare("text"))>>
    [] from = "messages" -> <<BareTurn("user", Bare("text"))>>
    [] from = "responses" -> <<Item("input", "user", NoToolCall)>>

(***************************************************************************)
(* The settings around a history.  A Messages client must bound its output *)
(* (`tokens`), a Responses client may (`completion`); 0 is no bound.       *)
(***************************************************************************)
Unlimited == [tokens |-> 0, completion |-> 0]

CarriedOptions(from) ==
  {"temperature", "top_p", "stream", "metadata"} \cup
  (CASE from = "chat" -> {"stop"} [] from = "messages" -> {"stop_sequences"} [] from = "responses" -> {})

LimitsOf(from) ==
  CASE from = "chat" -> {Unlimited, [tokens |-> 10, completion |-> 0], [tokens |-> 10, completion |-> 20]}
    [] from = "messages" -> {[tokens |-> 10, completion |-> 0]}
    [] from = "responses" -> {Unlimited, [tokens |-> 0, completion |-> 20]}

NoFeature == "none"
FeaturesOf(from) ==
  IF from = "responses" THEN {NoFeature, "conversation", "previous_response_id", "store", "background", "files"}
  ELSE {NoFeature}

Settings(from) ==
  [choice : {"unset", "auto", "none", "required", "named"}, tools : {"none", "functions", "hosted"},
   limits : LimitsOf(from), options : {{}, CarriedOptions(from)}, feature : FeaturesOf(from), modelLimit : {0, 8192}]

PlainSettings(from) ==
  [choice |-> "unset", tools |-> "functions", limits |-> CHOOSE l \in LimitsOf(from) : TRUE,
   options |-> {}, feature |-> NoFeature, modelLimit |-> 0]

Waiting == [ok |-> TRUE, stripped |-> FALSE, system |-> <<>>, talk |-> <<>>, choice |-> "waiting",
            tools |-> "none", limits |-> Unlimited, options |-> {}]
Refusal == [Waiting EXCEPT !.ok = FALSE, !.choice = "refused"]

(***************************************************************************)
(* requestToChat.  Parts of another kind (a document, a file) vanish, and  *)
(* so does the content of a Responses message that is a bare string.       *)
(***************************************************************************)
Blocks(m, kinds) == SelectSeq(m.blocks, LAMBDA b : b.kind \in kinds)
Shown(parts) == SelectSeq(parts, LAMBDA p : p \in {"text", "image"})

MessageToChat(m) ==
  LET results == Blocks(m, {"tool_result"})
      shown == Blocks(m, {"text", "image"})
      calls == Blocks(m, {"tool_use"})
      opaque == IF m.role = "assistant" THEN Blocks(m, {"signed", "redacted"}) ELSE <<>>
      silent == Said(m.role, Listed(<<>>))
      turn == [silent EXCEPT
                 !.content.parts = [i \in DOMAIN shown |-> shown[i].kind],
                 !.calls = [i \in DOMAIN calls |-> calls[i].call],
                 !.readable = Blocks(m, {"thinking", "signed"}) # <<>>,
                 !.details = [i \in DOMAIN opaque |-> Claude(opaque[i].kind)]]
  IN IF m.said # Null THEN <<Said(m.role, m.said)>>
     ELSE [i \in DOMAIN results |-> Result(results[i].call, results[i].content)]
            \o (IF turn = silent THEN <<>> ELSE <<turn>>)

DetailsOf(x) ==
  (IF x.sealed THEN <<Detail("sealed", x.id)>> ELSE <<>>) \o [i \in 1..x.summaries |-> Detail("summary", x.id)]

ItemToChat(x) ==
  CASE x.kind = "instructions" -> <<Said("system", Bare("text"))>>
    [] x.kind = "input" -> <<Said("user", Bare("text"))>>
    [] x.kind = "message" -> <<Said(x.who, Listed(IF x.content.form = "list" THEN Shown(x.content.parts) ELSE <<>>))>>
    [] x.kind = "reasoning" ->
         IF DetailsOf(x) = <<>> THEN <<>>
         ELSE <<[Said("assistant", Bare("blank")) EXCEPT !.details = DetailsOf(x)]>>
    [] x.kind = "function_call" -> <<[Turn("assistant") EXCEPT !.calls = <<x.call>>]>>
    [] x.kind = "function_call_output" -> <<Result(x.call, x.content)>>

RequestToChat(from, history) ==
  CASE from = "chat" -> history
    [] from = "messages" -> FlattenSeq([i \in DOMAIN history |-> MessageToChat(history[i])])
    [] from = "responses" -> FlattenSeq([i \in DOMAIN history |-> ItemToChat(history[i])])

Instructs(t) == t.role \in {"system", "developer"}
Instructions(turns) == SelectSeq(turns, Instructs)
Conversation(turns) == SelectSeq(turns, LAMBDA t : ~Instructs(t))

(***************************************************************************)
(* chatToMessagesRequest.  Reasoning that Anthropic cannot verify is left  *)
(* out and the turn is marked; a turn that is empty because of that is not *)
(* sent.                                                                   *)
(***************************************************************************)
Textual(t) == t.content # Null /\ ToSet(t.content.parts) \subseteq {"text", "blank"}
InstructionBlocks(t) == [i \in DOMAIN t.content.parts |-> Block(t.content.parts[i], NoToolCall)]

Verifiable(t) == \A i \in DOMAIN t.details : t.details[i].kind \in ClaudeKinds

TurnStripped(t) ==
  \/ t.details # <<>> /\ ~Verifiable(t)
  \/ t.details = <<>> /\ t.readable /\ t.role = "assistant"

OpaqueOf(t) == IF Verifiable(t) THEN [i \in DOMAIN t.details |-> Block(t.details[i].kind, NoToolCall)] ELSE <<>>
ShownOf(t) == LET shown == Shown(t.content.parts) IN [i \in DOMAIN shown |-> Block(shown[i], NoToolCall)]
CallsOf(t) == [i \in DOMAIN t.calls |-> Block("tool_use", t.calls[i])]

ContentOfCalls(t) == OpaqueOf(t) \o (IF t.calls = <<>> THEN ShownOf(t) ELSE <<>>) \o CallsOf(t)
ContentOf(t) == OpaqueOf(t) \o ShownOf(t) \o CallsOf(t)

Sent(t) == ~(ContentOf(t) = <<>> /\ t.role = "assistant" /\ TurnStripped(t))

ChatToMessage(t) ==
  CASE t.role = "tool" ->
         <<BlockTurn("user", <<[Block("tool_result", t.result) EXCEPT !.content = t.content, !.inner = t.inner]>>)>>
    [] t.role # "tool" /\ Sent(t) -> <<BlockTurn(t.role, ContentOf(t))>>
    [] OTHER -> <<>>

(* applyPromptCacheBreakpoints: the last instruction, and the deepest      *)
(* cacheable block of a conversation of at least two messages, as long as  *)
(* the request holds fewer than four markers.                              *)
MaxCacheBreakpoints == 4
Cacheable == {"text", "image", "tool_use", "tool_result", "document"}

Markers(blocks) == FoldSeq(LAMBDA b, n : n + b.inner + (IF b.marked THEN 1 ELSE 0), 0, blocks)
MarkersIn(talk) == Markers(FlattenSeq([i \in DOMAIN talk |-> talk[i].blocks]))

BreakInstructions(system, talk) ==
  IF system # <<>> /\ Markers(system) + MarkersIn(talk) < MaxCacheBreakpoints
  THEN [system EXCEPT ![Len(system)].marked = TRUE] ELSE system

CacheableIn(talk) ==
  UNION {{<<i, j>> : j \in {k \in DOMAIN talk[i].blocks : talk[i].blocks[k].kind \in Cacheable /\ ~talk[i].blocks[k].marked}} :
           i \in DOMAIN talk}

Deepest(places) == CHOOSE p \in places : \A q \in places : q[1] < p[1] \/ (q[1] = p[1] /\ q[2] <= p[2])

BreakTalk(system, talk) ==
  IF Len(talk) >= 2 /\ Markers(system) + MarkersIn(talk) < MaxCacheBreakpoints /\ CacheableIn(talk) # {}
  THEN LET at == Deepest(CacheableIn(talk)) IN [talk EXCEPT ![at[1]].blocks[at[2]].marked = TRUE]
  ELSE talk

ChatToMessages(turns) ==
  LET fields == Instructions(turns)
      said == Conversation(turns)
      system == FlattenSeq([i \in DOMAIN fields |-> InstructionBlocks(fields[i])])
      talk == FlattenSeq([i \in DOMAIN said |-> ChatToMessage(said[i])])
      marked == BreakInstructions(system, talk)
  IN IF \E i \in DOMAIN fields : ~Textual(fields[i]) THEN Refusal
     ELSE [Waiting EXCEPT !.stripped = \E i \in DOMAIN said : TurnStripped(said[i]),
                          !.system = marked, !.talk = BreakTalk(marked, talk)]

(***************************************************************************)
(* chatToResponsesRequest: what it cannot represent it refuses.            *)
(***************************************************************************)
Portable(t) == \A i \in DOMAIN t.details : t.details[i].kind \notin ClaudeKinds

HasContent(t) == t.content # Null /\ t.content # Bare("blank") /\ t.content.parts # <<>>
Speaks(t) == HasContent(t) \/ (t.calls = <<>> /\ t.details = <<>>)
Expressible(t) == t.content # Null /\ "file" \notin ToSet(t.content.parts)

Representable(t) ==
  CASE Instructs(t) -> TRUE
    [] t.role = "user" -> Expressible(t)
    [] t.role = "assistant" -> Portable(t) /\ (Speaks(t) => Expressible(t))
    [] t.role = "tool" -> t.content.form = "string"

(* Details with one id make one reasoning item, where the first stands.    *)
ReasoningItems(details) ==
  LET opens(i) == \A j \in 1..(i - 1) : details[j].id # details[i].id
      ids == [i \in DOMAIN details |-> IF opens(i) THEN <<details[i].id>> ELSE <<>>]
      count(id, kind) == Cardinality({i \in DOMAIN details : details[i] = Detail(kind, id)})
      item(id) == ThoughtItem(id, count(id, "sealed") > 0, count(id, "summary"))
      order == FlattenSeq(ids)
  IN [i \in DOMAIN order |-> item(order[i])]

ChatToItems(t) ==
  LET said == <<MessageItem(t.role, Listed(t.content.parts))>>
  IN CASE t.role = "tool" -> <<CallOutput(t.result, t.content)>>
       [] t.role = "user" -> said
       [] t.role = "assistant" ->
            ReasoningItems(t.details) \o (IF Speaks(t) THEN said ELSE <<>>)
              \o [i \in DOMAIN t.calls |-> Item("function_call", "", t.calls[i])]

ChatToResponses(turns) ==
  LET fields == Instructions(turns)
      said == Conversation(turns)
  IN IF \E i \in DOMAIN turns : ~Representable(turns[i]) THEN Refusal
     ELSE [Waiting EXCEPT
             !.system = FlattenSeq([i \in DOMAIN fields |-> SelectSeq(fields[i].content.parts, LAMBDA p : p = "text")]),
             !.talk = FlattenSeq([i \in DOMAIN said |-> ChatToItems(said[i])])]

(***************************************************************************)
(* The settings.  A Messages client's choice "none" is not carried over,   *)
(* and a Responses client's named choice loses its name.  Towards          *)
(* Responses only "auto" is sent (convertToolChoice): for "none" the tools *)
(* are left out, anything else is refused.                                 *)
(***************************************************************************)
ChoiceToChat(from, choice) ==
  CASE from = "messages" /\ choice = "none" -> "unset"
    [] from = "responses" /\ choice = "named" -> "nameless"
    [] OTHER -> choice

ChoiceFromChat(to, choice) ==
  CASE to = "responses" /\ choice = "none" -> "withheld"
    [] to = "responses" /\ choice \notin {"unset", "auto", "none"} -> "refused"
    [] OTHER -> choice

(* A tool of the provider's own becomes one that lacks its schema or even  *)
(* its name, except towards Responses, which refuses it.                   *)
ToolsToChat(from, tools) == IF from = "messages" /\ tools = "hosted" THEN "schemaless" ELSE tools

ToolsFromChat(to, choice, tools) ==
  CASE to = "messages" /\ tools = "hosted" -> "nameless"
    [] to = "responses" /\ choice = "none" -> "none"
    [] to = "responses" /\ choice # "none" /\ tools = "hosted" -> "refused"
    [] OTHER -> tools

Limit(limits) == IF limits.completion # 0 THEN limits.completion ELSE limits.tokens
DefaultLimit == 4096

LimitsFromChat(to, limits, modelLimit) ==
  CASE to = "chat" -> limits
    [] to = "messages" ->
         [Unlimited EXCEPT !.tokens = CASE Limit(limits) # 0 -> Limit(limits)
                                        [] Limit(limits) = 0 /\ modelLimit # 0 -> modelLimit
                                        [] OTHER -> DefaultLimit]
    [] to = "responses" -> [Unlimited EXCEPT !.completion = Limit(limits)]

OptionsToChat(from, options) ==
  IF from = "chat" THEN options ELSE options \cap {"temperature", "top_p", "stream", "stop", "metadata"}

OptionsFromChat(to, options) ==
  CASE to = "chat" -> options
    [] to = "messages" -> options \cap {"temperature", "top_p", "stream", "stop_sequences", "metadata"}
    [] to = "responses" -> options \cap {"temperature", "top_p", "stream", "metadata"}

(***************************************************************************)
(* translateRequestObserved.                                               *)
(***************************************************************************)
Untranslatable(a) == a.from = "responses" /\ (a.feature # NoFeature \/ a.tools = "hosted")

TranslateRequest(a) ==
  LET turns == RequestToChat(a.from, a.history)
      choice == ChoiceToChat(a.from, a.choice)
      kept == ChoiceFromChat(a.to, choice)
      tools == ToolsFromChat(a.to, choice, ToolsToChat(a.from, a.tools))
      body == CASE a.to = "chat" -> [Waiting EXCEPT !.talk = turns]
                [] a.to = "messages" -> ChatToMessages(turns)
                [] a.to = "responses" -> ChatToResponses(turns)
  IN IF Untranslatable(a) \/ ~body.ok \/ "refused" \in {kept, tools} THEN Refusal
     ELSE [body EXCEPT !.choice = kept, !.tools = tools,
                       !.limits = LimitsFromChat(a.to, a.limits, a.modelLimit),
                       !.options = OptionsFromChat(a.to, OptionsToChat(a.from, a.options))]

Request(from, to, history, s) ==
  [from |-> from, to |-> to, history |-> history, choice |-> s.choice, tools |-> s.tools,
   limits |-> s.limits, options |-> s.options, feature |-> s.feature, modelLimit |-> s.modelLimit]

RequestInit ==
  /\ \E from \in Dialects : \E to \in Dialects \ {from} :
       \/ \E history \in Histories(from) : asked = Request(from, to, history, PlainSettings(from))
       \/ \E s \in Settings(from) : asked = Request(from, to, PlainHistory(from), s)
  /\ answered = Waiting

Translate ==
  /\ answered = Waiting
  /\ answered' = TranslateRequest(asked)
  /\ UNCHANGED asked

RequestNext == Translate

RequestSpec == RequestInit /\ [][RequestNext]_requestVars

-----------------------------------------------------------------------------
(* The conversation as a reader sees it: who said what, which calls were   *)
(* made, which were answered.  Within one Messages message the answers     *)
(* come first and the calls last.                                          *)
Speaker(role) == IF role = "developer" THEN "system" ELSE role
Voiced(role, parts) == [i \in DOMAIN parts |-> <<"says", Speaker(role), parts[i]>>]
Events(what, calls) == [i \in DOMAIN calls |-> <<what, calls[i]>>]
Kinds(blocks) == [i \in DOMAIN blocks |-> blocks[i].kind]
CallsAt(blocks) == [i \in DOMAIN blocks |-> blocks[i].call]

SeenInBlocks(m) ==
  Events("answers", CallsAt(Blocks(m, {"tool_result"})))
    \o Voiced(m.role, m.said.parts \o Kinds(Blocks(m, {"text", "image", "document"})))
    \o Events("calls", CallsAt(Blocks(m, {"tool_use"})))

SeenInChat(t) ==
  IF t.role = "tool" THEN <<<<"answers", t.result>>>>
  ELSE Voiced(t.role, t.content.parts) \o Events("calls", t.calls)

SeenInItem(x) ==
  CASE x.kind \in {"instructions", "input"} -> Voiced(x.who, <<"text">>)
    [] x.kind = "message" -> Voiced(x.who, x.content.parts)
    [] x.kind = "function_call" -> <<<<"calls", x.call>>>>
    [] x.kind = "function_call_output" -> <<<<"answers", x.call>>>>
    [] x.kind = "reasoning" -> <<>>

Seen(language, history) ==
  LET seen == FlattenSeq([i \in DOMAIN history |->
                CASE language = "chat" -> SeenInChat(history[i])
                  [] language = "messages" -> SeenInBlocks(history[i])
                  [] language = "responses" -> SeenInItem(history[i])])
  IN SelectSeq(seen, LAMBDA e : e[Len(e)] # "blank")

(* The instructions that stand in a field of their own.                    *)
SeenInField(to, system) == Voiced("system", IF to = "messages" THEN Kinds(system) ELSE system)

Translated == answered # Waiting /\ answered.ok

OfInstructions(seen) == SelectSeq(seen, LAMBDA e : e[1] = "says" /\ e[2] = "system")
OfConversation(seen) == SelectSeq(seen, LAMBDA e : ~(e[1] = "says" /\ e[2] = "system"))

(* What does not arrive: files and documents, and what a Responses client  *)
(* says in a message whose content is a bare string.                       *)
Carried(seen) == SelectSeq(seen, LAMBDA e : e[Len(e)] \notin {"file", "document"})
Heard(from, history) ==
  IF from = "responses" THEN SelectSeq(history, LAMBDA x : ~(x.kind = "message" /\ x.content.form = "string"))
  ELSE history

(* Of everything else that was said, called or answered nothing is lost,   *)
(* doubled or moved by any pair of conversions (requestToChat,             *)
(* chatToMessagesRequest, chatToResponsesRequest); only the instructions   *)
(* move ahead of the conversation.                                         *)
HistoryKept ==
  Translated =>
    LET before == Carried(Seen(asked.from, Heard(asked.from, asked.history)))
        told == SelectSeq(SeenInField(asked.to, answered.system), LAMBDA e : e[3] # "blank")
        after == told \o Carried(Seen(asked.to, answered.talk))
    IN /\ OfConversation(before) = OfConversation(after)
       /\ OfInstructions(before) = OfInstructions(after)

SealsIn(language, x) ==
  CASE language = "chat" -> Cardinality({i \in DOMAIN x.details : x.details[i].kind \in {"signed", "redacted", "sealed"}})
    [] language = "messages" -> Len(Blocks(x, {"signed", "redacted"}))
    [] language = "responses" -> IF x.sealed THEN 1 ELSE 0

Seals(language, history) == FoldSeq(LAMBDA x, n : n + SealsIn(language, x), 0, history)

SaysNothing(t) ==
  t.calls = <<>> /\ t.details = <<>> /\ Shown(t.content.parts) = <<>> /\ ~t.readable /\ t.role # "tool"

(* Opaque reasoning state reaches the target whole, or the request is      *)
(* refused, or the loss is marked: "the degradation is visible in          *)
(* Activity, never silent" (translate.go, chatToMessagesRequest).  Only a  *)
(* turn that said nothing to begin with is sent empty.                     *)
StateNeverLostSilently ==
  Translated =>
    /\ ~answered.stripped => Seals(asked.to, answered.talk) = Seals(asked.from, asked.history)
    /\ asked.to = "messages" =>
         Cardinality({i \in DOMAIN answered.talk : answered.talk[i].blocks = <<>>})
           = Len(SelectSeq(Conversation(RequestToChat(asked.from, asked.history)), SaysNothing))

(* A tool choice is kept, honoured by withholding the tools, or refused    *)
(* "rather than silently weakened" (convertToolChoice), and the functions  *)
(* a client offers arrive otherwise; a Responses client's named choice and *)
(* a Messages client's "none" are not handled.                             *)
ChoiceNotWeakened ==
  (Translated /\ <<asked.from, asked.choice>> \notin {<<"responses", "named">>, <<"messages", "none">>}) =>
     \/ answered.choice = asked.choice /\ (asked.tools = "functions" => answered.tools = "functions")
     \/ asked.choice = "none" /\ answered.choice = "withheld" /\ answered.tools = "none"

(* The bound a client puts on its output is the one the target is given; a *)
(* Messages target, which needs one, gets its own or the default.  Of the  *)
(* other options only the stop sequences are lost.                         *)
SettingsKept ==
  Translated =>
    /\ asked.to = "chat" => answered.limits = asked.limits
    /\ asked.to # "chat" =>
         answered.limits.tokens + answered.limits.completion =
           (CASE asked.limits.completion # 0 -> asked.limits.completion
              [] asked.limits.completion = 0 /\ asked.limits.tokens # 0 -> asked.limits.tokens
              [] asked.limits = Unlimited /\ asked.to = "responses" -> 0
              [] OTHER -> IF asked.modelLimit # 0 THEN asked.modelLimit ELSE 4096)
    /\ asked.options \ {"stop", "stop_sequences"} \subseteq answered.options
    /\ answered.options \subseteq asked.options

(* "a caller-supplied strategy is never pushed past Anthropic's cap"       *)
(* (countCacheBreakpoints), no marker stands on thinking, and a request    *)
(* with room for it ends its instructions with one.                        *)
BreakpointsHold ==
  (Translated /\ asked.to = "messages") =>
    LET given == FoldSeq(LAMBDA t, n : n + t.inner, 0, RequestToChat(asked.from, asked.history))
        total == Markers(answered.system) + MarkersIn(answered.talk)
    IN /\ total <= IF given > MaxCacheBreakpoints THEN given ELSE MaxCacheBreakpoints
       /\ total <= given + 2
       /\ given = 0 /\ answered.system # <<>> => answered.system[Len(answered.system)].marked
       /\ \A m \in ToSet(answered.talk) : \A b \in ToSet(m.blocks) : b.marked => b.kind \notin ClaudeKinds

(* What the code does not do: a Messages client's "none", which means "do  *)
(* not call tools", reaches every target as no choice at all.              *)
NoneIsHonoured ==
  (Translated /\ asked.choice = "none") => answered.choice \in {"none", "withheld"}

(* What the code does not do: a file or a document that cannot be carried  *)
(* is dropped and the rest is sent; only a Chat client's file is refused,  *)
(* and only towards a Responses target.                                    *)
FilesArriveOrAreRefused ==
  Translated => Carried(Seen(asked.from, asked.history)) = Seen(asked.from, asked.history)

(* What the code does not do: a Responses message whose content is a bare  *)
(* string arrives as an empty one (responsesContentToChat).                *)
BareStringsArrive == Translated => Heard(asked.from, asked.history) = asked.history

(* What the translation of a request promises as a whole.                  *)
ConversationKept ==
  HistoryKept /\ StateNeverLostSilently /\ ChoiceNotWeakened /\ SettingsKept /\ BreakpointsHold
=============================================================================
