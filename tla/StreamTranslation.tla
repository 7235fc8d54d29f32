------------------------- MODULE StreamTranslation -------------------------
(***************************************************************************)
(* The translating relay (translate.go): an upstream speaks one of the     *)
(* three protocols and the client another.  Every upstream event becomes   *)
(* canonical deltas, every delta becomes frames in the client's protocol,  *)
(* and one streamState carries what has been said so far: which block is   *)
(* open, which items were numbered, what each tool call's arguments are.   *)
(* A Responses upstream may hand over the arguments of a call up to three  *)
(* times (fragments, arguments.done, output_item.done), interleaved with   *)
(* those of parallel calls, and every client must end with one copy.       *)
(*                                                                         *)
(* `how' is the road taken: "stream" for translateSSE, "aggregate" for     *)
(* relayNonstreamFromSSE (a client that asked for one JSON object).        *)
(* A piece of text is a unit, an argument string the sequence of its       *)
(* fragments; ids, models and timestamps are left out.                     *)
(***************************************************************************)
EXTENDS Integers, Sequences, SequencesExt, FiniteSets

CONSTANTS
  ToolCalls,      \* the calls the upstream may make
  NoCall,         \* a delta that does not name its call
  MaxToolCalls,   \* maxStreamToolCalls
  MaxText,        \* maxAccumulatedTextBytes, in pieces
  MaxEvents       \* how many events the upstream sends before it ends

ASSUME TranslationAssumption ==
  /\ NoCall \notin ToolCalls
  /\ MaxToolCalls \in Nat /\ MaxText \in Nat /\ MaxEvents \in Nat

VARIABLES
  incoming,   \* the client's protocol
  target,     \* the upstream's protocol
  how,        \* "stream" or "aggregate"
  upstream,   \* what the upstream has said
  stream,     \* the relay's streamState
  out,        \* the frames written to the client
  outcome,    \* "open", "done" or the failure
  probe       \* what probeUpstreamOutput makes of the same events

translationVars == <<incoming, target, how, upstream, stream, out, outcome, probe>>

Protocols == {"chat", "messages", "responses"}
Fragments == <<1, 2>>
Formats == {"claude", "openai"}
NoDetail == <<>>

(***************************************************************************)
(* The upstream (external): the events of each protocol, in the orders the *)
(* protocol allows.  A call is announced before its arguments; they come   *)
(* as all the fragments in order, as one whole, or both.                   *)
(***************************************************************************)
Silent == [said |-> 0, open |-> <<>>, parts |-> [c \in ToolCalls |-> 0], whole |-> {},
           closed |-> {}, text |-> 0, reasoning |-> 0, kept |-> NoDetail,
           thinking |-> FALSE, usage |-> {}, finished |-> FALSE]

Event(name) == [name |-> name, call |-> NoCall, args |-> <<>>, detail |-> NoDetail]
CallEvent(name, c, args) == [Event(name) EXCEPT !.call = c, !.args = args]

Complete(c) == upstream.parts[c] = Len(Fragments) \/ c \in upstream.whole
Announced == Range(upstream.open)
AllComplete == \A c \in Announced : Complete(c)

ToolEvents ==
  {CallEvent("tool_start", c, <<>>) : c \in ToolCalls \ Announced}
    \cup {CallEvent("tool_part", c, <<Fragments[upstream.parts[c] + 1]>>) :
            c \in {x \in Announced : ~Complete(x)}}

ChatEvents ==
  {Event(n) : n \in {"text", "reasoning"}}
    \cup {[Event("state") EXCEPT !.detail = <<f, k>>] : f \in Formats, k \in {"signed", "encrypted"}}
    \cup ToolEvents \cup {CallEvent("tool_whole", c, Fragments) : c \in ToolCalls \ Announced}
    \cup (IF AllComplete THEN {Event("finish")} ELSE {})

MessagesEvents ==
  IF upstream.said = 0 THEN {Event("message_start")}
  ELSE {Event("text")}
    \cup (IF upstream.thinking
          THEN {Event("reasoning"), [Event("signature") EXCEPT !.detail = <<"claude", "signed">>]}
          ELSE {[Event("thinking") EXCEPT !.detail = <<"claude", "readable">>],
                [Event("thinking") EXCEPT !.detail = <<"claude", "encrypted">>]})
    \cup {e \in ToolEvents : e.name = "tool_part" => e.call = Last(upstream.open)}
    \cup (IF AllComplete THEN {Event("message_delta")} ELSE {})

Between == {c \in Announced \ upstream.closed : upstream.parts[c] \in {0, Len(Fragments)}}

ResponsesEvents ==
  {Event(n) : n \in {"text", "reasoning"}}
    \cup {[Event("reasoning_item") EXCEPT !.detail = <<"openai", k>>] : k \in {"encrypted", "readable"}}
    \cup ToolEvents
    \cup {CallEvent("arguments_done", c, Fragments) : c \in {x \in Between : x \notin upstream.whole}}
    \cup {CallEvent("item_done", c, Fragments) : c \in Between}

UpstreamEvents ==
  CASE upstream.finished -> IF target = "chat" /\ upstream.usage = {} THEN {Event("usage")} ELSE {}
    [] target = "chat" -> ChatEvents
    [] target = "messages" -> MessagesEvents
    [] target = "responses" -> ResponsesEvents

(* What the upstream has said once it has sent e; each kind of reasoning   *)
(* state is sent once.                                                     *)
Says(e) ==
  [upstream EXCEPT
    !.said = @ + 1,
    !.open = IF e.name \in {"tool_start", "tool_whole"} THEN Append(@, e.call) ELSE @,
    !.parts = IF e.name = "tool_part" THEN [@ EXCEPT ![e.call] = @ + 1] ELSE @,
    !.whole = IF e.name \in {"tool_whole", "arguments_done", "item_done"} THEN @ \cup {e.call} ELSE @,
    !.closed = IF e.name = "item_done" THEN @ \cup {e.call} ELSE @,
    !.text = IF e.name = "text" THEN @ + 1 ELSE @,
    !.reasoning = IF e.name = "reasoning" THEN @ + 1 ELSE @,
    !.kept = IF e.detail # NoDetail THEN e.detail ELSE @,
    !.thinking = (e.name = "thinking" /\ e.detail[2] = "readable")
                 \/ (upstream.thinking /\ e.name = "reasoning"),
    !.usage = CASE e.name = "message_start" -> {"input"}
                [] e.name = "message_delta" -> {"input", "output"}
                [] e.name = "usage" -> {"input", "output"}
                [] OTHER -> @,
    !.finished = @ \/ e.name \in {"finish", "message_delta"}]

(***************************************************************************)
(* canonicalDeltas.                                                        *)
(***************************************************************************)
Delta(kind) == [kind |-> kind, id |-> NoCall, aliases |-> {}, args |-> <<>>, final |-> FALSE,
                detail |-> NoDetail, usage |-> {}, finish |-> "stop"]

ToolDelta(e, marks, named, final) ==
  [Delta("tool") EXCEPT !.id = IF named THEN e.call ELSE NoCall,
                        !.aliases = {<<m, e.call>> : m \in marks},
                        !.args = e.args, !.final = final]
StateDelta(e) == [Delta("reasoning_state") EXCEPT !.detail = e.detail]
UsageDelta(counts) == [Delta("usage") EXCEPT !.usage = counts]
FinishDelta(tools) == [Delta("finish") EXCEPT !.finish = IF tools THEN "tool_calls" ELSE "stop"]

ChatDeltas(e) ==
  CASE e.name \in {"tool_start", "tool_whole"} -> <<ToolDelta(e, {"call", "index"}, TRUE, FALSE)>>
    [] e.name = "tool_part" -> <<ToolDelta(e, {"index"}, FALSE, FALSE)>>
    [] e.name = "state" -> <<StateDelta(e)>>
    [] e.name = "finish" -> <<FinishDelta(upstream.open # <<>>)>>
    [] e.name = "usage" -> <<UsageDelta({"input", "output"})>>
    [] OTHER -> <<Delta(e.name)>>

MessagesDeltas(e) ==
  CASE e.name = "message_start" -> <<UsageDelta({"input"})>>
    [] e.name = "tool_start" -> <<ToolDelta(e, {"call", "index"}, TRUE, FALSE)>>
    [] e.name = "tool_part" -> <<ToolDelta(e, {"index"}, FALSE, FALSE)>>
    [] e.name \in {"thinking", "signature"} -> <<StateDelta(e)>>
    [] e.name = "message_delta" -> <<UsageDelta({"output"}), FinishDelta(upstream.open # <<>>)>>
    [] OTHER -> <<Delta(e.name)>>

(* output_item.added names the call; a delta or a done event of its        *)
(* arguments carries the item and the index only.                          *)
ResponsesDeltas(e) ==
  CASE e.name = "tool_start" -> <<ToolDelta(e, {"item", "call", "index"}, TRUE, FALSE)>>
    [] e.name = "tool_part" -> <<ToolDelta(e, {"item", "index"}, FALSE, FALSE)>>
    [] e.name = "arguments_done" -> <<ToolDelta(e, {"item", "index"}, FALSE, TRUE)>>
    [] e.name = "item_done" -> <<ToolDelta(e, {"item", "call", "index"}, TRUE, TRUE)>>
    [] e.name = "reasoning_item" -> <<StateDelta(e)>>
    [] OTHER -> <<Delta(e.name)>>

CanonicalDeltas(e) ==
  CASE target = "chat" -> ChatDeltas(e)
    [] target = "messages" -> MessagesDeltas(e)
    [] target = "responses" -> ResponsesDeltas(e)

(* The deltas of the event that ends the upstream's stream: [DONE] and     *)
(* message_stop carry none.                                                *)
EndDeltas ==
  IF target = "responses"
  THEN <<UsageDelta({"input", "output"}), FinishDelta(stream.calls # <<>>)>> ELSE <<>>

(***************************************************************************)
(* The encoders.  A result carries the state, the frames written and       *)
(* whether the relay goes on.                                              *)
(***************************************************************************)
NewStream == [started |-> FALSE, contentStarted |-> FALSE, reasoningStarted |-> FALSE,
              nextIndex |-> 0, messageIndex |-> -1, reasoningIndex |-> -1, outputOrder |-> <<>>,
              activeKind |-> "", activeIndex |-> 0, calls |-> <<>>, aliases |-> <<>>,
              toolsWritten |-> FALSE, details |-> <<>>, text |-> 0, reasoning |-> 0,
              usage |-> {}, finish |-> "stop"]

Frame(type) == [type |-> type, kind |-> "", index |-> -1, id |-> NoCall, args |-> <<>>,
                detail |-> NoDetail, usage |-> {}, items |-> <<>>, finish |-> ""]
Indexed(type, kind, index) == [Frame(type) EXCEPT !.kind = kind, !.index = index]

Wrote(s, frames) == [stream |-> s, frames |-> frames, ok |-> TRUE]
Refused(s, frames) == [stream |-> s, frames |-> frames, ok |-> FALSE]

NewCall == [id |-> NoCall, args |-> <<>>, index |-> -1, finalArguments |-> FALSE, deltaArguments |-> FALSE]

(* applyToolDelta: the call a delta is about is found by any of its        *)
(* aliases; complete arguments supersede the fragments.                    *)
CallOf(s, d) ==
  LET known == d.aliases \cap DOMAIN s.aliases
  IN IF known = {} THEN Len(s.calls) + 1 ELSE s.aliases[CHOOSE a \in known : TRUE]

TooManyCalls(s, d) == CallOf(s, d) > Len(s.calls) /\ Len(s.calls) >= MaxToolCalls

ApplyToolDelta(s, d) ==
  LET at == CallOf(s, d)
      calls == IF at > Len(s.calls) THEN Append(s.calls, NewCall) ELSE s.calls
  IN [s EXCEPT
       !.calls = [calls EXCEPT ![at].id = IF d.id # NoCall THEN d.id ELSE @,
                               ![at].args = IF d.final THEN d.args ELSE @ \o d.args],
       !.aliases = [a \in d.aliases \cup DOMAIN s.aliases |-> IF a \in d.aliases THEN at ELSE s.aliases[a]]]

Keep(s, d) == IF d.kind = "reasoning_state" THEN [s EXCEPT !.details = Append(@, d.detail)] ELSE s
AccumulateUsage(s, d) == [s EXCEPT !.usage = @ \cup d.usage]

(* A Chat client. *)
RepeatsFinal(s, d) == d.final /\ s.calls[CallOf(s, d)].finalArguments

Repeats(s, d) ==
  LET call == s.calls[CallOf(s, d)] IN d.final /\ (call.finalArguments \/ call.deltaArguments)

MarkArguments(s, d) ==
  [s EXCEPT !.calls[CallOf(s, d)] =
     IF d.final THEN [@ EXCEPT !.finalArguments = TRUE]
     ELSE IF d.args # <<>> THEN [@ EXCEPT !.deltaArguments = TRUE] ELSE @]

ToolChunk(s, d) ==
  LET t == ApplyToolDelta(s, d)
  IN IF Repeats(t, d) THEN Wrote(t, <<>>)
     ELSE Wrote(MarkArguments(t, d),
                <<[Indexed("chunk", "tool", CallOf(t, d)) EXCEPT !.id = d.id, !.args = d.args]>>)

ToChat(was, d) ==
  LET s == [was EXCEPT !.started = TRUE]
      u == AccumulateUsage(s, d)
  IN CASE d.kind = "tool" -> IF TooManyCalls(s, d) THEN Refused(s, <<>>) ELSE ToolChunk(s, d)
       [] d.kind = "usage" -> Wrote(u, <<[Frame("chunk") EXCEPT !.kind = "usage", !.usage = u.usage]>>)
       [] OTHER -> Wrote(s, <<[Frame("chunk") EXCEPT !.kind = d.kind, !.detail = d.detail,
                                 !.finish = IF d.kind = "finish" THEN d.finish ELSE ""]>>)

(* A Messages client: at most one block is open; the calls wait for the    *)
(* finish and are then written whole.                                      *)
CloseBlock(s) == IF s.activeKind = "" THEN <<>> ELSE <<Indexed("block_stop", s.activeKind, s.activeIndex)>>
Shut(s) == [s EXCEPT !.activeKind = ""]

OpenBlock(s, kind) ==
  [s EXCEPT !.activeKind = kind, !.activeIndex = s.nextIndex, !.nextIndex = @ + 1,
            !.contentStarted = @ \/ kind = "text", !.reasoningStarted = @ \/ kind = "reasoning"]

BlockDelta(s, kind) ==
  IF s.activeKind = kind THEN Wrote(s, <<Indexed("block_delta", kind, s.activeIndex)>>)
  ELSE Wrote(OpenBlock(s, kind),
             CloseBlock(s) \o <<Indexed("block_start", kind, s.nextIndex), Indexed("block_delta", kind, s.nextIndex)>>)

StateBlock(s, d) ==
  CASE d.detail[1] # "claude" -> Refused(s, <<>>)
    [] d.detail[1] = "claude" /\ d.detail[2] = "signed" /\ s.activeKind = "reasoning" ->
         Wrote(s, <<[Indexed("block_delta", "signature", s.activeIndex) EXCEPT !.detail = d.detail]>>)
    [] OTHER -> Wrote(OpenBlock(s, "reasoning"),
                      CloseBlock(s) \o <<[Indexed("block_start", "reasoning", s.nextIndex) EXCEPT !.detail = d.detail]>>)

ToolBlock(call, index) ==
  <<[Indexed("block_start", "tool", index) EXCEPT !.id = call.id]>>
  \o (IF call.args = <<>> THEN <<>> ELSE <<[Indexed("block_delta", "tool", index) EXCEPT !.args = call.args]>>)
  \o <<Indexed("block_stop", "tool", index)>>

FinishMessages(s, finish) ==
  LET tools == IF s.toolsWritten THEN <<>>
               ELSE FlattenSeq([i \in DOMAIN s.calls |-> ToolBlock(s.calls[i], s.nextIndex + i - 1)])
  IN Wrote([Shut(s) EXCEPT !.toolsWritten = TRUE,
                           !.nextIndex = IF s.toolsWritten THEN @ ELSE @ + Len(s.calls)],
           CloseBlock(s) \o tools \o <<[Frame("message_delta") EXCEPT !.finish = finish, !.usage = s.usage]>>)

ToMessages(was, d) ==
  LET s == [was EXCEPT !.started = TRUE]
      first == IF was.started THEN <<>> ELSE <<Frame("message_start")>>
      rest == CASE d.kind = "usage" -> Wrote(AccumulateUsage(s, d), <<>>)
                [] d.kind \in {"text", "reasoning"} -> BlockDelta(s, d.kind)
                [] d.kind = "reasoning_state" -> StateBlock(s, d)
                [] d.kind = "tool" -> IF TooManyCalls(s, d) THEN Refused(s, <<>>)
                                      ELSE Wrote(ApplyToolDelta(s, d), <<>>)
                [] d.kind = "finish" -> FinishMessages(s, d.finish)
  IN [rest EXCEPT !.frames = first \o @]

(* A Responses client: one message item, one reasoning item, one item per  *)
(* call, numbered as they first appear.                                    *)
AddItem(s, kind, id) ==
  Wrote([s EXCEPT !.nextIndex = @ + 1, !.outputOrder = Append(@, [kind |-> kind, call |-> 0])],
        <<[Indexed("item_added", kind, s.nextIndex) EXCEPT !.id = id]>>)

TextItem(s) ==
  LET add == IF s.contentStarted THEN Wrote(s, <<>>)
             ELSE LET a == AddItem(s, "message", NoCall)
                  IN [a EXCEPT !.stream.contentStarted = TRUE, !.stream.messageIndex = s.nextIndex]
  IN IF s.text >= MaxText THEN Refused(add.stream, add.frames)
     ELSE Wrote([add.stream EXCEPT !.text = @ + 1],
                Append(add.frames, Indexed("item_delta", "message", add.stream.messageIndex)))

ReasoningItem(s) ==
  LET add == IF s.reasoningStarted THEN Wrote(s, <<>>)
             ELSE LET a == AddItem(s, "reasoning", NoCall)
                  IN [a EXCEPT !.stream.reasoningStarted = TRUE, !.stream.reasoningIndex = s.nextIndex]
  IN IF s.reasoning >= MaxText THEN Refused(add.stream, add.frames)
     ELSE Wrote([add.stream EXCEPT !.reasoning = @ + 1],
                Append(add.frames, Indexed("item_delta", "reasoning", add.stream.reasoningIndex)))

ToolItem(s, d) ==
  LET t == ApplyToolDelta(s, d)
      at == CallOf(t, d)
      add == IF t.calls[at].index >= 0 THEN Wrote(t, <<>>)
             ELSE LET a == AddItem(t, "tool", d.id)
                  IN [a EXCEPT !.stream.calls[at].index = t.nextIndex,
                               !.stream.outputOrder[Len(t.outputOrder) + 1].call = at]
  IN Wrote(add.stream,
           add.frames \o (IF d.args = <<>> THEN <<>>
                          ELSE <<[Indexed("item_delta", "tool", add.stream.calls[at].index)
                                    EXCEPT !.args = d.args]>>))

ToResponses(was, d) ==
  LET s == [was EXCEPT !.started = TRUE]
      first == IF was.started THEN <<>> ELSE <<Frame("created")>>
      rest == CASE d.kind = "text" -> TextItem(s)
                [] d.kind = "reasoning" -> ReasoningItem(s)
                [] d.kind = "tool" -> IF TooManyCalls(s, d) THEN Refused(s, <<>>) ELSE ToolItem(s, d)
                [] d.kind = "reasoning_state" /\ d.detail[1] # "openai" -> Refused(s, <<>>)
                [] OTHER -> Wrote(s, <<>>)
  IN [rest EXCEPT !.frames = first \o @]

WriteTranslatedEvent(s, d) ==
  CASE incoming = "chat" -> ToChat(Keep(s, d), d)
    [] incoming = "messages" -> ToMessages(Keep(s, d), d)
    [] incoming = "responses" -> ToResponses(Keep(s, d), d)

(***************************************************************************)
(* writeStreamDone.                                                        *)
(***************************************************************************)
EncryptedOf(s) ==
  LET kept == {d \in Range(s.details) : d[2] = "encrypted"}
  IN IF kept = {} THEN NoDetail ELSE CHOOSE d \in kept : TRUE

DoneReasoning(s) ==
  LET enc == EncryptedOf(s)
      item(i) == <<[Indexed("item_done", "reasoning", i) EXCEPT !.detail = enc]>>
  IN CASE s.reasoningStarted -> item(s.reasoningIndex)
       [] ~s.reasoningStarted /\ enc # NoDetail -> item(s.nextIndex)
       [] OTHER -> <<>>

DoneCalls(s) ==
  [i \in DOMAIN s.calls |->
     [Indexed("item_done", "tool", s.calls[i].index) EXCEPT !.id = s.calls[i].id, !.args = s.calls[i].args]]

DoneMessage(s) == IF s.messageIndex >= 0 THEN <<Indexed("item_done", "message", s.messageIndex)>> ELSE <<>>

(* The output of the completed response: the items in the order they were  *)
(* numbered, whichever of the code's three branches assembles it.          *)
Output(s) ==
  [i \in DOMAIN s.outputOrder |->
     LET o == s.outputOrder[i]
     IN [kind |-> o.kind,
         id |-> IF o.kind = "tool" THEN s.calls[o.call].id ELSE NoCall,
         args |-> IF o.kind = "tool" THEN s.calls[o.call].args ELSE <<>>,
         detail |-> IF o.kind = "reasoning" THEN EncryptedOf(s) ELSE NoDetail]]

StreamDone(s) ==
  CASE incoming = "chat" -> <<Frame("done")>>
    [] incoming = "messages" ->
         (IF ~s.started \/ (~s.toolsWritten /\ s.calls # <<>>)
          THEN ToMessages(s, FinishDelta(FALSE)).frames ELSE CloseBlock(s))
         \o <<Frame("message_stop")>>
    [] incoming = "responses" ->
         DoneReasoning(s) \o DoneCalls(s) \o DoneMessage(s)
         \o <<[Frame("completed") EXCEPT !.items = Output(s), !.usage = s.usage]>>

(***************************************************************************)
(* relayNonstreamFromSSE: the deltas are folded without writing a frame.   *)
(***************************************************************************)
ApplyDelta(s, d) ==
  CASE d.kind = "text" -> IF s.text >= MaxText THEN Refused(s, <<>>) ELSE Wrote([s EXCEPT !.text = @ + 1], <<>>)
    [] d.kind = "reasoning" ->
         IF s.reasoning >= MaxText THEN Refused(s, <<>>) ELSE Wrote([s EXCEPT !.reasoning = @ + 1], <<>>)
    [] d.kind = "reasoning_state" -> Wrote([s EXCEPT !.details = Append(@, d.detail)], <<>>)
    [] d.kind = "tool" -> IF TooManyCalls(s, d) THEN Refused(s, <<>>) ELSE Wrote(ApplyToolDelta(s, d), <<>>)
    [] d.kind = "finish" -> Wrote([s EXCEPT !.finish = d.finish], <<>>)
    [] d.kind = "usage" -> Wrote(s, <<>>)

AggregatedBody(s, counted) ==
  [Frame("body") EXCEPT
     !.items = [i \in DOMAIN s.calls |-> [kind |-> "tool", id |-> s.calls[i].id,
                                          args |-> s.calls[i].args, detail |-> NoDetail]],
     !.usage = counted, !.finish = IF s.calls # <<>> THEN "tool_calls" ELSE s.finish]

(***************************************************************************)
(* The relay.                                                              *)
(***************************************************************************)
Handle(r, d) ==
  IF ~r.ok THEN r
  ELSE LET w == IF how = "stream" THEN WriteTranslatedEvent(r.stream, d) ELSE ApplyDelta(r.stream, d)
       IN [w EXCEPT !.frames = r.frames \o @]

Relayed(deltas) == FoldLeft(Handle, Wrote(stream, out), deltas)

ProbeDeltaHasOutput(d) ==
  \/ d.kind \in {"text", "reasoning"}
  \/ d.kind = "reasoning_state" /\ d.detail # NoDetail
  \/ d.kind = "tool" /\ (d.id # NoCall \/ d.args # <<>>)

Probed(deltas, otherwise) ==
  CASE probe # "undecided" -> probe
    [] \E i \in DOMAIN deltas : ProbeDeltaHasOutput(deltas[i]) -> "output"
    [] OTHER -> otherwise

TranslationInit ==
  /\ incoming \in Protocols /\ target \in Protocols /\ incoming # target
  /\ how \in {"stream", "aggregate"}
  /\ upstream = Silent /\ stream = NewStream /\ out = <<>>
  /\ outcome = "open" /\ probe = "undecided"

(* A failure the relay returns is told to the client on the stream, or as  *)
(* an error response where nothing was streamed.                           *)
FailWith(frames) == out' = Append(frames, Frame("failure")) /\ outcome' = "failed"

RelayEvent ==
  /\ outcome = "open" /\ upstream.said < MaxEvents
  /\ \E e \in UpstreamEvents :
       /\ e.detail # NoDetail /\ e.name # "signature" => upstream.kept = NoDetail
       /\ upstream' = Says(e)
       /\ LET deltas == CanonicalDeltas(e)
              r == Relayed(deltas)
          IN /\ stream' = r.stream
             /\ probe' = Probed(deltas, probe)
             /\ IF r.ok THEN out' = r.frames /\ outcome' = outcome ELSE FailWith(r.frames)
  /\ UNCHANGED <<incoming, target, how>>

(* [DONE], message_stop or response.completed.                             *)
MayEnd ==
  /\ AllComplete
  /\ target = "messages" => upstream.finished

UpstreamDone ==
  /\ outcome = "open" /\ MayEnd
  /\ LET r == Relayed(EndDeltas)
         counted == IF target = "responses" THEN {"input", "output"} ELSE upstream.usage
     IN /\ stream' = r.stream
        /\ upstream' = [upstream EXCEPT !.usage = counted]
        /\ probe' = Probed(EndDeltas, "empty")
        /\ outcome' = "done"
        /\ out' = r.frames \o (IF how = "stream" THEN StreamDone(r.stream)
                               ELSE <<AggregatedBody(r.stream, counted)>>)
  /\ UNCHANGED <<incoming, target, how>>

(* An error event or a finish_reason "error". *)
UpstreamError ==
  /\ outcome = "open"
  /\ FailWith(out) /\ probe' = Probed(<<>>, "error")
  /\ UNCHANGED <<incoming, target, how, upstream, stream>>

(* The body ends early: an error for a stream, the end of the answer for   *)
(* an aggregation.                                                         *)
UpstreamEOF ==
  /\ outcome = "open" /\ probe' = Probed(<<>>, "empty")
  /\ IF how = "stream" THEN FailWith(out)
     ELSE out' = <<AggregatedBody(stream, upstream.usage)>> /\ outcome' = "cut"
  /\ UNCHANGED <<incoming, target, how, upstream, stream>>

TranslationNext == RelayEvent \/ UpstreamDone \/ UpstreamError \/ UpstreamEOF

TranslationSpec == TranslationInit /\ [][TranslationNext]_translationVars

-----------------------------------------------------------------------------
TranslationTypeOK ==
  /\ incoming \in Protocols /\ target \in Protocols /\ how \in {"stream", "aggregate"}
  /\ outcome \in {"open", "done", "failed", "cut"}
  /\ probe \in {"undecided", "output", "error", "empty"}
  /\ stream.nextIndex \in Nat /\ stream.activeKind \in {"", "text", "reasoning"}
  /\ \A a \in DOMAIN stream.aliases : stream.aliases[a] \in DOMAIN stream.calls

Frames(type) == SelectSeq(out, LAMBDA f : f.type = type)
Of(type, kind) == SelectSeq(out, LAMBDA f : f.type = type /\ f.kind = kind)
ArgsAt(frames, i) == FlattenSeq([n \in DOMAIN frames |-> IF frames[n].index = i THEN frames[n].args ELSE <<>>])
IdAt(frames, i) == {frames[n].id : n \in {m \in DOMAIN frames : frames[m].index = i}} \ {NoCall}

(* What a client of each protocol assembles: at every index the ids it was *)
(* told and the arguments it joined together.                              *)
Assembled(naming, filling) ==
  [i \in {naming[n].index : n \in DOMAIN naming} |-> <<IdAt(naming, i), ArgsAt(filling, i)>>]

ShownCalls ==
  CASE how = "aggregate" -> [i \in DOMAIN Frames("body")[1].items |->
                               <<{Frames("body")[1].items[i].id}, Frames("body")[1].items[i].args>>]
    [] how = "stream" /\ incoming = "chat" -> Assembled(Of("chunk", "tool"), Of("chunk", "tool"))
    [] how = "stream" /\ incoming = "messages" -> Assembled(Of("block_start", "tool"), Of("block_delta", "tool"))
    [] how = "stream" /\ incoming = "responses" -> Assembled(Of("item_added", "tool"), Of("item_delta", "tool"))

IsOneCopy(shown) ==
  /\ Cardinality(DOMAIN shown) = Len(upstream.open)
  /\ {shown[i] : i \in DOMAIN shown} = {<<{c}, Fragments>> : c \in Announced}

(* Whatever mix of fragments and complete payloads the upstream sent, and  *)
(* however parallel calls were interleaved, a client that saw the stream   *)
(* end holds every call once with one copy of its arguments; a Responses   *)
(* client reads the same in the done items and in the completed response   *)
(* (writeTranslatedEvent, applyToolDelta, aggregatedNonstreamChat).        *)
ArgumentsOnce ==
  outcome = "done" =>
    /\ IsOneCopy(ShownCalls)
    /\ (how = "stream" /\ incoming = "responses") =>
         /\ IsOneCopy(Assembled(Of("item_done", "tool"), Of("item_done", "tool")))
         /\ {<<{x.id}, x.args>> : x \in {y \in Range(Frames("completed")[1].items) : y.kind = "tool"}}
              = {<<{c}, Fragments>> : c \in Announced}

(* The blocks of a Messages stream as its client reads them: the open      *)
(* block, -1 for none, -2 once a frame did not fit.                        *)
OpenAfter(open, f) ==
  CASE f.type = "block_start" -> IF open = -1 THEN f.index ELSE -2
    [] f.type = "block_delta" -> IF open = f.index THEN open ELSE -2
    [] f.type = "block_stop" -> IF open = f.index THEN -1 ELSE -2
    [] f.type \in {"message_delta", "message_stop"} -> IF open = -1 THEN -1 ELSE -2
    [] OTHER -> open

Starts == Frames("block_start")
Added == Frames("item_added")

(* A Messages client never sees a delta outside its block, two blocks open *)
(* at once, an index twice, or a message that stops with a block open; a   *)
(* Responses client never sees a delta or a done of an item it was not     *)
(* told of (closeMessagesBlock, nextIndex, outputOrder).                   *)
WellFramed ==
  how = "stream" =>
    /\ FoldLeft(OpenAfter, -1, out) # -2
    /\ \A i \in DOMAIN Starts : Starts[i].index = i - 1
    /\ \A i \in DOMAIN Added : Added[i].index = i - 1
    /\ \A i \in DOMAIN out :
         out[i].type \in {"item_delta", "item_done"} =>
           \/ \E j \in 1..(i - 1) : out[j].type = "item_added" /\ out[j].index = out[i].index
                                    /\ out[j].kind = out[i].kind
           \/ out[i].type = "item_done" /\ out[i].kind = "reasoning" /\ ~stream.reasoningStarted
    /\ (outcome = "done" /\ incoming = "responses") =>
         \A i \in DOMAIN Added : \E f \in Range(Frames("item_done")) : f.index = Added[i].index

(* A target the probe gives up as empty showed the client nothing: the     *)
(* next target's answer is never appended to part of this one's            *)
(* (probeUpstreamOutput against the relay's own reading).                  *)
EmptyShowsNothing ==
  probe = "empty" =>
    /\ \A i \in DOMAIN out : out[i].type \notin {"block_start", "block_delta", "item_added", "item_delta"}
                             /\ (out[i].type = "chunk" => out[i].kind \in {"usage", "finish"})
    /\ stream.calls = <<>> /\ stream.text = 0 /\ stream.reasoning = 0

UsageShown(type) == \E f \in Range(Frames(type)) : f.usage = {"input", "output"}

(* Once an upstream has counted the tokens of a stream that ended, a Chat  *)
(* client and the reader of an aggregated body are told both counts        *)
(* (accumulateUsage, chatUsageDelta).                                      *)
UsageReachesChat ==
  (outcome = "done" /\ upstream.usage = {"input", "output"} /\ (incoming = "chat" \/ how = "aggregate")) =>
     UsageShown("chunk") \/ UsageShown("body")

(* translate.go:2584: "The completed event is where SDKs read usage": a    *)
(* Responses client finds both counts there.  Its branch of                *)
(* writeTranslatedEvent drops them, whenever they arrive.                  *)
UsageReachesResponses ==
  (outcome = "done" /\ probe = "output" /\ upstream.usage = {"input", "output"} /\ how = "stream" /\ incoming = "responses") =>
     UsageShown("completed")

(* "the encrypted reasoning state must be on THIS item": of a stream whose *)
(* only reasoning is encrypted, no item of the completed response has it.  *)
EncryptedStateCompletes ==
  (outcome = "done" /\ how = "stream" /\ incoming = "responses"
     /\ \E d \in Range(stream.details) : d[2] = "encrypted") =>
     \E x \in Range(Frames("completed")[1].items) : x.detail # NoDetail

(* "Plain text thinking and Responses summaries are portable": state that  *)
(* is neither signed nor encrypted fails no stream.                        *)
PlainReasoningIsPortable ==
  [][(how = "stream" /\ outcome' = "failed" /\ upstream' # upstream /\ upstream'.kept # upstream.kept)
       => upstream'.kept[2] # "readable"]_translationVars

(* What the translation of a stream promises as a whole.                   *)
TranslationHolds ==
  TranslationTypeOK /\ ArgumentsOnce /\ WellFramed /\ EmptyShowsNothing /\ UsageReachesChat
=============================================================================
