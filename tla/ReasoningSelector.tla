-------------------------- MODULE ReasoningSelector --------------------------
(***************************************************************************)
(* The reasoning controls of one attempt: what a client asked for, in the  *)
(* words of its protocol, becomes a canonical selector and then the        *)
(* controls of the target, limited to what the target's model advertises   *)
(* (extractReasoningSelector, ExtractReasoningOptions,                     *)
(* applyReasoningSelector, injectChatDisable and their use in the attempt  *)
(* loop of client.go).  The decision is a function of the request and the  *)
(* target; TLC evaluates it on all of them.                                *)
(*                                                                         *)
(* Efforts are "none", "low", "high"; token budgets 1..TopBudget stand for *)
(* numbers below, at and above Floor (the 1024 of messagesDefaultBudget).  *)
(***************************************************************************)
EXTENDS Naturals, Sequences, FiniteSetsExt

CONSTANTS Floor, TopBudget, Unset

ASSUME SelectorAssumption ==
  /\ Floor \in Nat \ {0} /\ TopBudget \in Nat /\ Floor < TopBudget
  /\ Unset \notin 0..TopBudget

VARIABLES wish, sent

selectorVars == <<wish, sent>>

(* What a request says about reasoning, in either direction: the effort,   *)
(* an effort nested in Chat's reasoning object, the switch (enabled or     *)
(* thinking.type) and the token budget.                                    *)
NoWish == [effort |-> "", nested |-> "", switch |-> "", budget |-> Unset]

ChatWishes ==
  [effort : {"", "none", "high"}, nested : {"", "low"}, switch : {"", "on", "off"}, budget : {Unset, 1, TopBudget}]
ResponsesWishes ==
  [effort : {"", "none", "high"}, nested : {""}, switch : {""}, budget : {Unset}]
MessagesWishes ==
  [effort : {"", "none", "high"}, nested : {""}, switch : {"", "on", "off", "adaptive"},
   budget : {Unset, 1, TopBudget}]

WishesOf(from) ==
  CASE from = "chat" -> ChatWishes [] from = "responses" -> ResponsesWishes [] from = "messages" -> MessagesWishes

(***************************************************************************)
(* What the catalogue knows of the target's model: nothing (nil), or its   *)
(* options, one record each, its thinking modes, whether it always reasons *)
(* and its default effort.  An effort option without values offers every   *)
(* effort, a budget option may leave either end open.                      *)
(***************************************************************************)
EffortOption(values) == [type |-> "effort", values |-> values, min |-> Unset, max |-> Unset]
BudgetOption(min, max) == [type |-> "budget_tokens", values |-> {}, min |-> min, max |-> max]
ToggleOption == [type |-> "toggle", values |-> {}, min |-> Unset, max |-> Unset]

Unknown == [known |-> FALSE, options |-> <<>>, modes |-> {}, mandatory |-> FALSE, default |-> ""]

EffortLists ==
  {<<>>, <<EffortOption({})>>, <<EffortOption({"high"})>>, <<EffortOption({"none", "high"})>>,
   <<EffortOption({"none", "high"}), EffortOption({"high"})>>}
BudgetLists ==
  {<<>>, <<BudgetOption(Unset, Unset)>>, <<BudgetOption(Floor + 1, Unset)>>, <<BudgetOption(Unset, Floor)>>,
   <<BudgetOption(Floor + 1, TopBudget), BudgetOption(Floor, Floor)>>}
ToggleLists == {<<>>, <<ToggleOption>>}
OptionLists == {e \o b \o t : e \in EffortLists, b \in BudgetLists, t \in ToggleLists}

\* The writer of each protocol looks at the default effort or at the modes.
CapabilitiesOf(to) ==
  {Unknown} \cup
  [known : {TRUE}, options : OptionLists,
   modes : IF to = "messages" THEN SUBSET {"adaptive", "enabled"} ELSE {{}},
   mandatory : IF to = "chat" THEN BOOLEAN ELSE {FALSE},
   default : IF to = "chat" THEN {"", "none", "high"} ELSE {""}]

(***************************************************************************)
(* ExtractReasoningOptions: of several effort options the last one's       *)
(* values count, though any of them may allow the disabling; of several    *)
(* budgets the widest bounds do.                                           *)
(***************************************************************************)
OptionsOf(caps, type) == {i \in DOMAIN caps.options : caps.options[i].type = type}
MinsOf(caps) == {caps.options[i].min : i \in OptionsOf(caps, "budget_tokens")} \ {Unset}
MaxsOf(caps) == {caps.options[i].max : i \in OptionsOf(caps, "budget_tokens")} \ {Unset}

Extracted(caps) ==
  LET efforts == OptionsOf(caps, "effort")
  IN [effort   |-> efforts # {},
      efforts  |-> IF efforts = {} THEN {} ELSE caps.options[Max(efforts)].values,
      disable  |-> \E i \in efforts : "none" \in caps.options[i].values,
      budget   |-> OptionsOf(caps, "budget_tokens") # {},
      min      |-> IF MinsOf(caps) = {} THEN Unset ELSE Min(MinsOf(caps)),
      max      |-> IF MaxsOf(caps) = {} THEN Unset ELSE Max(MaxsOf(caps)),
      toggle   |-> OptionsOf(caps, "toggle") # {},
      adaptive |-> "adaptive" \in caps.modes,
      enabled  |-> "enabled" \in caps.modes]

EffortSupported(opts, e) == opts.effort /\ (opts.efforts = {} \/ e \in opts.efforts)
BudgetSupported(opts, b) ==
  /\ opts.budget
  /\ opts.min # Unset => b >= opts.min
  /\ opts.max # Unset => b <= opts.max
SupportsAny(opts) ==
  opts.effort \/ opts.budget \/ opts.toggle \/ opts.adaptive \/ opts.enabled

\* When support is unknown an effort or a budget is passed through.
EffortPasses(caps, e) == EffortSupported(Extracted(caps), e) \/ ~caps.known
BudgetPasses(caps, b) == BudgetSupported(Extracted(caps), b) \/ ~caps.known

(***************************************************************************)
(* The canonical selector.  The top-level effort of Chat goes before the   *)
(* nested one.                                                             *)
(***************************************************************************)
Selector(asked) ==
  [effort |-> IF asked.effort # "" THEN asked.effort ELSE asked.nested,
   mode |-> asked.switch, budget |-> asked.budget, present |-> asked # NoWish]

DisabledByMode(sel) == sel.mode = "off"
Disabled(sel) == sel.mode = "off" \/ sel.effort = "none"

\* Responses has no budget field to remove.
StrippedBody(body, to) ==
  [effort |-> "", nested |-> "", switch |-> "", budget |-> IF to = "responses" THEN body.budget ELSE Unset]

WithEffort(body, sel, caps) ==
  IF sel.effort # "" /\ EffortPasses(caps, sel.effort) THEN [body EXCEPT !.effort = sel.effort] ELSE body

(***************************************************************************)
(* applyChatReasoning, applyResponsesReasoning, applyMessagesReasoning.    *)
(***************************************************************************)
DisableByEffort(body, caps) ==
  IF EffortPasses(caps, "none") THEN [body EXCEPT !.effort = "none"]
  ELSE IF Extracted(caps).toggle THEN [body EXCEPT !.switch = "off"] ELSE body

DefaultEffortServes(caps) ==
  /\ caps.known /\ caps.default # "" /\ EffortSupported(Extracted(caps), caps.default)
  /\ ~(caps.mandatory /\ caps.default = "none")

TurnOnChat(body, sel, caps) ==
  CASE sel.mode = "on" /\ Extracted(caps).toggle -> [body EXCEPT !.switch = "on"]
    [] sel.mode = "on" /\ ~Extracted(caps).toggle /\ DefaultEffortServes(caps) ->
         [body EXCEPT !.effort = caps.default]
    [] sel.mode = "adaptive" /\ ~caps.known -> [body EXCEPT !.switch = "adaptive"]
    [] OTHER -> body

ChatControls(body, sel, caps) ==
  IF Disabled(sel) THEN DisableByEffort(body, caps)
  ELSE LET b == WithEffort(TurnOnChat(body, sel, caps), sel, caps)
       IN IF sel.budget # Unset /\ BudgetPasses(caps, sel.budget) THEN [b EXCEPT !.budget = sel.budget] ELSE b

ResponsesControls(body, sel, caps) ==
  IF Disabled(sel) THEN DisableByEffort(body, caps)
  ELSE LET switched == CASE sel.mode = "on" /\ Extracted(caps).toggle -> "on"
                         [] sel.mode = "adaptive" /\ ~caps.known -> "adaptive"
                         [] OTHER -> body.switch
       IN WithEffort([body EXCEPT !.switch = switched], sel, caps)

DefaultBudget(opts) == IF opts.min # Unset /\ opts.min > Floor THEN opts.min ELSE Floor
BudgetFits(budget, cap) == cap > 0 /\ budget < cap

\* A positive effort or a budget implies enabled thinking.
MessagesMode(sel) ==
  IF sel.mode = "" /\ (sel.effort # "" \/ sel.budget # Unset) THEN "on" ELSE sel.mode

MessagesControls(body, sel, caps, cap) ==
  LET opts == Extracted(caps)
      budget == IF sel.budget # Unset THEN sel.budget ELSE DefaultBudget(opts)
      bounded == opts.enabled \/ opts.toggle \/ opts.budget \/ ~caps.known
  IN CASE Disabled(sel) ->
            IF opts.disable \/ ~caps.known THEN [body EXCEPT !.switch = "off"] ELSE body
       [] ~Disabled(sel) /\ MessagesMode(sel) = "on" /\ ~opts.adaptive /\ bounded ->
            IF BudgetFits(budget, cap)
            THEN WithEffort([body EXCEPT !.switch = "on", !.budget = budget], sel, caps) ELSE body
       [] ~Disabled(sel) /\ (\/ MessagesMode(sel) = "on" /\ opts.adaptive
                             \/ MessagesMode(sel) = "adaptive" /\ (opts.adaptive \/ ~caps.known)) ->
            WithEffort([body EXCEPT !.switch = "adaptive"], sel, caps)
       [] OTHER -> WithEffort(body, sel, caps)

Controls(body, sel, w) ==
  CASE w.to = "chat" -> ChatControls(body, sel, w.caps)
    [] w.to = "responses" -> ResponsesControls(body, sel, w.caps)
    [] w.to = "messages" -> MessagesControls(body, sel, w.caps, w.cap)

ApplySelector(body, sel, w) ==
  CASE ~sel.present -> body
    [] sel.present /\ ~w.caps.known -> Controls(body, sel, w)
    [] sel.present /\ w.caps.known ->
         IF SupportsAny(Extracted(w.caps))
         THEN Controls(StrippedBody(body, w.to), sel, w) ELSE StrippedBody(body, w.to)

InjectDisable(body, caps) ==
  IF caps.known /\ ~caps.mandatory THEN DisableByEffort(body, caps) ELSE body

(***************************************************************************)
(* The attempt loop.  A translated body starts without controls.  From     *)
(* Chat to Chat the client's own body is sent: a plain request gets an     *)
(* explicit disable, a selector is checked against the target, and removed *)
(* when the target's capabilities are unknown.  The other two protocols    *)
(* reach a target that speaks them as the client wrote them.               *)
(***************************************************************************)
SentFor(w) ==
  LET sel == Selector(w.asked)
  IN CASE w.from # w.to -> ApplySelector(NoWish, sel, w)
       [] w.from = w.to /\ w.to = "chat" /\ ~sel.present -> InjectDisable(w.asked, w.caps)
       [] w.from = w.to /\ w.to = "chat" /\ sel.present ->
            IF w.caps.known THEN ApplySelector(w.asked, sel, w) ELSE StrippedBody(w.asked, w.to)
       [] OTHER -> w.asked

Undecided == [NoWish EXCEPT !.effort = "undecided"]

\* The output cap matters to Messages targets, which always have one: the
\* client's or the translation's default.
SelectorInit ==
  /\ \E from \in {"chat", "responses", "messages"}, to \in {"chat", "responses", "messages"} :
       \E asked \in WishesOf(from), caps \in CapabilitiesOf(to),
          cap \in (IF to = "messages" THEN {0, Floor, TopBudget + 1} ELSE {TopBudget}) :
         wish = [from |-> from, to |-> to, asked |-> asked, caps |-> caps, cap |-> cap]
  /\ sent = Undecided

Decide ==
  /\ sent = Undecided
  /\ sent' = SentFor(wish)
  /\ UNCHANGED wish

SelectorNext == Decide

SelectorSpec == SelectorInit /\ [][SelectorNext]_selectorVars

-----------------------------------------------------------------------------
Decided == sent # Undecided
AskedOff == wish.asked.effort = "none" \/ wish.asked.switch = "off"
Positive == {"low", "high"}
\* A body that is passed on in the client's own words is not mapped.
Mapped == wish.from # wish.to \/ wish.to = "chat"
Opts == Extracted(wish.caps)

(* "An explicit disable wins over all other selector parts": a request     *)
(* that turns reasoning off, by the switch or by the effort, sends no      *)
(* effort, switch or budget that turns it on (apply...Reasoning).          *)
DisableWins ==
  (Decided /\ Mapped /\ AskedOff) =>
    /\ sent.effort \notin Positive /\ sent.nested \notin Positive
    /\ sent.switch \notin {"on", "adaptive"}
    /\ sent.budget = Unset

(* "Unsupported selector parts are silently omitted": a target with known  *)
(* capabilities receives nothing its model does not advertise, whatever    *)
(* the client's own body held (stripReasoningSelectorMap).  A Messages     *)
(* budget is not compared with the advertised range.                       *)
OnlyAdvertised ==
  (Decided /\ Mapped /\ wish.caps.known) =>
    /\ sent.effort # "" => EffortSupported(Opts, sent.effort)
    /\ sent.nested = ""
    /\ wish.to # "messages" => (sent.switch # "" => Opts.toggle)
    /\ wish.to = "messages" =>
         /\ sent.switch = "adaptive" => Opts.adaptive
         /\ sent.switch = "off" => Opts.disable
         /\ sent.switch = "on" => Opts.enabled \/ Opts.toggle \/ Opts.budget
    /\ (sent.budget # Unset /\ wish.to # "messages") => BudgetSupported(Opts, sent.budget)

(* A thinking budget leaves room for the answer below the output cap, and  *)
(* thinking is only switched on together with a budget                     *)
(* (messagesBudgetFitsOutput).                                             *)
ThinkingLeavesRoom ==
  (Decided /\ Mapped /\ wish.to = "messages") =>
    /\ sent.switch = "on" <=> sent.budget # Unset
    /\ sent.budget # Unset => sent.budget < wish.cap

(* "The mapper must not send a disable value (effort:none / enabled:false) *)
(* to such targets" (isMandatoryReasoning).  The code asks this only for a *)
(* request without a selector: an explicit disable is sent.                *)
MandatoryNeverDisabled ==
  (Decided /\ Mapped /\ wish.caps.mandatory) => sent.effort # "none" /\ sent.switch # "off"

(* What the reasoning selector promises as a whole.                        *)
SelectorHolds == DisableWins /\ OnlyAdvertised /\ ThinkingLeavesRoom
=============================================================================
