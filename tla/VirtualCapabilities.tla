------------------------- MODULE VirtualCapabilities -------------------------
(***************************************************************************)
(* What the catalogue says of a virtual model: aggregateVirtualCapabilities*)
(* goes through the targets that can receive traffic, in the order of the  *)
(* chain, and puts together what is known of each; the entry built from it *)
(* is what a client plans its requests by, whichever target serves them.   *)
(*                                                                         *)
(* A pointer is a set, empty for nil.  `limit` stands for the context      *)
(* length and for the output limit, `flag` for the four capability flags.  *)
(* Parameters and aliases are unions for display and are left out.         *)
(***************************************************************************)
EXTENDS Integers, FiniteSets

CONSTANTS
  Members,     \* the targets of the virtual model
  Levels,      \* effort levels
  Canonical,   \* those providers.CanonicalEffortOrder names
  Limits,      \* lengths and budgets
  TargetViews        \* what may be known of a target

Maybe(S) == {{}} \cup {{x} : x \in S}
Selectors == {"effort", "toggle", "budget"}
ThinkingModes == {"adaptive", "enabled"}

\* providers.ReasoningCapabilities.  An effort selector without values is an
\* unrestricted one; `clients` counts when `narrowed` (ClientEfforts is not nil).
Report ==
  [options : SUBSET Selectors, values : SUBSET Levels, narrowed : BOOLEAN, clients : SUBSET Levels,
   least : Maybe(Limits), most : Maybe(Limits), modes : SUBSET ThinkingModes,
   mandatory : Maybe(BOOLEAN), enabled : Maybe(BOOLEAN), default : Maybe(Levels)]

HasEffort(c) == "effort" \in c.options
Unrestricted(c) == HasEffort(c) /\ c.values = {}

\* What discovery makes of a provider's list: clients are told fewer levels than
\* there are on the wire only where both are listed.
Coherent(c) ==
  /\ c \in Report
  /\ c.values # {} => HasEffort(c)
  /\ c.narrowed => c.values # {} /\ c.clients \subseteq c.values
  /\ c.least \cup c.most # {} => "budget" \in c.options

View ==
  [on : BOOLEAN, available : BOOLEAN, limit : Maybe(Limits), flag : Maybe(BOOLEAN),
   report : SUBSET Report]

AtMostOne(S) == \A x, y \in S : x = y

ASSUME CapabilitiesAssumption ==
  /\ Canonical \subseteq Levels /\ Limits \subseteq Nat
  /\ TargetViews \subseteq View /\ \A v \in TargetViews : AtMostOne(v.report) /\ \A c \in v.report : Coherent(c)

VARIABLES
  known,     \* what is known of each target
  merged,    \* the targets gone through
  summary,   \* aggregatedVirtualCapabilities, as far as they go
  entry      \* the catalogue entry, once it is built

capabilityVars == <<known, merged, summary, entry>>

-----------------------------------------------------------------------------
(* Two targets' reasoning capabilities.                                    *)
Smallest(S) == {x \in S : \A y \in S : x <= y}
Greatest(S) == {x \in S : \A y \in S : x >= y}

EitherMandatory(a, b) == {x \/ y : x \in a.mandatory, y \in b.mandatory}   \* a mutant

\* Mandatory only if both are, and unknown as soon as one is.
BothMandatory(a, b) == {x /\ y : x \in a.mandatory, y \in b.mandatory}

EitherEnabled(p, q) == IF p = {} THEN q ELSE IF q = {} THEN p ELSE {x \/ y : x \in p, y \in q}
FirstOf(p, q) == IF p # {} THEN p ELSE q

\* The levels the clients of a target are told, where it lists any.
Told(c) == IF c.narrowed THEN c.clients ELSE c.values

MergeReasoning(a, b) ==
  LET open == Unrestricted(a) \/ Unrestricted(b)
      narrow == ~open /\ (a.narrowed \/ b.narrowed)
  IN  [options |-> a.options \cup b.options,
       values |-> IF open THEN {} ELSE a.values \cup b.values,
       narrowed |-> narrow,
       clients |-> IF narrow THEN Told(a) \cup Told(b) ELSE {},
       least |-> Smallest(a.least \cup b.least), most |-> Greatest(a.most \cup b.most),
       modes |-> a.modes \cup b.modes,
       mandatory |-> BothMandatory(a, b), enabled |-> EitherEnabled(a.enabled, b.enabled),
       default |-> FirstOf(a.default, b.default)]

\* A target without a report does not contribute.
MergeReports(p, q) ==
  IF p = {} THEN q ELSE IF q = {} THEN p ELSE {MergeReasoning(a, b) : a \in p, b \in q}

-----------------------------------------------------------------------------
(* The loops over the targets, side by side.                               *)
NoSummary == [limit |-> {}, sure |-> TRUE, lacking |-> FALSE, unsure |-> FALSE, report |-> {}]

PositiveLimit(limit) == limit # {} /\ 0 \notin limit

AddTo(s, v) ==
  [limit |-> IF PositiveLimit(v.limit) /\ s.sure THEN Smallest(s.limit \cup v.limit) ELSE s.limit,
   sure |-> s.sure /\ PositiveLimit(v.limit),
   lacking |-> s.lacking \/ FALSE \in v.flag,
   unsure |-> s.unsure \/ v.flag = {},
   report |-> MergeReports(s.report, v.report)]

\* virtualTargetEligible, and the WHERE of VirtualTargetCapabilities.
TargetEligible(m) == known[m].on /\ known[m].available
Serving == {m \in Members : TargetEligible(m)}

\* What is left at the end of each loop.
FinalLimit == IF summary.sure THEN summary.limit ELSE {}
FinalFlag ==
  IF merged = {} THEN {} ELSE IF summary.lacking THEN {FALSE} ELSE IF summary.unsure THEN {} ELSE {TRUE}

-----------------------------------------------------------------------------
(* The entry, for clients of one protocol or the other.                    *)
CatalogueEfforts(c) ==
  IF c.narrowed THEN c.clients ELSE IF Unrestricted(c) THEN {} ELSE c.values

\* No reasoning is known, or it has no selector.
NoSelector == [effort |-> FALSE, efforts |-> {}, thinking |-> FALSE, least |-> {}, most |-> {},
               mandatory |-> {}]

ForAnthropic(c) ==
  [effort |-> HasEffort(c), efforts |-> CatalogueEfforts(c) \cap Canonical,
   thinking |-> "toggle" \in c.options \/ c.modes # {},
   least |-> {}, most |-> {}, mandatory |-> {}]

ForOpenAI(c) ==
  [effort |-> HasEffort(c), efforts |-> CatalogueEfforts(c), thinking |-> "toggle" \in c.options,
   least |-> c.least, most |-> c.most, mandatory |-> c.mandatory]

BuildCatalogueEntry(dialect) ==
  LET selector == IF dialect = "anthropic" THEN {ForAnthropic(c) : c \in summary.report}
                                           ELSE {ForOpenAI(c) : c \in summary.report}
  IN  [limit |-> FinalLimit, flag |-> FinalFlag, dialect |-> dialect,
       reasoning |-> IF selector = {} THEN {NoSelector} ELSE selector]

CapabilitiesInit ==
  /\ known \in [Members -> TargetViews]
  /\ merged = {} /\ summary = NoSummary /\ entry = {}

\* One round of the loops.
Aggregate(m) ==
  /\ entry = {} /\ m \in Serving \ merged
  /\ merged' = merged \cup {m} /\ summary' = AddTo(summary, known[m])
  /\ UNCHANGED <<known, entry>>

Publish(dialect) ==
  /\ entry = {} /\ merged = Serving
  /\ entry' = {BuildCatalogueEntry(dialect)}
  /\ UNCHANGED <<known, merged, summary>>

CapabilitiesNext ==
  \/ \E m \in Members : Aggregate(m)
  \/ \E dialect \in {"openai", "anthropic"} : Publish(dialect)

CapabilitiesSpec == CapabilitiesInit /\ [][CapabilitiesNext]_capabilityVars

-----------------------------------------------------------------------------
CapabilitiesTypeOK ==
  /\ known \in [Members -> TargetViews] /\ merged \subseteq Serving
  /\ summary.limit \in Maybe(Limits) /\ summary.sure \in BOOLEAN
  /\ summary.lacking \in BOOLEAN /\ summary.unsure \in BOOLEAN
  /\ summary.report \subseteq Report /\ AtMostOne(summary.report)

(* client.go:353-357: a published length is one every target takes, and a  *)
(* length that every target names is published.                            *)
LimitFitsAll(e) ==
  /\ \A n \in e.limit, m \in Serving : \E k \in known[m].limit : n <= k
  /\ Serving # {} /\ (\A m \in Serving : PositiveLimit(known[m].limit)) => e.limit # {}

(* A capability is claimed only if every target has it, and denied only if *)
(* one is known not to.                                                    *)
FlagIsProved(e) ==
  /\ TRUE \in e.flag => Serving # {} /\ \A m \in Serving : TRUE \in known[m].flag
  /\ FALSE \in e.flag <=> \E m \in Serving : FALSE \in known[m].flag

Reports == {m \in Serving : known[m].report # {}}
Tells(m, l) == \E c \in known[m].report : l \in IF c.narrowed THEN c.clients ELSE c.values
Open(m) == \E c \in known[m].report : Unrestricted(c)

(* virtual_capabilities.go:151-216: every level a client is told is one    *)
(* some target's own clients are told, so no level that a provider keeps   *)
(* for its wire is sent because of another target; an OpenAI client is     *)
(* told all of them, unless any is accepted somewhere.                     *)
EffortsAreServed(e) ==
  \A r \in e.reasoning :
    /\ \A l \in r.efforts : \E m \in Reports : Tells(m, l)
    /\ e.dialect = "openai" /\ r.efforts # {} =>
         \A m \in Reports, l \in Levels : Tells(m, l) => l \in r.efforts
    /\ e.dialect = "openai" /\ r.effort /\ r.efforts = {} =>
         (\E m \in Reports : Open(m)) \/ \A m \in Reports, l \in Levels : ~Tells(m, l)

(* The published budget is the widest known range: it has every bound a    *)
(* target names, and no other.                                             *)
BudgetIsWidest(e) ==
  e.dialect = "openai" =>
    \A r \in e.reasoning : \A m \in Reports : \A c \in known[m].report :
      /\ \A n \in c.least : \E k \in r.least : k <= n
      /\ \A n \in c.most : \E k \in r.most : k >= n

(* Reasoning is said to be mandatory only if it is for every target that   *)
(* reports any: the virtual model may serve plain chat otherwise.          *)
MandatoryForAll(e) ==
  \A r \in e.reasoning :
    TRUE \in r.mandatory => \A m \in Reports : \E c \in known[m].report : TRUE \in c.mandatory

CapabilitiesHold ==
  /\ CapabilitiesTypeOK
  /\ \A e \in entry :
       LimitFitsAll(e) /\ FlagIsProved(e) /\ EffortsAreServed(e) /\ BudgetIsWidest(e) /\ MandatoryForAll(e)
=============================================================================
