---------------------------- MODULE Notifications ----------------------------
(***************************************************************************)
(* Webhook notifications (server/notifications.go).  An event reads the    *)
(* settings and starts a goroutine, which is admitted (slots of the        *)
(* process and of the account, and in hosted mode an hourly budget), held  *)
(* back by the cooldown window of its key or by a delivery of that key in  *)
(* flight, posted, and on success opens the window.  Nothing is retried.   *)
(***************************************************************************)
EXTENDS Naturals, FiniteSets, FiniteSetsExt

CONSTANTS
  Tenants,            \* accounts
  RouteKeys,          \* routing events with their model: throttled
  AdminEvents,        \* key created or deleted, sign-in: not throttled
  Deliveries,         \* goroutines
  ProcessSlots, TenantSlots, HourlyBudget,
  HostedCooldown, LocalCooldowns,
  Hour,               \* the length of the budget's window
  LastMinute          \* a bound: the clock stops here

NotificationsAssumption ==
  /\ ProcessSlots \in Nat \ {0} /\ TenantSlots \in Nat \ {0} /\ HourlyBudget \in Nat \ {0}
  /\ HostedCooldown \in Nat \ {0} /\ LocalCooldowns \subseteq Nat
  /\ Hour \in Nat \ {0} /\ LastMinute \in Nat \ {0}
  /\ RouteKeys \cap AdminEvents = {} /\ RouteKeys # {} /\ Tenants # {}
ASSUME NotificationsAssumption

VARIABLES
  hosted,          \* the mode of the process
  cooldownSetting, \* CooldownSeconds as saved, by account
  delivery, admittedAll, admittedBy, inFlight,
  windowOf,        \* notifyLastSent
  charged,         \* the budget: how many stamps each minute has
  minute,
  lastPost,        \* history: when a key was last delivered, and the shortest
                   \* cooldown any event of it has had since
  posted           \* history: how many messages were posted each minute, in hosted mode
notifyVars == <<hosted, cooldownSetting, delivery, admittedAll, admittedBy, inFlight,
                windowOf, charged, minute, lastPost, posted>>

Topics == Tenants \X (RouteKeys \cup AdminEvents)
Throttled(topic) == topic[2] \in RouteKeys
Cooldowns == LocalCooldowns \cup {HostedCooldown}
Minutes == 0..LastMinute
DeliverySteps == {"idle", "raised", "admitted", "posting", "noted", "done"}
NoDelivery == [step |-> "idle", topic |-> <<CHOOSE t \in Tenants : TRUE, CHOOSE k \in RouteKeys : TRUE>>, cooldown |-> 0]
NoWindow == [sent |-> 0, until |-> 0]
Never == [at |-> 0, floor |-> 0]

NotificationsTypeOK ==
  /\ hosted \in BOOLEAN
  /\ cooldownSetting \in [Tenants -> Cooldowns]
  /\ delivery \in [Deliveries -> [step : DeliverySteps, topic : Topics, cooldown : Cooldowns \cup {0}]]
  /\ admittedAll \in 0..ProcessSlots /\ admittedBy \in [Tenants -> 0..TenantSlots]
  /\ inFlight \subseteq Topics
  /\ \A t \in Topics : windowOf[t].sent <= windowOf[t].until
  /\ charged \in [Tenants -> [Minutes -> 0..HourlyBudget]]
  /\ minute \in 1..LastMinute

NotificationsInit ==
  /\ hosted \in BOOLEAN
  /\ cooldownSetting \in [Tenants -> IF hosted THEN {HostedCooldown} ELSE LocalCooldowns]
  /\ delivery = [d \in Deliveries |-> NoDelivery]
  /\ admittedAll = 0 /\ admittedBy = [t \in Tenants |-> 0]
  /\ inFlight = {}
  /\ windowOf = [t \in Topics |-> NoWindow]
  /\ charged = [t \in Tenants |-> [m \in Minutes |-> 0]]
  /\ minute = 1
  /\ lastPost = [t \in Topics |-> Never]
  /\ posted = charged

slotVars == <<admittedAll, admittedBy, charged>>
keyVars == <<inFlight, windowOf, lastPost, posted>>
Topic(d) == delivery[d].topic
DeliveryMove(d, from, to) == delivery[d].step = from /\ delivery' = [delivery EXCEPT ![d].step = to]

\* maybeNotify and notifyAdminEvent read the settings as they are.
Raise(d, topic) ==
  /\ delivery[d].step = "idle"
  /\ delivery' = [delivery EXCEPT ![d] =
       [step |-> "raised", topic |-> topic, cooldown |-> cooldownSetting[topic[1]]]]
  /\ UNCHANGED <<hosted, cooldownSetting, slotVars, keyVars, minute>>

InWindow(m) == minute - m <= Hour
WithinHour(count) == MapThenSumSet(LAMBDA m : count[m], {m \in Minutes : m <= minute /\ InWindow(m)})
HasSlot(tenant) == admittedAll < ProcessSlots /\ admittedBy[tenant] < TenantSlots
WithinBudget(tenant) == ~hosted \/ WithinHour(charged[tenant]) < HourlyBudget

\* Stamps that are out of the window are forgotten.
AdmitNotification(d) ==
  LET tenant == Topic(d)[1] IN
  /\ HasSlot(tenant) /\ WithinBudget(tenant)
  /\ DeliveryMove(d, "raised", "admitted")
  /\ admittedAll' = admittedAll + 1
  /\ admittedBy' = [admittedBy EXCEPT ![tenant] = @ + 1]
  /\ charged' = IF hosted
                THEN [charged EXCEPT ![tenant] = [m \in Minutes |->
                       IF m = minute THEN @[m] + 1 ELSE IF m < minute /\ InWindow(m) THEN @[m] ELSE 0]]
                ELSE charged
  /\ UNCHANGED <<hosted, cooldownSetting, keyVars, minute>>

\* The notification is lost.
DropNotification(d) ==
  /\ ~(HasSlot(Topic(d)[1]) /\ WithinBudget(Topic(d)[1]))
  /\ delivery[d].step = "raised"
  /\ delivery' = [delivery EXCEPT ![d] = NoDelivery]
  /\ UNCHANGED <<hosted, cooldownSetting, slotVars, keyVars, minute>>

PruneWindows(windows) == [t \in Topics |-> IF minute < windows[t].until THEN windows[t] ELSE NoWindow]

\* A shorter setting counts from the delivery; a longer one changes nothing.
Shortened(window, cooldown) ==
  IF window # NoWindow /\ window.sent + cooldown < window.until
  THEN [window EXCEPT !.until = window.sent + cooldown] ELSE window

LeastOf(a, b) == IF a < b THEN a ELSE b

\* A mutant: a delivery in flight holds nobody back.
MayPostAnyway(topic, cooldown, windows) == cooldown = 0 \/ minute >= windows[topic].until
MayPost(topic, cooldown, windows) ==
  (cooldown = 0 \/ minute >= windows[topic].until) /\ topic \notin inFlight

\* Local mode has no budget to compare with.
Post(d) == posted' = IF hosted THEN [posted EXCEPT ![Topic(d)[1]][minute] = @ + 1] ELSE posted

\* The check and the reservation of a key, in one section.
ReserveTopic(d) ==
  LET topic == Topic(d)
      cooldown == delivery[d].cooldown
      pruned == PruneWindows(windowOf)
      windows == IF cooldown = 0 THEN pruned ELSE [pruned EXCEPT ![topic] = Shortened(@, cooldown)] IN
  /\ Throttled(topic)
  /\ windowOf' = windows
  /\ IF MayPost(topic, cooldown, windows)
     THEN DeliveryMove(d, "admitted", "posting") /\ inFlight' = inFlight \cup {topic} /\ Post(d)
     ELSE DeliveryMove(d, "admitted", "done") /\ UNCHANGED <<inFlight, posted>>
  /\ lastPost' = [lastPost EXCEPT ![topic].floor = LeastOf(@, cooldown)]
  /\ UNCHANGED <<hosted, cooldownSetting, slotVars, minute>>

PostAtOnce(d) ==
  /\ ~Throttled(Topic(d))
  /\ DeliveryMove(d, "admitted", "posting") /\ Post(d)
  /\ UNCHANGED <<hosted, cooldownSetting, slotVars, inFlight, windowOf, lastPost, minute>>

PostFails(d) ==
  /\ DeliveryMove(d, "posting", "noted")
  /\ UNCHANGED <<hosted, cooldownSetting, slotVars, keyVars, minute>>

\* Only a delivery that succeeded opens a window.
PostSucceeds(d) ==
  LET topic == Topic(d) IN
  /\ DeliveryMove(d, "posting", "noted")
  /\ IF Throttled(topic)
     THEN /\ windowOf' = [windowOf EXCEPT ![topic] = [sent |-> minute, until |-> minute + delivery[d].cooldown]]
          /\ lastPost' = [lastPost EXCEPT ![topic] = [at |-> minute, floor |-> delivery[d].cooldown]]
     ELSE UNCHANGED <<windowOf, lastPost>>
  /\ UNCHANGED <<hosted, cooldownSetting, slotVars, inFlight, posted, minute>>

\* The deferred calls, last first: the key, then the slots.
FreeTopic(d) ==
  /\ DeliveryMove(d, "noted", "done")
  /\ inFlight' = IF Throttled(Topic(d)) THEN inFlight \ {Topic(d)} ELSE inFlight
  /\ UNCHANGED <<hosted, cooldownSetting, slotVars, windowOf, lastPost, posted, minute>>

ReleaseNotification(d) ==
  /\ delivery[d].step = "done"
  /\ delivery' = [delivery EXCEPT ![d] = NoDelivery]
  /\ admittedAll' = admittedAll - 1
  /\ admittedBy' = [admittedBy EXCEPT ![Topic(d)[1]] = @ - 1]
  /\ UNCHANGED <<hosted, cooldownSetting, charged, keyVars, minute>>

\* In hosted mode the value that is read is clamped whatever is saved.
SaveCooldown(tenant) ==
  /\ ~hosted
  /\ \E c \in LocalCooldowns : cooldownSetting' = [cooldownSetting EXCEPT ![tenant] = c]
  /\ UNCHANGED <<hosted, delivery, slotVars, keyVars, minute>>

NextMinute ==
  /\ minute < LastMinute
  /\ minute' = minute + 1
  /\ UNCHANGED <<hosted, cooldownSetting, delivery, slotVars, keyVars>>

NotificationsNext ==
  \/ \E d \in Deliveries :
       \/ \E topic \in Topics : Raise(d, topic)
       \/ AdmitNotification(d) \/ DropNotification(d)
       \/ ReserveTopic(d) \/ PostAtOnce(d)
       \/ PostFails(d) \/ PostSucceeds(d) \/ FreeTopic(d) \/ ReleaseNotification(d)
  \/ \E tenant \in Tenants : SaveCooldown(tenant)
  \/ NextMinute

NotificationsSpec == NotificationsInit /\ [][NotificationsNext]_notifyVars

-----------------------------------------------------------------------------
(* A burst of failures of one model tells its owner once per cooldown:     *)
(* between two deliveries of a key lies the shortest cooldown that any     *)
(* event of that key has had in between, whatever is in flight, saved or   *)
(* pruned meanwhile.                                                       *)
OnePerWindow(d) ==
  LET topic == Topic(d) IN
  /\ delivery[d].step = "posting" /\ delivery'[d].step = "noted"
  /\ windowOf'[topic].sent = minute /\ lastPost[topic].at > 0
  => minute >= lastPost[topic].at + lastPost[topic].floor

(* Every admitted goroutine holds one slot of the process and one of its   *)
(* account, and every return path gives both back.                         *)
SlotsMatch ==
  LET holding == {d \in Deliveries : delivery[d].step \in {"admitted", "posting", "noted", "done"}} IN
  /\ admittedAll = Cardinality(holding)
  /\ \A t \in Tenants : admittedBy[t] = Cardinality({d \in holding : Topic(d)[1] = t})

(* notifications.go:208: the budget caps the deliveries of an account and  *)
(* leaves the semantics of the cooldown as they are.  A notification is    *)
(* lost to it only when that many were posted within the hour, or may      *)
(* still be by a goroutine under way.                                      *)
BudgetCountsDeliveries ==
  \A d \in Deliveries :
    LET tenant == Topic(d)[1]
        pending == {e \in Deliveries : Topic(e)[1] = tenant /\ delivery[e].step = "admitted"} IN
    delivery[d].step = "raised" /\ ~WithinBudget(tenant) =>
      WithinHour(posted[tenant]) + Cardinality(pending) >= HourlyBudget

(* What the notifier promises as a whole: no leaked slot, no flood.        *)
NotificationsHold ==
  /\ [](NotificationsTypeOK /\ SlotsMatch)
  /\ [][\A d \in Deliveries : OnePerWindow(d)]_notifyVars
=============================================================================
