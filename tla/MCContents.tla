----------------------------- MODULE MCContents -----------------------------
(***************************************************************************)
(* What the router stores and passes on: the catalogue, the permission     *)
(* rows, the sealed secrets, the databases as a start finds them, the      *)
(* conversations it translates, the quotas it polls and the notifications  *)
(* it sends, checked by one run.  They share no state, so each behaviour   *)
(* is that of one of them, `part`, and the others stay as they began.      *)
(*                                                                         *)
(* The catalogue is seen from three sides: chains against at most one      *)
(* refresh, the bindings of keys without refreshes, and two refreshes.     *)
(***************************************************************************)
EXTENDS Permissions, Catalogue, SecretKeys, StreamTranslation, KeepaliveWriter,
        ResponseTranslation, ReasoningSelector, QuotaPoller, Notifications,
        DatabaseOpen, VirtualCapabilities, TLC

CONSTANTS m1, m2, p1, p2   \* models and their providers

VARIABLE part

Sides == {"chains", "bindings", "refreshes"}
Subjects == {"permissions", "secrets", "stream", "keepalive", "request", "response",
             "selector", "quota", "notifier", "database", "capabilities"} \cup Sides

MCGroupOf   == [m \in Models |-> IF m = m1 THEN p1 ELSE p2]
MCBackendOf == [m \in RealModels |-> IF m = m1 THEN p1 ELSE p2]
\* The first provider stops listing its model.
MCListings  == [p \in Backends |-> IF p = p1 THEN <<{m1}, {}>> ELSE <<{m2}>>]

\* Targets of which everything is known but for one aspect, and one that is off.
NoReport ==
  [options |-> {}, values |-> {}, narrowed |-> FALSE, clients |-> {}, least |-> {}, most |-> {},
   modes |-> {}, mandatory |-> {}, enabled |-> {}, default |-> {}]
Known(report) == [on |-> TRUE, available |-> TRUE, limit |-> {}, flag |-> {}, report |-> {report}]
OffView == [Known(NoReport) EXCEPT !.on = FALSE, !.limit = {1}, !.flag = {FALSE}]
NoView == [OffView EXCEPT !.on = TRUE, !.limit = {}, !.flag = {}, !.report = {}]

LimitViews == {[NoView EXCEPT !.limit = n] : n \in Maybe(Limits)}
FlagViews == {[NoView EXCEPT !.flag = b] : b \in Maybe(BOOLEAN)}
EffortViews ==
  {Known([NoReport EXCEPT !.options = {"effort"}, !.values = v, !.narrowed = narrow,
                          !.clients = IF narrow THEN v \ {"max"} ELSE {}])
     : v \in {{"low", "max"}, {"max"}}, narrow \in BOOLEAN}
    \cup {Known([NoReport EXCEPT !.options = {"effort"}, !.values = v]) : v \in {{}, {"low"}, {"ultra"}}}
BudgetViews ==
  {Known([NoReport EXCEPT !.options = {"budget"}, !.least = n, !.most = k])
     : n \in {{}, {0}, {1}}, k \in {{}, {1}, {2}}}
MandatoryViews == {Known([NoReport EXCEPT !.options = {"toggle"}, !.mandatory = b]) : b \in Maybe(BOOLEAN)}

Aspects == {LimitViews, FlagViews, EffortViews, BudgetViews, MandatoryViews}
MCViews == (UNION Aspects) \cup {OffView, NoView, Known(NoReport)}

\* A component that is not looked at begins in one way, a translation with no
\* conversation at all.
NotLooked == "not looked at"

ContentsInit ==
  /\ part \in Subjects
  /\ PermissionsInit /\ CatalogueInit /\ KeepaliveInit
  /\ SecretKeysInit /\ (part # "secrets" => \A s \in Secrets : cell[s] = Empty)
  /\ TranslationInit
  /\ part # "stream" => incoming = "chat" /\ target = "messages" /\ how = "stream"
  /\ QuotaInit /\ (part # "quota" => \A k \in Quotas : rows[k] = Absent)
  /\ NotificationsInit /\ (part # "notifier" => hosted)
  /\ DatabaseInit /\ shelf["other"] \in {"none", "whole"}
  /\ part # "database" => NoDatabase /\ shelf["other"] = "none"
  /\ IF part = "request" THEN RequestInit ELSE asked = NotLooked /\ answered = Waiting
  /\ IF part = "response" THEN ResponseInit ELSE reply = NotLooked /\ delivered = Undelivered
  /\ \E views \in (IF part = "capabilities" THEN Aspects ELSE {{}}) :
       known \in [Members -> views \cup IF views = {} THEN {NoView} ELSE {OffView, NoView, Known(NoReport)}]
  /\ merged = {} /\ summary = NoSummary /\ entry = {}
  /\ IF part = "selector" THEN SelectorInit ELSE wish = NotLooked /\ sent = Undecided

Busy == {h \in Refreshes : refresh[h] # NoRefresh}

CatalogueFromSide ==
  /\ CatalogueNext
  /\ part = "chains" => UNCHANGED boundKey /\ Busy' \subseteq {CHOOSE h \in Refreshes : TRUE}
  /\ part = "bindings" =>
       /\ UNCHANGED refresh
       /\ \A e \in Edits : edit'[e] # NoEdit => edit'[e].kind # "chain"
  /\ part = "refreshes" => UNCHANGED <<chain, boundKey, edit>>

ContentsNext ==
  /\ UNCHANGED part
  /\ \/ part = "permissions" /\ PermissionsNext
     \/ part = "secrets" /\ SecretKeysNext
     \/ part = "stream" /\ TranslationNext
     \/ part = "keepalive" /\ KeepaliveNext
     \/ part = "request" /\ RequestNext
     \/ part = "response" /\ ResponseNext
     \/ part = "selector" /\ SelectorNext
     \/ part = "quota" /\ QuotaNext
     \/ part = "notifier" /\ NotificationsNext
     \/ part = "database" /\ DatabaseNext
     \/ part = "capabilities" /\ CapabilitiesNext
     \/ part \in Sides /\ CatalogueFromSide
  /\ part # "permissions" => UNCHANGED permissionVars
  /\ part # "secrets" => UNCHANGED secretVars
  /\ part # "stream" => UNCHANGED translationVars
  /\ part # "keepalive" => UNCHANGED keepaliveVars
  /\ part # "request" => UNCHANGED requestVars
  /\ part # "response" => UNCHANGED responseVars
  /\ part # "selector" => UNCHANGED selectorVars
  /\ part # "quota" => UNCHANGED quotaVars
  /\ part # "notifier" => UNCHANGED notifyVars
  /\ part # "database" => UNCHANGED databaseVars
  /\ part # "capabilities" => UNCHANGED capabilityVars
  /\ part \notin Sides => UNCHANGED catalogueVars

contentsVars ==
  <<part, permissionVars, catalogueVars, secretVars, translationVars, keepaliveVars,
    requestVars, responseVars, selectorVars, quotaVars, notifyVars, databaseVars,
    capabilityVars>>

ContentsSpec == ContentsInit /\ [][ContentsNext]_contentsVars
=============================================================================
