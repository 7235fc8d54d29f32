---------------------------- MODULE MCTwoRequests ----------------------------
(***************************************************************************)
(* Two concurrent requests, in one of two scenes.  Crossing: chains that   *)
(* meet at one target, under one setting.  Sharing: the same single        *)
(* target, while the cooldown setting is saved at other values.            *)
(***************************************************************************)
EXTENDS MCProxyChain

TwoPlans == [r \in Requests |-> Crossing[r] \cup Sharing[r]]

Begun(plans, r) == phase'[r] # "idle" /\ plan'[r] \in plans[r]

\* The action constraint that keeps the two scenes apart: requests begin on the
\* plans of one scene only, and the chains that meet do so under the setting 1.
OneScene ==
  \A q \in Requests : Begun(Crossing, q) =>
    setting' = 1 /\ \A r \in Requests : ~ Begun(Sharing, r)
=============================================================================
