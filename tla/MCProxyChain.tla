---------------------------- MODULE MCProxyChain ----------------------------
(***************************************************************************)
(* Instances of ProxyChain for TLC.  Two targets of one OAuth provider (a  *)
(* refreshed credential is shared) and, where it matters, a third target   *)
(* of a provider with an API key.                                          *)
(***************************************************************************)
EXTENDS ProxyChain

CONSTANTS ta, tb, tc, oauth, apikey, r1

Two   == {ta, tb}
Three == {ta, tb, tc}

\* ta and tb carry one name, as two model rows of a provider may.
MCTargetName == [t \in Targets |-> IF t = tc THEN "other" ELSE "shared"]
MCProvider   == [t \in Targets |-> IF t = tc THEN apikey ELSE oauth]

Single(t, modes, fits, nonstreams) ==
  {[mode |-> m, chain |-> <<t>>, fit |-> [u \in Targets |-> f], nonstream |-> n] :
     m \in modes, f \in fits, n \in nonstreams}

Chain(chain, fits, nonstreams) ==
  LET others == {t \in Targets : \A i \in DOMAIN chain : chain[i] # t}
  IN  {[mode |-> "ordered_fallback", chain |-> chain, fit |-> f, nonstream |-> n] :
         f \in {g \in [Targets -> fits] : \A t \in others : g[t] = g[chain[1]]},
         n \in nonstreams}

\* Two requests share the target tb; r1 has a target to try before it, and the
\* body of the other may not survive the normalization tb needs.
Crossing == [r \in Requests |->
  IF r = r1 THEN Chain(<<ta, tb>>, {"native"}, {FALSE})
            ELSE Chain(<<tb>>, {"native", "malformed"}, {FALSE})]

\* Requests over one target, whose body is translated.
Sharing == [r \in Requests |-> Chain(<<ta>>, {"translated"}, {FALSE})]

\* Routes on which a target needs a normalization the body does not survive.
Malformed == [r \in Requests |->
  Chain(<<ta, tb>>, {"native", "translated", "malformed"}, BOOLEAN)
    \cup Single(ta, {"real"}, {"malformed"}, {FALSE})]
=============================================================================
