---------------------------- MODULE MCOneRequest ----------------------------
(***************************************************************************)
(* A request alone, for TLC.                                               *)
(***************************************************************************)
EXTENDS MCProxyChain, TLC

WellFormed == Fits \ {"malformed"}

\* One request at a time: every well-formed fit of a chain of two, and of a
\* fixed or a direct route.  The second target may share the provider.
OneRequest == r1 :>
  (Chain(<<ta, tb>>, WellFormed, BOOLEAN)
     \cup Chain(<<ta, tc>>, WellFormed, BOOLEAN)
     \cup Single(ta, {"real", "fixed"}, WellFormed, BOOLEAN))
=============================================================================
