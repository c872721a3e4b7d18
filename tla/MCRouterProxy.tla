--------------------------- MODULE MCRouterProxy ---------------------------
(***************************************************************************)
(* Two overlapping requests, one session, two policies that disagree on    *)
(* the tiers: `banded` is sticky with two bands and routes to its top tier *)
(* or keeps; `flat` defaults to the requested model, honours a pin and has *)
(* lost the top tier.                                                      *)
(***************************************************************************)
EXTENDS RouterProxy, TLC

CONSTANTS r1, r2, s, lo, hi, haiku, opus

MCRequests == {r1, r2}
MCSessions == {s}
MCNames == {lo, hi}
MCModels == {haiku, opus}

banded == [tiers |-> <<lo, hi>>, model |-> (lo :> haiku @@ hi :> opus),
           default |-> lo, routes |-> {hi, Keep}, sticky |-> TRUE, jump |-> 2,
           pins |-> FALSE]
flat == [tiers |-> <<lo>>, model |-> (lo :> opus @@ hi :> haiku),
         default |-> Requested, routes |-> {lo, Keep}, sticky |-> FALSE,
         jump |-> 0, pins |-> TRUE]
MCPolicies == {banded, flat}

In(k, x, md, p) == [kind |-> k, sess |-> x, model |-> md, pin |-> p]
MCInputs ==
    {In("message", s, opus, NoPin), In("message", s, haiku, lo),
     In("opaque", NoSession, NoModel, NoPin),
     In("unparseable", s, haiku, NoPin), In("sibling", s, NoModel, NoPin)}

MCStatuses == {"200", "400", "denied", "404"}
MCRejections == {"400", "denied"}
=============================================================================
