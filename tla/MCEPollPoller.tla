--------------------------- MODULE MCEPollPoller ----------------------------
(* EPollPoller with three channels; the last two take turns on one fd.      *)
EXTENDS EPollPoller, TLC

CONSTANTS c1, c2, c3, f1, f2

MCFdOf == (c1 :> f1) @@ (c2 :> f2) @@ (c3 :> f2)
MCFdOf2 == (c1 :> f1) @@ (c2 :> f2)
=============================================================================
