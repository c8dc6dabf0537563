------------------------- MODULE MCDistributionConfig -------------------------
(***************************************************************************)
(* Constants for TLC: what users may write in a spec and in a class.       *)
(***************************************************************************)
EXTENDS DistributionConfig

\* No host, one, and two in either order; a host added before the first in order.
Lists == {<<>>, <<2>>, <<1, 2>>, <<2, 1>>}

\* What each of CloudFront's three sets of methods is for.
ThreeMethods == {<<"GET">>, <<"GET", "OPTIONS">>, <<"DELETE", "PATCH">>}
=============================================================================
