---------------------------- MODULE MCTwoManagers ----------------------------
(***************************************************************************)
(* Constants for TLC: the specs users may choose from.                     *)
(***************************************************************************)
EXTENDS TwoManagers, TLC

WithTLS == [config : Configs, secret : Secrets, class : ClassNames]

\* Sound: no definition tells one configuration from another, and no run of this
\* module checks liveness.
Symmetry == Permutations(Configs)
=============================================================================
