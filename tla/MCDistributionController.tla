----------------------- MODULE MCDistributionController -----------------------
(***************************************************************************)
(* Constants for TLC: the specs users may choose from in the runs.         *)
(***************************************************************************)
EXTENDS DistributionRefinement

\* One class and one secret, two configurations.
TwoConfigs == [config : Configs, secret : Secrets, class : ClassNames]

\* The same with the choice of no TLS at all.
MaybeTLS == [config : Configs, secret : Secrets \cup {NoTLS}, class : ClassNames]
=============================================================================
