----------------------------- MODULE MCCdnManager -----------------------------
(***************************************************************************)
(* Constants for TLC: the specs an Ingress or a user may ask for.          *)
(***************************************************************************)
EXTENDS CdnManager

WithTLS == [config : Configs, secret : Secrets, class : ClassNames]
=============================================================================
