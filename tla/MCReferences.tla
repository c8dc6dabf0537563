----------------------------- MODULE MCReferences -----------------------------
(***************************************************************************)
(* Constants for TLC: two namespaces with a Distribution and a secret      *)
(* each, a class of the same name in the cluster and in one namespace.     *)
(***************************************************************************)
EXTENDS References

TwoKeys == {[ns |-> n, name |-> "site"] : n \in {"east", "west"}}

ByKind == [kind : {"ClusterDistributionClass", "DistributionClass", "Class"},
           name : {"cdn"}, secret : {"tls"}]

SomeAuths == {[key |-> NoRef, jwt |-> NoRef],
              [key |-> "east", jwt |-> "east"],
              [key |-> NoRef, jwt |-> "east"],
              [key |-> Nowhere, jwt |-> NoRef]}

Resources == {[kind |-> "ClusterDistributionClass", name |-> "cdn", ns |-> Nowhere],
              [kind |-> "DistributionClass", name |-> "cdn", ns |-> "east"],
              [kind |-> "DistributionClass", name |-> "cdn", ns |-> "west"],
              [kind |-> "Secret", name |-> "tls", ns |-> "east"],
              [kind |-> "Secret", name |-> "tls", ns |-> "west"]}

EastGrants == [kind : {"Secret", "ServiceAccount"}, ns : {"east"}]
=============================================================================
