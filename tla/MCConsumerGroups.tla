-------------------------- MODULE MCConsumerGroups --------------------------
(***************************************************************************)
(* Module ConsumerGroups on a small instance.  The sessions are            *)
(* interchangeable, and only safety is checked.                            *)
(***************************************************************************)
EXTENDS ConsumerGroups, TLC

Symmetry == Permutations(Session)
=============================================================================
