--------------------------- MODULE MCTransactions ---------------------------
(***************************************************************************)
(* TLC instances of Transactions: clients and keys are interchangeable.    *)
(***************************************************************************)
EXTENDS Transactions, TLC

MCSymmetry == Permutations(Client) \cup Permutations(Key)
=============================================================================
