------------------------- MODULE MCStellarDeposits -------------------------
(***************************************************************************)
(* Instances of StellarDeposits: one or two quotes, two calls that scan    *)
(* pages shorter than the list of payments.                                *)
(***************************************************************************)
EXTENDS StellarDeposits, TLC

Interchangeable == Permutations(Calls) \cup Permutations(Quotes)

=============================================================================
