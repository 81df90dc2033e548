------------------------ MODULE MCStellarSettlement ------------------------
(***************************************************************************)
(* An instance of StellarSettlement: two calls of the processor and two    *)
(* envelopes, so that the calls may sign different ones.                   *)
(***************************************************************************)
EXTENDS StellarSettlement

=============================================================================
