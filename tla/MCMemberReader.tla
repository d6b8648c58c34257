---------------------------- MODULE MCMemberReader ----------------------------
(***************************************************************************)
(* Every member of up to MaxLength bytes, every budget up to MaxBudget and *)
(* none.  MaxLength exceeds SliceChunk, which exceeds ControlChunk, and no *)
(* length needs to be a multiple of either, so that finish takes several   *)
(* slices, a slice several chunks, and both end in a short one.            *)
(***************************************************************************)
EXTENDS MemberReader
=============================================================================
