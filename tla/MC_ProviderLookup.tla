-------------------------- MODULE MC_ProviderLookup --------------------------
(***************************************************************************)
(* The node's possible answers for the block at height 100: the block     *)
(* itself, a pending block without number or hash, a block with a number  *)
(* but no hash, and a block of another height.                            *)
(***************************************************************************)
EXTENDS ProviderLookup

CONSTANT NullValue

LookupCalls == {1, 2}
LookupHeight == 100
LookupBlocks == {[number |-> 100, hash |-> "h100"],
                 [number |-> NullValue, hash |-> NullValue],
                 [number |-> 100, hash |-> NullValue],
                 [number |-> 99, hash |-> "h99"]}

=============================================================================
