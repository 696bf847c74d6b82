---------------------------- MODULE MC_ChainCalls ----------------------------
(***************************************************************************)
(* Remote calls in flight together: two Ethereum provider lookups          *)
(* (MC_ProviderLookup) and one ISM or announce adapter call                *)
(* (ChainIsmAdapters), each on its own provider, interleaved.              *)
(***************************************************************************)
EXTENDS MC_ProviderLookup

VARIABLES akind, apayer, apc, arpcs, aresult

avars == <<akind, apayer, apc, arpcs, aresult>>

A == INSTANCE ChainIsmAdapters
        WITH Calls <- {"a1"}, kind <- akind, payer <- apayer, pc <- apc,
             rpcs <- arpcs, result <- aresult

CallsInit == Init /\ A!Init

CallsNext == (Next /\ UNCHANGED avars) \/ (A!Next /\ UNCHANGED vars)

(* The provider's lookups keep stepping, as in ProviderLookup's Spec. *)
CallsSpec ==
    /\ CallsInit /\ [][CallsNext]_<<vars, avars>>
    /\ \A c \in Calls : WF_<<vars, avars>>(Lookup(c) /\ UNCHANGED avars)

(* ChainIsmAdapters: Ok only after well-formed replies (ErrorsNotMasked). *)
ErrorsNotMasked == A!ErrorsNotMasked

(* ChainIsmAdapters: no Sealevel remote call without a payer. *)
NoRpcWithoutPayer == A!NoRpcWithoutPayer

(* ChainIsmAdapters: no adapter panics on a node's reply. *)
NoPanicOnReply == A!NoPanicOnReply

=============================================================================
