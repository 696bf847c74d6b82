--------------------------- MODULE ChainIsmAdapters --------------------------
(***************************************************************************)
(* Chain adapters that answer the relayer's and the validator's contract   *)
(* queries with one or two remote calls each:                              *)
(*   SealevelMultisig  validators_and_threshold                            *)
(*                     (chains/aetherium-sealevel/src/multisig_ism.rs):    *)
(*                     get_account_metas, then simulate_instruction, each  *)
(*                     needing the payer keypair;                          *)
(*   CosmosRoute       CosmosRoutingIsm::route: wasm_query, the JSON       *)
(*                     response, then the bech32 address it names;         *)
(*   CosmosAggregation CosmosAggregationIsm::modules_and_threshold and     *)
(*   CosmosMultisig    CosmosMultisigIsm::validators_and_threshold: the    *)
(*                     same, with every listed address parsed;             *)
(*   CosmosModuleType  CosmosInterchainSecurityModule::module_type and     *)
(*   CosmosDryRun      dry_run_verify: wasm_query and its JSON response;   *)
(*   CcipRead          EthereumCcipReadIsm::get_offchain_verify_info: one  *)
(*                     eth_call whose result is dropped;                   *)
(*   EthereumRoute     EthereumRoutingIsm::route and                       *)
(*   EthereumModuleType EthereumInterchainSecurityModule::module_type: one *)
(*                     eth_call each;                                      *)
(*   EthereumDryRun    its dry_run_verify: eth_call and estimate_gas of   *)
(*                     verify, joined by try_join;                         *)
(*   StorageLocations  CosmosValidatorAnnounce::get_announced_storage_     *)
(*                     locations: wasm_query and its JSON response;        *)
(*   Announce          CosmosValidatorAnnounce::announce: wasm_send, then  *)
(*                     tx_response_to_outcome.                             *)
(*                                                                         *)
(* A remote call is answered with an error (transport, revert) or with a   *)
(* reply; a reply is either well formed or broken in the way the adapter   *)
(* parses it.  Encoding the message (write_to into a Vec) and borsh        *)
(* encoding of the instruction cannot fail for in-memory buffers, and a    *)
(* program-derived address exists for every program id, so those early    *)
(* returns are not taken.                                                  *)
(***************************************************************************)
EXTENDS Integers, Sequences

CONSTANTS
    Calls          \* adapter calls in flight on the shared providers

Kinds == {"SealevelMultisig", "CosmosRoute", "CosmosAggregation",
          "CosmosMultisig", "CosmosModuleType", "CosmosDryRun", "CcipRead",
          "EthereumRoute", "EthereumModuleType", "EthereumDryRun",
          "StorageLocations", "Announce"}

\* What a remote call can give back, per call site.
Replies == [get_account_metas    |-> {"Err", "Data"},
            simulate_instruction |-> {"Err", "None", "Data"},
            wasm_query_route     |-> {"Err", "Garbled", "BadAddress", "Data"},
            wasm_query_modules   |-> {"Err", "Garbled", "BadAddress", "Data"},
            wasm_query_validators |-> {"Err", "Garbled", "BadAddress", "Data"},
            wasm_query_module_type |-> {"Err", "Garbled", "Data"},
            wasm_query_verify    |-> {"Err", "Garbled", "Failed", "Data"},
            eth_call             |-> {"Err", "Data"},
            eth_verify_call      |-> {"Err", "Failed", "Data"},
            eth_estimate_gas     |-> {"Err", "Data"},
            wasm_query_locations |-> {"Err", "Garbled", "Data"},
            wasm_send            |-> {"Err", "BadHex", "ShortHash", "Failed",
                                      "Data"}]

VARIABLES
    kind,      \* call -> which adapter method runs
    payer,     \* call -> whether the Sealevel adapter was built with a payer
    pc,        \* call -> where the call is
    rpcs,      \* call -> the remote calls made, [rpc, reply], in order
    result     \* call -> NotRun, Ok(executed), Err(error) or Panic

vars == <<kind, payer, pc, rpcs, result>>

NotRun == [tag |-> "NotRun"]
Ok(executed) == [tag |-> "Ok", executed |-> executed]
Err(e) == [tag |-> "Err", error |-> e]
Panic == [tag |-> "Panic"]

Init ==
    /\ kind \in [Calls -> Kinds]
    /\ payer \in [Calls -> BOOLEAN]
    /\ pc = [c \in Calls |-> IF kind[c] = "SealevelMultisig" THEN "AccountMetas"
                             ELSE "Query"]
    /\ rpcs = [c \in Calls |-> <<>>]
    /\ result = [c \in Calls |-> NotRun]

Finish(c, r) == pc' = [pc EXCEPT ![c] = "Done"] /\ result' = [result EXCEPT ![c] = r]

\* The remote call rpc answered with reply.
Call(c, rpc, reply) == rpcs' = [rpcs EXCEPT ![c] = Append(@, [rpc |-> rpc, reply |-> reply])]

(* Slip: a missing payer replaced by a default keypair. *)
SignerUnchecked(hasPayer) == [ok |-> TRUE]

(* self.payer.as_ref().ok_or_else(|| SignerUnavailable)? *)
Signer(hasPayer) == IF hasPayer THEN [ok |-> TRUE]
                    ELSE [ok |-> FALSE, err |-> Err("SignerUnavailable")]

(***************************************************************************)
(* get_validators_and_threshold_account_metas: the payer check, then       *)
(* rpc().get_account_metas(payer, instruction).await, whose error is       *)
(* returned by the `?` of validators_and_threshold.                        *)
(***************************************************************************)
AccountMetas(c) ==
    /\ pc[c] = "AccountMetas"
    /\ \/ /\ ~Signer(payer[c]).ok
          /\ Finish(c, Signer(payer[c]).err)
          /\ UNCHANGED rpcs
       \/ /\ Signer(payer[c]).ok
          /\ \E r \in Replies["get_account_metas"] :
                /\ Call(c, "get_account_metas", r)
                /\ IF r = "Err" THEN Finish(c, Err("ChainCommunicationError"))
                   ELSE pc' = [pc EXCEPT ![c] = "Simulate"] /\ UNCHANGED result
    /\ UNCHANGED <<kind, payer>>

(* Slip: no return data taken as an empty validator set. *)
SimulationResultDefault(r) ==
    IF r = "Err" THEN Err("ChainCommunicationError") ELSE Ok(TRUE)

(* simulate_instruction(..).await? then ok_or_else(..)? on the Option. *)
SimulationResult(r) ==
    CASE r = "Err"  -> Err("ChainCommunicationError")
      [] r = "None" -> Err("NoReturnData")
      [] r = "Data" -> Ok(TRUE)

(* validators_and_threshold after the account metas: the payer check      *)
(* (which the first one has already passed) and the simulation of the     *)
(* ValidatorsAndThreshold instruction.                                     *)
Simulate(c) ==
    /\ pc[c] = "Simulate"
    /\ Signer(payer[c]).ok
    /\ \E r \in Replies["simulate_instruction"] :
          Call(c, "simulate_instruction", r) /\ Finish(c, SimulationResult(r))
    /\ UNCHANGED <<kind, payer>>

(* A query adapter's single remote call rpc and its result per reply. *)
OneCall(c, k, rpc, Result(_)) ==
    /\ pc[c] = "Query" /\ kind[c] = k
    /\ \E r \in Replies[rpc] : Call(c, rpc, r) /\ Finish(c, Result(r))
    /\ UNCHANGED <<kind, payer>>

(* route: wasm_query(..).await?, serde_json::from_slice(&data)? and       *)
(* CosmosAddress::from_str(&response.ism)?.                                *)
RouteResult(r) ==
    CASE r = "Err"        -> Err("ChainCommunicationError")
      [] r = "Garbled"    -> Err("Json")
      [] r = "BadAddress" -> Err("AddressError")
      [] r = "Data"       -> Ok(TRUE)

Route(c) == OneCall(c, "CosmosRoute", "wasm_query_route", RouteResult)

(* get_offchain_verify_info: .call().await?; Ok(()) whatever it returned. *)
CcipResult(r) == IF r = "Err" THEN Err("ChainCommunicationError") ELSE Ok(TRUE)

GetOffchainVerifyInfo(c) == OneCall(c, "CcipRead", "eth_call", CcipResult)

(* modules_and_threshold: wasm_query(..).await?, the JSON response, then   *)
(* each module as an H256 or else an H160; one that is neither fails the   *)
(* collect and the `?` of modules.                                         *)
ModulesAndThreshold(c) ==
    OneCall(c, "CosmosAggregation", "wasm_query_modules", RouteResult)

(* The Cosmos validators_and_threshold: the same, each validator an H160. *)
CosmosValidatorsAndThreshold(c) ==
    OneCall(c, "CosmosMultisig", "wasm_query_validators", RouteResult)

(* The Cosmos dry_run_verify: wasm_query and the JSON VerifyResponse;     *)
(* verified.then_some(dummy_gas_value).                                    *)
VerifyResult(r) ==
    CASE r = "Err"     -> Err("ChainCommunicationError")
      [] r = "Garbled" -> Err("Json")
      [] r = "Failed"  -> Ok(FALSE)
      [] r = "Data"    -> Ok(TRUE)

CosmosDryRunVerify(c) == OneCall(c, "CosmosDryRun", "wasm_query_verify", VerifyResult)

(* The Ethereum route: .call().await?, then the address returned. *)
EthereumRoute(c) == OneCall(c, "EthereumRoute", "eth_call", CcipResult)

(* The Ethereum module_type: .call().await?; every byte gives a type      *)
(* (an unknown one Unused, see IsmClassification).                        *)
EthereumIsmModuleType(c) == OneCall(c, "EthereumModuleType", "eth_call", CcipResult)

(* try_join(tx.call(), tx.estimate_gas()).await?: the first error of      *)
(* either; then Some(gas) if verify returned true, else None.              *)
DryRunResult(call, gas) ==
    CASE call = "Err" \/ gas = "Err" -> Err("ChainCommunicationError")
      [] call = "Failed"              -> Ok(FALSE)
      [] OTHER                        -> Ok(TRUE)

(* The Ethereum dry_run_verify: both calls are sent when try_join is first *)
(* polled.                                                                 *)
EthereumDryRunVerify(c) ==
    /\ pc[c] = "Query" /\ kind[c] = "EthereumDryRun"
    /\ \E r1 \in Replies["eth_verify_call"], r2 \in Replies["eth_estimate_gas"] :
          /\ rpcs' = [rpcs EXCEPT ![c] = @ \o <<[rpc |-> "eth_verify_call", reply |-> r1],
                                               [rpc |-> "eth_estimate_gas", reply |-> r2]>>]
          /\ Finish(c, DryRunResult(r1, r2))
    /\ UNCHANGED <<kind, payer>>

(* get_announced_storage_locations: wasm_query(..).await? and the JSON    *)
(* response; the locations are the second element of each pair.           *)
LocationsResult(r) ==
    CASE r = "Err"     -> Err("ChainCommunicationError")
      [] r = "Garbled" -> Err("Json")
      [] r = "Data"    -> Ok(TRUE)

GetAnnouncedStorageLocations(c) ==
    OneCall(c, "StorageLocations", "wasm_query_locations", LocationsResult)

(* The Cosmos module_type: wasm_query(..).await? and the JSON response;   *)
(* every IsmType maps to a ModuleType.                                     *)
CosmosIsmModuleType(c) ==
    OneCall(c, "CosmosModuleType", "wasm_query_module_type", LocationsResult)

(***************************************************************************)
(* tx_response_to_outcome: the txhash is hex-decoded (`?`) and handed to   *)
(* H256::from_slice, which asserts a 32-byte slice; executed is            *)
(* code == 0.                                                              *)
(***************************************************************************)
AnnounceResult(r) ==
    CASE r = "Err"       -> Err("ChainCommunicationError")
      [] r = "BadHex"    -> Err("HexError")
      [] r = "ShortHash" -> Panic
      [] r = "Failed"    -> Ok(FALSE)
      [] r = "Data"      -> Ok(TRUE)

(* announce: wasm_send(announce_request).await?, then the outcome. *)
Announce(c) == OneCall(c, "Announce", "wasm_send", AnnounceResult)

Step(c) ==
    \/ AccountMetas(c) \/ Simulate(c) \/ Route(c) \/ ModulesAndThreshold(c)
    \/ CosmosValidatorsAndThreshold(c) \/ CosmosIsmModuleType(c)
    \/ CosmosDryRunVerify(c) \/ GetOffchainVerifyInfo(c) \/ EthereumRoute(c)
    \/ EthereumIsmModuleType(c) \/ EthereumDryRunVerify(c)
    \/ GetAnnouncedStorageLocations(c) \/ Announce(c)

Next == \E c \in Calls : Step(c)

Spec == Init /\ [][Next]_vars

-----------------------------------------------------------------------------
(***************************************************************************)
(* Failures are surfaced, not masked: an adapter returns Ok only when      *)
(* every remote call it made answered with a well-formed reply, and its    *)
(* Ok says executed (announce: code 0; dry_run_verify: verified, with a    *)
(* gas estimate) exactly when no reply reported failure (the ok_or_else on *)
(* missing simulation data, the `?` on each reply's parse, try_join).      *)
(***************************************************************************)
ErrorsNotMasked ==
    \A c \in Calls :
        result[c].tag = "Ok" =>
            /\ rpcs[c] # <<>>
            /\ \A i \in 1..Len(rpcs[c]) : rpcs[c][i].reply \in {"Data", "Failed"}
            /\ result[c].executed <=>
                 \A i \in 1..Len(rpcs[c]) : rpcs[c][i].reply # "Failed"

(***************************************************************************)
(* A Sealevel multisig adapter built without a payer makes no remote call: *)
(* both get_account_metas and simulate_instruction need the keypair, and   *)
(* the call fails with SignerUnavailable before the first of them.         *)
(***************************************************************************)
NoRpcWithoutPayer ==
    \A c \in Calls :
        kind[c] = "SealevelMultisig" /\ ~payer[c] =>
            /\ rpcs[c] = <<>>
            /\ pc[c] = "Done" => result[c] = Err("SignerUnavailable")

(***************************************************************************)
(* Section 6 of the specification: a decode failure of a chain reply is    *)
(* surfaced as an error; no adapter panics on what a node sends back.      *)
(***************************************************************************)
NoPanicOnReply ==
    \A c \in Calls : result[c] # Panic

=============================================================================
