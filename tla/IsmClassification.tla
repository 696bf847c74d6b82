------------------------- MODULE IsmClassification -------------------------
(***************************************************************************)
(* How a chain adapter turns the ISM contract's answer to moduleType()     *)
(* into the relayer's ModuleType, which the metadata builder dispatches    *)
(* on.                                                                     *)
(*   Ethereum (ism/interchain_security_module.rs): a u8, decoded with      *)
(*   ModuleType::from_u8; an unknown byte becomes Unused with a warning.   *)
(*   Cosmos (interchain_security_module.rs, types.rs): the CosmWasm        *)
(*   IsmType of the query response, mapped variant by variant.             *)
(***************************************************************************)
EXTENDS Integers, Sequences

(* The variants of ModuleType in declaration order: from_u8(k) is the     *)
(* variant with discriminant k.                                           *)
ModuleTypeVariants ==
    <<"Unused", "Routing", "Aggregation", "LegacyMultisig",
      "MerkleRootMultisig", "MessageIdMultisig", "Null", "CcipRead">>

(* Slip: an unknown byte decoded as the default Null type. *)
EthereumModuleTypeDefaultNull(byte) ==
    IF byte \in 0..Len(ModuleTypeVariants) - 1
    THEN ModuleTypeVariants[byte + 1] ELSE "Null"

(* EthereumInterchainSecurityModule::module_type on the returned byte. *)
EthereumModuleType(byte) ==
    IF byte \in 0..Len(ModuleTypeVariants) - 1
    THEN ModuleTypeVariants[byte + 1] ELSE "Unused"

(* The variants of aetherium_cosmwasm_interface::ism::IsmType. *)
CosmosIsmTypes == {"Unused", "Routing", "Aggregation", "LegacyMultisig",
                   "MerkleRootMultisig", "MessageIdMultisig", "Null", "CcipRead"}

(* impl From<IsmType> for ModuleType: every variant to its namesake, except *)
(* LegacyMultisig, which becomes MessageIdMultisig.                         *)
CosmosModuleType(t) ==
    IF t = "LegacyMultisig" THEN "MessageIdMultisig" ELSE t

=============================================================================
