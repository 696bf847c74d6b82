------------------------ MODULE MC_IsmClassification ------------------------
(***************************************************************************)
(* The metadata builder on a destination whose ISMs report their types     *)
(* through a chain adapter: ModuleTypeOf is the adapter's decoding of what *)
(* each contract answers.                                                  *)
(***************************************************************************)
EXTENDS IsmMetadataBuilder, IsmClassification

CONSTANTS
    Chain,      \* "Ethereum" or "Cosmos"
    Reported    \* ISM -> the contract's answer to moduleType()

(* The adapter's ModuleType for every ISM. *)
Classified == [i \in DOMAIN Reported |->
                  IF Chain = "Ethereum" THEN EthereumModuleType(Reported[i])
                  ELSE CosmosModuleType(Reported[i])]

(***************************************************************************)
(* Root 1 aggregates, threshold 1, over 2..5 and the Null 6; on Ethereum   *)
(* 2 answers 3 (LegacyMultisig), 3 and 4 bytes no ModuleType has, 5 answers *)
(* 0 (Unused); on Cosmos 2 is a LegacyMultisig and 3 an Unused ISM.        *)
(***************************************************************************)
ClassIsms == 1..6
EthereumReported == [i \in ClassIsms |-> <<2, 3, 8, 255, 0, 6>>[i]]
CosmosReported == [i \in ClassIsms |->
                      <<"Aggregation", "LegacyMultisig", "Unused", "Null",
                        "Unused", "Null">>[i]]
ClassModules == [i \in ClassIsms |-> <<2, 3, 4, 5, 6>>]
ClassThreshold == [i \in ClassIsms |-> 1]
ClassRoute == [i \in ClassIsms |-> 6]

(* The contract's answer names a legacy, unused or unrecognised type. *)
ReportsUnsupported(i) ==
    IF Chain = "Ethereum" THEN Reported[i] \notin 1..7 \/ Reported[i] = 3
    ELSE Reported[i] \in {"Unused", "LegacyMultisig"}

(***************************************************************************)
(* Section 4.4 of the specification: an ISM of an Unused/legacy or         *)
(* unrecognised type fails with UnsupportedVerifierType.  Composed: the    *)
(* adapter's decoding of module_type with the builder's dispatch, for      *)
(* every ISM the builder got as far as dispatching.                        *)
(***************************************************************************)
UnsupportedTypesFail ==
    \A p \in DOMAIN frames :
        frames[p].dispatched /\ Done(p) /\ ReportsUnsupported(frames[p].ism) =>
            frames[p].result = "UnsupportedModuleType"

=============================================================================
