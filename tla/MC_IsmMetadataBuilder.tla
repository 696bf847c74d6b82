--------------------- MODULE MC_IsmMetadataBuilder ---------------------
(***************************************************************************)
(* Destination ISM configurations for model checking IsmMetadataBuilder.   *)
(* Each .cfg picks one configuration and the two budgets.                  *)
(***************************************************************************)
EXTENDS IsmMetadataBuilder

(***************************************************************************)
(* Mixed: every module type once.  Root 1 aggregates, threshold 2, over   *)
(*   2 Routing -> 6 Routing -> 7 Null   (three levels below the root)      *)
(*   3 MessageIdMultisig, 4 CcipRead, 5 Unused,                            *)
(*   8 Aggregation (threshold 2) over 9 MerkleRootMultisig, 6 and 7.       *)
(* The multisigs 3 and 9 may fail.  Routing 6 is always reached at level   *)
(* 2, so its Null 7 is one level too deep under max_ism_depth = 3, while   *)
(* the Null 7 listed by 8 sits at level 2 and resolves.                    *)
(***************************************************************************)
MixedIsms == 1..9
MixedType ==
    [i \in MixedIsms |->
        CASE i = 1 -> "Aggregation"       [] i = 2 -> "Routing"
          [] i = 3 -> "MessageIdMultisig" [] i = 4 -> "CcipRead"
          [] i = 5 -> "Unused"            [] i = 6 -> "Routing"
          [] i = 7 -> "Null"              [] i = 8 -> "Aggregation"
          [] i = 9 -> "MerkleRootMultisig"]
MixedRoute == [i \in MixedIsms |-> IF i = 2 THEN 6 ELSE 7]
MixedModules == [i \in MixedIsms |-> IF i = 1 THEN <<2, 3, 4, 5, 8>>
                                     ELSE IF i = 8 THEN <<9, 6, 7>> ELSE <<>>]
MixedThreshold == [i \in MixedIsms |-> IF i \in {1, 8} THEN 2 ELSE 1]
MixedFaulty == {3, 9}

(***************************************************************************)
(* Cyclic: a destination that lists an Aggregation among its own modules   *)
(* and a Routing ISM that routes to itself.                                *)
(*   1 Aggregation (threshold 1) over 1 and 2;  2 Routing -> 2.            *)
(***************************************************************************)
CyclicIsms == 1..2
CyclicType == [i \in CyclicIsms |-> IF i = 1 THEN "Aggregation" ELSE "Routing"]
CyclicRoute == [i \in CyclicIsms |-> 2]
CyclicModules == [i \in CyclicIsms |-> <<1, 2>>]
CyclicThreshold == [i \in CyclicIsms |-> 1]

NoFaulty == {}

(***************************************************************************)
(* Edge thresholds: modules_and_threshold returns a u8 that nothing checks *)
(* against the module list.                                                *)
(*   1 Aggregation, threshold 0, over 2, 3 and 6;                          *)
(*   2 Aggregation, threshold 3, over its two Nulls 4 and 5;               *)
(*   3 MessageIdMultisig, which may fail;                                  *)
(*   6 Aggregation, threshold 0, over no modules at all.                   *)
(***************************************************************************)
EdgeIsms == 1..6
EdgeType == [i \in EdgeIsms |->
                CASE i \in {1, 2, 6} -> "Aggregation" [] i = 3 -> "MessageIdMultisig"
                  [] OTHER -> "Null"]
EdgeRoute == [i \in EdgeIsms |-> 4]
EdgeModules == [i \in EdgeIsms |->
                   CASE i = 1 -> <<2, 3, 6>> [] i = 2 -> <<4, 5>> [] OTHER -> <<>>]
EdgeThreshold == [i \in EdgeIsms |-> IF i = 2 THEN 3 ELSE 0]
EdgeFaulty == {3}

(***************************************************************************)
(* The scenario tree of section 8 of the specification:                    *)
(*   1 Aggregation (threshold 2) over A = 2, B = 3, C = 4;                 *)
(*   2, 3 Routing -> 5 Null;  4 Routing -> 6 Routing -> 5 Null.            *)
(***************************************************************************)
SpecIsms == 1..6
SpecType == [i \in SpecIsms |->
                CASE i = 1 -> "Aggregation" [] i = 5 -> "Null"
                  [] OTHER -> "Routing"]
SpecRoute == [i \in SpecIsms |-> IF i = 4 THEN 6 ELSE 5]
SpecModules == [i \in SpecIsms |-> <<2, 3, 4>>]
SpecThreshold == [i \in SpecIsms |-> 2]

(***************************************************************************)
(* Section 8 says that with max_depth = 2, and again with max_count = 5,   *)
(* only C's branch fails and the build succeeds.                           *)
(***************************************************************************)
SpecScenarioSucceeds ==
    Terminated => frames[<<>>].result = "Ok"

=============================================================================
