--------------------------- MODULE MC_BuilderTests ---------------------------
(***************************************************************************)
(* The unit tests max_depth_reached and max_ism_count_reached of           *)
(* agents/relayer/src/msg/metadata/message_builder.rs, each checked under  *)
(* every schedule of the concurrent Aggregation branches, not only the     *)
(* depth-first one the never-suspending mocks give the tests.              *)
(*                                                                         *)
(* Each test builds its own mocks and its own params, so the two share no  *)
(* state: they are two instances of IsmMetadataBuilder over the same tree, *)
(* and the count test's build starts once the depth test's has returned.   *)
(***************************************************************************)
EXTENDS Naturals, Sequences

VARIABLES
    dframes, dcount, dfault,   \* the build of max_depth_reached
    cframes, ccount, cfault    \* the build of max_ism_count_reached

dvars == <<dframes, dcount, dfault>>
cvars == <<cframes, ccount, cfault>>

(***************************************************************************)
(* The tree of insert_ism_test_data:                                       *)
(*   0 Aggregation (threshold 2) over 100, 200, 300;                       *)
(*   x00 Aggregation (threshold 2) over x10, x20;                          *)
(*   xy0 Routing -> xy00;  xy00 Null.                                       *)
(***************************************************************************)
TestTops == {100, 200, 300}
TestMids == {t + d : t \in TestTops, d \in {10, 20}}
TestIsms == {0} \cup TestTops \cup TestMids \cup {10 * m : m \in TestMids}
TestType == [i \in TestIsms |->
                IF i \in {0} \cup TestTops THEN "Aggregation"
                ELSE IF i \in TestMids THEN "Routing" ELSE "Null"]
TestRoute == [i \in TestIsms |-> 10 * i]
TestModules == [i \in TestIsms |->
                   IF i = 0 THEN <<100, 200, 300>> ELSE <<i + 10, i + 20>>]
TestThreshold == [i \in TestIsms |-> 2]

\* The budget a test leaves at its default: never reached by this tree of
\* 16 ISMs (count), or deeper than its four levels (depth).
DefaultIsmCount == 100
DefaultIsmDepth == 5

\* max_depth_reached: builder.max_ism_depth = 2.
DepthTest == INSTANCE IsmMetadataBuilder
    WITH Isms <- TestIsms, RootIsm <- 0, ModuleTypeOf <- TestType,
         Route <- TestRoute, Modules <- TestModules, Threshold <- TestThreshold,
         FaultyIsms <- {}, MaxIsmDepth <- 2, MaxIsmCount <- DefaultIsmCount,
         frames <- dframes, ismCount <- dcount, fault <- dfault

\* max_ism_count_reached: builder.max_ism_count = 5.
CountTest == INSTANCE IsmMetadataBuilder
    WITH Isms <- TestIsms, RootIsm <- 0, ModuleTypeOf <- TestType,
         Route <- TestRoute, Modules <- TestModules, Threshold <- TestThreshold,
         FaultyIsms <- {}, MaxIsmDepth <- DefaultIsmDepth, MaxIsmCount <- 5,
         frames <- cframes, ismCount <- ccount, fault <- cfault

Init == DepthTest!Init /\ CountTest!Init

Next ==
    \/ DepthTest!Next /\ UNCHANGED cvars
    \/ DepthTest!Terminated /\ CountTest!Next /\ UNCHANGED dvars

\* As in IsmMetadataBuilder's Spec: an enabled step of a build is taken.
Spec == Init /\ [][Next]_<<dvars, cvars>> /\ WF_<<dvars, cvars>>(Next)

(***************************************************************************)
(* Test max_depth_reached, under every interleaving: the routing ISMs one  *)
(* level below the second aggregation level hit max_ism_depth = 2 (the     *)
(* "Max ISM depth reached" log), so every x00 misses its threshold and the *)
(* root returns AggregationThresholdNotMet, having counted at most 4 ISMs. *)
(***************************************************************************)
TestMaxDepthOutcome ==
    DepthTest!Terminated =>
        /\ dframes[<<>>].result = "AggregationThresholdNotMet"
        /\ dcount <= 4
        /\ \E p \in DOMAIN dframes : dframes[p].result = "MaxIsmDepthExceeded"

(***************************************************************************)
(* Test max_ism_count_reached, under every interleaving: some branch finds *)
(* the budget spent (the "Max ISM count reached" log), the root returns    *)
(* AggregationThresholdNotMet, and the counter ends at exactly 5, however  *)
(* the branches reached the lock.                                          *)
(***************************************************************************)
TestMaxCountOutcome ==
    CountTest!Terminated =>
        /\ cframes[<<>>].result = "AggregationThresholdNotMet"
        /\ ccount = 5
        /\ \E p \in DOMAIN cframes : cframes[p].result = "MaxIsmCountReached"

(***************************************************************************)
(* Both test builds refine IsmResolution: each spends its count budget one *)
(* ISM at a time within its limit and returns once, failing a verifiable  *)
(* root only when the budget is spent.                                     *)
(***************************************************************************)
ImplementsResolution ==
    DepthTest!ImplementsResolution /\ CountTest!ImplementsResolution

=============================================================================
