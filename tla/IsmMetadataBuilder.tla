------------------------- MODULE IsmMetadataBuilder -------------------------
(***************************************************************************)
(* The relayer's recursive ISM metadata builder                            *)
(* (agents/relayer/src/msg/metadata/message_builder.rs) together with the   *)
(* per-module-type strategies it dispatches to.                            *)
(*                                                                         *)
(* One call of build_message_metadata is a FRAME, named by its path in     *)
(* the resolution tree: the root call is <<>>, the k-th child of an        *)
(* Aggregation frame p is p \o <<k>>, the delegate of a Routing frame p    *)
(* is p \o <<1>>.  Each frame carries its own copy of params.ism_depth;    *)
(* params.ism_count is one counter shared by every frame (the              *)
(* Arc<Mutex<u32>> that MessageMetadataBuildParams::clone shares).         *)
(*                                                                         *)
(* A frame suspends at every collaborator call (build_ism + module_type,   *)
(* route, modules_and_threshold, the multisig / CCIP-read fetch and the    *)
(* lock of ism_count); an Aggregation frame runs its children              *)
(* concurrently (join_all), so the frames of different branches interleave *)
(* at those points.  The critical section of the count lock holds no       *)
(* await, so the check-then-increment is one step.                         *)
(*                                                                         *)
(* The strategies (aggregation.rs, routing.rs, multisig, ccip_read.rs,     *)
(* null_metadata.rs) are not in the source tree given here; their actions  *)
(* follow section 4.4 of the specification.                               *)
(*                                                                         *)
(* The destination chain is fixed for one build: every ISM's module type,  *)
(* route, module list and threshold are constants, and whether the         *)
(* collaborator calls about an ISM fail is chosen once, at Init.           *)
(***************************************************************************)
EXTENDS Integers, Sequences, FiniteSets, TLC

CONSTANTS
    Isms,          \* addresses of the ISM contracts on the destination
    RootIsm,       \* the ISM the message is built for
    ModuleTypeOf,  \* ISM -> the ModuleType its module_type() call returns
    Route,         \* Routing ISM -> the ISM route(message) returns
    Modules,       \* Aggregation ISM -> the module list of modules_and_threshold
    Threshold,     \* Aggregation ISM -> the threshold of modules_and_threshold
    FaultyIsms,    \* ISMs whose collaborator calls may fail
    MaxIsmDepth,   \* MessageMetadataBuilder.max_ism_depth
    MaxIsmCount    \* MessageMetadataBuilder.max_ism_count

ModuleTypes == {"Unused", "Routing", "Aggregation", "LegacyMultisig",
                "MerkleRootMultisig", "MessageIdMultisig", "Null", "CcipRead"}

\* Module types whose strategy is terminal but calls a collaborator.
FetchTypes == {"MerkleRootMultisig", "MessageIdMultisig", "CcipRead"}

(* u32::MAX, the width of ism_depth and ism_count.  TLC's integers stop at  *)
(* 2^31 - 1, which stands in for it: both counters stay below the budgets. *)
U32Max == 2147483647

ASSUME /\ RootIsm \in Isms
       /\ ModuleTypeOf \in [Isms -> ModuleTypes]
       /\ \A i \in Isms : ModuleTypeOf[i] = "Routing" => Route[i] \in Isms
       /\ \A i \in Isms : ModuleTypeOf[i] = "Aggregation" =>
             /\ Modules[i] \in Seq(Isms)
             /\ Threshold[i] \in 0..255
       /\ FaultyIsms \subseteq Isms
       /\ MaxIsmDepth \in 0..U32Max
       /\ MaxIsmCount \in 0..U32Max

(***************************************************************************)
(* Where a collaborator call about an ISM fails: "Classify" is build_ism   *)
(* or module_type (before the budget checks), "Strategy" is the call the   *)
(* type's strategy makes (route, modules_and_threshold, the validator set  *)
(* and signatures, the off-chain lookup).                                  *)
(***************************************************************************)
Faults == {"None", "Classify", "Strategy"}

Results == {"Ok", "FailedToBuild", "MaxIsmDepthExceeded",
            "MaxIsmCountReached", "UnsupportedModuleType",
            "AggregationThresholdNotMet"}

Pcs == {"Classify", "CountCheck", "Route", "Modules", "Fetch",
        "AwaitChild", "AwaitChildren", "Done"}

VARIABLES
    frames,     \* path -> the state of that build_message_metadata call
    ismCount,   \* *params.ism_count
    fault       \* FaultyIsms -> Faults, fixed for the build

vars == <<frames, ismCount, fault>>

FaultOf(i) == IF i \in FaultyIsms THEN fault[i] ELSE "None"

(* A fresh call build_message_metadata(builder, ism, message, params).     *)
Call(ism, depth) ==
    [ism |-> ism, depth |-> depth, pc |-> "Classify", result |-> "None",
     dispatched |-> FALSE]

Init ==
    /\ frames = [p \in {<<>>} |-> Call(RootIsm, 0)]
    /\ ismCount = 0
    /\ fault \in [FaultyIsms -> Faults]

Finish(p, r) == frames' = [frames EXCEPT ![p].pc = "Done", ![p].result = r]

Done(p) == frames[p].pc = "Done"

Children(p) == {q \in DOMAIN frames : Len(q) = Len(p) + 1 /\ SubSeq(q, 1, Len(p)) = p}

(* u32::saturating_add(1) *)
SaturatingInc(x) == IF x = U32Max THEN x ELSE x + 1

(* Slip: the depth check lets a call at max_ism_depth through. *)
DepthExceededOffByOne(depth) == depth > MaxIsmDepth

(* params.ism_depth >= message_builder.max_ism_depth *)
DepthExceeded(depth) == depth >= MaxIsmDepth

(* Slip: the count check lets one call past max_ism_count. *)
CountExhaustedOffByOne(count) == count > MaxIsmCount

(* Slip: the count check left out. *)
CountExhaustedNever(count) == FALSE

(* *ism_count >= message_builder.max_ism_count *)
CountExhausted(count) == count >= MaxIsmCount

(***************************************************************************)
(* build_ism(ism_address) and ism.module_type() return, then the depth     *)
(* check runs and params.ism_depth is incremented, with no await between.  *)
(***************************************************************************)
Classify(p) ==
    LET f == frames[p] IN
    /\ f.pc = "Classify"
    /\ \/ /\ FaultOf(f.ism) = "Classify"
          /\ Finish(p, "FailedToBuild")
       \/ /\ FaultOf(f.ism) # "Classify"
          /\ DepthExceeded(f.depth)
          /\ Finish(p, "MaxIsmDepthExceeded")
       \/ /\ FaultOf(f.ism) # "Classify"
          /\ ~DepthExceeded(f.depth)
          /\ frames' = [frames EXCEPT ![p].depth = SaturatingInc(f.depth),
                                      ![p].pc = "CountCheck"]
    /\ UNCHANGED <<ismCount, fault>>

(* The pc a dispatched frame's strategy starts at. *)
StrategyEntry(t) ==
    CASE t = "Routing"     -> "Route"
      [] t = "Aggregation" -> "Modules"
      [] t \in FetchTypes  -> "Fetch"

(***************************************************************************)
(* The ism_count lock is taken; if the budget is spent the call fails and  *)
(* the counter is left alone, otherwise it is incremented before the lock  *)
(* is released.  Then the builder for the module type is chosen: Null      *)
(* completes at once, an unsupported type fails (having used its count),   *)
(* the others start their strategy.                                        *)
(***************************************************************************)
CountCheck(p) ==
    LET f == frames[p]
        t == ModuleTypeOf[f.ism]
    IN
    /\ f.pc = "CountCheck"
    /\ \/ /\ CountExhausted(ismCount)
          /\ Finish(p, "MaxIsmCountReached")
          /\ UNCHANGED ismCount
       \/ /\ ~CountExhausted(ismCount)
          /\ ismCount' = SaturatingInc(ismCount)
          /\ frames' =
               [frames EXCEPT ![p].dispatched = TRUE,
                  ![p].pc = IF t \in {"Null", "Unused", "LegacyMultisig"}
                            THEN "Done" ELSE StrategyEntry(t),
                  ![p].result = CASE t = "Null" -> "Ok"
                                  [] t \in {"Unused", "LegacyMultisig"}
                                        -> "UnsupportedModuleType"
                                  [] OTHER -> "None"]
    /\ UNCHANGED fault

(* Start the calls for the ISMs kids as children of p, with params.ism_depth = depth. *)
Spawn(p, kids, depth, pc) ==
    frames' = [q \in {p \o <<k>> : k \in 1..Len(kids)} |->
                   Call(kids[q[Len(q)]], depth)]
              @@ [frames EXCEPT ![p].pc = pc]

(***************************************************************************)
(* Routing strategy: route(message) names one ISM, which is built with the *)
(* same params (incremented depth, shared count); its result is returned.  *)
(***************************************************************************)
RouteQuery(p) ==
    LET f == frames[p] IN
    /\ f.pc = "Route"
    /\ \/ /\ FaultOf(f.ism) = "Strategy"
          /\ Finish(p, "FailedToBuild")
       \/ /\ FaultOf(f.ism) # "Strategy"
          /\ Spawn(p, <<Route[f.ism]>>, f.depth, "AwaitChild")
    /\ UNCHANGED <<ismCount, fault>>

RouteReturn(p) ==
    LET c == p \o <<1>> IN
    /\ frames[p].pc = "AwaitChild"
    /\ Done(c)
    /\ Finish(p, frames[c].result)
    /\ UNCHANGED <<ismCount, fault>>

(***************************************************************************)
(* Aggregation strategy: modules_and_threshold(message) names the modules, *)
(* every one is built concurrently with the same params; a child's failure *)
(* does not stop its siblings.                                             *)
(***************************************************************************)
ModulesQuery(p) ==
    LET f == frames[p] IN
    /\ f.pc = "Modules"
    /\ \/ /\ FaultOf(f.ism) = "Strategy"
          /\ Finish(p, "FailedToBuild")
       \/ /\ FaultOf(f.ism) # "Strategy"
          /\ Spawn(p, Modules[f.ism], f.depth, "AwaitChildren")
    /\ UNCHANGED <<ismCount, fault>>

(* Slips: the quorum comparison off by one in either direction. *)
ThresholdMetStrict(oks, threshold) == oks > threshold
ThresholdMetLoose(oks, threshold) == oks >= threshold - 1

(* The aggregation succeeds when at least threshold children succeeded. *)
ThresholdMet(oks, threshold) == oks >= threshold

(* Slip: return as soon as the quorum is reached, forgetting the case    *)
(* where it never is.                                                      *)
AggregationReturnAtQuorum(p) ==
    LET f == frames[p]
        oks == Cardinality({c \in Children(p) : frames[c].result = "Ok"})
    IN
    /\ f.pc = "AwaitChildren"
    /\ ThresholdMet(oks, Threshold[f.ism])
    /\ Finish(p, "Ok")
    /\ UNCHANGED <<ismCount, fault>>

AggregationReturn(p) ==
    LET f == frames[p]
        oks == Cardinality({c \in Children(p) : frames[c].result = "Ok"})
    IN
    /\ f.pc = "AwaitChildren"
    /\ \A c \in Children(p) : Done(c)
    /\ Finish(p, IF ThresholdMet(oks, Threshold[f.ism]) THEN "Ok"
                 ELSE "AggregationThresholdNotMet")
    /\ UNCHANGED <<ismCount, fault>>

(***************************************************************************)
(* Multisig and CCIP-read strategies: terminal; the validator set and      *)
(* signatures, or the off-chain lookup, either arrive or fail.             *)
(***************************************************************************)
Fetch(p) ==
    LET f == frames[p] IN
    /\ f.pc = "Fetch"
    /\ Finish(p, IF FaultOf(f.ism) = "Strategy" THEN "FailedToBuild" ELSE "Ok")
    /\ UNCHANGED <<ismCount, fault>>

Next ==
    \E p \in DOMAIN frames :
        \/ Classify(p)
        \/ CountCheck(p)
        \/ RouteQuery(p)
        \/ RouteReturn(p)
        \/ ModulesQuery(p)
        \/ AggregationReturn(p)
        \/ Fetch(p)

(***************************************************************************)
(* join_all polls every child future, and each collaborator call returns   *)
(* (its timeout is the collaborator's), so no enabled step waits forever.  *)
(***************************************************************************)
Spec == Init /\ [][Next]_vars /\ WF_vars(Next)

Terminated == Done(<<>>)

-----------------------------------------------------------------------------
(***************************************************************************)
(* Reference: whether the ISM i, reached at nesting level d, is            *)
(* verifiable given the chain's answers and unlimited count budget.        *)
(***************************************************************************)
RECURSIVE Resolvable(_, _)
Resolvable(i, d) ==
    LET t == ModuleTypeOf[i] IN
    /\ FaultOf(i) # "Classify"
    /\ d < MaxIsmDepth
    /\ CASE t = "Null"        -> TRUE
         [] t \in FetchTypes  -> FaultOf(i) # "Strategy"
         [] t = "Routing"     -> FaultOf(i) # "Strategy" /\ Resolvable(Route[i], d + 1)
         [] t = "Aggregation" ->
              /\ FaultOf(i) # "Strategy"
              /\ Cardinality({k \in 1..Len(Modules[i]) :
                                Resolvable(Modules[i][k], d + 1)}) >= Threshold[i]
         [] OTHER -> FALSE

Dispatched == {p \in DOMAIN frames : frames[p].dispatched}

(***************************************************************************)
(* The abstract build: the root's result once it is done, and the shared   *)
(* count as the budget spent.                                              *)
(***************************************************************************)
Resolution ==
    INSTANCE IsmResolution
        WITH outcome <- IF Done(<<>>) THEN frames[<<>>].result ELSE "Pending",
             spent <- ismCount,
             verifiable <- Resolvable(RootIsm, 0),
             Results <- Results

TypeOK ==
    /\ DOMAIN frames \subseteq Seq(Nat)
    /\ \A p \in DOMAIN frames :
         frames[p] \in [ism : Isms, depth : 0..U32Max, pc : Pcs,
                        result : Results \cup {"None"}, dispatched : BOOLEAN]
    /\ ismCount \in 0..MaxIsmCount
    /\ fault \in [FaultyIsms -> Faults]

(***************************************************************************)
(* Count bound: however the branches of concurrent Aggregations interleave *)
(* on the shared ism_count, the counter equals the number of ISMs whose    *)
(* strategy was started and never exceeds max_ism_count                    *)
(* (build_message_metadata, the locked check-then-increment).              *)
(***************************************************************************)
CountBound ==
    /\ ismCount = Cardinality(Dispatched)
    /\ Cardinality(Dispatched) <= MaxIsmCount

\* The calls a dispatched ISM's strategy starts: its modules, or its route.
FanOut(i) == CASE ModuleTypeOf[i] = "Aggregation" -> Len(Modules[i])
               [] ModuleTypeOf[i] = "Routing"     -> 1
               [] OTHER                           -> 0

WidestFanOut == CHOOSE n \in {FanOut(i) : i \in Isms} : \A i \in Isms : FanOut(i) <= n

\* The calls that have queried build_ism and module_type.
Queried == {p \in DOMAIN frames : frames[p].pc # "Classify"}

(***************************************************************************)
(* Chain queries stay within the budget: build_ism and module_type are     *)
(* queried before the depth and count checks, so a call the budget turns   *)
(* away has still cost its classification; yet only a dispatched ISM       *)
(* starts further calls, so one build classifies at most                   *)
(* 1 + max_ism_count * (widest fan-out) ISMs, however the branches of a    *)
(* self-referential destination interleave on the shared count.            *)
(***************************************************************************)
QueriesWithinBudget ==
    Cardinality(Queried) <= 1 + MaxIsmCount * WidestFanOut

(***************************************************************************)
(* Depth bound: an ISM's strategy is started only at a nesting level below *)
(* max_ism_depth, i.e. the by-value ism_depth each call receives tracks    *)
(* its true nesting (depth check and saturating increment, routing and     *)
(* aggregation passing params on).                                         *)
(***************************************************************************)
DepthBound ==
    \A p \in Dispatched : Len(p) < MaxIsmDepth

(***************************************************************************)
(* Soundness: a call that returns Ok was for an ISM that is verifiable at  *)
(* its nesting level: Routing returns its delegate's result, Aggregation   *)
(* needs threshold successful children, and no budget or depth check lets  *)
(* through what the reference rejects.                                     *)
(***************************************************************************)
ResultSound ==
    \A p \in DOMAIN frames :
        frames[p].result = "Ok" => Resolvable(frames[p].ism, Len(p))

(***************************************************************************)
(* Completeness when the count budget cannot bind: every finished call for *)
(* a verifiable ISM returned Ok, whatever the interleaving of branches.    *)
(***************************************************************************)
ResultComplete ==
    \A p \in DOMAIN frames :
        Done(p) /\ Resolvable(frames[p].ism, Len(p)) => frames[p].result = "Ok"

(***************************************************************************)
(***************************************************************************)
(* Refinement: the recursive, concurrent build implements IsmResolution:   *)
(* the count it spends never exceeds the budget and only grows before the  *)
(* root returns; the root returns once, never Ok for an unverifiable root, *)
(* and fails for a verifiable one only after the budget is used up.        *)
(***************************************************************************)
ImplementsResolution == Resolution!Spec

(* Termination: every build returns, also for a destination whose ISM      *)
(* configuration routes or aggregates back to itself.                      *)
(***************************************************************************)
Termination == <>Terminated

=============================================================================
