--------------------------- MODULE IsmResolution ---------------------------
(***************************************************************************)
(* What one build of message metadata promises its caller (sections 4.2   *)
(* to 4.4 and 7 of the specification), with the recursion and the         *)
(* concurrency of the branches hidden:                                     *)
(*   - while the build runs it spends the shared count budget one ISM at   *)
(*     a time, never beyond max_ism_count;                                 *)
(*   - it returns once, with Ok only if the root ISM is verifiable, and    *)
(*     fails for a verifiable root only when the whole budget was spent.   *)
(***************************************************************************)
EXTENDS Naturals

CONSTANTS
    MaxIsmCount,   \* the count budget
    Results        \* the results a build can return, "Ok" among them

VARIABLES
    outcome,       \* "Pending" while the build runs, then its result
    spent,         \* the count budget used so far
    verifiable     \* whether the root ISM is verifiable within the depth
                   \* budget, given the chain's answers (fixed for the build)

vars == <<outcome, spent, verifiable>>

Init == outcome = "Pending" /\ spent = 0 /\ verifiable \in BOOLEAN

(* One more ISM dispatched. *)
Consume ==
    /\ outcome = "Pending"
    /\ spent < MaxIsmCount
    /\ spent' = spent + 1
    /\ UNCHANGED <<outcome, verifiable>>

(* The results allowed when the build returns. *)
Allowed ==
    IF ~verifiable THEN Results \ {"Ok"}
    ELSE IF spent = MaxIsmCount THEN Results
    ELSE {"Ok"}

Return ==
    /\ outcome = "Pending"
    /\ outcome' \in Allowed
    /\ UNCHANGED <<spent, verifiable>>

Next == Consume \/ Return

Spec == Init /\ [][Next]_vars /\ WF_vars(Return)

=============================================================================
