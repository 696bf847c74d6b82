----------------------------- MODULE EigenNodeApi -----------------------------
(***************************************************************************)
(* The validator's EigenLayer node API                                     *)
(* (agents/validator/src/server/eigen_node.rs): the routes under /eigen    *)
(* and their handlers, which read the validator's checkpoint gauges.      *)
(*                                                                         *)
(* The gauges latest_checkpoint{validator_observed} and                    *)
(* latest_checkpoint{validator_processed} of the origin chain belong to    *)
(* CoreMetrics (aetherium_base, not in this repository); the validator's   *)
(* tasks set them while the server runs.  Here they move forward by any    *)
(* amount up to MaxCheckpoint, in either order, and a restart of the       *)
(* validator process registers fresh gauges at 0.  Only the status of a    *)
(* response matters to the properties; the JSON bodies of the info and     *)
(* services routes are left out.                                           *)
(***************************************************************************)
EXTENDS Integers

CONSTANTS
    MaxCheckpoint,   \* highest checkpoint index a gauge is set to
    MaxRestarts,     \* restarts of the validator process
    ServiceIds       \* values of :service_id requested, known or not

VARIABLES
    observed,    \* gauge validator_observed: latest checkpoint index seen
    processed,   \* gauge validator_processed: latest checkpoint signed
    restarts,    \* restarts so far
    response     \* route -> the status of its last response, and for the
                 \* health route the gauges it read and the run (restart
                 \* count) of the process that served it

vars == <<observed, processed, restarts, response>>

\* The services node_services_handler lists, all with status Up.
Services == {"aetherium-validator-indexer", "aetherium-validator-submitter"}

\* The router's routes under /eigen/node.
Routes == {"node", "health", "services", "serviceHealth"}

NoResponse == [status |-> 0, observed |-> 0, processed |-> 0, run |-> 0]

\* The response of a route that reads no state.
Fixed(status) == [status |-> status, observed |-> 0, processed |-> 0, run |-> 0]

Init ==
    /\ observed = 0
    /\ processed = 0
    /\ restarts = 0
    /\ response = [r \in Routes |-> NoResponse]

Respond(route, r) == response' = [response EXCEPT ![route] = r]

(* Slip: the delta taken the other way round, as the handler's doc      *)
(* comment writes it.                                                      *)
CheckpointDeltaSwapped == processed - observed

(* CoreMetrics::get_latest_checkpoint_validator_delta (aetherium_base,    *)
(* outside this repository): observed minus processed, as the             *)
(* health test sets the two gauges (42 and unset: 503; 42 and 34: 206;    *)
(* 42 and 42: 200).                                                       *)
CheckpointDelta == observed - processed

(* node_health_handler's classification of the delta. *)
NodeHealthStatus(delta) ==
    CASE delta <= 1  -> 200
      [] delta <= 10 -> 206
      [] OTHER       -> 503

(* GET /eigen/node: node_info_handler, the fixed NodeInfo. *)
NodeInfo == Respond("node", Fixed(200)) /\ UNCHANGED <<observed, processed, restarts>>

(* GET /eigen/node/health: node_health_handler with the origin chain. *)
NodeHealth ==
    /\ Respond("health", [status |-> NodeHealthStatus(CheckpointDelta),
                          observed |-> observed, processed |-> processed,
                          run |-> restarts])
    /\ UNCHANGED <<observed, processed, restarts>>

(* GET /eigen/node/services: node_services_handler, the hardcoded list. *)
NodeServices == Respond("services", Fixed(200)) /\ UNCHANGED <<observed, processed, restarts>>

(* GET /eigen/node/services/:service_id/health: 200 for any id. *)
ServiceHealth(id) ==
    /\ Respond("serviceHealth", Fixed(200))
    /\ UNCHANGED <<observed, processed, restarts>>

(* The validator observes a later checkpoint. *)
Observe(n) ==
    /\ observed < n
    /\ observed' = n
    /\ UNCHANGED <<processed, restarts, response>>

(* The validator signs up to checkpoint n. *)
Sign(n) ==
    /\ processed < n
    /\ processed' = n
    /\ UNCHANGED <<observed, restarts, response>>

(* The validator process restarts: new CoreMetrics, gauges at 0.  The   *)
(* responses are what the clients last received.                           *)
Restart ==
    /\ restarts < MaxRestarts
    /\ observed' = 0 /\ processed' = 0
    /\ restarts' = restarts + 1
    /\ UNCHANGED response

Next ==
    \/ NodeInfo \/ NodeHealth \/ NodeServices
    \/ \E id \in ServiceIds : ServiceHealth(id)
    \/ \E n \in 1..MaxCheckpoint : Observe(n) \/ Sign(n)
    \/ Restart

Spec == Init /\ [][Next]_vars

-----------------------------------------------------------------------------
\* How bad a health status is.
Severity(status) == CASE status = 200 -> 0 [] status = 206 -> 1 [] OTHER -> 2

(***************************************************************************)
(* Health improves only by signing: while the same validator process       *)
(* serves the health route, a response better than the previous one        *)
(* (503 then 206 or 200, 206 then 200) follows an advance of the signed     *)
(* checkpoint gauge; observing new checkpoints never makes the node look   *)
(* healthier.  This takes the gauges of two tasks and two requests.        *)
(***************************************************************************)
HealthImprovesOnlyBySigning ==
    [][LET h == response["health"]
           h2 == response'["health"]
       IN  h2 # h /\ h.status # 0 /\ h2.run = h.run
             /\ Severity(h2.status) < Severity(h.status)
               => h2.processed > h.processed]_vars

=============================================================================
