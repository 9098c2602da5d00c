------------------------------ MODULE MCOutbox ------------------------------
(***************************************************************************)
(* Module Outbox for TLC.  The two services share only the threads, and    *)
(* the key decides only who may create the endpoint: a behaviour uses one  *)
(* of the services, and the key is done with before the endpoint is there. *)
(* An endpoint created before there is a key gets one delivery.            *)
(* Rows are interchangeable and are taken in order; an operator changes    *)
(* the subscription before the first delivery, and the endpoint's status   *)
(* before the second.                                                      *)
(***************************************************************************)
EXTENDS Outbox

CONSTANTS n1, n2, d1, d2

NotesInUse == \E n \in Notes : Raised(n)
WebhooksInUse == endpoint.status # "none"

MCNext ==
    /\ OutboxNext
    /\ NotesInUse => UNCHANGED <<key, endpoint>>
    /\ WebhooksInUse => UNCHANGED <<note, key, template>>
    /\ Raised(n2)' => Raised(n1)'
    /\ WebhooksInUse' => key.status = "none" \/ Verify
    /\ Queued(d2)' => Queued(d1)' /\ key.status # "none"
    /\ endpoint.subscribed # endpoint'.subscribed => ~Queued(d1)
    /\ (\E to \in EndpointStatuses : SetEndpointStatus(to)) => ~Queued(d2)

MCSpec == OutboxInit /\ [][MCNext]_outboxVars /\ Fairness

=============================================================================
