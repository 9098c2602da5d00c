----------------------------- MODULE MCLastMile -----------------------------
(* The last mile of one parcel at its destination branch.                    *)
EXTENDS LastMile, TLC

CONSTANTS Origin, Dest

ToDest == [s \in Shipments |-> [originBranch |-> Origin, originHub |-> Nil,
                                destHub |-> Nil, destBranch |-> Dest]]

NoReturnBranch == [s \in Shipments |-> Nil]

\* CUSTOMER_NOT_AVAILABLE (with two attempts, not three) and SHIPMENT_DAMAGED of
\* the seeded catalogue: one policy ends in a return, the other in a decision.
Seeded == {[action |-> "REATTEMPT", max |-> 2, auto |-> TRUE],
           [action |-> "ESCALATE", max |-> 1, auto |-> FALSE]}

NoLanes == {}

\* No operation tells two runs apart.
Symmetric == Permutations(Runs)

\* A wrong code changes nothing but the count of wrong codes, and neither a code
\* nor a submission is touched by anything a run does: codes and submissions
\* are offered, and cash reported by an attempt that delivers nothing, while one
\* run is planned at most, and one of them at a time.
MCNext ==
    LET code  == \E s \in Shipments : otp'[s].live
        proof == submit' # [c \in Submitters |-> Nil]
        loose == \E s \in Shipments : att'[s].loose = 1
    IN  /\ Next
        /\ code \/ proof \/ loose => Cardinality({r \in Runs : run'[r].status # "NONE"}) <= 1
        /\ ~(code /\ proof) /\ ~(code /\ loose) /\ ~(loose /\ proof)

MCSpec == Init /\ [][MCNext]_vars

=============================================================================
