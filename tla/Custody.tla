------------------------------ MODULE Custody -------------------------------
(***************************************************************************)
(* What the movement modules together promise about every parcel, with no  *)
(* bag, manifest or scan in sight: it is in exactly one place, it boards a *)
(* vehicle from a facility and only as that vehicle leaves, it gets off at *)
(* a facility, and once settled (cancelled, or back with its sender) it    *)
(* never moves again.  Many parcels may move in one step: a trip takes all *)
(* of its parcels with it, or none.                                        *)
(***************************************************************************)
CONSTANTS Shipments, Units, Trips, Nil

VARIABLES phase,   \* phase[s]: who has the parcel
          place,   \* place[s]: the facility or the vehicle, Nil otherwise
          gone     \* the trips that have left

Init ==
    /\ phase = [s \in Shipments |-> "sender"]
    /\ place = [s \in Shipments |-> Nil]
    /\ gone = {}

Stay(s) == phase'[s] = phase[s] /\ place'[s] = place[s]

\* A facility takes the parcel: from the sender, a facility or a vehicle.
TakeIn(s) ==
    /\ phase[s] # "settled"
    /\ phase'[s] = "facility" /\ place'[s] \in Units

\* The parcel leaves a facility on a vehicle that leaves in this very step.
Board(s) ==
    /\ phase[s] = "facility"
    /\ phase'[s] = "vehicle" /\ place'[s] \in gone' \ gone

Settle(s) ==
    /\ phase[s] # "settled"
    /\ phase'[s] = "settled" /\ place'[s] = Nil

Next ==
    /\ gone' = gone \/ \E t \in Trips \ gone : gone' = gone \cup {t}
    /\ \A s \in Shipments : Stay(s) \/ TakeIn(s) \/ Board(s) \/ Settle(s)

Spec == Init /\ [][Next]_<<phase, place, gone>>

=============================================================================
