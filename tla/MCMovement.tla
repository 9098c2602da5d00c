----------------------------- MODULE MCMovement -----------------------------
(***************************************************************************)
(* The network on a small instance: one parcel, one bag, one manifest, one *)
(* trip, and the route Origin -> Hub -> Dest, whose one hub is both hubs.  *)
(***************************************************************************)
EXTENDS Movement

CONSTANTS Origin, Hub, Dest

HubRoute == [s \in Shipments |-> [originBranch |-> Origin, originHub |-> Hub,
                                  destHub |-> Hub, destBranch |-> Dest]]

\* No branch serves the sender's address, so returns go to the booking branch.
NoReturnBranch == [s \in Shipments |-> Nil]

ViaHub == {<<Origin, Hub>>, <<Hub, Dest>>}

\* A behaviour with a bag uses the first lane, without way stations, on a trip
\* that has its crew and is neither cancelled nor closed, and no hand-over fails;
\* one with loose parcels alone uses both lanes, any stops and every ending.
FirstLaneOnly ==
    /\ \A b \in Bags : bag[b].status # "NONE" => bag[b].from = Origin
    /\ \A m \in Manifests : manifest[m].status # "NONE" => manifest[m].from = Origin
    /\ \A t \in Trips : trip[t].status # "NONE" =>
          /\ trip[t].from = Origin /\ trip[t].stops = {Hub} /\ trip[t].crewed
          /\ trip[t].status \notin {"CANCELLED", "CLOSED"}
    /\ \A s \in Shipments : rto[s] # "RETURN_FAILED"

MCNext == Next /\ ((\E b \in Bags : bag'[b].status # "NONE") => FirstLaneOnly')

MCSpec == Init /\ [][MCNext]_vars

=============================================================================
