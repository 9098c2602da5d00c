----------------------------- MODULE CashChain ------------------------------
(***************************************************************************)
(* What cash on delivery promises about the money itself, with no          *)
(* declaration, count sheet or journal in sight.  The cash for a parcel is *)
(* with the consignee, then with exactly one party of the network, and in  *)
(* the end banked.  It moves from the party that has it to another one, a  *)
(* batch at a time or not at all; once counted it stays where it is; and   *)
(* it is banked once, from a branch or a franchise or after a count.       *)
(***************************************************************************)
CONSTANTS Obligations, Agents, Branches, Franchises

VARIABLES where,     \* where[o]: "consignee", "banked" or a party
          counted    \* the obligations whose cash has been counted and not banked

Parties == Agents \cup Branches \cup Franchises

Init ==
    /\ where = [o \in Obligations |-> "consignee"]
    /\ counted = {}

Collect(o) ==
    /\ where[o] = "consignee"
    /\ \E a \in Agents : where' = [where EXCEPT ![o] = a]
    /\ UNCHANGED counted

\* One party hands a batch to another.
HandOver ==
    /\ \E giver, taker \in Parties : \E S \in SUBSET Obligations :
        /\ giver # taker
        /\ \A o \in S : where[o] = giver /\ o \notin counted
        /\ where' = [o \in Obligations |-> IF o \in S THEN taker ELSE where[o]]
    /\ UNCHANGED counted

Count ==
    /\ \E S \in SUBSET Obligations :
        /\ \A o \in S : where[o] \in Parties
        /\ counted' = counted \cup S
    /\ UNCHANGED where

Bank ==
    /\ \E S \in SUBSET Obligations :
        /\ \A o \in S : \/ where[o] \in Branches \cup Franchises
                        \/ where[o] \in Agents /\ o \in counted
        /\ where' = [o \in Obligations |-> IF o \in S THEN "banked" ELSE where[o]]
        /\ counted' = counted \ S

Next == (\E o \in Obligations : Collect(o)) \/ HandOver \/ Count \/ Bank

Spec == Init /\ [][Next]_<<where, counted>>

=============================================================================
