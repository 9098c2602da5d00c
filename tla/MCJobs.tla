------------------------------- MODULE MCJobs -------------------------------
(* Model-checking instance of Jobs: two jobs share a dedupe key, a third has none. *)
EXTENDS Jobs

CONSTANTS j1, j2, j3, w1, w2, k1

MCDedupeKey == [j \in Jobs |-> IF j = j3 THEN NoKey ELSE k1]

\* Nothing tells w1 from w2 (liveness rules a symmetry set out): the process that
\* goes down, there being one fault, is w1's.  What can go wrong goes wrong with
\* j1, whose lock expires under its holder once.  j3, which shares no key, is
\* there to fill a batch and may be submitted for later; j2 takes j1's key when
\* it is free.
MCNext ==
    /\ Next
    /\ mode'[w2] = "up"
    /\ status'[j1] # "NONE" => status'[j3] # "NONE"
    /\ status'[j2] # "NONE" => status'[j1] # "NONE" /\ faults' = faults
    /\ permanent' \cup overtaken' \subseteq {j1}
    /\ j1 \in overtaken /\ released'[j1] > released[j1] =>
          \A w \in Workers : \A c \in Held(w) : c[1] # j1
    /\ \A j \in {j1, j2} : attempts'[j] = 0 => delay'[j] = 0
    /\ attempts'[j3] <= MaxAttempts
    /\ attempts'[j2] = 1 => status'[j2] # "PENDING"

MCSpec == Init /\ [][MCNext]_vars /\ Fairness

=============================================================================
