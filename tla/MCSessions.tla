----------------------------- MODULE MCSessions -----------------------------
(* One user's sign-ins, on two threads. The questions are asked one at a     *)
(* time: part says what may start. Whatever has started runs on.             *)
EXTENDS Sessions

VARIABLE part

\* What is open, or about to be.
Pending ==
    Cardinality({s \in Ids : Opened(s)})
    + Cardinality({t \in Threads : thr[t].op \in {"rehash", "login", "rotate", "rotated"}})

SignInOut(t) ==
    \/ \E u \in Users : Login(t, u)
    \/ \E s \in Ids :
          \/ Refresh(t, s)
          \/ \E allDevices \in BOOLEAN, token \in Ids \cup {0} : Logout(t, s, allDevices, token)

Begins(t) ==
    /\ \/ part = "tokens" /\ SignInOut(t)
       \/ part = "cache" /\ (SignInOut(t) \/ \E s \in Ids : ResolveReads(t, s))
       \/ part = "users" /\ Start(t)
    /\ Pending' > Pending => Pending' <= [tokens |-> 3, cache |-> 2, users |-> 1][part]

MCInit == SessionsInit /\ part \in {"tokens", "cache", "users"}

MCNext ==
    /\ \/ \E t \in Threads : Begins(t) \/ Continue(t)
       \/ \E s \in Ids : Expire(s)
       \/ \E u \in Users : \/ Clock(u)
                           \/ part = "users" /\ \E l \in Links : RequestPasswordReset(u, l)
    /\ UNCHANGED part

MCSpec == MCInit /\ [][MCNext]_<<sessionsVars, part>> /\ SessionsFairness

=============================================================================
