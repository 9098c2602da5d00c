------------------------------ MODULE Sessions ------------------------------
(***************************************************************************)
(* Sign-in sessions (internal/auth): login, rotation of the refresh token  *)
(* and its reuse, logout, the password operations and the administrator's  *)
(* operations, with the cache of resolved sessions every request reads.    *)
(*                                                                         *)
(* Requests are handled by threads, and one request is several statements. *)
(* A rotation holds the parent's row from its UPDATE to its commit.  An    *)
(* UPDATE of several sessions finds its rows when it starts, waits for the *)
(* rows a rotation holds, and leaves alone the ones revoked meanwhile and  *)
(* the ones it did not find.  Cached sessions are dropped after that.      *)
(***************************************************************************)
EXTENDS Integers, FiniteSets

-----------------------------------------------------------------------------
(***************************************************************************)
(* The users of one organization (internal/auth): sign-in failures and     *)
(* the lock they lead to, activation, the administrator role and password  *)
(* reset links.  A password is right or wrong; its text is not modelled.   *)
(***************************************************************************)
CONSTANTS
    Users,
    MaxFailures,    \* cfg.MaxFailedLogins
    Links           \* bound: the reset links ever sent

VARIABLES
    user,    \* user[u]: status, failed_login_count, locked_until, administrator
    link     \* link[l]: the reset link's user and whether it is used

UserStatuses == {"ACTIVE", "INACTIVE", "LOCKED"}
Untils == {"null", "future", "past"}     \* locked_until against the clock
UserRow == [status : UserStatuses, fails : 0 .. MaxFailures, until : Untils, admin : BOOLEAN]
NoUser == "none"

ASSUME UsersAssumption == MaxFailures \in Nat \ {0} /\ NoUser \notin Users

UsersInit ==
    /\ user \in [Users -> {[status |-> "ACTIVE", fails |-> 0, until |-> "null", admin |-> TRUE]}]
    /\ link = [l \in Links |-> [user |-> NoUser, used |-> FALSE]]

Active(u) == user[u].status = "ACTIVE"

-----------------------------------------------------------------------------
(***************************************************************************)
(* Statements on the users' rows.  A count beyond the limit is the limit.  *)
(***************************************************************************)
RecordLoginFailure(u) ==
    LET over == user[u].fails + 1 >= MaxFailures
    IN  user' = [user EXCEPT ![u].fails = IF over THEN MaxFailures ELSE @ + 1,
                             ![u].until = IF over THEN "future" ELSE @,
                             ![u].status = IF over /\ @ = "ACTIVE" THEN "LOCKED" ELSE @]

RecordLoginSuccess(u) == user' = [user EXCEPT ![u].fails = 0, ![u].until = "null"]

UpdateUserPassword(u) ==
    user' = [user EXCEPT ![u].fails = 0, ![u].until = "null",
                         ![u].status = IF @ = "LOCKED" THEN "ACTIVE" ELSE @]

SetUserStatus(u, to) ==
    user' = [user EXCEPT ![u].status = to,
                         ![u].fails = IF to = "ACTIVE" THEN 0 ELSE @,
                         ![u].until = IF to = "ACTIVE" THEN "null" ELSE @]

\* The lock's time passes.
LockEnds(u) ==
    /\ user[u].until = "future"
    /\ user' = [user EXCEPT ![u].until = "past"]

\* The worker's sweep.
UnlockExpiredUserLocks(u) ==
    /\ user[u].status = "LOCKED" /\ user[u].until = "past"
    /\ user' = [user EXCEPT ![u].status = "ACTIVE", ![u].until = "null", ![u].fails = 0]

AssignUserRole(u) == ~user[u].admin /\ user' = [user EXCEPT ![u].admin = TRUE]
RevokeUserRole(u) == user[u].admin /\ user' = [user EXCEPT ![u].admin = FALSE]
CountOrganizationAdmins == Cardinality({u \in Users : Active(u) /\ user[u].admin})

\* The links of a user that can still be used, and the statements on them.
OpenLinks(u) == {l \in Links : link[l].user = u /\ ~link[l].used}
InvalidateUserResetTokens(L) == [l \in Links |-> IF l \in L THEN [link[l] EXCEPT !.used = TRUE]
                                                            ELSE link[l]]
CreatePasswordResetToken(k, l, u) == [k EXCEPT ![l] = [user |-> u, used |-> FALSE]]
ConsumePasswordResetToken(l) == ~link[l].used /\ link[l].user # NoUser

-----------------------------------------------------------------------------
(***************************************************************************)
(* The sessions and the requests in progress.                              *)
(***************************************************************************)
CONSTANTS
    Threads,       \* requests in progress
    MaxSessions,   \* bound: sessions opened
    None

VARIABLES
    sess,    \* sess[s]: the session's row
    cache,   \* the sessions with a cached snapshot
    thr      \* thr[t]: what a request has still to do

sessionsVars == <<user, link, sess, cache, thr>>

Ids == 1 .. MaxSessions
NoSession == [user |-> NoUser, chain |-> 0, revoked |-> None]
Idle == [op |-> "idle"]
\* Why a session was revoked: by its rotation, or by anything that ends it.
Reasons == {"ROTATED", "ENDED"}

ASSUME SessionsAssumption == MaxSessions \in Nat /\ None \notin Reasons

SessionsInit ==
    /\ UsersInit
    /\ sess = [s \in Ids |-> NoSession]
    /\ cache = {}
    /\ thr = [t \in Threads |-> Idle]

Opened(s) == sess[s].user # NoUser
Live(s) == Opened(s) /\ sess[s].revoked = None
Chain(c) == {s \in Ids : Opened(s) /\ sess[s].chain = c}
OfUser(u) == {s \in Ids : sess[s].user = u}

\* The row a rotation has updated and not committed.
Held(s) == \E t \in Threads : thr[t].op = "rotated" /\ thr[t].s = s

Becomes(t, r) == thr' = [thr EXCEPT ![t] = r]
Done(t) == Becomes(t, Idle)

-----------------------------------------------------------------------------
(***************************************************************************)
(* Statements.                                                             *)
(***************************************************************************)
CreateSession(f, s, u, c) == [f EXCEPT ![s] = [user |-> u, chain |-> c, revoked |-> None]]

\* The next session's id.
NewSession(s) == ~Opened(s) /\ \A r \in 1 .. (s - 1) : Opened(r)

RevokeSession(s, reason) == [sess EXCEPT ![s].revoked = reason]

\* RevokeSessionChain and RevokeUserSessions, of the rows found at the start.
RevokeFound(S) ==
    [s \in Ids |-> IF s \in S /\ Live(s) THEN [sess[s] EXCEPT !.revoked = "ENDED"] ELSE sess[s]]

\* What to do after the rows: drop cached sessions, of a chain or of a user (no
\* session is of chain 0). A logout then ends the caller's own session, own.
DropChain(c, own) == [op |-> "drop", chain |-> c, user |-> NoUser, own |-> own]
DropUser(u) == [op |-> "drop", chain |-> 0, user |-> u, own |-> 0]

\* A revocation of one or several sessions starts: then is what follows it.
Revoking(S, then) == [op |-> "revoking", found |-> {s \in S : Live(s)}, then |-> then]
RevokingOwn(s) == Revoking({s}, DropChain(sess[s].chain, 0))

\* revokeChain and the RevokeUserSessions of the handlers.
Revoke(t) ==
    /\ thr[t].op = "revoking"
    /\ ~ \E s \in thr[t].found : Held(s)
    /\ sess' = RevokeFound(thr[t].found)
    /\ Becomes(t, thr[t].then)
    /\ UNCHANGED <<user, link, cache>>

\* invalidateChainCache, invalidateUserSessionCache.
dropSessionCache(t) ==
    /\ thr[t].op = "drop"
    /\ LET gone == IF thr[t].user = NoUser THEN Chain(thr[t].chain) ELSE OfUser(thr[t].user)
       IN  cache' = cache \ gone
    /\ IF thr[t].own = 0 THEN Done(t) ELSE Becomes(t, RevokingOwn(thr[t].own))
    /\ UNCHANGED <<user, link, sess>>

-----------------------------------------------------------------------------
(***************************************************************************)
(* Login.                                                                  *)
(***************************************************************************)

\* A locked account is refused before its password is looked at.
LoginFails(t, u) ==
    /\ thr[t].op = "idle"
    /\ user[u].until # "future"
    /\ RecordLoginFailure(u)
    /\ UNCHANGED <<link, sess, cache, thr>>

\* The hash of the password may have to be renewed first.
Login(t, u) ==
    /\ thr[t].op = "idle"
    /\ user[u].until # "future"
    /\ Active(u)
    /\ \E next \in {"rehash", "login"} : Becomes(t, [op |-> next, user |-> u])
    /\ UNCHANGED <<user, link, sess, cache>>

\* needsRehash: the statement of a password change, failures logged only.
Rehash(t) ==
    /\ thr[t].op = "rehash"
    /\ UpdateUserPassword(thr[t].user) \/ UNCHANGED user
    /\ Becomes(t, [op |-> "login", user |-> thr[t].user])
    /\ UNCHANGED <<link, sess, cache>>

\* openSession starts a chain of its own ...
openSession(t, s) ==
    /\ thr[t].op = "login" /\ NewSession(s)
    /\ sess' = CreateSession(sess, s, thr[t].user, s)
    /\ Becomes(t, [op |-> "opened", user |-> thr[t].user])
    /\ UNCHANGED <<user, link, cache>>

\* ... and then the login is recorded, failures logged only.
RecordLogin(t) ==
    /\ thr[t].op = "opened"
    /\ RecordLoginSuccess(thr[t].user) \/ UNCHANGED user
    /\ Done(t)
    /\ UNCHANGED <<link, sess, cache>>

-----------------------------------------------------------------------------
(***************************************************************************)
(* Refresh.                                                                *)
(***************************************************************************)

\* GetSessionByRefreshHash and what its row decides: a token that has been
\* rotated ends its chain (handleReuse), so does one of an inactive user.
Refresh(t, s) ==
    /\ thr[t].op = "idle" /\ Opened(s)
    /\ \/ /\ sess[s].revoked = "ROTATED"
          /\ Becomes(t, Revoking(Chain(sess[s].chain), DropChain(sess[s].chain, 0)))
       \/ /\ Live(s) /\ ~Active(sess[s].user)
          /\ Becomes(t, Revoking(Chain(sess[s].chain), DropChain(sess[s].chain, 0)))
       \/ /\ Live(s) /\ Active(sess[s].user)
          /\ Becomes(t, [op |-> "rotate", s |-> s])
    /\ UNCHANGED <<user, link, sess, cache>>

\* Mutant: the parent is updated whether or not it is revoked.
RotateAgain(t) ==
    /\ thr[t].op = "rotate" /\ ~Held(thr[t].s)
    /\ Becomes(t, [op |-> "rotated", s |-> thr[t].s])
    /\ UNCHANGED <<user, link, sess, cache>>

\* The transaction: the parent is revoked, if nobody has done so ...
Rotate(t) ==
    /\ thr[t].op = "rotate" /\ ~Held(thr[t].s)
    /\ IF Live(thr[t].s) THEN Becomes(t, [op |-> "rotated", s |-> thr[t].s])
                         ELSE Done(t)
    /\ UNCHANGED <<user, link, sess, cache>>

\* ... and replaced by a child of its chain.
CommitRotation(t, s) ==
    /\ thr[t].op = "rotated" /\ NewSession(s)
    /\ LET p == thr[t].s
       IN  /\ sess' = CreateSession(RevokeSession(p, "ROTATED"), s, sess[p].user, sess[p].chain)
           /\ Becomes(t, [op |-> "forget", s |-> p])
    /\ UNCHANGED <<user, link, cache>>

invalidateSessionCache(t) ==
    /\ thr[t].op = "forget"
    /\ cache' = cache \ {thr[t].s}
    /\ Done(t)
    /\ UNCHANGED <<user, link, sess>>

-----------------------------------------------------------------------------
(***************************************************************************)
(* Logout and passwords.                                                   *)
(***************************************************************************)

\* s is the session of the caller's access token. From all devices, every
\* session of the user ends and none leaves the cache; with a refresh token, of
\* session token, that one's chain ends and leaves it. Then, or at once when
\* neither is asked for, session s ends and its chain leaves the cache.
Logout(t, s, allDevices, token) ==
    /\ thr[t].op = "idle" /\ Opened(s)
    /\ \/ /\ allDevices
          /\ Becomes(t, Revoking(OfUser(sess[s].user), DropChain(0, s)))
       \/ /\ ~allDevices /\ token # 0 /\ Opened(token)
          /\ Becomes(t, Revoking(Chain(sess[token].chain), DropChain(sess[token].chain, s)))
       \/ /\ ~allDevices /\ token = 0
          /\ Becomes(t, RevokingOwn(s))
    /\ UNCHANGED <<user, link, sess, cache>>

\* ChangePassword: the password and the open links with the sessions, in one
\* transaction whose first row is the user's.
ChangePassword(t, u) ==
    /\ thr[t].op = "idle"
    /\ Becomes(t, Revoking(OfUser(u), DropUser(u)))
    /\ UpdateUserPassword(u)
    /\ link' = InvalidateUserResetTokens(OpenLinks(u))
    /\ UNCHANGED <<sess, cache>>

\* RequestPasswordReset: older links end, and a new one is sent.
RequestPasswordReset(u, l) ==
    /\ Active(u)
    /\ link[l].user = NoUser
    /\ link' = CreatePasswordResetToken(InvalidateUserResetTokens(OpenLinks(u)), l, u)
    /\ UNCHANGED <<user, sess, cache, thr>>

ResetPassword(t, l) ==
    /\ thr[t].op = "idle"
    /\ ConsumePasswordResetToken(l)
    /\ link' = [link EXCEPT ![l].used = TRUE]
    /\ UpdateUserPassword(link[l].user)
    /\ Becomes(t, Revoking(OfUser(link[l].user), DropUser(link[l].user)))
    /\ UNCHANGED <<sess, cache>>

-----------------------------------------------------------------------------
(***************************************************************************)
(* An administrator's operations.                                          *)
(***************************************************************************)

\* setStatus counts the administrators and then updates.
CheckDeactivation(t, u) ==
    /\ thr[t].op = "idle"
    /\ ~(CountOrganizationAdmins <= 1 /\ user[u].admin)
    /\ Becomes(t, [op |-> "deactivate", user |-> u])
    /\ UNCHANGED <<user, link, sess, cache>>

Deactivate(t) ==
    /\ thr[t].op = "deactivate"
    /\ SetUserStatus(thr[t].user, "INACTIVE")
    /\ Becomes(t, Revoking(OfUser(thr[t].user), DropUser(thr[t].user)))
    /\ UNCHANGED <<link, sess, cache>>

Activate(t, u) ==
    /\ thr[t].op = "idle"
    /\ user[u].status # "ACTIVE"
    /\ SetUserStatus(u, "ACTIVE")
    /\ Becomes(t, DropUser(u))
    /\ UNCHANGED <<link, sess, cache>>

\* revokeSessions.
RevokeSessions(t, u) ==
    /\ thr[t].op = "idle"
    /\ Becomes(t, Revoking(OfUser(u), DropUser(u)))
    /\ UNCHANGED <<user, link, sess, cache>>

\* assignRole and revokeRole.
ChangeRole(t, u) ==
    /\ thr[t].op = "idle"
    /\ AssignUserRole(u) \/ RevokeUserRole(u)
    /\ Becomes(t, DropUser(u))
    /\ UNCHANGED <<link, sess, cache>>

-----------------------------------------------------------------------------
(***************************************************************************)
(* Every other request: the session is resolved, from the cache if it is   *)
(* there and otherwise from the rows, and then cached.                     *)
(***************************************************************************)
\* Mutant: the row's revoked_at is not looked at.
ResolveReadsRevoked(t, s) ==
    /\ thr[t].op = "idle"
    /\ s \notin cache
    /\ Opened(s) /\ Active(sess[s].user)
    /\ Becomes(t, [op |-> "fill", s |-> s])
    /\ UNCHANGED <<user, link, sess, cache>>

ResolveReads(t, s) ==
    /\ thr[t].op = "idle"
    /\ s \notin cache
    /\ Live(s) /\ Active(sess[s].user)
    /\ Becomes(t, [op |-> "fill", s |-> s])
    /\ UNCHANGED <<user, link, sess, cache>>

SetJSON(t) ==
    /\ thr[t].op = "fill"
    /\ cache' = cache \cup {thr[t].s}
    /\ Done(t)
    /\ UNCHANGED <<user, link, sess>>

\* SessionCacheTTL has passed.
Expire(s) ==
    /\ s \in cache
    /\ cache' = cache \ {s}
    /\ UNCHANGED <<user, link, sess, thr>>

Clock(u) == (LockEnds(u) \/ UnlockExpiredUserLocks(u)) /\ UNCHANGED <<link, sess, cache, thr>>

\* A request's next statement.
Continue(t) ==
    \/ Revoke(t) \/ dropSessionCache(t) \/ Rehash(t) \/ RecordLogin(t) \/ Rotate(t)
    \/ invalidateSessionCache(t) \/ Deactivate(t) \/ SetJSON(t)
    \/ \E s \in Ids : openSession(t, s) \/ CommitRotation(t, s)

Start(t) ==
    \/ \E u \in Users :
          \/ LoginFails(t, u) \/ Login(t, u) \/ ChangePassword(t, u)
          \/ CheckDeactivation(t, u) \/ Activate(t, u) \/ RevokeSessions(t, u) \/ ChangeRole(t, u)
    \/ \E s \in Ids :
          \/ Refresh(t, s) \/ ResolveReads(t, s)
          \/ \E allDevices \in BOOLEAN, token \in Ids \cup {0} : Logout(t, s, allDevices, token)
    \/ \E l \in Links : ResetPassword(t, l)

SessionsNext ==
    \/ \E t \in Threads : Start(t) \/ Continue(t)
    \/ \E s \in Ids : Expire(s)
    \/ \E u \in Users : Clock(u) \/ \E l \in Links : RequestPasswordReset(u, l)

SessionsSpec == SessionsInit /\ [][SessionsNext]_sessionsVars

\* A request that has started runs on, and a cached snapshot has a TTL that no
\* reader extends.
SessionsFairness ==
    /\ \A t \in Threads : WF_sessionsVars(Continue(t))
    /\ \A s \in Ids : WF_sessionsVars(Expire(s))

-----------------------------------------------------------------------------
(***************************************************************************)
(* What must hold.                                                         *)
(***************************************************************************)

\* Every column holds a value of its type, and a chain is named after the login
\* that started it, of the same user.
SessionsTypeOK ==
    /\ user \in [Users -> UserRow]
    /\ sess \in [Ids -> [user : Users \cup {NoUser}, chain : 0 .. MaxSessions,
                         revoked : Reasons \cup {None}]]
    /\ cache \subseteq Ids
    /\ \A l \in Links : link[l].user \in Users \cup {NoUser}
    /\ \A s \in Ids : Opened(s) => /\ sess[s].chain \in 1 .. s
                                   /\ sess[sess[s].chain].user = sess[s].user

\* "instead of both callers minting children" (Refresh): a login has at most
\* one session that is not revoked, however often its tokens are presented.
OneLivePerChain == \A s, r \in Ids : Live(s) /\ Live(r) /\ sess[s].chain = sess[r].chain => s = r

\* "a revocation takes effect immediately in practice and within one TTL in the
\* worst case" (sessionSnapshot): a revoked session leaves the cache for good.
\* Requests that read its row before may still cache it after the drop, one
\* after the other; no request that starts later does, and what they cached
\* expires.
RevokedGoesAway == \A s \in Ids : (Opened(s) /\ ~Live(s)) ~> [](s \notin cache)

-----------------------------------------------------------------------------
(***************************************************************************)
(* What the code says of itself and does not keep (see the README).        *)
(***************************************************************************)

\* "This account is temporarily locked" (Login): every lock has an end.  A login
\* that was under way when the lock was set erases the end and not the lock.
LockHasEnd == \A u \in Users : user[u].status = "LOCKED" => user[u].until # "null"

\* "the whole rotation chain is revoked, so a stolen refresh token cannot outlive
\* the user's sign-out" (Logout; Refresh says the same of a reused token): the
\* statement that revokes the chain of a logout's token leaves no live session
\* in it.  The child of a rotation that commits while the statement waits is not
\* found and survives.
ChainIsRevoked ==
    [][\A t \in Threads :
          thr[t].op = "revoking" /\ thr'[t].op = "drop" /\ thr[t].then.own # 0
              => \A s \in Ids : Live(s)' => sess'[s].chain # thr[t].then.chain]_sessionsVars

\* "Refuse to remove the last active administrator" (setStatus)
SomeAdministrator == CountOrganizationAdmins > 0

=============================================================================
