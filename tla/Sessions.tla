------------------------------ MODULE Sessions ------------------------------
(***************************************************************************)
(* The sessions of one user in one organization.                           *)
(*                                                                         *)
(* A password login, an MFA challenge, a refresh token or an administrator *)
(* makes a session.  createSession inserts it, reads the active ones and   *)
(* then revokes those beyond the role's limit, three separate calls; a     *)
(* refresh revokes the session it replaces after all of them.  Meanwhile   *)
(* the user logs out and administrators change the role, suspend and       *)
(* remove.  Sessions are numbered in the order of createdAt.               *)
(***************************************************************************)
EXTENDS Memberships, Sequences

CONSTANTS
    Limit,        \* resolveConcurrentSessionLimit
    Challenges,   \* MFA challenges the user may be given
    NoRole, NoToken,
    MaxSessions,  \* bound: sessions ever made
    MaxEvents     \* bound: everything but logins and refreshes, failures included

ASSUME SessionAssumption ==
    /\ Limit \in [Roles -> Nat \ {0}]
    /\ MaxSessions \in Nat /\ MaxEvents \in Nat
    /\ NoRole \notin Roles /\ NoToken \notin Nat \cup Challenges
    /\ Challenges \cap Nat = {}

VARIABLES
    suspended,  \* User.status
    sweeping,   \* suspendUser is done, revokeAllSessions not yet
    challenge,  \* challenge[c]: "none", "open" or "consumed"
    sessions,   \* the rows: the role of the token, and the epoch it goes back to
    live,       \* the sessions with revokedAt = null
    request,    \* request[r]: where r is and what it has read
    heirs,      \* heirs[t]: sessions made from refresh token or challenge t
    epoch,      \* how many times all sessions have been revoked
    overlapped, \* the epochs that ended while a request held on to an older one
    forked,     \* tokens refreshed twice at once, or by a request that failed
    loose,      \* sessions made without a role or by a request that failed
    events      \* events so far

sessionVars == <<sessions, live, heirs, loose>>
ghostVars   == <<epoch, overlapped, forked>>
vars == <<memberVars, suspended, sweeping, challenge, sessionVars, request,
          ghostVars, events>>

Ids    == 1 .. Len(sessions)
Tokens == (1 .. MaxSessions) \cup Challenges
Steps  == {"idle", "verify", "role", "create", "limit", "revoke", "rotate"}
RequestRows == [at : Steps, token : Tokens \cup {NoToken}, role : Roles \cup {NoRole},
                epoch : Nat, made : Nat, doomed : SUBSET (1 .. MaxSessions)]
Idle == [at |-> "idle", token |-> NoToken, role |-> NoRole, epoch |-> 0, made |-> 0, doomed |-> {}]

TypeOK ==
    /\ MembersTypeOK
    /\ suspended \in BOOLEAN /\ sweeping \in BOOLEAN
    /\ challenge \in [Challenges -> {"none", "open", "consumed"}]
    /\ sessions \in Seq([role : Roles \cup {NoRole}, epoch : Nat])
    /\ live \subseteq Ids /\ loose \subseteq Ids
    /\ request \in [Requests -> RequestRows]
    /\ heirs \in [Tokens -> Nat]
    /\ epoch \in Nat /\ overlapped \subseteq 1 .. epoch /\ forked \subseteq Tokens
    /\ events \in 0 .. MaxEvents
    /\ \A r \in Requests : request[r].made \notin request[r].doomed

Init ==
    /\ MembersInit
    /\ suspended = FALSE /\ sweeping = FALSE
    /\ challenge = [c \in Challenges |-> "none"]
    /\ sessions = <<>> /\ live = {} /\ loose = {}
    /\ request = [r \in Requests |-> Idle]
    /\ heirs = [t \in Tokens |-> 0]
    /\ epoch = 0 /\ overlapped = {} /\ forked = {}
    /\ events = 0

At(r, step) == request[r].at = step
Event == events < MaxEvents /\ events' = events + 1

-----------------------------------------------------------------------------
(* What makes a session.                                                   *)

Begin(r, step, token, role, since) ==
    /\ At(r, "idle") /\ accepting[r] = NoInvite
    /\ request' = [request EXCEPT ![r] = [Idle EXCEPT !.at = step, !.token = token,
                                                      !.role = role, !.epoch = since]]

(* The right password of an active member who is not suspended. *)
Login(r) ==
    /\ Active /\ ~suspended
    /\ Begin(r, "create", NoToken, member.role, epoch)
    /\ UNCHANGED <<memberVars, suspended, sweeping, challenge, sessionVars, ghostVars, events>>

(* The login of a user with MFA makes a challenge instead of a session. *)
GiveChallenge(r, c) ==
    /\ At(r, "create") /\ request[r].token = NoToken /\ request[r].role # NoRole
    /\ challenge[c] = "none" /\ Event
    /\ challenge' = [challenge EXCEPT ![c] = "open"]
    /\ request' = [request EXCEPT ![r] = Idle]
    /\ UNCHANGED <<memberVars, suspended, sweeping, sessionVars, ghostVars>>

(* A right code for a challenge read as open. *)
Verify(r, c) ==
    /\ challenge[c] = "open"
    /\ Begin(r, "verify", c, NoRole, epoch)
    /\ UNCHANGED <<memberVars, suspended, sweeping, challenge, sessionVars, ghostVars, events>>

(* updateMany where consumedAt is null; a count other than one is an error. *)
Consume(r) ==
    /\ At(r, "verify")
    /\ LET c == request[r].token IN
       IF challenge[c] = "open"
       THEN /\ challenge' = [challenge EXCEPT ![c] = "consumed"]
            /\ request' = [request EXCEPT ![r] = [@ EXCEPT !.at = "role"]]
       ELSE /\ request' = [request EXCEPT ![r] = Idle]
            /\ UNCHANGED challenge
    /\ UNCHANGED <<memberVars, suspended, sweeping, sessionVars, ghostVars, events>>

(* Mutant of Present: the revokedAt of the session is not looked at. *)
PresentAny(r, s) ==
    /\ s \in Ids
    /\ Begin(r, "role", s, NoRole, sessions[s].epoch)
    /\ UNCHANGED <<memberVars, suspended, sweeping, challenge, sessionVars, ghostVars, events>>

(* A refresh token whose session is not revoked. *)
Refreshing(s) == \E r \in Requests : request[r].token = s
Present(r, s) ==
    /\ s \in live
    /\ Begin(r, "role", s, NoRole, sessions[s].epoch)
    /\ forked' = IF Refreshing(s) THEN forked \cup {s} ELSE forked
    /\ UNCHANGED <<memberVars, suspended, sweeping, challenge, sessionVars, epoch, overlapped, events>>

(* A challenge takes the role of the row whatever its status, a refresh only
   an active member's; failing to read it, the refresh goes on without. *)
RoleRead(t) ==
    IF t \in Challenges THEN IF member = NoMember THEN NoRole ELSE member.role
    ELSE IF Active THEN member.role ELSE NoRole
ReadRole(r) ==
    /\ At(r, "role")
    /\ \/ /\ request' = [request EXCEPT ![r] =
                            [@ EXCEPT !.at = "create", !.role = RoleRead(request[r].token)]]
          /\ UNCHANGED events
       \/ /\ request[r].token \in Ids /\ Event
          /\ request' = [request EXCEPT ![r] = [@ EXCEPT !.at = "create"]]
    /\ UNCHANGED <<memberVars, suspended, sweeping, challenge, sessionVars, ghostVars>>

(* An administrator's session for the user, made without a role. *)
Impersonate(r) ==
    /\ member # NoMember /\ Event
    /\ Begin(r, "create", NoToken, NoRole, epoch)
    /\ UNCHANGED <<memberVars, suspended, sweeping, challenge, sessionVars, ghostVars>>

-----------------------------------------------------------------------------
(* createSession, and the rest of refreshSession.                          *)

(* The request is done with its session: a refresh has the old one to revoke. *)
AfterCreate(r) == IF request[r].token \in Ids THEN "rotate" ELSE "idle"
Settle(r) == request' = [request EXCEPT ![r] = IF AfterCreate(r) = "idle" THEN Idle
                                               ELSE [@ EXCEPT !.at = "rotate", !.doomed = {}]]

Create(r) ==
    /\ At(r, "create") /\ Len(sessions) < MaxSessions
    /\ LET q == request[r]  new == Len(sessions) + 1 IN
       /\ sessions' = Append(sessions, [role |-> q.role, epoch |-> q.epoch])
       /\ live' = live \cup {new}
       /\ loose' = IF q.role = NoRole THEN loose \cup {new} ELSE loose
       /\ heirs' = IF q.token = NoToken THEN heirs ELSE [heirs EXCEPT ![q.token] = @ + 1]
       /\ request' = [request EXCEPT ![r] =
             IF q.role # NoRole THEN [q EXCEPT !.at = "limit", !.made = new]
             ELSE IF AfterCreate(r) = "idle" THEN Idle ELSE [q EXCEPT !.at = "rotate", !.made = new]]
    /\ UNCHANGED <<memberVars, suspended, sweeping, challenge, ghostVars, events>>

(* Mutants of Beyond: the newest limit of the others are kept; the session
   just made is not left out. *)
BeyondOneMore(own, limit) ==
    IF Cardinality(live) <= limit THEN {}
    ELSE {s \in live \ {own} : Cardinality({u \in live \ {own} : u > s}) >= limit}
BeyondOwn(own, limit) ==
    IF Cardinality(live) <= limit THEN {}
    ELSE {s \in live : Cardinality({u \in live : u < s}) >= limit}

(* All but the session just made and the newest limit - 1 of the others. *)
Newer(s, S) == {u \in S : u > s}
Beyond(own, limit) ==
    IF Cardinality(live) <= limit THEN {}
    ELSE {s \in live \ {own} : Cardinality(Newer(s, live \ {own})) >= limit - 1}

ReadActive(r) ==
    /\ At(r, "limit")
    /\ LET excess == Beyond(request[r].made, Limit[request[r].role]) IN
       IF excess = {} THEN Settle(r)
       ELSE request' = [request EXCEPT ![r] = [@ EXCEPT !.at = "revoke", !.doomed = excess]]
    /\ UNCHANGED <<memberVars, suspended, sweeping, challenge, sessionVars, ghostVars, events>>

(* Mutant of Rotate: the replaced session is left as it is. *)
RotateNot(r) ==
    /\ At(r, "rotate")
    /\ request' = [request EXCEPT ![r] = Idle]
    /\ UNCHANGED <<memberVars, suspended, sweeping, challenge, sessionVars, ghostVars, events>>

RevokeExcess(r) ==
    /\ At(r, "revoke")
    /\ live' = live \ request[r].doomed
    /\ Settle(r)
    /\ UNCHANGED <<memberVars, suspended, sweeping, challenge, sessions, heirs, loose, ghostVars, events>>

Rotate(r) ==
    /\ At(r, "rotate")
    /\ live' = live \ {request[r].token}
    /\ request' = [request EXCEPT ![r] = Idle]
    /\ UNCHANGED <<memberVars, suspended, sweeping, challenge, sessions, heirs, loose, ghostVars, events>>

(* A call throws, or the process dies: whatever is committed stays. *)
Fail(r) ==
    /\ ~At(r, "idle") /\ Event
    /\ loose' = IF request[r].at \in {"limit", "revoke"} THEN loose \cup {request[r].made} ELSE loose
    /\ forked' = IF request[r].made > 0 /\ request[r].token \in Ids
                 THEN forked \cup {request[r].token} ELSE forked
    /\ request' = [request EXCEPT ![r] = Idle]
    /\ UNCHANGED <<memberVars, suspended, sweeping, challenge, sessions, live, heirs, epoch, overlapped>>

-----------------------------------------------------------------------------
(* What ends sessions.                                                     *)

(* revokeCurrentSession, or revokeSessionById of another device's. *)
Logout(s) ==
    /\ s \in live /\ Event
    /\ live' = live \ {s}
    /\ UNCHANGED <<memberVars, suspended, sweeping, challenge, sessions, heirs, loose, request, ghostVars>>

(* updateMany: every session of the user, and no request still to make one. *)
RevokeAll ==
    /\ live' = {}
    /\ epoch' = epoch + 1
    /\ overlapped' = IF \E r \in Requests : request[r].at \in {"verify", "role", "create"}
                     THEN overlapped \cup {epoch + 1} ELSE overlapped
    /\ UNCHANGED <<sessions, heirs, loose, request, forked>>

LogoutAll ==
    /\ live # {} /\ Event
    /\ RevokeAll
    /\ UNCHANGED <<memberVars, suspended, sweeping, challenge>>

(* The suspend route: the user first, then all sessions. *)
Suspend ==
    /\ ~suspended /\ Event
    /\ suspended' = TRUE /\ sweeping' = TRUE
    /\ UNCHANGED <<memberVars, challenge, sessionVars, request, ghostVars>>
Sweep ==
    /\ sweeping /\ sweeping' = FALSE
    /\ RevokeAll
    /\ UNCHANGED <<memberVars, suspended, challenge, events>>
SweepFails ==
    /\ sweeping /\ Event /\ sweeping' = FALSE
    /\ UNCHANGED <<memberVars, suspended, challenge, sessionVars, request, ghostVars>>

(* DELETE /users/:userId: membership and sessions in one transaction. *)
RevokeUserAccess ==
    /\ member # NoMember /\ Event
    /\ member' = [member EXCEPT !.status = "REVOKED"]
    /\ RevokeAll
    /\ UNCHANGED <<inviteVars, suspended, sweeping, challenge>>

(* deleteAccountAndPersonalData, one transaction: sessions, challenges and
   membership go, the user is suspended.  A deleted challenge is as good as
   a consumed one. *)
DeleteAccount ==
    /\ Event
    /\ member' = IF member = NoMember THEN NoMember ELSE [member EXCEPT !.status = "REVOKED"]
    /\ challenge' = [c \in Challenges |-> IF challenge[c] = "none" THEN "none" ELSE "consumed"]
    /\ suspended' = TRUE
    /\ RevokeAll
    /\ UNCHANGED <<inviteVars, sweeping>>

MemberStep ==
    /\ \/ /\ Event
          /\ \/ RemoveMember
             \/ \E role \in Roles : SetRole(role)
             \/ \E i \in Invites : CreateInvite(i) \/ RevokeInvite(i) \/ CleanUpInvite(i)
             \/ \E r \in Requests, i \in Invites : AdmitFails(r, i)
       \/ /\ UNCHANGED events
          /\ \E r \in Requests, i \in Invites : At(r, "idle") /\ (ReadInvite(r, i) \/ Admit(r, i))
    /\ UNCHANGED <<suspended, sweeping, challenge, sessionVars, request, ghostVars>>

SessionStep(r) ==
    \/ Login(r) \/ Impersonate(r) \/ Consume(r) \/ ReadRole(r)
    \/ Create(r) \/ ReadActive(r) \/ RevokeExcess(r) \/ Rotate(r) \/ Fail(r)
    \/ \E c \in Challenges : GiveChallenge(r, c) \/ Verify(r, c)
    \/ \E s \in Ids : Present(r, s)

Next ==
    \/ \E r \in Requests : SessionStep(r)
    \/ \E s \in Ids : Logout(s)
    \/ LogoutAll \/ Suspend \/ Sweep \/ SweepFails
    \/ RevokeUserAccess \/ DeleteAccount
    \/ MemberStep

Spec == Init /\ [][Next]_vars

-----------------------------------------------------------------------------
(* The limit on concurrent sessions, kept by three separate calls: leaving
   out sessions whose request is not through with the limit, or never got
   there, no more are active than the largest limit among their roles. *)
Pending == {request[r].made : r \in {q \in Requests : request[q].at \in {"limit", "revoke"}}}
Settled == live \ (Pending \cup loose)
LimitHolds ==
    Settled # {} => \E s \in Settled : Cardinality(Settled) <= Limit[sessions[s].role]

(* Revoking all sessions ends the refresh chains they belong to: a session
   that goes back to before it is active only if a request had read, and not
   yet created, at every such revocation since. *)
LogoutIsFinal ==
    \A s \in live : sessions[s].epoch + 1 .. epoch \subseteq overlapped

(* A challenge makes one session; a refresh token makes one unless two
   requests used it at once or one failed before it was rotated. *)
TokensSpentOnce ==
    /\ \A c \in Challenges : heirs[c] <= 1
    /\ \A s \in Ids : heirs[s] > 1 => s \in forked
=============================================================================
