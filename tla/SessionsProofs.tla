--------------------------- MODULE SessionsProofs ---------------------------
(***************************************************************************)
(* Safety of Sessions and of the Memberships it extends, for every number  *)
(* of requests, invites and challenges, every set of roles with limits of  *)
(* at least one, and every bound on sessions and events.                   *)
(***************************************************************************)
EXTENDS Sessions, FiniteSetTheorems, TLAPS

\* An invite being accepted is pending and has admitted nobody yet, and is so
\* by one request at a time, unless it is marked as raced; one that was deleted
\* admits nobody.
InviteFact ==
    \A i \in Invites :
        /\ admitted[i] > 0 => invite[i] \notin {"none", "PENDING"}
        /\ admitted[i] > 1 \/ i \in stale => i \in raced
        /\ \A a \in Requests : accepting[a] = i =>
              /\ admitted[i] > 0 => i \in raced
              /\ invite[i] \notin {"PENDING", "deleted"} => i \in raced
              /\ \A b \in Requests : accepting[b] = i => a = b \/ i \in raced

\* What a request has in hand at each of its steps.
Making == {"verify", "role", "create"}
RequestFact(r) ==
    /\ request[r].token \in Nat => request[r].token \in Ids
    /\ request[r].at = "verify" => request[r].token \in Challenges
    /\ request[r].at = "rotate" => request[r].token \in Ids
    /\ request[r].at = "idle" => request[r].token = NoToken
    /\ request[r].made > 0 <=> request[r].at \in {"limit", "revoke", "rotate"}
    /\ request[r].doomed # {} => request[r].at = "revoke"
    /\ request[r].at \in {"limit", "revoke"} =>
          /\ request[r].made \in Ids /\ request[r].role \in Roles
          /\ sessions[request[r].made].role = request[r].role
    /\ request[r].at \in Making => request[r].epoch + 1 .. epoch \subseteq overlapped

\* A challenge is in one request's hands at most, and only before its session.
Using(r, c) == request[r].token = c /\ request[r].at \in {"role", "create"}
ChallengeFact(c) ==
    /\ heirs[c] <= 1
    /\ challenge[c] # "consumed" => heirs[c] = 0
    /\ \A r \in Requests : Using(r, c) =>
          /\ challenge[c] = "consumed" /\ heirs[c] = 0
          /\ \A q \in Requests : Using(q, c) => q = r

\* A token that has made a session is revoked, about to be, or forked.
TokenFact(s) ==
    /\ s \notin Ids => heirs[s] = 0
    /\ heirs[s] > 1 => s \in forked
    /\ heirs[s] > 0 /\ s \in live =>
          s \in forked \/ \E r \in Requests : request[r].token = s /\ request[r].made > 0
    /\ \A r \in Requests : request[r].token = s =>
          /\ heirs[s] > 0 /\ request[r].made = 0 => s \in forked
          /\ \A q \in Requests : request[q].token = s => q = r \/ s \in forked

\* The limit, foreseen: take any of the requests about to revoke.  Of the
\* settled sessions and their own, those that none of them revokes, and any
\* part of those, are within the limit.
Within(X)     == X # {} => \E s \in X : Cardinality(X) <= Limit[sessions[s].role]
Revoking      == {r \in Requests : request[r].at = "revoke"}
Cleared(s, R) ==
    /\ s \in Settled \/ \E r \in R : request[r].made = s
    /\ \A r \in R : s \notin request[r].doomed
LimitFact ==
    \A R \in SUBSET Revoking, X \in SUBSET live : (\A s \in X : Cleared(s, R)) => Within(X)

SessionsInv ==
    /\ TypeOK /\ Len(sessions) <= MaxSessions
    /\ InviteFact
    /\ \A r \in Requests : RequestFact(r)
    /\ \A c \in Challenges : ChallengeFact(c)
    /\ \A s \in 1 .. MaxSessions : TokenFact(s)
    /\ LimitFact
    /\ LogoutIsFinal

-----------------------------------------------------------------------------
(* How many sessions createSession keeps.                                  *)

\* Of a finite set of numbers, fewer than n larger ones means one of the n
\* largest.
LEMMA TopOfSet ==
    ASSUME NEW S \in SUBSET Nat, IsFiniteSet(S), NEW n \in Nat
    PROVE  Cardinality({s \in S : Cardinality(Newer(s, S)) < n}) <= n
<1> DEFINE T == {s \in S : Cardinality(Newer(s, S)) < n}
           f == [s \in T |-> Cardinality(Newer(s, S))]
<1>1. \A s \in S : IsFiniteSet(Newer(s, S)) /\ Cardinality(Newer(s, S)) \in Nat
  BY FS_Subset, FS_CardinalityType DEF Newer
<1>2. ASSUME NEW s \in S, NEW t \in S, s < t
      PROVE  Cardinality(Newer(t, S)) < Cardinality(Newer(s, S))
  <2> HIDE DEF T, f
  <2>1. /\ \A u \in S : u > t => u > s
        /\ t > s /\ ~(t > t)
    <3>1. s \in Nat /\ t \in Nat /\ \A u \in S : u \in Nat
      OBVIOUS
    <3> QED BY <1>2, <3>1
  <2>5. Newer(t, S) \in SUBSET Newer(s, S) /\ t \in Newer(s, S) /\ t \notin Newer(t, S)
    BY <2>1 DEF Newer
  <2>2. /\ Cardinality(Newer(t, S)) <= Cardinality(Newer(s, S))
        /\ Cardinality(Newer(s, S)) = Cardinality(Newer(t, S)) => Newer(s, S) = Newer(t, S)
    BY <2>5, <1>1, FS_Subset
  <2>3. Cardinality(Newer(t, S)) \in Nat /\ Cardinality(Newer(s, S)) \in Nat
    BY <1>1
  <2>4. Newer(s, S) # Newer(t, S)
    BY <2>5
  <2> QED BY <2>2, <2>3, <2>4
<1>3. f \in Injection(T, 0 .. n - 1)
  <2>1. f \in [T -> 0 .. n - 1]
    <3>1. \A s \in T : s \in S /\ Cardinality(Newer(s, S)) < n
      OBVIOUS
    <3>2. \A s \in T : Cardinality(Newer(s, S)) \in 0 .. n - 1
      BY <1>1, <3>1
    <3> QED BY <3>2
  <2>2. ASSUME NEW s \in T, NEW t \in T, f[s] = f[t]
        PROVE  s = t
    <3>1. s \in Nat /\ t \in Nat
      OBVIOUS
    <3>2. CASE s < t
      BY <3>2, <2>2, <1>2, <1>1
    <3>3. CASE t < s
      BY <3>3, <2>2, <1>2, <1>1
    <3> QED BY <3>1, <3>2, <3>3
  <2> HIDE DEF T, f
  <2> QED BY <2>1, <2>2 DEF Injection, IsInjective
<1>4. IsFiniteSet(0 .. n - 1) /\ Cardinality(0 .. n - 1) = n
  BY FS_Interval
<1> HIDE DEF T, f
<1>5. Cardinality(T) <= Cardinality(0 .. n - 1)
  BY <1>3, <1>4, FS_Injection
<1> QED BY <1>4, <1>5 DEF T

\* The sessions that are not beyond the limit are within it.
LEMMA KeptWithinLimit ==
    ASSUME NEW own \in live, live \in SUBSET Nat, IsFiniteSet(live), NEW limit \in Nat \ {0}
    PROVE  Cardinality(live \ Beyond(own, limit)) <= limit
<1> DEFINE S == live \ {own}
           T == {s \in S : Cardinality(Newer(s, S)) < limit - 1}
<1>1. CASE Cardinality(live) <= limit
  BY <1>1 DEF Beyond
<1>2. CASE ~(Cardinality(live) <= limit)
  <2>1. IsFiniteSet(S) /\ S \in SUBSET Nat
    BY FS_Subset
  <2>2. \A s \in S : Cardinality(Newer(s, S)) \in Nat
    BY <2>1, FS_Subset, FS_CardinalityType DEF Newer
  <2>3. Beyond(own, limit) = {s \in S : Cardinality(Newer(s, S)) >= limit - 1}
    BY <1>2 DEF Beyond
  <2>4. live \ Beyond(own, limit) = T \cup {own}
    <3>1. \A s \in S : (Cardinality(Newer(s, S)) >= limit - 1) <=> ~(Cardinality(Newer(s, S)) < limit - 1)
      <4> TAKE s \in S
      <4> DEFINE k == Cardinality(Newer(s, S))
      <4>1. k \in Nat
        BY <2>2
      <4> HIDE DEF k
      <4>2. (k >= limit - 1) <=> ~(k < limit - 1)
        BY <4>1
      <4> QED BY <4>2 DEF k
    <3> QED BY <2>3, <3>1
  <2>5. limit - 1 \in Nat
    OBVIOUS
  <2>6. Cardinality(T) <= limit - 1
    <3> HIDE DEF S
    <3> QED BY <2>1, <2>5, TopOfSet
  <2>7. IsFiniteSet(T) /\ Cardinality(T) \in Nat
    BY <2>1, FS_Subset, FS_CardinalityType
  <2>8. own \notin T
    OBVIOUS
  <2> HIDE DEF T, S
  <2>9. Cardinality(T \cup {own}) = Cardinality(T) + 1
    BY <2>7, <2>8, FS_AddElement
  <2> QED BY <2>4, <2>6, <2>7, <2>9
<1> QED BY <1>1, <1>2

-----------------------------------------------------------------------------
(* Types.                                                                  *)

\* The sessions are numbered from one, and finitely many.
LEMMA IdsFact ==
    ASSUME TypeOK, Len(sessions) <= MaxSessions
    PROVE  /\ MaxSessions \in Nat /\ Len(sessions) \in Nat
           /\ Ids \in SUBSET (1 .. MaxSessions)
           /\ live \in SUBSET Nat /\ IsFiniteSet(live)
<1>1. MaxSessions \in Nat /\ Len(sessions) \in Nat
  BY SessionAssumption DEF SessionAssumption, TypeOK
<1>2. Ids \in SUBSET (1 .. MaxSessions) /\ Ids \in SUBSET Nat
  BY <1>1 DEF Ids
<1>3. IsFiniteSet(Ids)
  BY <1>1, FS_Interval DEF Ids
<1>4. live \in SUBSET Ids
  BY DEF TypeOK
<1> QED BY <1>1, <1>2, <1>3, <1>4, FS_Subset

\* A request at rest is well typed.
LEMMA IdleType == Idle \in RequestRows /\ Idle.made \notin Idle.doomed
<1>1. 0 \in Nat
  OBVIOUS
<1> QED BY <1>1 DEF Idle, RequestRows, Steps

\* What one request's step does to the requests.
LEMMA Moves ==
    ASSUME TypeOK, NEW r \in Requests, NEW row \in RequestRows, row.made \notin row.doomed,
           request' = [request EXCEPT ![r] = row]
    PROVE  /\ request' \in [Requests -> RequestRows]
           /\ \A q \in Requests : request'[q].made \notin request'[q].doomed
           /\ request'[r] = row
           /\ \A q \in Requests : q # r => request'[q] = request[q]
BY DEF TypeOK

\* The membership and its invites keep their types.
LEMMA MembersStepType ==
    ASSUME MembersTypeOK,
           \/ RemoveMember
           \/ \E role \in Roles : SetRole(role)
           \/ \E i \in Invites : CreateInvite(i) \/ RevokeInvite(i) \/ CleanUpInvite(i)
           \/ \E r \in Requests, i \in Invites :
                 AdmitFails(r, i) \/ ReadInvite(r, i) \/ Admit(r, i)
    PROVE  MembersTypeOK'
<1> USE DEF MembersTypeOK, InviteStatus
<1>1. CASE RemoveMember
  BY <1>1 DEF RemoveMember, inviteVars
<1>2. ASSUME NEW role \in Roles, SetRole(role) PROVE MembersTypeOK'
  BY <1>2 DEF SetRole, inviteVars, Members
<1>3. ASSUME NEW i \in Invites, CreateInvite(i) PROVE MembersTypeOK'
  BY <1>3 DEF CreateInvite
<1>4. ASSUME NEW i \in Invites, RevokeInvite(i) PROVE MembersTypeOK'
  BY <1>4 DEF RevokeInvite
<1>5. ASSUME NEW i \in Invites, CleanUpInvite(i) PROVE MembersTypeOK'
  BY <1>5 DEF CleanUpInvite
<1>6. ASSUME NEW r \in Requests, NEW i \in Invites, AdmitFails(r, i) PROVE MembersTypeOK'
  BY <1>6 DEF AdmitFails
<1>7. ASSUME NEW r \in Requests, NEW i \in Invites, ReadInvite(r, i) PROVE MembersTypeOK'
  BY <1>7 DEF ReadInvite
<1>8. ASSUME NEW r \in Requests, NEW i \in Invites, Admit(r, i) PROVE MembersTypeOK'
  <2>1. member' \in Members
    BY <1>8, MembershipAssumption DEF Admit, Members, MembershipAssumption
  <2>2. invite' \in [Invites -> InviteStatus] /\ admitted' \in [Invites -> Nat]
    BY <1>8 DEF Admit
  <2> QED BY <1>8, <2>1, <2>2 DEF Admit
<1> QED BY <1>1, <1>2, <1>3, <1>4, <1>5, <1>6, <1>7, <1>8

\* The initial state is well typed and satisfies the invariant.
LEMMA InitInv == Init => SessionsInv
<1> SUFFICES ASSUME Init PROVE SessionsInv
  OBVIOUS
<1> USE DEF Init
<1>1. sessions = <<>> /\ Len(sessions) = 0 /\ MaxSessions \in Nat /\ MaxEvents \in Nat
  BY SessionAssumption DEF SessionAssumption
<1>2. MembersTypeOK
  BY DEF MembersInit, MembersTypeOK, Members, InviteStatus
<1>3. sessions \in Seq([role : Roles \cup {NoRole}, epoch : Nat])
  BY <1>1
<1>4. \A r \in Requests : request[r] = Idle
  OBVIOUS
<1>5. TypeOK
  <2>1. request \in [Requests -> RequestRows] /\ heirs \in [Tokens -> Nat]
    BY IdleType
  <2>2. challenge \in [Challenges -> {"none", "open", "consumed"}] /\ events \in 0 .. MaxEvents
    BY <1>1
  <2>3. \A r \in Requests : request[r].made \notin request[r].doomed
    BY <1>4, IdleType
  <2> QED BY <1>2, <1>3, <2>1, <2>2, <2>3 DEF TypeOK
<1>6. InviteFact
  BY MembershipAssumption DEF MembersInit, InviteFact, MembershipAssumption
<1>7. \A r \in Requests : RequestFact(r)
  BY <1>4, SessionAssumption DEF RequestFact, Idle, Making, SessionAssumption
<1>8. \A c \in Challenges : ChallengeFact(c)
  BY <1>4 DEF ChallengeFact, Using, Idle, Tokens
<1>9. \A s \in 1 .. MaxSessions : TokenFact(s)
  BY <1>4, SessionAssumption DEF TokenFact, Idle, Tokens, SessionAssumption
<1>10. LimitFact /\ LogoutIsFinal
  BY DEF LimitFact, Within, LogoutIsFinal
<1> QED BY <1>1, <1>5, <1>6, <1>7, <1>8, <1>9, <1>10 DEF SessionsInv

\* Every step keeps the types and the bound on sessions.
LEMMA TypeStep ==
    ASSUME SessionsInv, [Next]_vars
    PROVE  TypeOK' /\ Len(sessions)' <= MaxSessions
<1> DEFINE Typed == TypeOK' /\ Len(sessions)' <= MaxSessions
<1> USE DEF memberVars, inviteVars, sessionVars, ghostVars
<1>1. TypeOK /\ Len(sessions) <= MaxSessions
  BY DEF SessionsInv
<1>2. /\ MaxSessions \in Nat /\ Len(sessions) \in Nat /\ Ids \in SUBSET (1 .. MaxSessions)
      /\ MaxEvents \in Nat /\ 0 \in Nat /\ epoch \in Nat
  BY <1>1, IdsFact, SessionAssumption DEF SessionAssumption, TypeOK
<1>3. ASSUME Event PROVE events' \in 0 .. MaxEvents
  BY <1>1, <1>2, <1>3 DEF Event, TypeOK
<1>4. ASSUME UNCHANGED memberVars PROVE MembersTypeOK'
  BY <1>1, <1>4 DEF TypeOK, MembersTypeOK
<1>5. ASSUME NEW r \in Requests PROVE request[r] \in RequestRows
  BY <1>1 DEF TypeOK
<1>6. ASSUME request' \in [Requests -> RequestRows],
             \A q \in Requests : request'[q].made \notin request'[q].doomed,
             challenge' \in [Challenges -> {"none", "open", "consumed"}],
             forked' \in SUBSET Tokens, events' \in 0 .. MaxEvents, loose' \in SUBSET Ids,
             UNCHANGED <<memberVars, suspended, sweeping, sessions, heirs, epoch, overlapped>>,
             live' \in SUBSET live
      PROVE  Typed
  BY <1>1, <1>4, <1>6 DEF TypeOK, Ids
<1>7. ASSUME NEW r \in Requests, SessionStep(r) PROVE Typed
  <2>1. ASSUME NEW step \in Steps, NEW token \in Tokens \cup {NoToken},
               NEW role \in Roles \cup {NoRole}, NEW since \in Nat, Begin(r, step, token, role, since)
        PROVE  /\ request' \in [Requests -> RequestRows]
               /\ \A q \in Requests : request'[q].made \notin request'[q].doomed
    <3> DEFINE row == [Idle EXCEPT !.at = step, !.token = token, !.role = role, !.epoch = since]
    <3>1. row \in RequestRows /\ row.made \notin row.doomed
      BY <1>2 DEF RequestRows, Idle
    <3> HIDE DEF row
    <3> QED BY <1>1, <2>1, <3>1, Moves DEF Begin, row
  <2>2. CASE Login(r)
    <3>1. member.role \in Roles \cup {NoRole}
      BY <1>1, <2>2 DEF TypeOK, MembersTypeOK, Members, Login, Active
    <3>2. Begin(r, "create", NoToken, member.role, epoch) /\ "create" \in Steps
      BY <2>2 DEF Login, Steps
    <3> QED BY <1>1, <1>2, <1>6, <2>1, <2>2, <3>1, <3>2 DEF Login, TypeOK
  <2>3. CASE Impersonate(r)
    <3>1. Begin(r, "create", NoToken, NoRole, epoch) /\ "create" \in Steps
      BY <2>3 DEF Impersonate, Steps
    <3> QED BY <1>1, <1>2, <1>3, <1>6, <2>1, <2>3, <3>1 DEF Impersonate, TypeOK
  <2>4. CASE Consume(r)
    <3>1. [request[r] EXCEPT !.at = "role"] \in RequestRows
      BY <1>5 DEF RequestRows, Steps
    <3>2. [request[r] EXCEPT !.at = "role"].made \notin [request[r] EXCEPT !.at = "role"].doomed
      BY <1>1, <1>5 DEF TypeOK, RequestRows
    <3>3. /\ request' \in [Requests -> RequestRows]
          /\ \A q \in Requests : request'[q].made \notin request'[q].doomed
      BY <1>1, <2>4, <3>1, <3>2, IdleType, Moves DEF Consume
    <3>4. challenge' \in [Challenges -> {"none", "open", "consumed"}]
      BY <1>1, <2>4 DEF Consume, TypeOK
    <3> QED BY <1>1, <1>6, <2>4, <3>3, <3>4 DEF Consume, TypeOK
  <2>5. CASE ReadRole(r)
    <3> DEFINE row(role) == [request[r] EXCEPT !.at = "create", !.role = role]
               failed == [request[r] EXCEPT !.at = "create"]
    <3>1. RoleRead(request[r].token) \in Roles \cup {NoRole}
      BY <1>1 DEF TypeOK, MembersTypeOK, Members, RoleRead, Active
    <3>2. \A role \in Roles \cup {NoRole} : row(role) \in RequestRows /\ row(role).made \notin row(role).doomed
      BY <1>1, <1>5 DEF RequestRows, Steps, TypeOK
    <3>3. failed \in RequestRows /\ failed.made \notin failed.doomed
      BY <1>1, <1>5 DEF RequestRows, Steps, TypeOK
    <3>4. \/ request' = [request EXCEPT ![r] = row(RoleRead(request[r].token))]
          \/ request' = [request EXCEPT ![r] = failed]
      BY <2>5 DEF ReadRole
    <3>5. /\ row(RoleRead(request[r].token)) \in RequestRows
          /\ row(RoleRead(request[r].token)).made \notin row(RoleRead(request[r].token)).doomed
      BY <3>1, <3>2
    <3> HIDE DEF row, failed
    <3>6. /\ request' \in [Requests -> RequestRows]
          /\ \A q \in Requests : request'[q].made \notin request'[q].doomed
      BY <1>1, <3>3, <3>4, <3>5, Moves
    <3>7. events' \in 0 .. MaxEvents
      BY <1>1, <1>3, <2>5 DEF ReadRole, TypeOK
    <3> QED BY <1>1, <1>6, <2>5, <3>6, <3>7 DEF ReadRole, TypeOK
  <2>6. ASSUME NEW row \in RequestRows, row = request[r], AfterCreate(r) # "idle"
        PROVE  /\ [row EXCEPT !.at = "rotate", !.doomed = {}] \in RequestRows
               /\ [row EXCEPT !.at = "rotate", !.doomed = {}].made
                    \notin [row EXCEPT !.at = "rotate", !.doomed = {}].doomed
    BY DEF RequestRows, Steps
  <2>7. ASSUME Settle(r)
        PROVE  /\ request' \in [Requests -> RequestRows]
               /\ \A q \in Requests : request'[q].made \notin request'[q].doomed
    <3>1. CASE AfterCreate(r) = "idle"
      BY <1>1, <2>7, <3>1, IdleType, Moves DEF Settle
    <3>2. CASE AfterCreate(r) # "idle"
      BY <1>1, <1>5, <2>6, <2>7, <3>2, Moves DEF Settle
    <3> QED BY <3>1, <3>2
  <2>8. CASE Create(r)
    <3> DEFINE q == request[r]
               new == Len(sessions) + 1
               next == IF q.role # NoRole THEN [q EXCEPT !.at = "limit", !.made = new]
                       ELSE IF AfterCreate(r) = "idle" THEN Idle
                       ELSE [q EXCEPT !.at = "rotate", !.made = new]
    <3>1. new \in Nat /\ new <= MaxSessions
      BY <1>2, <2>8 DEF Create
    <3>2. q \in RequestRows /\ q.doomed = {} /\ q.role \in Roles \cup {NoRole} /\ q.epoch \in Nat
      BY <1>5, <2>8 DEF SessionsInv, RequestFact, Create, At, RequestRows
    <3>3. next \in RequestRows /\ next.made \notin next.doomed
      <4> HIDE DEF new
      <4>1. CASE q.role # NoRole
        <5> HIDE DEF q
        <5> QED BY <3>1, <3>2, <4>1 DEF RequestRows, Steps
      <4>2. CASE q.role = NoRole /\ AfterCreate(r) = "idle"
        BY <4>2, IdleType
      <4>3. CASE q.role = NoRole /\ AfterCreate(r) # "idle"
        <5> HIDE DEF q
        <5> QED BY <3>1, <3>2, <4>3 DEF RequestRows, Steps
      <4> QED BY <4>1, <4>2, <4>3
    <3>4. request' = [request EXCEPT ![r] = next]
      BY <2>8 DEF Create
    <3> HIDE DEF next
    <3>5. /\ request' \in [Requests -> RequestRows]
          /\ \A p \in Requests : request'[p].made \notin request'[p].doomed
      BY <1>1, <3>3, <3>4, Moves
    <3>6. /\ sessions' \in Seq([role : Roles \cup {NoRole}, epoch : Nat])
          /\ Len(sessions') = new
      BY <1>1, <2>8, <3>2 DEF Create, TypeOK
    <3>7. Ids' = Ids \cup {new}
      BY <1>2, <3>6 DEF Ids
    <3>8. heirs' \in [Tokens -> Nat]
      <4>1. heirs \in [Tokens -> Nat]
        BY <1>1 DEF TypeOK
      <4>2. heirs' = heirs \/ heirs' = [heirs EXCEPT ![q.token] = @ + 1]
        BY <2>8 DEF Create
      <4> HIDE DEF q
      <4> QED BY <4>1, <4>2
    <3>9. live' \subseteq Ids' /\ loose' \subseteq Ids'
      BY <1>1, <2>8, <3>7 DEF Create, TypeOK
    <3> QED BY <1>1, <1>4, <2>8, <3>1, <3>5, <3>6, <3>8, <3>9 DEF Create, TypeOK
  <2>9. CASE ReadActive(r)
    <3> DEFINE excess == Beyond(request[r].made, Limit[request[r].role])
               row == [request[r] EXCEPT !.at = "revoke", !.doomed = excess]
    <3>1. excess \in SUBSET (live \ {request[r].made})
      BY DEF Beyond
    <3>2. row \in RequestRows /\ row.made \notin row.doomed
      <4>1. excess \in SUBSET (1 .. MaxSessions)
        BY <1>1, <1>2, <3>1 DEF TypeOK
      <4> HIDE DEF excess
      <4> QED BY <1>5, <3>1, <4>1 DEF RequestRows, Steps
    <3>3. Settle(r) \/ request' = [request EXCEPT ![r] = row]
      BY <2>9 DEF ReadActive
    <3> HIDE DEF row
    <3>4. /\ request' \in [Requests -> RequestRows]
          /\ \A q \in Requests : request'[q].made \notin request'[q].doomed
      BY <1>1, <2>7, <3>2, <3>3, Moves
    <3> QED BY <1>1, <1>6, <2>9, <3>4 DEF ReadActive, TypeOK
  <2>10. CASE RevokeExcess(r)
    BY <1>1, <1>6, <2>7, <2>10 DEF RevokeExcess, TypeOK
  <2>11. CASE Rotate(r)
    <3>1. /\ request' \in [Requests -> RequestRows]
          /\ \A q \in Requests : request'[q].made \notin request'[q].doomed
      BY <1>1, <2>11, IdleType, Moves DEF Rotate
    <3> QED BY <1>1, <1>6, <2>11, <3>1 DEF Rotate, TypeOK
  <2>12. CASE Fail(r)
    <3>1. /\ request' \in [Requests -> RequestRows]
          /\ \A q \in Requests : request'[q].made \notin request'[q].doomed
      BY <1>1, <2>12, IdleType, Moves DEF Fail
    <3>2. loose' \in SUBSET Ids
      BY <1>1, <2>12 DEF Fail, SessionsInv, RequestFact, TypeOK
    <3>3. forked' \in SUBSET Tokens
      BY <1>1, <1>2, <2>12 DEF Fail, TypeOK, Tokens
    <3> QED BY <1>1, <1>3, <1>6, <2>12, <3>1, <3>2, <3>3 DEF Fail, TypeOK
  <2>13. ASSUME NEW c \in Challenges, GiveChallenge(r, c) PROVE Typed
    <3>1. /\ request' \in [Requests -> RequestRows]
          /\ \A q \in Requests : request'[q].made \notin request'[q].doomed
      BY <1>1, <2>13, IdleType, Moves DEF GiveChallenge
    <3>2. challenge' \in [Challenges -> {"none", "open", "consumed"}]
      BY <1>1, <2>13 DEF GiveChallenge, TypeOK
    <3> QED BY <1>1, <1>3, <1>6, <2>13, <3>1, <3>2 DEF GiveChallenge, TypeOK
  <2>14. ASSUME NEW c \in Challenges, Verify(r, c) PROVE Typed
    <3>1. Begin(r, "verify", c, NoRole, epoch) /\ "verify" \in Steps /\ c \in Tokens
      BY <2>14 DEF Verify, Steps, Tokens
    <3> QED BY <1>1, <1>2, <1>6, <2>1, <2>14, <3>1 DEF Verify, TypeOK
  <2>15. ASSUME NEW s \in Ids, Present(r, s) PROVE Typed
    <3>1. Begin(r, "role", s, NoRole, sessions[s].epoch) /\ "role" \in Steps /\ s \in Tokens
      BY <1>2, <2>15 DEF Present, Steps, Tokens
    <3>2. sessions[s].epoch \in Nat
      <4>1. sessions[s] \in [role : Roles \cup {NoRole}, epoch : Nat]
        <5> DEFINE Session == [role : Roles \cup {NoRole}, epoch : Nat]
        <5>1. sessions \in Seq(Session) /\ s \in 1 .. Len(sessions)
          BY <1>1 DEF TypeOK, Ids
        <5> HIDE DEF Session
        <5>2. sessions[s] \in Session
          BY <5>1
        <5> QED BY <5>2 DEF Session
      <4> QED BY <4>1
    <3>3. forked' \in SUBSET Tokens
      BY <1>1, <2>15, <3>1 DEF Present, TypeOK
    <3> QED BY <1>1, <1>2, <1>6, <2>1, <2>15, <3>1, <3>2, <3>3 DEF Present, TypeOK
  <2> QED BY <1>7, <2>2, <2>3, <2>4, <2>5, <2>8, <2>9, <2>10, <2>11, <2>12, <2>13, <2>14, <2>15
          DEF SessionStep
<1>8. ASSUME RevokeAll, MembersTypeOK', suspended' \in BOOLEAN, sweeping' \in BOOLEAN,
             challenge' \in [Challenges -> {"none", "open", "consumed"}], events' \in 0 .. MaxEvents
      PROVE  Typed
  <2>1. epoch' \in Nat /\ overlapped' \subseteq 1 .. epoch'
    BY <1>1, <1>2, <1>8 DEF RevokeAll, TypeOK
  <2> QED BY <1>1, <1>8, <2>1 DEF RevokeAll, TypeOK, Ids
<1>9. ASSUME NEW s \in Ids, Logout(s) PROVE Typed
  BY <1>1, <1>3, <1>6, <1>9 DEF Logout, TypeOK
<1>10. CASE LogoutAll
  BY <1>1, <1>3, <1>4, <1>8, <1>10 DEF LogoutAll, TypeOK
<1>11. CASE Suspend
  BY <1>1, <1>3, <1>4, <1>11 DEF Suspend, TypeOK, Ids
<1>12. CASE Sweep
  BY <1>1, <1>4, <1>8, <1>12 DEF Sweep, TypeOK
<1>13. CASE SweepFails
  BY <1>1, <1>3, <1>4, <1>13 DEF SweepFails, TypeOK, Ids
<1>14. CASE RevokeUserAccess
  <2>1. MembersTypeOK'
    BY <1>1, <1>14 DEF RevokeUserAccess, TypeOK, MembersTypeOK, Members
  <2> QED BY <1>1, <1>3, <1>8, <1>14, <2>1 DEF RevokeUserAccess, TypeOK
<1>15. CASE DeleteAccount
  <2>1. MembersTypeOK'
    BY <1>1, <1>15 DEF DeleteAccount, TypeOK, MembersTypeOK, Members
  <2>2. challenge' \in [Challenges -> {"none", "open", "consumed"}]
    BY <1>15 DEF DeleteAccount
  <2> QED BY <1>1, <1>3, <1>8, <1>15, <2>1, <2>2 DEF DeleteAccount, TypeOK
<1>16. CASE MemberStep
  <2>1. MembersTypeOK'
    BY <1>1, <1>16, MembersStepType DEF MemberStep, TypeOK
  <2>2. events' \in 0 .. MaxEvents
    BY <1>1, <1>3, <1>16 DEF MemberStep, TypeOK
  <2> QED BY <1>1, <1>16, <2>1, <2>2 DEF MemberStep, TypeOK, Ids
<1>17. CASE UNCHANGED vars
  BY <1>1, <1>4, <1>17 DEF vars, TypeOK, Ids
<1> QED BY <1>7, <1>9, <1>10, <1>11, <1>12, <1>13, <1>14, <1>15, <1>16, <1>17 DEF Next

-----------------------------------------------------------------------------
(* Invites and requests.                                                   *)

\* Every step keeps the fact about invites.
LEMMA InviteStep ==
    ASSUME SessionsInv, [Next]_vars
    PROVE  InviteFact'
<1>1. /\ InviteFact
      /\ invite \in [Invites -> InviteStatus] /\ admitted \in [Invites -> Nat]
      /\ accepting \in [Requests -> Invites \cup {NoInvite}] /\ NoInvite \notin Invites
  BY MembershipAssumption DEF SessionsInv, TypeOK, MembersTypeOK, MembershipAssumption
<1>2. CASE UNCHANGED inviteVars
  BY <1>1, <1>2 DEF inviteVars, InviteFact
<1>3. ASSUME NEW i \in Invites, CreateInvite(i) PROVE InviteFact'
  BY <1>1, <1>3 DEF CreateInvite, InviteFact
<1>4. ASSUME NEW i \in Invites, RevokeInvite(i) PROVE InviteFact'
  BY <1>1, <1>4 DEF RevokeInvite, InUse, InviteFact
<1>5. ASSUME NEW i \in Invites, CleanUpInvite(i) PROVE InviteFact'
  BY <1>1, <1>5 DEF CleanUpInvite, InviteFact
<1>6. ASSUME NEW r \in Requests, NEW i \in Invites, AdmitFails(r, i) PROVE InviteFact'
  BY <1>1, <1>6 DEF AdmitFails, InviteFact
<1>7. ASSUME NEW r \in Requests, NEW i \in Invites, ReadInvite(r, i) PROVE InviteFact'
  <2>1. ~(admitted[i] > 0)
    BY <1>1, <1>7 DEF ReadInvite, InviteFact
  <2>2. /\ accepting'[r] = i /\ \A a \in Requests : a # r => accepting'[a] = accepting[a]
        /\ raced \subseteq raced' /\ UNCHANGED <<invite, admitted, stale>> /\ invite[i] = "PENDING"
        /\ \A a \in Requests : accepting[a] = i => i \in raced'
    BY <1>1, <1>7 DEF ReadInvite, InUse
  <2> QED BY <1>1, <2>1, <2>2 DEF InviteFact
<1>8. ASSUME NEW r \in Requests, NEW i \in Invites, Admit(r, i) PROVE InviteFact'
  <2>1. /\ invite' = [invite EXCEPT ![i] = "ACCEPTED"] /\ raced' = raced
        /\ admitted'[i] = admitted[i] + 1 /\ accepting[r] = i /\ accepting'[r] = NoInvite
        /\ \A j \in Invites : j # i => admitted'[j] = admitted[j] /\ invite'[j] = invite[j]
        /\ invite'[i] = "ACCEPTED"
        /\ \A a \in Requests : a # r => accepting'[a] = accepting[a]
        /\ stale' \subseteq stale \cup {i} /\ (i \in stale' => i \in stale \/ invite[i] # "PENDING")
        /\ invite[i] # "deleted"
    BY <1>1, <1>8 DEF Admit
  <2>2. admitted[i] \in Nat /\ (admitted[i] > 0 => i \in raced)
    BY <1>1, <2>1 DEF InviteFact
  <2>3. \A a \in Requests : accepting'[a] = i => i \in raced
    BY <1>1, <2>1 DEF InviteFact
  <2>4. admitted'[i] > 1 \/ i \in stale' => i \in raced
    BY <1>1, <2>1, <2>2 DEF InviteFact
  <2> QED BY <1>1, <2>1, <2>3, <2>4 DEF InviteFact
<1>9. CASE MemberStep
  BY <1>2, <1>3, <1>4, <1>5, <1>6, <1>7, <1>8, <1>9 DEF MemberStep, RemoveMember, SetRole
<1>10. ASSUME NEW r \in Requests, SessionStep(r) PROVE UNCHANGED inviteVars
  BY <1>10 DEF SessionStep, Login, Impersonate, Consume, ReadRole, Create, ReadActive,
               RevokeExcess, Rotate, Fail, GiveChallenge, Verify, Present, memberVars
<1> QED BY <1>2, <1>9, <1>10
        DEF Next, vars, memberVars, Logout, LogoutAll, Suspend, Sweep, SweepFails,
            RevokeUserAccess, DeleteAccount

\* A step of request r leaves the others' rows, the sessions there are and
\* the revocations as they were.
LEMMA Frame ==
    ASSUME SessionsInv, NEW r \in Requests, SessionStep(r)
    PROVE  /\ \A q \in Requests : q # r => request'[q] = request[q]
           /\ Ids \subseteq Ids' /\ \A s \in Ids : sessions'[s] = sessions[s]
           /\ epoch' = epoch /\ overlapped' = overlapped
<1>1. /\ TypeOK /\ request \in [Requests -> RequestRows]
      /\ Len(sessions) \in Nat
  BY IdsFact DEF SessionsInv, TypeOK
<1> USE DEF sessionVars, ghostVars, Ids
<1>2. CASE Create(r)
  <2>1. /\ \A q \in Requests : q # r => request'[q] = request[q]
        /\ epoch' = epoch /\ overlapped' = overlapped
    BY <1>1, <1>2 DEF Create
  <2>2. PICK row : sessions' = Append(sessions, row)
    BY <1>2 DEF Create
  <2>3. /\ Len(sessions') = Len(sessions) + 1
        /\ \A s \in 1 .. Len(sessions) : sessions'[s] = sessions[s]
    <3>1. sessions \in Seq([role : Roles \cup {NoRole}, epoch : Nat])
      BY <1>1 DEF TypeOK
    <3> QED BY <2>2, <3>1
  <2> QED BY <1>1, <2>1, <2>3
<1>3. CASE ReadActive(r)
  BY <1>1, <1>3 DEF ReadActive, Settle
<1>4. CASE RevokeExcess(r)
  BY <1>1, <1>4 DEF RevokeExcess, Settle
<1>5. CASE Login(r) \/ Impersonate(r) \/ Consume(r) \/ ReadRole(r) \/ Rotate(r) \/ Fail(r)
  BY <1>1, <1>5 DEF Login, Impersonate, Consume, ReadRole, Rotate, Fail, Begin
<1>6. CASE \E c \in Challenges : GiveChallenge(r, c) \/ Verify(r, c)
  BY <1>1, <1>6 DEF GiveChallenge, Verify, Begin
<1>7. CASE \E s \in Ids : Present(r, s)
  BY <1>1, <1>7 DEF Present, Begin
<1> QED BY <1>2, <1>3, <1>4, <1>5, <1>6, <1>7 DEF SessionStep

\* What a request that begins has in hand.
LEMMA BeginRow ==
    ASSUME TypeOK, NEW r \in Requests, NEW step, NEW token, NEW role, NEW since,
           Begin(r, step, token, role, since)
    PROVE  /\ request'[r].at = step /\ request'[r].token = token /\ request'[r].role = role
           /\ request'[r].epoch = since /\ request'[r].made = 0 /\ request'[r].doomed = {}
BY DEF Begin, Idle, TypeOK

\* What a request that used its challenge, or failed to, has in hand.
LEMMA ConsumeRow ==
    ASSUME TypeOK, NEW r \in Requests, Consume(r)
    PROVE  /\ request[r].at = "verify"
           /\ \/ request'[r] = Idle
              \/ /\ challenge[request[r].token] = "open"
                 /\ request'[r].at = "role" /\ request'[r].token = request[r].token
                 /\ request'[r].epoch = request[r].epoch /\ request'[r].made = request[r].made
                 /\ request'[r].doomed = request[r].doomed
<1>1. request \in [Requests -> RequestRows] /\ request[r] \in RequestRows
  BY DEF TypeOK
<1>2. \/ request'[r] = Idle
      \/ /\ challenge[request[r].token] = "open"
         /\ request'[r] = [request[r] EXCEPT !.at = "role"]
  BY <1>1 DEF Consume
<1> QED BY <1>1, <1>2 DEF Consume, At, RequestRows

\* What a request that has read the role, or failed to, has in hand.
LEMMA ReadRoleRow ==
    ASSUME TypeOK, NEW r \in Requests, ReadRole(r)
    PROVE  /\ request[r].at = "role"
           /\ request'[r].at = "create" /\ request'[r].token = request[r].token
           /\ request'[r].epoch = request[r].epoch /\ request'[r].made = request[r].made
           /\ request'[r].doomed = request[r].doomed
<1> DEFINE role == RoleRead(request[r].token)
<1>1. request \in [Requests -> RequestRows] /\ request[r] \in RequestRows
  BY DEF TypeOK
<1>2. /\ request[r].at = "role"
      /\ \/ request' = [request EXCEPT ![r] = [@ EXCEPT !.at = "create", !.role = role]]
         \/ request' = [request EXCEPT ![r] = [@ EXCEPT !.at = "create"]]
  BY DEF ReadRole, At
<1> HIDE DEF role
<1>3. CASE request' = [request EXCEPT ![r] = [@ EXCEPT !.at = "create", !.role = role]]
  BY <1>1, <1>2, <1>3 DEF RequestRows
<1>4. CASE request' = [request EXCEPT ![r] = [@ EXCEPT !.at = "create"]]
  BY <1>1, <1>2, <1>4 DEF RequestRows
<1> QED BY <1>2, <1>3, <1>4

\* What a request that is through with the limit has in hand.
LEMMA SettleRow ==
    ASSUME TypeOK, NEW r \in Requests, Settle(r)
    PROVE  \/ request'[r] = Idle /\ request[r].token \notin Ids
           \/ /\ request[r].token \in Ids
              /\ request'[r].at = "rotate" /\ request'[r].token = request[r].token
              /\ request'[r].made = request[r].made /\ request'[r].doomed = {}
<1>1. request \in [Requests -> RequestRows] /\ request[r] \in RequestRows
  BY DEF TypeOK
<1>2. CASE request[r].token \in Ids
  BY <1>1, <1>2 DEF Settle, AfterCreate, RequestRows
<1>3. CASE request[r].token \notin Ids
  BY <1>1, <1>3 DEF Settle, AfterCreate, RequestRows
<1> QED BY <1>2, <1>3

\* What a request that has inserted its session has in hand.
LEMMA CreateRow ==
    ASSUME SessionsInv, NEW r \in Requests, Create(r)
    PROVE  /\ request[r].at = "create" /\ request[r].made = 0
           /\ Len(sessions) + 1 \in Nat /\ Len(sessions) + 1 > 0
           /\ Ids' = Ids \cup {Len(sessions) + 1} /\ Len(sessions) + 1 \notin Ids
           /\ sessions'[Len(sessions) + 1] = [role |-> request[r].role, epoch |-> request[r].epoch]
           /\ \/ /\ request'[r].at = "limit" /\ request[r].role \in Roles
                 /\ request'[r].role = request[r].role /\ request'[r].doomed = request[r].doomed
                 /\ request'[r].token = request[r].token /\ request'[r].made = Len(sessions) + 1
              \/ /\ request'[r] = Idle /\ request[r].role = NoRole /\ request[r].token \notin Ids
              \/ /\ request'[r].at = "rotate" /\ request[r].role = NoRole /\ request[r].token \in Ids
                 /\ request'[r].doomed = request[r].doomed
                 /\ request'[r].token = request[r].token /\ request'[r].made = Len(sessions) + 1
<1>1. /\ TypeOK /\ request \in [Requests -> RequestRows] /\ request[r] \in RequestRows
      /\ request[r].role \in Roles \cup {NoRole} /\ request[r].made \in Nat
      /\ Len(sessions) \in Nat /\ sessions \in Seq([role : Roles \cup {NoRole}, epoch : Nat])
  BY IdsFact DEF SessionsInv, TypeOK, RequestRows
<1>2. request[r].at = "create" /\ request[r].made = 0
  BY <1>1 DEF SessionsInv, RequestFact, Create, At
<1>3. /\ Len(sessions') = Len(sessions) + 1
      /\ sessions'[Len(sessions) + 1] = [role |-> request[r].role, epoch |-> request[r].epoch]
  BY <1>1 DEF Create
<1>4. Ids' = Ids \cup {Len(sessions) + 1} /\ Len(sessions) + 1 \notin Ids
  BY <1>1, <1>3 DEF Ids
<1>5. CASE request[r].role # NoRole
  BY <1>1, <1>2, <1>3, <1>4, <1>5 DEF Create, RequestRows
<1>6. CASE request[r].role = NoRole /\ request[r].token \notin Ids
  BY <1>1, <1>2, <1>3, <1>4, <1>6 DEF Create, AfterCreate
<1>7. CASE request[r].role = NoRole /\ request[r].token \in Ids
  BY <1>1, <1>2, <1>3, <1>4, <1>7 DEF Create, AfterCreate, RequestRows
<1> QED BY <1>5, <1>6, <1>7

\* Every step keeps the fact about requests.
LEMMA RequestStep ==
    ASSUME SessionsInv, [Next]_vars
    PROVE  \A q \in Requests : RequestFact(q)'
<1>1. /\ TypeOK /\ request \in [Requests -> RequestRows] /\ epoch \in Nat
      /\ \A q \in Requests : RequestFact(q) /\ request[q] \in RequestRows /\ request[q].epoch \in Nat
      /\ Len(sessions) \in Nat /\ NoToken \notin Nat /\ NoToken \notin Challenges
      /\ Challenges \cap Nat = {} /\ Ids \in SUBSET Nat
  <2>1. /\ TypeOK /\ request \in [Requests -> RequestRows] /\ epoch \in Nat
        /\ \A q \in Requests : RequestFact(q)
    BY DEF SessionsInv, TypeOK
  <2>2. \A q \in Requests : request[q] \in RequestRows /\ request[q].epoch \in Nat
    BY <2>1 DEF RequestRows
  <2>3. Len(sessions) \in Nat /\ Ids \in SUBSET Nat
    BY <2>1, IdsFact DEF SessionsInv, Ids
  <2> QED BY <2>1, <2>2, <2>3, SessionAssumption DEF SessionAssumption
<1>2. ASSUME NEW q \in Requests, request'[q] = request[q], Ids \subseteq Ids',
             \A s \in Ids : sessions'[s] = sessions[s], epoch' = epoch, overlapped' = overlapped
      PROVE  RequestFact(q)'
  <2>1. RequestFact(q)
    BY <1>1
  <2>2. request'[q].at \in Making => request'[q].epoch + 1 .. epoch' \subseteq overlapped'
    BY <1>2, <2>1 DEF RequestFact
  <2>3. request'[q].at \in {"limit", "revoke"} =>
          /\ request'[q].made \in Ids' /\ request'[q].role \in Roles
          /\ sessions'[request'[q].made].role = request'[q].role
    BY <1>2, <2>1 DEF RequestFact
  <2> QED BY <1>2, <2>1, <2>2, <2>3 DEF RequestFact, Making
<1>3. ASSUME NEW q \in Requests, request'[q] = Idle
      PROVE  RequestFact(q)'
  BY <1>1, <1>3 DEF RequestFact, Idle, Making
<1>4. ASSUME NEW r \in Requests, SessionStep(r) PROVE RequestFact(r)'
  <2>1. Ids \subseteq Ids' /\ epoch' = epoch /\ overlapped' = overlapped
    BY <1>4, Frame
  <2>2. epoch + 1 .. epoch = {}
    BY <1>1
  <2>3. CASE Login(r) \/ Impersonate(r)
    <3>1. PICK role : Begin(r, "create", NoToken, role, epoch)
      BY <2>3 DEF Login, Impersonate
    <3>2. /\ request'[r].at = "create" /\ request'[r].token = NoToken
          /\ request'[r].epoch = epoch /\ request'[r].made = 0 /\ request'[r].doomed = {}
      BY <1>1, <3>1, BeginRow
    <3> QED BY <1>1, <2>1, <2>2, <3>2 DEF RequestFact, Making
  <2>4. ASSUME NEW c \in Challenges, Verify(r, c) PROVE RequestFact(r)'
    <3>1. Begin(r, "verify", c, NoRole, epoch)
      BY <2>4 DEF Verify
    <3>2. /\ request'[r].at = "verify" /\ request'[r].token = c
          /\ request'[r].epoch = epoch /\ request'[r].made = 0 /\ request'[r].doomed = {}
      BY <1>1, <3>1, BeginRow
    <3> QED BY <1>1, <2>1, <2>2, <3>2 DEF RequestFact, Making
  <2>5. ASSUME NEW s \in Ids, Present(r, s) PROVE RequestFact(r)'
    <3>1. Begin(r, "role", s, NoRole, sessions[s].epoch) /\ s \in live
      BY <2>5 DEF Present
    <3>2. /\ request'[r].at = "role" /\ request'[r].token = s
          /\ request'[r].epoch = sessions[s].epoch /\ request'[r].made = 0 /\ request'[r].doomed = {}
      BY <1>1, <3>1, BeginRow
    <3>3. sessions[s].epoch + 1 .. epoch \subseteq overlapped
      BY <3>1 DEF SessionsInv, LogoutIsFinal
    <3> QED BY <1>1, <2>1, <3>2, <3>3 DEF RequestFact, Making
  <2>6. CASE Consume(r)
    <3>1. CASE request'[r] = Idle
      BY <1>3, <3>1
    <3>2. CASE request'[r] # Idle
      <4>1. /\ request[r].at = "verify" /\ request'[r].at = "role"
            /\ request'[r].token = request[r].token
            /\ request'[r].epoch = request[r].epoch /\ request'[r].made = request[r].made
            /\ request'[r].doomed = request[r].doomed
        BY <1>1, <2>6, <3>2, ConsumeRow
      <4> QED BY <1>1, <2>1, <4>1 DEF RequestFact, Making
    <3> QED BY <3>1, <3>2
  <2>7. CASE ReadRole(r)
    <3>1. /\ request'[r].at = "create" /\ request'[r].token = request[r].token
          /\ request'[r].epoch = request[r].epoch /\ request'[r].made = request[r].made
          /\ request'[r].doomed = request[r].doomed
      BY <1>1, <2>7, ReadRoleRow
    <3>2. request[r].at = "role"
      BY <2>7 DEF ReadRole, At
    <3> QED BY <1>1, <2>1, <3>1, <3>2 DEF RequestFact, Making
  <2>8. CASE Create(r)
    <3> DEFINE new == Len(sessions) + 1
    <3>1. /\ request[r].at = "create" /\ new \in Nat /\ new > 0 /\ new \in Ids'
          /\ sessions'[new].role = request[r].role
      <4>1. /\ request[r].at = "create" /\ new \in Nat /\ new > 0 /\ Ids' = Ids \cup {new}
            /\ sessions'[new] = [role |-> request[r].role, epoch |-> request[r].epoch]
        BY <2>8, CreateRow
      <4> QED BY <4>1
    <3>2. request[r].doomed = {}
      BY <1>1, <3>1 DEF RequestFact
    <3>3. CASE /\ request'[r].at = "limit" /\ request[r].role \in Roles
               /\ request'[r].role = request[r].role /\ request'[r].doomed = request[r].doomed
               /\ request'[r].token = request[r].token /\ request'[r].made = new
      BY <1>1, <2>1, <3>1, <3>2, <3>3 DEF RequestFact, Making
    <3>4. CASE /\ request'[r].at = "rotate" /\ request[r].token \in Ids
               /\ request'[r].doomed = request[r].doomed
               /\ request'[r].token = request[r].token /\ request'[r].made = new
      BY <1>1, <2>1, <3>1, <3>2, <3>4 DEF RequestFact, Making
    <3>5. CASE request'[r] = Idle
      BY <1>3, <3>5
    <3> QED BY <2>8, <3>3, <3>4, <3>5, CreateRow
  <2>9. ASSUME Settle(r), request[r].at \in {"limit", "revoke"} PROVE RequestFact(r)'
    <3>1. CASE request'[r] = Idle
      BY <1>3, <3>1
    <3>2. CASE /\ request[r].token \in Ids
               /\ request'[r].at = "rotate" /\ request'[r].token = request[r].token
               /\ request'[r].made = request[r].made /\ request'[r].doomed = {}
      BY <1>1, <2>1, <2>9, <3>2 DEF RequestFact, Making
    <3> QED BY <1>1, <2>9, <3>1, <3>2, SettleRow
  <2>10. CASE ReadActive(r)
    <3>1. request[r].at = "limit"
      BY <2>10 DEF ReadActive, At
    <3>2. CASE Settle(r)
      BY <2>9, <3>1, <3>2
    <3>3. ASSUME NEW excess, request' = [request EXCEPT ![r] = [@ EXCEPT !.at = "revoke", !.doomed = excess]]
          PROVE  RequestFact(r)'
      <4>1. /\ request'[r].at = "revoke" /\ request'[r].token = request[r].token
            /\ request'[r].made = request[r].made /\ request'[r].role = request[r].role
        BY <1>1, <3>3 DEF RequestRows
      <4>2. UNCHANGED sessions
        BY <2>10 DEF ReadActive, sessionVars
      <4> QED BY <1>1, <2>1, <3>1, <4>1, <4>2 DEF RequestFact, Making
    <3> QED BY <2>10, <3>2, <3>3 DEF ReadActive
  <2>11. CASE RevokeExcess(r)
    BY <2>9, <2>11 DEF RevokeExcess, At
  <2>12. CASE Rotate(r) \/ Fail(r) \/ \E c \in Challenges : GiveChallenge(r, c)
    BY <1>1, <1>3, <2>12 DEF Rotate, Fail, GiveChallenge
  <2> QED BY <1>4, <2>3, <2>4, <2>5, <2>6, <2>7, <2>8, <2>10, <2>11, <2>12 DEF SessionStep
<1>5. ASSUME NEW r \in Requests, SessionStep(r) PROVE \A q \in Requests : RequestFact(q)'
  BY <1>2, <1>4, <1>5, Frame
<1>6. ASSUME RevokeAll PROVE \A q \in Requests : RequestFact(q)'
  <2> SUFFICES ASSUME NEW q \in Requests PROVE RequestFact(q)'
    OBVIOUS
  <2>1. /\ UNCHANGED <<sessions, request>> /\ epoch' = epoch + 1 /\ overlapped \subseteq overlapped'
        /\ request[q].at \in Making => epoch + 1 \in overlapped'
    BY <1>6 DEF RevokeAll, Making
  <2>2. request[q].at \in Making => request[q].epoch + 1 .. epoch + 1 \subseteq overlapped'
    <3>1. \A e \in request[q].epoch + 1 .. epoch + 1 : e = epoch + 1 \/ e \in request[q].epoch + 1 .. epoch
      BY <1>1
    <3>2. request[q].at \in Making => request[q].epoch + 1 .. epoch \subseteq overlapped
      BY <1>1 DEF RequestFact
    <3> QED BY <2>1, <3>1, <3>2
  <2> QED BY <1>1, <2>1, <2>2 DEF RequestFact, Ids
<1>7. CASE LogoutAll \/ Sweep \/ RevokeUserAccess \/ DeleteAccount
  BY <1>6, <1>7 DEF LogoutAll, Sweep, RevokeUserAccess, DeleteAccount
<1>8. CASE UNCHANGED <<sessions, request, epoch, overlapped>>
  BY <1>2, <1>8 DEF Ids
<1> QED BY <1>5, <1>7, <1>8
        DEF Next, vars, Logout, Suspend, SweepFails, MemberStep, sessionVars, ghostVars

-----------------------------------------------------------------------------
(* Revocations.                                                            *)

\* Every step keeps LogoutIsFinal.
LEMMA LogoutStep ==
    ASSUME SessionsInv, [Next]_vars
    PROVE  LogoutIsFinal'
<1>1. TypeOK /\ LogoutIsFinal /\ live \in SUBSET Ids
  BY DEF SessionsInv, TypeOK
<1>2. ASSUME live' \subseteq live, \A s \in Ids : sessions'[s] = sessions[s],
             epoch' = epoch, overlapped' = overlapped
      PROVE  LogoutIsFinal'
  BY <1>1, <1>2 DEF LogoutIsFinal
<1>3. ASSUME NEW r \in Requests, SessionStep(r) PROVE LogoutIsFinal'
  <2>1. /\ \A s \in Ids : sessions'[s] = sessions[s]
        /\ epoch' = epoch /\ overlapped' = overlapped
    BY <1>3, Frame
  <2>2. CASE Create(r)
    <3> DEFINE new == Len(sessions) + 1
    <3>1. /\ request[r].at = "create" /\ sessions'[new].epoch = request[r].epoch
          /\ live' = live \cup {new}
      <4>1. /\ request[r].at = "create"
            /\ sessions'[new] = [role |-> request[r].role, epoch |-> request[r].epoch]
        BY <2>2, CreateRow
      <4> QED BY <2>2, <4>1 DEF Create
    <3>2. request[r].epoch + 1 .. epoch \subseteq overlapped
      BY <3>1 DEF SessionsInv, RequestFact, Making
    <3> QED BY <1>1, <2>1, <3>1, <3>2 DEF LogoutIsFinal
  <2>3. CASE ~Create(r)
    <3>1. live' \subseteq live
      BY <1>3, <2>3 DEF SessionStep, Login, Impersonate, Consume, ReadRole, ReadActive, RevokeExcess,
                        Rotate, Fail, GiveChallenge, Verify, Present, sessionVars
    <3> QED BY <1>2, <2>1, <3>1
  <2> QED BY <2>2, <2>3
<1>4. CASE RevokeAll
  BY <1>4 DEF RevokeAll, LogoutIsFinal
<1> QED BY <1>2, <1>3, <1>4
        DEF Next, vars, Logout, LogoutAll, Suspend, Sweep, SweepFails, RevokeUserAccess,
            DeleteAccount, MemberStep, sessionVars, ghostVars

-----------------------------------------------------------------------------
(* The limit.                                                              *)

\* A step that ends sessions, begins no revocation and settles no session
\* keeps the foreseen limit.
LEMMA LimitQuiet ==
    ASSUME SessionsInv, live' \subseteq live, Settled' \subseteq Settled,
           \A s \in Ids : sessions'[s] = sessions[s],
           \A r \in Requests : request'[r].at = "revoke" => request'[r] = request[r]
    PROVE  LimitFact'
<1> SUFFICES ASSUME NEW R \in SUBSET Revoking', NEW X \in SUBSET live', \A s \in X : Cleared(s, R)'
             PROVE  Within(X)'
  BY DEF LimitFact
<1>1. LimitFact /\ live \subseteq Ids
  BY DEF SessionsInv, TypeOK
<1>2. R \in SUBSET Revoking /\ \A r \in R : request'[r] = request[r]
  BY DEF Revoking
<1>3. X \in SUBSET live /\ \A s \in X : Cleared(s, R)
  BY <1>2 DEF Cleared
<1>4. Within(X)
  BY <1>1, <1>2, <1>3 DEF LimitFact
<1> QED BY <1>1, <1>3, <1>4 DEF Within

\* The session just made and those not beyond its limit, or any part of them
\* it is in, are within the limit.
LEMMA OwnWithin ==
    ASSUME SessionsInv, NEW r \in Requests, request[r].at = "limit",
           NEW X \in SUBSET live, request[r].made \in X,
           X \cap Beyond(request[r].made, Limit[request[r].role]) = {}
    PROVE  Within(X)
<1> DEFINE own == request[r].made
           limit == Limit[request[r].role]
           kept == live \ Beyond(own, limit)
<1>1. /\ live \in SUBSET Nat /\ IsFiniteSet(live)
      /\ request[r].role \in Roles /\ sessions[own].role = request[r].role
  BY IdsFact DEF SessionsInv, RequestFact
<1>2. limit \in Nat \ {0}
  BY <1>1, SessionAssumption DEF SessionAssumption
<1>3. X \in SUBSET kept /\ own \in live
  OBVIOUS
<1>4. IsFiniteSet(kept) /\ Cardinality(kept) \in Nat
  BY <1>1, FS_Subset, FS_CardinalityType
<1> HIDE DEF limit, kept, own
<1>5. Cardinality(kept) <= limit
  BY <1>1, <1>2, <1>3, KeptWithinLimit DEF kept
<1>6. IsFiniteSet(X) /\ Cardinality(X) <= Cardinality(kept)
  BY <1>3, <1>4, FS_Subset
<1>7. Cardinality(X) \in Nat
  BY <1>6, FS_CardinalityType
<1>8. Cardinality(X) <= limit
  BY <1>2, <1>4, <1>5, <1>6, <1>7
<1> QED BY <1>1, <1>8 DEF Within, own, limit

\* Every step keeps the foreseen limit.
LEMMA LimitStep ==
    ASSUME SessionsInv, [Next]_vars
    PROVE  LimitFact'
<1>1. /\ TypeOK /\ LimitFact /\ live \in SUBSET Ids
      /\ request \in [Requests -> RequestRows]
      /\ \A q \in Requests : RequestFact(q) /\ request[q] \in RequestRows
  BY DEF SessionsInv, TypeOK
<1>2. Settled \subseteq live /\ Settled' \subseteq live'
  BY DEF Settled
<1>3. CASE UNCHANGED <<sessions, request, loose>> /\ live' \subseteq live
  <2>1. Settled' \subseteq Settled
    BY <1>3 DEF Settled, Pending
  <2> QED BY <1>3, <2>1, LimitQuiet
<1>4. CASE RevokeAll
  BY <1>3, <1>4 DEF RevokeAll
<1>5. ASSUME NEW r \in Requests, SessionStep(r) PROVE LimitFact'
  <2>1. /\ \A q \in Requests : q # r => request'[q] = request[q]
        /\ \A s \in Ids : sessions'[s] = sessions[s]
    BY <1>5, Frame
  <2>2. CASE Create(r)
    <3> DEFINE new == Len(sessions) + 1
    <3> SUFFICES ASSUME NEW R \in SUBSET Revoking', NEW X \in SUBSET live', \A s \in X : Cleared(s, R)'
                 PROVE  Within(X)'
      BY DEF LimitFact
    <3>1. /\ request[r].at = "create" /\ new \notin Ids /\ new > 0
          /\ \/ request'[r].at \in {"limit", "rotate"} /\ request'[r].made = new
             \/ request'[r] = Idle
      BY <2>2, CreateRow
    <3>2. \/ request'[r].at = "limit" /\ request'[r].made = new
          \/ new \in loose'
      <4>1. CASE request[r].role = NoRole
        BY <2>2, <4>1 DEF Create
      <4>2. CASE request[r].role # NoRole
        BY <1>1, <2>2, <4>2, CreateRow
      <4> QED BY <4>1, <4>2
    <3>3. live' = live \cup {new} /\ loose \subseteq loose' /\ new \notin Settled'
      <4>1. live' = live \cup {new} /\ loose \subseteq loose'
        BY <2>2 DEF Create
      <4>2. new \in Pending' \/ new \in loose'
        BY <3>2 DEF Pending
      <4> QED BY <4>1, <4>2 DEF Settled
    <3>4. R \in SUBSET Revoking /\ r \notin R /\ \A q \in R : request'[q] = request[q]
      BY <2>1, <3>1 DEF Revoking, Idle
    <3>5. \A q \in R : request[q].made \in Ids
      BY <1>1, <3>4 DEF Revoking, RequestFact
    <3>6. new \notin X
      BY <3>1, <3>3, <3>4, <3>5 DEF Cleared
    <3>7. Pending \subseteq Pending'
      BY <2>1, <3>1 DEF Pending
    <3>8. X \in SUBSET live /\ \A s \in X : s \in Settled' => s \in Settled
      BY <3>3, <3>6, <3>7 DEF Settled
    <3>9. \A s \in X : Cleared(s, R)
      BY <3>4, <3>8 DEF Cleared
    <3>10. Within(X)
      BY <1>1, <3>4, <3>8, <3>9 DEF LimitFact
    <3> QED BY <1>1, <2>1, <3>8, <3>10 DEF Within
  <2>3. ASSUME request[r].at = "limit", UNCHANGED <<sessions, live, loose>>, Settle(r),
               Beyond(request[r].made, Limit[request[r].role]) = {}
        PROVE  LimitFact'
    <3> SUFFICES ASSUME NEW R \in SUBSET Revoking', NEW X \in SUBSET live', \A s \in X : Cleared(s, R)'
                 PROVE  Within(X)'
      BY DEF LimitFact
    <3>1. request'[r].at # "revoke"
      BY <1>1, <2>3, SettleRow DEF Idle
    <3>2. R \in SUBSET Revoking /\ r \notin R /\ \A q \in R : request'[q] = request[q]
      BY <2>1, <3>1 DEF Revoking
    <3>3. CASE request[r].made \in X
      <4>1. Within(X)
        BY <2>3, <3>3, OwnWithin
      <4> QED BY <1>1, <2>3, <4>1 DEF Within
    <3>4. CASE request[r].made \notin X
      <4>1. \A s \in X : s \in Settled' => s \in Settled
        <5>1. Pending \subseteq Pending' \cup {request[r].made}
          BY <2>1 DEF Pending
        <5> QED BY <2>3, <3>4, <5>1 DEF Settled
      <4>2. \A s \in X : Cleared(s, R)
        BY <3>2, <4>1 DEF Cleared
      <4>3. Within(X)
        BY <1>1, <2>3, <3>2, <4>2 DEF LimitFact
      <4> QED BY <1>1, <2>3, <4>3 DEF Within
    <3> QED BY <3>3, <3>4
  <2>4. ASSUME NEW excess, excess = Beyond(request[r].made, Limit[request[r].role]),
               request[r].at = "limit", UNCHANGED <<sessions, live, loose>>,
               request' = [request EXCEPT ![r] = [@ EXCEPT !.at = "revoke", !.doomed = excess]]
        PROVE  LimitFact'
    <3> SUFFICES ASSUME NEW R \in SUBSET Revoking', NEW X \in SUBSET live', \A s \in X : Cleared(s, R)'
                 PROVE  Within(X)'
      BY DEF LimitFact
    <3>1. /\ request'[r].at = "revoke" /\ request'[r].made = request[r].made
          /\ request'[r].doomed = excess
      BY <1>1, <2>4 DEF RequestRows
    <3>2. R \ {r} \in SUBSET Revoking /\ \A q \in R \ {r} : request'[q] = request[q]
      BY <2>1 DEF Revoking
    <3>3. CASE request[r].made \in X /\ r \in R
      <4>1. X \cap excess = {}
        BY <3>1, <3>3 DEF Cleared
      <4>2. Within(X)
        BY <2>4, <3>3, <4>1, OwnWithin
      <4> QED BY <2>4, <4>2 DEF Within
    <3>4. CASE ~(request[r].made \in X /\ r \in R)
      <4>1. \A s \in X : s \in Settled' => s \in Settled
        <5>1. Pending \subseteq Pending'
          BY <2>1, <2>4, <3>1 DEF Pending
        <5> QED BY <2>4, <5>1 DEF Settled
      <4>2. \A s \in X : Cleared(s, R \ {r})
        BY <3>1, <3>2, <3>4, <4>1 DEF Cleared
      <4>3. Within(X)
        BY <1>1, <2>4, <3>2, <4>2 DEF LimitFact
      <4> QED BY <2>4, <4>3 DEF Within
    <3> QED BY <3>3, <3>4
  <2>5. CASE RevokeExcess(r)
    <3> SUFFICES ASSUME NEW R \in SUBSET Revoking', NEW X \in SUBSET live', \A s \in X : Cleared(s, R)'
                 PROVE  Within(X)'
      BY DEF LimitFact
    <3>1. /\ request[r].at = "revoke" /\ Settle(r) /\ UNCHANGED <<sessions, loose>>
          /\ live' = live \ request[r].doomed
      BY <2>5 DEF RevokeExcess, At
    <3>2. request'[r].at # "revoke"
      BY <1>1, <3>1, SettleRow DEF Idle
    <3>3. R \in SUBSET Revoking /\ \A q \in R : request'[q] = request[q]
      BY <2>1, <3>2 DEF Revoking
    <3>4. R \cup {r} \in SUBSET Revoking /\ X \in SUBSET live
      BY <3>1, <3>3 DEF Revoking
    <3>5. \A s \in X : s \in Settled' => s \in Settled \/ s = request[r].made
      <4>1. Pending \subseteq Pending' \cup {request[r].made}
        BY <2>1 DEF Pending
      <4> QED BY <3>1, <4>1 DEF Settled
    <3>6. \A s \in X : Cleared(s, R \cup {r})
      BY <3>1, <3>3, <3>5 DEF Cleared
    <3>7. Within(X)
      BY <1>1, <3>4, <3>6 DEF LimitFact
    <3> QED BY <3>1, <3>7 DEF Within
  <2>6. CASE Fail(r)
    <3>1. /\ request' = [request EXCEPT ![r] = Idle] /\ live' = live
          /\ loose' = IF request[r].at \in {"limit", "revoke"} THEN loose \cup {request[r].made}
                      ELSE loose
      BY <2>6 DEF Fail
    <3>2. request'[r] = Idle
      BY <1>1, <3>1
    <3>3. Pending \cup loose \subseteq Pending' \cup loose'
      BY <2>1, <3>1 DEF Pending
    <3>4. Settled' \subseteq Settled
      BY <3>1, <3>3 DEF Settled
    <3> QED BY <2>1, <3>1, <3>2, <3>4, LimitQuiet DEF Idle
  <2>7. ASSUME request[r].at \notin {"limit", "revoke"}, request'[r].at # "revoke",
               live' \subseteq live, loose' = loose
        PROVE  LimitFact'
    <3>1. Pending \subseteq Pending'
      BY <2>1, <2>7 DEF Pending
    <3>2. Settled' \subseteq Settled
      BY <2>7, <3>1 DEF Settled
    <3> QED BY <2>1, <2>7, <3>2, LimitQuiet
  <2>8. CASE ReadActive(r)
    BY <2>3, <2>4, <2>8 DEF ReadActive, At, sessionVars
  <2>9. CASE Login(r) \/ Impersonate(r) \/ (\E c \in Challenges : Verify(r, c)) \/ \E s \in Ids : Present(r, s)
    <3>1. PICK step, token, role, since :
             step \in {"create", "verify", "role"} /\ Begin(r, step, token, role, since)
      BY <2>9 DEF Login, Impersonate, Verify, Present
    <3>2. request[r].at = "idle" /\ request'[r].at = step
      BY <1>1, <3>1, BeginRow DEF Begin, At
    <3>3. live' = live /\ loose' = loose
      BY <2>9 DEF Login, Impersonate, Verify, Present, sessionVars
    <3> QED BY <2>7, <3>1, <3>2, <3>3
  <2>10. CASE Consume(r) \/ ReadRole(r)
    <3>1. request[r].at \in {"verify", "role"} /\ live' = live /\ loose' = loose
      BY <2>10 DEF Consume, ReadRole, At, sessionVars
    <3>2. request'[r].at # "revoke"
      BY <1>1, <2>10, ConsumeRow, ReadRoleRow DEF Idle
    <3> QED BY <2>7, <3>1, <3>2
  <2>11. CASE Rotate(r) \/ \E c \in Challenges : GiveChallenge(r, c)
    <3>1. request[r].at \in {"rotate", "create"} /\ live' \subseteq live /\ loose' = loose
      BY <2>11 DEF Rotate, GiveChallenge, At, sessionVars
    <3>2. request'[r] = Idle
      BY <1>1, <2>11 DEF Rotate, GiveChallenge
    <3> QED BY <2>7, <3>1, <3>2 DEF Idle
  <2> QED BY <1>5, <2>2, <2>5, <2>6, <2>8, <2>9, <2>10, <2>11 DEF SessionStep
<1> QED BY <1>3, <1>4, <1>5
        DEF Next, vars, Logout, LogoutAll, Suspend, Sweep, SweepFails, RevokeUserAccess,
            DeleteAccount, MemberStep, sessionVars

-----------------------------------------------------------------------------
(* Tokens.                                                                 *)

\* What a step of one request does to the heirs: only its creation of a
\* session counts, for the token it has in hand.
LEMMA HeirFrame ==
    ASSUME SessionsInv, NEW r \in Requests, SessionStep(r), NEW t \in Tokens
    PROVE  /\ heirs[t] \in Nat
           /\ \/ heirs'[t] = heirs[t]
              \/ Create(r) /\ request[r].token = t /\ heirs'[t] = heirs[t] + 1
           /\ Create(r) /\ request[r].token = t => heirs'[t] = heirs[t] + 1
<1>1. heirs \in [Tokens -> Nat] /\ NoToken \notin Tokens
  BY SessionAssumption DEF SessionsInv, TypeOK, SessionAssumption, Tokens
<1>2. CASE Create(r)
  <2>1. heirs' = IF request[r].token = NoToken THEN heirs
                 ELSE [heirs EXCEPT ![request[r].token] = @ + 1]
    BY <1>2 DEF Create
  <2> QED BY <1>1, <1>2, <2>1
<1>3. CASE ~Create(r)
  <2>1. heirs' = heirs
    BY <1>3 DEF SessionStep, Login, Impersonate, Consume, ReadRole, ReadActive, RevokeExcess,
                Rotate, Fail, GiveChallenge, Verify, Present, sessionVars
  <2> QED BY <1>1, <1>3, <2>1
<1> QED BY <1>2, <1>3

\* Every step keeps the fact about challenges.
LEMMA ChallengeStep ==
    ASSUME SessionsInv, [Next]_vars
    PROVE  \A c \in Challenges : ChallengeFact(c)'
<1> SUFFICES ASSUME NEW c \in Challenges PROVE ChallengeFact(c)'
  OBVIOUS
<1>1. /\ TypeOK /\ request \in [Requests -> RequestRows] /\ c \in Tokens
      /\ \A q \in Requests : RequestFact(q) /\ request[q] \in RequestRows
      /\ challenge \in [Challenges -> {"none", "open", "consumed"}]
      /\ ChallengeFact(c) /\ c \notin Nat /\ c # NoToken /\ Ids \in SUBSET Nat
  <2>1. /\ TypeOK /\ Len(sessions) <= MaxSessions /\ ChallengeFact(c)
        /\ \A q \in Requests : RequestFact(q)
    BY DEF SessionsInv
  <2>2. c \in Tokens /\ c \notin Nat /\ c # NoToken
    BY SessionAssumption DEF SessionAssumption, Tokens
  <2>3. Ids \in SUBSET Nat
    BY <2>1, IdsFact
  <2> QED BY <2>1, <2>2, <2>3 DEF TypeOK
<1>2. ASSUME heirs'[c] = heirs[c], challenge[c] = "consumed" => challenge'[c] = "consumed",
             challenge'[c] # "consumed" => challenge[c] # "consumed",
             \A q \in Requests : Using(q, c)' => Using(q, c)
      PROVE  ChallengeFact(c)'
  BY <1>1, <1>2 DEF ChallengeFact
<1>3. CASE UNCHANGED <<heirs, request>> /\
           \/ UNCHANGED challenge
           \/ challenge' = [d \in Challenges |-> IF challenge[d] = "none" THEN "none" ELSE "consumed"]
  <2>1. \A q \in Requests : Using(q, c)' => Using(q, c)
    BY <1>3 DEF Using
  <2> QED BY <1>2, <1>3, <2>1
<1>4. ASSUME NEW r \in Requests, SessionStep(r) PROVE ChallengeFact(c)'
  <2>1. \A q \in Requests : q # r => request'[q] = request[q]
    BY <1>4, Frame
  <2>2. \A q \in Requests : q # r /\ Using(q, c)' => Using(q, c)
    BY <2>1 DEF Using
  <2>3. CASE Create(r)
    <3>1. /\ request[r].at = "create" /\ request'[r].at \notin {"role", "create"}
          /\ UNCHANGED challenge
      <4>1. request'[r].at \in {"idle", "limit", "rotate"}
        <5>1. request'[r].at = "limit" \/ request'[r] = Idle \/ request'[r].at = "rotate"
          BY <2>3, CreateRow
        <5> QED BY <5>1 DEF Idle
      <4> QED BY <2>3, <4>1 DEF Create, At
    <3>2. ~Using(r, c)'
      BY <3>1 DEF Using
    <3>3. CASE request[r].token = c
      <4>1. Using(r, c)
        BY <3>1, <3>3 DEF Using
      <4>2. heirs[c] = 0 /\ challenge[c] = "consumed" /\ \A q \in Requests : Using(q, c) => q = r
        BY <1>1, <4>1 DEF ChallengeFact
      <4>3. heirs'[c] = 1
        BY <1>1, <1>4, <2>3, <3>3, <4>2, HeirFrame
      <4>4. \A q \in Requests : ~Using(q, c)'
        BY <2>2, <3>2, <4>2
      <4> QED BY <3>1, <4>2, <4>3, <4>4 DEF ChallengeFact
    <3>4. CASE request[r].token # c
      <4>1. heirs'[c] = heirs[c]
        BY <1>1, <1>4, <3>4, HeirFrame
      <4> QED BY <1>2, <2>2, <3>1, <3>2, <4>1
    <3> QED BY <3>3, <3>4
  <2>4. CASE ~Create(r)
    <3>1. heirs'[c] = heirs[c]
      BY <1>1, <1>4, <2>4, HeirFrame
    <3>2. CASE Consume(r) /\ request[r].token = c /\ challenge[c] = "open"
      <4>1. challenge'[c] = "consumed" /\ heirs[c] = 0
        BY <1>1, <3>2 DEF Consume, ChallengeFact
      <4>2. \A q \in Requests : ~Using(q, c)
        BY <1>1, <3>2 DEF ChallengeFact
      <4> QED BY <2>2, <3>1, <4>1, <4>2 DEF ChallengeFact
    <3>3. CASE Consume(r) /\ ~(request[r].token = c /\ challenge[c] = "open")
      <4>1. challenge'[c] = challenge[c]
        BY <1>1, <3>3 DEF Consume
      <4>2. ~Using(r, c)'
        <5>1. \/ request'[r] = Idle
              \/ request'[r].token = request[r].token /\ challenge[request[r].token] = "open"
          BY <1>1, <3>3, ConsumeRow
        <5> QED BY <1>1, <3>3, <5>1 DEF Using, Idle
      <4> QED BY <1>2, <2>2, <3>1, <4>1, <4>2
    <3>4. CASE ReadRole(r)
      <4>1. Using(r, c)' => Using(r, c)
        BY <1>1, <3>4, ReadRoleRow DEF Using
      <4> QED BY <1>2, <2>2, <3>1, <3>4, <4>1 DEF ReadRole
    <3>5. ASSUME ~Using(r, c)', UNCHANGED challenge PROVE ChallengeFact(c)'
      BY <1>2, <2>2, <3>1, <3>5
    <3>6. CASE ReadActive(r) \/ RevokeExcess(r)
      <4>1. request'[r].at \notin {"role", "create"}
        <5>1. CASE Settle(r)
          BY <1>1, <5>1, SettleRow DEF Idle
        <5>2. CASE ~Settle(r)
          <6> DEFINE excess == Beyond(request[r].made, Limit[request[r].role])
          <6>1. request' = [request EXCEPT ![r] = [@ EXCEPT !.at = "revoke", !.doomed = excess]]
            BY <3>6, <5>2 DEF ReadActive, RevokeExcess
          <6> HIDE DEF excess
          <6> QED BY <1>1, <6>1 DEF RequestRows
        <5> QED BY <5>1, <5>2
      <4> QED BY <3>5, <3>6, <4>1 DEF Using, ReadActive, RevokeExcess
    <3>7. CASE Rotate(r) \/ Fail(r)
      BY <1>1, <3>5, <3>7 DEF Using, Rotate, Fail, Idle
    <3>8. CASE Login(r) \/ Impersonate(r) \/ (\E d \in Challenges : Verify(r, d)) \/ \E s \in Ids : Present(r, s)
      <4>1. PICK step, token, role, since :
               /\ step \in {"create", "verify", "role"}
               /\ Begin(r, step, token, role, since)
               /\ step \in {"role", "create"} => token # c
        BY <1>1, <3>8 DEF Login, Impersonate, Verify, Present
      <4>2. request'[r].at = step /\ request'[r].token = token
        BY <1>1, <4>1, BeginRow
      <4>3. UNCHANGED challenge
        BY <3>8 DEF Login, Impersonate, Verify, Present
      <4> QED BY <3>5, <4>1, <4>2, <4>3 DEF Using
    <3>9. ASSUME NEW d \in Challenges, GiveChallenge(r, d) PROVE ChallengeFact(c)'
      <4>1. ~Using(r, c)'
        BY <1>1, <3>9 DEF GiveChallenge, Using, Idle
      <4>2. /\ challenge[c] = "consumed" => challenge'[c] = "consumed"
            /\ challenge'[c] # "consumed" => challenge[c] # "consumed"
        BY <1>1, <3>9 DEF GiveChallenge
      <4> QED BY <1>2, <2>2, <3>1, <4>1, <4>2
    <3> QED BY <1>4, <2>4, <3>2, <3>3, <3>4, <3>6, <3>7, <3>8, <3>9 DEF SessionStep
  <2> QED BY <2>3, <2>4
<1> QED BY <1>3, <1>4
        DEF Next, vars, Logout, LogoutAll, Suspend, Sweep, SweepFails, RevokeUserAccess,
            DeleteAccount, RevokeAll, MemberStep, sessionVars

\* Every step keeps the fact about refresh tokens.
LEMMA TokenStep ==
    ASSUME SessionsInv, [Next]_vars
    PROVE  \A s \in 1 .. MaxSessions : TokenFact(s)'
<1> SUFFICES ASSUME NEW s \in 1 .. MaxSessions PROVE TokenFact(s)'
  OBVIOUS
<1>1. /\ TypeOK /\ request \in [Requests -> RequestRows] /\ live \in SUBSET Ids
      /\ \A q \in Requests : /\ RequestFact(q) /\ request[q] \in RequestRows
                             /\ request[q].made \in Nat
      /\ s \in Nat /\ s \in Tokens /\ s # NoToken /\ s \notin Challenges
      /\ heirs \in [Tokens -> Nat] /\ TokenFact(s)
  <2>1. /\ TypeOK /\ request \in [Requests -> RequestRows] /\ live \in SUBSET Ids
        /\ \A q \in Requests : RequestFact(q) /\ request[q] \in RequestRows
        /\ heirs \in [Tokens -> Nat] /\ TokenFact(s)
    BY DEF SessionsInv, TypeOK
  <2>2. s \in Nat /\ s \in Tokens /\ s # NoToken /\ s \notin Challenges
    BY <2>1, IdsFact, SessionAssumption DEF SessionsInv, SessionAssumption, Tokens
  <2> QED BY <2>1, <2>2 DEF RequestRows
<1>2. ASSUME heirs'[s] = heirs[s], Ids \subseteq Ids', s \in live' => s \in live, forked \subseteq forked',
             \A q \in Requests : request'[q].token = s =>
                 request[q].token = s /\ (request'[q].made = 0 => request[q].made = 0),
             \A q \in Requests : request[q].token = s /\ request[q].made > 0 =>
                 \/ s \notin live' \/ s \in forked'
                 \/ request'[q].token = s /\ request'[q].made > 0
      PROVE  TokenFact(s)'
  <2>1. /\ s \notin Ids' => heirs'[s] = 0
        /\ heirs'[s] > 1 => s \in forked'
    BY <1>1, <1>2 DEF TokenFact
  <2>2. heirs'[s] > 0 /\ s \in live' =>
            s \in forked' \/ \E r \in Requests : request'[r].token = s /\ request'[r].made > 0
    BY <1>1, <1>2 DEF TokenFact
  <2>3. ASSUME NEW r \in Requests, request'[r].token = s
        PROVE  /\ heirs'[s] > 0 /\ request'[r].made = 0 => s \in forked'
               /\ \A q \in Requests : request'[q].token = s => q = r \/ s \in forked'
    BY <1>1, <1>2, <2>3 DEF TokenFact
  <2> QED BY <2>1, <2>2, <2>3 DEF TokenFact
<1>3. CASE UNCHANGED <<heirs, request, forked, sessions>> /\ live' \subseteq live
  BY <1>2, <1>3 DEF Ids
<1>4. ASSUME NEW r \in Requests, SessionStep(r) PROVE TokenFact(s)'
  <2>1. /\ \A q \in Requests : q # r => request'[q] = request[q]
        /\ Ids \subseteq Ids'
    BY <1>4, Frame
  <2>2. ASSUME ~Create(r), s \in live' => s \in live, forked \subseteq forked',
               request'[r].token = s =>
                 request[r].token = s /\ (request'[r].made = 0 => request[r].made = 0),
               request[r].token = s /\ request[r].made > 0 =>
                 \/ s \notin live' \/ s \in forked'
                 \/ request'[r].token = s /\ request'[r].made > 0
        PROVE  TokenFact(s)'
    <3>1. heirs'[s] = heirs[s]
      BY <1>1, <1>4, <2>2, HeirFrame
    <3> QED BY <1>2, <2>1, <2>2, <3>1
  <2>3. CASE Create(r)
    <3> DEFINE new == Len(sessions) + 1
    <3>1. /\ request[r].at = "create" /\ request[r].made = 0 /\ new \in Nat /\ new > 0
          /\ new \notin Ids /\ Ids' = Ids \cup {new}
      BY <2>3, CreateRow
    <3>2. live' = live \cup {new} /\ forked' = forked
      BY <2>3 DEF Create, ghostVars
    <3>3. \/ request'[r] = Idle /\ request[r].token \notin Ids
          \/ request'[r].token = request[r].token /\ request'[r].made = new
      BY <2>3, CreateRow
    <3>4. CASE request[r].token = s
      <4>1. s \in Ids
        BY <1>1, <3>4 DEF RequestFact
      <4>2. request'[r].token = s /\ request'[r].made = new
        BY <3>3, <3>4, <4>1
      <4>3. heirs'[s] = heirs[s] + 1 /\ heirs[s] \in Nat
        BY <1>1, <1>4, <2>3, <3>4, HeirFrame
      <4>4. heirs[s] > 0 => s \in forked
        BY <1>1, <3>1, <3>4 DEF TokenFact
      <4>5. heirs'[s] > 1 => s \in forked
        BY <4>3, <4>4
      <4>6. \A q \in Requests : request[q].token = s => q = r \/ s \in forked
        BY <1>1, <3>4 DEF TokenFact
      <4>7. \A q \in Requests : request'[q].token = s => q = r \/ s \in forked
        BY <2>1, <4>6
      <4>8. ASSUME NEW q \in Requests, request'[q].token = s
            PROVE  /\ heirs'[s] > 0 /\ request'[q].made = 0 => s \in forked
                   /\ \A p \in Requests : request'[p].token = s => p = q \/ s \in forked
        BY <3>1, <4>2, <4>7, <4>8
      <4> QED BY <2>1, <3>1, <3>2, <4>1, <4>2, <4>5, <4>8 DEF TokenFact
    <3>5. CASE request[r].token # s
      <4>1. heirs'[s] = heirs[s]
        BY <1>1, <1>4, <3>5, HeirFrame
      <4>2. request'[r].token # s
        BY <1>1, <3>3, <3>5 DEF Idle
      <4>3. CASE s = new
        <5>1. heirs[s] = 0 /\ s \in Ids'
          BY <1>1, <3>1, <4>3 DEF TokenFact
        <5>2. \A q \in Requests : request'[q].token # s
          BY <1>1, <2>1, <3>1, <4>2, <4>3 DEF RequestFact
        <5> QED BY <4>1, <5>1, <5>2 DEF TokenFact
      <4>4. CASE s # new
        <5>1. s \in live' => s \in live
          BY <3>2, <4>4
        <5> QED BY <1>2, <2>1, <3>2, <3>5, <4>1, <4>2, <5>1
      <4> QED BY <4>3, <4>4
    <3> QED BY <3>4, <3>5
  <2>4. CASE Login(r) \/ Impersonate(r) \/ \E c \in Challenges : Verify(r, c)
    <3>1. PICK step, token, role, since :
             /\ step \in {"create", "verify"}
             /\ Begin(r, step, token, role, since) /\ token # s
      BY <1>1, <2>4 DEF Login, Impersonate, Verify
    <3>2. request[r].at = "idle" /\ request'[r].token # s
      <4>1. request[r].at = "idle"
        BY <3>1 DEF Begin, At
      <4>2. request'[r].token = token
        BY <1>1, <3>1, BeginRow
      <4> QED BY <3>1, <4>1, <4>2
    <3>3. request[r].made = 0
      BY <1>1, <3>2 DEF RequestFact
    <3>4. ~Create(r)
      BY <3>2 DEF Create, At
    <3>5. live' = live /\ forked' = forked
      BY <2>4 DEF Login, Impersonate, Verify, sessionVars, ghostVars
    <3> QED BY <2>2, <3>2, <3>3, <3>4, <3>5
  <2>5. ASSUME NEW t \in Ids, Present(r, t) PROVE TokenFact(s)'
    <3>1. /\ t \in live /\ request[r].at = "idle" /\ Begin(r, "role", t, NoRole, sessions[t].epoch)
          /\ UNCHANGED <<live, sessions, heirs>>
          /\ forked' = IF Refreshing(t) THEN forked \cup {t} ELSE forked
      BY <2>5 DEF Present, Begin, At, sessionVars
    <3>2. request[r].made = 0 /\ request[r].token = NoToken
      BY <1>1, <3>1 DEF RequestFact
    <3>3. request'[r].token = t /\ request'[r].made = 0
      BY <1>1, <3>1, BeginRow
    <3>4. CASE t # s
      <4>1. ~Create(r)
        BY <3>1 DEF Create, At
      <4> QED BY <2>2, <3>1, <3>2, <3>3, <3>4, <4>1
    <3>5. CASE t = s
      <4>1. \A q \in Requests : request[q].token = s => s \in forked'
        BY <3>1, <3>5 DEF Refreshing
      <4>2. \A q \in Requests : request'[q].token = s => q = r \/ s \in forked'
        BY <2>1, <4>1
      <4>3. heirs[s] > 0 => s \in forked'
        <5>1. forked \subseteq forked'
          BY <3>1
        <5> QED BY <1>1, <3>1, <3>5, <4>1, <5>1 DEF TokenFact
      <4>4. heirs[s] > 1 => s \in forked'
        BY <1>1, <3>1 DEF TokenFact
      <4>5. s \in Ids'
        BY <1>1, <2>1, <3>1, <3>5
      <4> QED BY <1>1, <3>1, <4>2, <4>3, <4>4, <4>5 DEF TokenFact
    <3> QED BY <3>4, <3>5
  <2>6. CASE Consume(r) \/ ReadRole(r)
    <3>1. /\ request[r].at \in {"verify", "role"}
          /\ \/ request'[r] = Idle
             \/ request'[r].token = request[r].token /\ request'[r].made = request[r].made
      BY <1>1, <2>6, ConsumeRow, ReadRoleRow
    <3>2. request[r].made = 0
      BY <1>1, <3>1 DEF RequestFact
    <3>3. ~Create(r)
      BY <3>1 DEF Create, At
    <3>4. live' = live /\ forked' = forked
      BY <2>6 DEF Consume, ReadRole, sessionVars, ghostVars
    <3>5. Idle.token # s
      BY <1>1 DEF Idle
    <3> QED BY <2>2, <3>1, <3>2, <3>3, <3>4, <3>5
  <2>7. CASE ReadActive(r) \/ RevokeExcess(r)
    <3>1. request[r].at \in {"limit", "revoke"} /\ live' \subseteq live /\ forked' = forked
      BY <2>7 DEF ReadActive, RevokeExcess, At, sessionVars, ghostVars
    <3>2. ~Create(r)
      BY <3>1 DEF Create, At
    <3>3. \/ request'[r] = Idle /\ request[r].token \notin Ids
          \/ request'[r].token = request[r].token /\ request'[r].made = request[r].made
      <4>1. CASE Settle(r)
        BY <1>1, <4>1, SettleRow
      <4>2. CASE ~Settle(r)
        <5> DEFINE excess == Beyond(request[r].made, Limit[request[r].role])
        <5>1. request' = [request EXCEPT ![r] = [@ EXCEPT !.at = "revoke", !.doomed = excess]]
          BY <2>7, <4>2 DEF ReadActive, RevokeExcess
        <5> HIDE DEF excess
        <5> QED BY <1>1, <5>1 DEF RequestRows
      <4> QED BY <4>1, <4>2
    <3>4. Idle.token # s /\ (request[r].token = s => request[r].token \in Ids)
      BY <1>1 DEF Idle, RequestFact
    <3> QED BY <2>2, <3>1, <3>2, <3>3, <3>4
  <2>8. CASE Rotate(r)
    <3>1. /\ request[r].at = "rotate" /\ request'[r] = Idle /\ live' = live \ {request[r].token}
          /\ forked' = forked
      BY <1>1, <2>8 DEF Rotate, At, ghostVars
    <3>2. ~Create(r) /\ Idle.token # s
      BY <1>1, <3>1 DEF Create, At, Idle
    <3> QED BY <2>2, <3>1, <3>2
  <2>9. CASE Fail(r)
    <3>1. /\ request'[r] = Idle /\ live' = live /\ forked \subseteq forked'
          /\ request[r].made > 0 /\ request[r].token \in Ids => request[r].token \in forked'
      BY <1>1, <2>9 DEF Fail
    <3>2. Idle.token # s /\ (request[r].token = s => request[r].token \in Ids)
      BY <1>1 DEF Idle, RequestFact
    <3>3. heirs'[s] = heirs[s]
      BY <2>9 DEF Fail
    <3> QED BY <1>2, <2>1, <3>1, <3>2, <3>3
  <2>10. CASE \E c \in Challenges : GiveChallenge(r, c)
    <3>1. /\ request[r].token = NoToken /\ request'[r] = Idle
          /\ UNCHANGED <<live, sessions, heirs, forked>>
      BY <1>1, <2>10 DEF GiveChallenge, sessionVars, ghostVars
    <3>2. Idle.token # s
      BY <1>1 DEF Idle
    <3> QED BY <1>1, <1>2, <2>1, <3>1, <3>2
  <2> QED BY <1>4, <2>3, <2>4, <2>5, <2>6, <2>7, <2>8, <2>9, <2>10 DEF SessionStep
<1> QED BY <1>3, <1>4
        DEF Next, vars, Logout, LogoutAll, Suspend, Sweep, SweepFails, RevokeUserAccess,
            DeleteAccount, RevokeAll, MemberStep, sessionVars, ghostVars

-----------------------------------------------------------------------------
(* The theorems.                                                           *)

\* The invariant holds of the initial states and is kept by every step.
LEMMA Invariance == Spec => []SessionsInv
<1>1. SessionsInv /\ [Next]_vars => SessionsInv'
  <2> SUFFICES ASSUME SessionsInv, [Next]_vars PROVE SessionsInv'
    OBVIOUS
  <2>1. TypeOK' /\ Len(sessions)' <= MaxSessions'
    BY TypeStep
  <2>2. \A c \in Challenges : ChallengeFact(c)'
    BY ChallengeStep
  <2>3. \A s \in 1 .. MaxSessions : TokenFact(s)'
    BY TokenStep
  <2> QED BY <2>1, <2>2, <2>3, InviteStep, RequestStep, LimitStep, LogoutStep DEF SessionsInv
<1> QED BY <1>1, InitInv, PTL DEF Spec

\* Requests, sessions and memberships keep their types, and no request
\* revokes the session it has just made.
THEOREM TypeCorrect == Spec => []TypeOK
<1>1. SessionsInv => TypeOK
  BY DEF SessionsInv
<1> QED BY <1>1, Invariance, PTL

\* However requests, revocations and failures interleave between the three
\* calls of createSession, the settled sessions are within the largest limit
\* among their roles.
THEOREM SessionsWithinLimit == Spec => []LimitHolds
<1>1. SessionsInv => LimitHolds
  <2> SUFFICES ASSUME SessionsInv PROVE LimitHolds
    OBVIOUS
  <2>1. LimitFact /\ Settled \in SUBSET live /\ {} \in SUBSET Revoking
    BY DEF SessionsInv, Settled
  <2>2. \A s \in Settled : Cleared(s, {})
    BY DEF Cleared
  <2>3. Within(Settled)
    BY <2>1, <2>2 DEF LimitFact
  <2> QED BY <2>3 DEF Within, LimitHolds
<1> QED BY <1>1, Invariance, PTL

\* A session that survives a revocation of all sessions does so only past
\* revocations that some request overlapped, having read and not yet created.
THEOREM RevocationEndsChains == Spec => []LogoutIsFinal
<1>1. SessionsInv => LogoutIsFinal
  BY DEF SessionsInv
<1> QED BY <1>1, Invariance, PTL

\* A challenge makes one session at most; a refresh token more than one only
\* if two requests used it at once or one failed before the rotation.
THEOREM TokensMakeOneSession == Spec => []TokensSpentOnce
<1>1. SessionsInv => TokensSpentOnce
  <2> SUFFICES ASSUME SessionsInv PROVE TokensSpentOnce
    OBVIOUS
  <2>1. Ids \in SUBSET (1 .. MaxSessions)
    BY IdsFact DEF SessionsInv
  <2> QED BY <2>1 DEF SessionsInv, ChallengeFact, TokenFact, TokensSpentOnce
<1> QED BY <1>1, Invariance, PTL

\* An invite makes or renews the membership once and while it is pending,
\* unless it changed, or was read again, while a request was accepting it.
THEOREM InvitesAdmitOnce == Spec => []InviteSpentOnce
<1>1. SessionsInv => InviteSpentOnce
  BY DEF SessionsInv, InviteFact, InviteSpentOnce
<1> QED BY <1>1, Invariance, PTL
=============================================================================
