---------------------------- MODULE Memberships -----------------------------
(***************************************************************************)
(* The membership of one user in one organization and the invites that     *)
(* create it.                                                              *)
(*                                                                         *)
(* acceptInvite reads the invite before its transaction and does not look  *)
(* at it again inside: the membership is written, then the invite is       *)
(* marked.  Two organizations' routes remove a member: one deletes the row,*)
(* the other revokes it together with the sessions (see Sessions).         *)
(***************************************************************************)
EXTENDS Naturals, FiniteSets

CONSTANTS
    Roles, NoMember,
    Invites,     \* the invites of the organization for the user's address
    InviteRole,  \* the role each of them gives
    Requests,    \* requests in progress at a time
    NoInvite

ASSUME MembershipAssumption == NoInvite \notin Invites /\ InviteRole \in [Invites -> Roles]

VARIABLES
    member,    \* the row of the user in the organization, or NoMember
    invite,    \* invite[i]: Invite.status, "none" before it, "deleted" after
    accepting, \* accepting[a]: the invite that request a has read as PENDING
    admitted,  \* admitted[i]: how many times i made or renewed the membership
    stale,     \* invites that admitted when they were no longer pending
    raced      \* invites that changed while some request was accepting them

inviteVars == <<invite, accepting, admitted, stale, raced>>
memberVars == <<member, inviteVars>>

Members      == [role : Roles, status : {"ACTIVE", "REVOKED"}]
InviteStatus == {"none", "PENDING", "ACCEPTED", "REVOKED", "deleted"}
Active       == member # NoMember /\ member.status = "ACTIVE"

MembersTypeOK ==
    /\ member \in Members \cup {NoMember}
    /\ invite \in [Invites -> InviteStatus]
    /\ accepting \in [Requests -> Invites \cup {NoInvite}]
    /\ admitted \in [Invites -> Nat]
    /\ stale \subseteq Invites /\ raced \subseteq Invites

MembersInit ==
    /\ member \in [role : Roles, status : {"ACTIVE"}]
    /\ invite = [i \in Invites |-> "none"]
    /\ accepting = [a \in Requests |-> NoInvite]
    /\ admitted = [i \in Invites |-> 0]
    /\ stale = {} /\ raced = {}

InUse(i) == \E a \in Requests : accepting[a] = i

CreateInvite(i) ==
    /\ invite[i] = "none"
    /\ invite' = [invite EXCEPT ![i] = "PENDING"]
    /\ UNCHANGED <<member, accepting, admitted, stale, raced>>

(* Mutant of ReadInvite: the status is not looked at. *)
ReadAnyInvite(a, i) ==
    /\ accepting[a] = NoInvite /\ invite[i] \notin {"none", "deleted"}
    /\ accepting' = [accepting EXCEPT ![a] = i]
    /\ raced' = IF InUse(i) THEN raced \cup {i} ELSE raced
    /\ UNCHANGED <<member, invite, admitted, stale>>

(* The read of the status and of the expiry date, before the transaction. *)
ReadInvite(a, i) ==
    /\ accepting[a] = NoInvite /\ invite[i] = "PENDING"
    /\ accepting' = [accepting EXCEPT ![a] = i]
    /\ raced' = IF InUse(i) THEN raced \cup {i} ELSE raced
    /\ UNCHANGED <<member, invite, admitted, stale>>

(* The transaction: upsert the membership with the invite's role, mark the
   invite.  Marking a deleted invite throws and rolls the upsert back. *)
Admit(a, i) ==
    /\ accepting[a] = i /\ invite[i] # "deleted"
    /\ member' = [role |-> InviteRole[i], status |-> "ACTIVE"]
    /\ invite' = [invite EXCEPT ![i] = "ACCEPTED"]
    /\ admitted' = [admitted EXCEPT ![i] = @ + 1]
    /\ stale' = IF invite[i] = "PENDING" THEN stale ELSE stale \cup {i}
    /\ accepting' = [accepting EXCEPT ![a] = NoInvite]
    /\ UNCHANGED raced

AdmitFails(a, i) ==
    /\ accepting[a] = i
    /\ accepting' = [accepting EXCEPT ![a] = NoInvite]
    /\ UNCHANGED <<member, invite, admitted, stale, raced>>

(* revokeInvite finds the invite in any status and overwrites it. *)
RevokeInvite(i) ==
    /\ invite[i] \in {"PENDING", "ACCEPTED"}
    /\ invite' = [invite EXCEPT ![i] = "REVOKED"]
    /\ raced' = IF InUse(i) THEN raced \cup {i} ELSE raced
    /\ UNCHANGED <<member, accepting, admitted, stale>>

(* The hourly job deletes the invites whose date has passed. *)
CleanUpInvite(i) ==
    /\ invite[i] \in {"PENDING", "ACCEPTED", "REVOKED"}
    /\ invite' = [invite EXCEPT ![i] = "deleted"]
    /\ UNCHANGED <<member, accepting, admitted, stale, raced>>

SetRole(role) ==
    /\ member # NoMember
    /\ member' = [member EXCEPT !.role = role]
    /\ UNCHANGED inviteVars

(* organizations/service.ts: the row goes, the sessions stay. *)
RemoveMember ==
    /\ member # NoMember
    /\ member' = NoMember
    /\ UNCHANGED inviteVars

-----------------------------------------------------------------------------
(* An invite admits its user once and while it is pending: a second admission,
   and one after the invite was accepted or revoked, happen only to an invite
   that was accepted or revoked, or read again, while a request was accepting
   it. *)
InviteSpentOnce ==
    \A i \in Invites : admitted[i] > 1 \/ i \in stale => i \in raced
=============================================================================
