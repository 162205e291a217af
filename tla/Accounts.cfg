SPECIFICATION Spec
CONSTANTS
    ADMIN = ADMIN
    MEMBER = MEMBER
    i1 = i1
    Roles = {ADMIN, MEMBER}
    NoMember = NoMember
    Invites = {i1}
    InviteRole <- MemberOffer
    NoInvite = NoInvite
    Limit <- RoleLimit
    Requests = {r1, r2}
    Challenges = {c1}
    NoRole = NoRole
    NoToken = NoToken
    MaxSessions = 3
    MaxEvents = 2
SYMMETRY Symmetry
INVARIANTS
    TypeOK
    LimitHolds
    LogoutIsFinal
    TokensSpentOnce
    InviteSpentOnce
CHECK_DEADLOCK FALSE
