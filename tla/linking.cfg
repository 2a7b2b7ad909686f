CONSTANTS
    Users = {u1, u2, u3}
    Profiles = {p1, p2}
    Invites = {i1, i2}
    Handlers = {h1, h2}
    Policies = {1, 2}
    CodeAttempts = 1
    NoUser = NoUser
    NoProfile = NoProfile
    NoInvite = NoInvite
SPECIFICATION Spec
INVARIANT MembersMatch
PROPERTIES
    LinksAnsweredOnce
    ImplementsFamily
CONSTRAINT OneAtATime
SYMMETRY Symmetry
CHECK_DEADLOCK FALSE
