CONSTANTS
    Users = {u1, u2}
    Profiles = {p1}
    Invites = {i1}
    Handlers = {h1}
    Policies = {1, 2}
    CodeAttempts = 0
    NoUser = NoUser
    NoProfile = NoProfile
    NoInvite = NoInvite
SPECIFICATION Spec
PROPERTY ConsentAsShown
CHECK_DEADLOCK FALSE
