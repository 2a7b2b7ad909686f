CONSTANTS
    Young = {y1, y2}
    Student = s1
    Photos = {p1, p2}
    Policies = {1, 2}
    OwnerTtl = 1
    StateTtl = 2
    RemindEvery = 3
    RenewalTtl = 4
    Cooldown = 2
    MaxNow = 2
    NoKid = NoKid
SPECIFICATION Spec
INVARIANT NoSilence
SYMMETRY Symmetry
CHECK_DEADLOCK FALSE
