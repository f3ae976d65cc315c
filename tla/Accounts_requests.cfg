\* Two clients, at first with one admin account between them.
SPECIFICATION Spec
CONSTANTS
    UserIds = {u1, u2}
    Clients = {c1, c2}
    Emails = {"a", "b"}
    Passwords = {"p", "q"}
    NewAccounts <- NewB
    Patches <- SomePatches
    FirstAdmin <- AccountA
    None = None
    Unset = Unset
    Second = 2
    AccessLife = 2
    RefreshLife = 4
    MaxTime = 4
SYMMETRY AccountSymmetry
CHECK_DEADLOCK FALSE
INVARIANTS TypeOK EmailsUnique TokenOwner
PROPERTIES TokenLifetime ImplementsRegistry
