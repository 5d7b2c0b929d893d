\* Two requests in flight: setups, invitations, sign-ins and removals.
SPECIFICATION Spec
CONSTANTS
    Handlers = {h1, h2}
    Users = {u1, u2}
    Links = {i1, i2}
    None = None
    Workload = {"initialize", "createUser", "resend", "accept", "revoke", "signIn", "removeUser", "crash"}
INVARIANTS
    LinksStand
    NobodyLockedOut
PROPERTIES
    ClaimedOnce
    NoSecondAdministrator
CHECK_DEADLOCK FALSE
