SPECIFICATION Spec
CONSTANTS
    NoGuest = NoGuest
    Guests = {g1, g2}
    Stale = {}
    MaxInvites = 1
    Faults = {}
INVARIANTS
    OneVerifier
\* The invites are used up and every guest has left: nothing more happens.
CHECK_DEADLOCK FALSE
