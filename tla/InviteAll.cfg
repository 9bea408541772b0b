SPECIFICATION FairSpec
CONSTANTS
    NoGuest = NoGuest
    Guests = {g1, g2}
    Stale = {g2}
    MaxInvites = 3
    Faults = {"cut"}
INVARIANTS
    RemoteIsOpen
    CanInvite
    HostAlone
PROPERTIES
    NoGhosts
\* The invites are used up and every guest has left: nothing more happens.
CHECK_DEADLOCK FALSE
