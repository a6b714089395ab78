SPECIFICATION FairSpec
CONSTANTS
    Slots = {s1, s2, s3}
    LiveReservedSlots = 1
    PriorityBurst = 1
    Operations = {"APPEND", "PEEK", "CATALOG"}
    TicketMax = 4
INVARIANTS
    MailboxConsistent
    LiveReserve
    BoundedBypass
PROPERTIES
    FileWorkExclusive
    AcceptedWorkReleased
CHECK_DEADLOCK FALSE
