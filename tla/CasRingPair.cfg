SPECIFICATION FairSpec
CONSTANTS
    Senders = {1, 2}
    Receivers = {3, 4}
    Kthd <- ByRole
    Messages = {m1, m2}
    m1 = m1
    m2 = m2
    Requested = 2
    InfiniteCap = 8
    NULL = null
INVARIANTS TypeOK WriteNeverFull ReadNeverEmpty
PROPERTIES MailboxSpec SendProgress
