SPECIFICATION FairSpec
CONSTANTS
    Senders = {outbox, tailer, direct}
    Background = outbox
    Tail = tailer
    None = none
    MaxMessages = 2
    MaxWakes = 1
INVARIANTS
    WaitConsistent
    ConfirmedCommitted
    WaiterWoken
PROPERTIES
    BackgroundServed
