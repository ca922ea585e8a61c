SPECIFICATION FairSpec
CONSTANTS
    A = A
    B = B
    s1 = s1
    s2 = s2
    r1 = r1
    r2 = r2
    Machines = {A, B}
    Boxes = {0}
    Senders = {s1, s2}
    Receivers = {r1, r2}
    Machine <- MCMachine
    BoxOf <- MCBoxOf
    Listening = {B}
    ChanceToWork = 50
    MaxSends <- MCMaxSends
    NoMail = NoMail
CHECK_DEADLOCK FALSE
PROPERTIES
    ImplementsChannel
    SendReturns
    EveryMailRead
