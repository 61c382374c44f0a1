CONSTANTS
    None = None
    Nodes = {P, Q}
    Publishers = {P}
    Historians = {Q}
    Rewinders = {P, Q}
    Restarters = {}
    Contents = {A, B}
    MaxVersion = 3
    MaxRewinds = 1
    MaxRestarts = 0
    CanLose = FALSE
    Windows = {"edit"}
SPECIFICATION FairSpec
PROPERTIES AutoUpdate CheckoutServed
CHECK_DEADLOCK FALSE
