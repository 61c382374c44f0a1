CONSTANTS
    None = None
    Nodes = {P, Q}
    Publishers = {P, Q}
    Historians = {}
    Rewinders = {P}
    Restarters = {Q}
    Contents = {A, B}
    MaxVersion = 2
    MaxRewinds = 1
    MaxRestarts = 1
    CanLose = TRUE
    Windows = {}
    Slots = 1
    MaxChanges = 1
    MaxReceived = 1
SPECIFICATION MCSpec
SYMMETRY ContentSymmetry
INVARIANTS  PublishGated
  
CHECK_DEADLOCK FALSE
