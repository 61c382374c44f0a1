CONSTANTS
    Ids = {i1, i2}
    Peers = {p1}
    Self = Self
    Versions = {1, 2}
    NoOne = NoOne
    Clients = {c1}
    Kinds = {"conflict", "transfer"}
    NoProject = "none"
    ChannelCap = 1
    Failures = {}
    MaxEvents = 2
    MaxErrors = 1
    Early = FALSE
    Builtin = {"dht"}
    MaxPayload = 1
SPECIFICATION MCSpec
 
PROPERTIES SendSettles  ShutdownStops StreamDelivered
CHECK_DEADLOCK FALSE
