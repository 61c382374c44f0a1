SPECIFICATION Spec
CONSTANTS
  Nodes = {"a", "b"}
  Slots = {1, 2, 3}
  Dialers = {"a", "b"}
  Bootstraps = {"a"}
  MaxAdds = 1
  MaxTrouble = 1
  Windows = {}
INVARIANT LinksAgree
PROPERTY LinkRestored
CHECK_DEADLOCK FALSE
