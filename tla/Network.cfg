SPECIFICATION Spec
CONSTANTS
  Peers = {p1, p2}
  Networks = {home}
  Away = Away
  None = None
  MaxFaults = 2
  MaxChanges = 2
  MaxAdds = 2
INVARIANT BoundaryInv
PROPERTY BoundaryFollowsRoutes
