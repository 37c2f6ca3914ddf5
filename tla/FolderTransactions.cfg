SPECIFICATION Spec
CONSTANTS
  Folders = {f1, f2, f3}
  Peers = {p1}
  NoFolder = NoFolder
  NoPeer = NoPeer
  Slot <- TwoSlots
  MaxFaults = 3
SYMMETRY Competing
INVARIANTS
  DocumentInv
  NoFolderLost
  OneRunningFolderPerTree
  OrphanStaysPaused
  SessionMatchesUpstream
