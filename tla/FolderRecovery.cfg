SPECIFICATION FolderSpec
CONSTANTS
  Folders = {f1, f2}
  Peers = {p1}
  NoFolder = NoFolder
  NoPeer = NoPeer
  Slot <- OneSlot
  MaxFaults = 3
PROPERTY InterruptedWorkCompletes
