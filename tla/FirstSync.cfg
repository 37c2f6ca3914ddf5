SPECIFICATION Spec
CONSTANTS
  Names = {n1}
  NoName = NoName
  ReceiveTypes = {"sendreceive"}
  MaxEpoch = 2
  MaxBindings = 2
INVARIANTS
  TypeOK
  ClearedOnlyWhenDurable
  PromotedSnapshotIsWhole
PROPERTY SpawnGate
