CONSTANTS
  Writer = {w1}
  Inode = {i1, i2, i3}
  NoInode = NoInode
  MaxSize = 2
  MaxSaves = 3
SPECIFICATION Spec
INVARIANTS
  TypeOK
  StoreIsWhole
PROPERTIES
  SavesAtomically
