SPECIFICATION FairSpec
CONSTANTS
  Handles = {h1, h2}
  Sockets = {s1, s2}
  NoSocket = NoSocket
  MaxLines = 2
  MaxInbox = 1
INVARIANTS
  TypeOK
  NoUnownedConnection
  NoResidueBetweenHolders
  Discoverable
PROPERTIES
  ImplementsExclusiveSession
  HolderKeepsSession
  DepartedHolderFrees
