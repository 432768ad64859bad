SPECIFICATION FairStoreSpec
CONSTANTS
  NoDir = NoDir
  NoReceipt = NoReceipt
  Publishers = {p1, p2}
  Files = {f1, f2}
INVARIANTS
  OneReceipt
  RepublishReturnsReceipt
PROPERTIES
  PublishedWhole
  SomebodyPublishes
