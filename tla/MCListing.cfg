SPECIFICATION FairListingSpec
CONSTANTS
  Entries <- MCEntries
  Dirs <- MCDirs
  Parts <- MCParts
  ParentOf <- MCParent
  Per = 2
  MaxPage = 2
  MaxChanges = 2
INVARIANTS
  ScanIsBetween
PROPERTIES
  ScanEnds
