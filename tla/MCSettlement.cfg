SPECIFICATION Spec
CONSTANTS
  Names = {"Second"}
  Renames = {"Default"}
  DefaultName = "Default"
  VirtualName = "All"
  MaxActive = 2
  MaxPortfolios = 3
  Currencies = {"EUR"}
  CashQuant = 4
  Amounts <- MCAmounts
  Texts = {"t"}
  MaxDay = 2
  Month = 1
  MaxRows = 3
  MaxGroups = 1
  Kinds = {"STOCK"}
  Gross <- MCGross
  Entered <- MCEntered
  Files <- MCFiles
  Shapes <- MCShapes
CHECK_DEADLOCK FALSE
INVARIANTS
  SettlementTypeOK
  ActiveWithinLimit
  ReversalsMirrorEntries
  TransferLegsMatchGroup
  LinkedRowsAgree
  
PROPERTIES
  TestedRequestsNeverOverdraw
  BackfillLeavesNothing
  BooksTradesOnce
