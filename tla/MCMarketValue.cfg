SPECIFICATION Spec
CONSTANTS
  Currencies = {"EUR", "INR", "USD"}
  Display = "EUR"
  Worth <- MCWorth
  LastDay = 5
  FillDays = 2
  Portfolios = {"P", "Q"}
  Stocks <- MCStocks
  Indices <- MCIndices
  Funds <- MCFunds
  QuotedIn <- MCQuotedIn
  FundCurrency = "INR"
  Quotes <- MCQuotes
  Splits <- MCSplits
  FxOpen <- MCFxOpen
  Alphabet <- MCAlphabet
  Plans <- MCPlans
  Histories <- MCHistories
  Inputs <- MCInputs
  MaxEdits = 1
  MaxRuns = 2
  MaxFaults = 1
  CashAware = {"Q"}
  CashRows <- MCCashRows
  Deposits <- MCDeposits
  Accounts <- MCAccounts
  Ranges = {0, 2}
  Payouts <- MCPayouts
  AssetClass <- MCAssetClass
CHECK_DEADLOCK FALSE
INVARIANTS
  MarketTypeOK
  CachesUnbroken
  CurrentCachesComplete
  ValuedAfterSync
  FifoKeepsNewest
  OversellNoticed
  SplitsAreNeutral
  RangeIsSlice
  TerminalMatchesSummary
  HoldingsAddUp
  ReturnIsMarketMove
  XirrSumsToGain
  BucketsAddUp
  UnknownStaysUnknown
