CONSTANTS
  Entries = {left, right, sub}
  Flaky = {right}
  Removable = {left}
  NoEntry = NoEntry
SPECIFICATION FairSpec
PROPERTY GroupReturns
