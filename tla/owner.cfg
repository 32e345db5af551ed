CONSTANTS
  Entries = {left, right, sub}
  Flaky = {left}
  Removable = {left}
  NoEntry = NoEntry
SPECIFICATION FairSpec
INVARIANTS TypeOK GroupUnderOwner NoGhosts SubscriptionsCurrent
PROPERTY GroupReturns
