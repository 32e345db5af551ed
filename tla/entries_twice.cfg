CONSTANTS
  Speakers = {left, right}
  Hosts = {h1, h2}
  Entries = {e1, e2}
  Name <- SameName
  Silent = {right}
  Legacy = {}
  Stale = {left}
  MaxFlows = 1
  Slow = {e1, e2}
  NoSerial = NoSerial
  Nowhere = Nowhere
  NoId = NoId
SPECIFICATION Spec
INVARIANT NeverTwice
