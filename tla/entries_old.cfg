CONSTANTS
  Speakers = {left, right}
  Hosts = {h1, h2}
  Entries = {e1, e2}
  Name <- SameName
  Silent = {}
  Legacy = {right}
  Stale = {}
  MaxFlows = 1
  Slow = {"zeroconf"}
  NoSerial = NoSerial
  Nowhere = Nowhere
  NoId = NoId
SPECIFICATION FairSpec
PROPERTIES ImplementsRegistry FollowsItsSpeaker
