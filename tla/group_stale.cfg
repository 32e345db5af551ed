CONSTANTS
  Speakers = {left, right}
  Calls = {g1}
  Voicing = "voicing"
  EqFields = {}
  Switches = {"mute"}
  Values = {"off", "on"}
  ValidVoicings = {"off"}
  On = "on"
  Off = "off"
  Jobs <- MuteUnmute
  Knobs = {}
  Leaving = {}
  MaxRetries = 1
  UnavailableAfter = 2
  Unknown = Unknown
  Unavailable = Unavailable
  NoRefresh = NoRefresh
  NoCall = NoCall
SPECIFICATION FairSpec
PROPERTY DifferenceIsShown
