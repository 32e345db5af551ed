CONSTANTS
  Speakers = {left, right}
  Calls = {g1}
  Voicing = "voicing"
  EqFields = {"bass"}
  Switches = {}
  Values = {"off", "on"}
  ValidVoicings = {"off"}
  On = "on"
  Off = "off"
  Jobs <- VoicingAndBass
  Knobs <- BassKnobs
  Leaving = {right}
  MaxRetries = 1
  UnavailableAfter = 2
  Unknown = Unknown
  Unavailable = Unavailable
  NoRefresh = NoRefresh
  NoCall = NoCall
SPECIFICATION Spec
INVARIANTS TypeOK ChangesAreTold GroupShowsTruth
PROPERTIES SilentMeansApplied RemovedIsSilent
