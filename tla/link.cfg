CONSTANTS
  Params = {mute, bass}
  Values = {0, 1}
  NoParam = NoParam
  NoValue = NoValue
  Cut = Cut
  HandleMax = 2
  MatchAttempts = 2
  RetryAttempts = 1
  MaxBuffer = 1
SPECIFICATION FairSpec
INVARIANTS TypeOK OnlyOurAnswersMatch BytesAreTreatedSo WhatIsSentIsRead CutIsNeverMisread
PROPERTIES ImplementsRegister ReadsEnd
