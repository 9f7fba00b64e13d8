SPECIFICATION Spec
CONSTANTS
  MaxAttempts = 5
  Texts <- MCTexts
  Moments <- MCMoments
  Horarios <- MCHorarios
  RawMinutes <- MCRawMinutes
INVARIANTS CadenceKept QuickFollowUpsEnd StopIsRespected TimeIsKept TimeIsAsWritten
