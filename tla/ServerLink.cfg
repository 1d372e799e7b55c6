CONSTANTS
  MaxLinks = 4
  Reconnects = TRUE
SPECIFICATION Spec
INVARIANTS TypeOK OneAtATime ConnectionIsThere
PROPERTIES DisconnectEnds CandidateStarts
