SPECIFICATION FairSpec
CONSTANTS
  Contributors = {contributor}
  Seats = {seat}
  Requests = {r1, r2}
  MaxSessions = 3
CHECK_DEADLOCK FALSE
INVARIANTS TypeOK OneUnspentToken
PROPERTIES FamiliesPromise SurvivorsAreNew RequestsEnd
