\* The second upstream accepts the connection and does not answer: it stays
\* silent, or closes.
SPECIFICATION RelayFairSpec
CONSTANTS
  Attempts = 3
  Silent = {2}
  EarlyClose = {2}
PROPERTY
  AttemptsSettle
CHECK_DEADLOCK FALSE
