\* One request of every method and path; four upstream messages told apart, then
\* as many more as the upstream likes.
SPECIFICATION FairSpec
CONSTANT MaxFrames = 4
INVARIANTS
  TypeOK
  LoggedStatusIsSent
  TypeMatchesBody
  TimeoutIsReported
  TerminalIsLast
  ConnReleased
PROPERTIES
  ImplementsContract
  RequestEnds
CHECK_DEADLOCK FALSE
