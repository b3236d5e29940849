\* The whole state space: two languages, any file and registration to start from.
SPECIFICATION Spec
CONSTANTS
  Languages = {"zh", "en"}
  Default = "zh"
  None = None
INVARIANTS
  TypeOK
  BoxTrue
  SavedIsRegistered
  SavedIsSpoken
