\* Not what the code does.
SPECIFICATION Spec
CONSTANTS
  Languages = {"zh", "en"}
  Default = "zh"
  None = None
INVARIANT ToggleKept
