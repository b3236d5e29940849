\* README.md:103: a saved setting beats its default.
SPECIFICATION Spec
CONSTANTS
    Settings <- MCSettings
    MaxGiven = 2
    MaxEdited = 2
PROPERTY SavedBeatsDefaults
