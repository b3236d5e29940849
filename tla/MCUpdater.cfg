\* Two interchangeable clicks while three releases come and go.
SPECIFICATION Spec
CONSTANTS
    Clicks = {k1, k2}
    Versions <- MCVersions
    Dev = Dev
    NoVersion = NoVersion
    MaxBuild = 2
SYMMETRY AnyClick
INVARIANT TypeOK
PROPERTY OnlyVerified
PROPERTY NeverOlder
