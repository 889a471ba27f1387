SPECIFICATION Spec
CONSTANTS
    Procs = {p1, p2, p3}
    Boot = Boot
    MaxAsids = {0, 2}
    VersionBound = 2
INVARIANTS NoStaleTranslation
