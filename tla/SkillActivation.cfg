SPECIFICATION FairSpec
CONSTANTS
    p = p
    c = c
    good = good
    better = better
    bad = bad
    Skills = {p}
    Personal = {p}
    Trees <- ThreeTrees
    Unpackable = {bad}
    Versions = {1, 2}
    Absent = absent
    Partial = partial
    NoPackage = noPackage
    Unmanaged = unmanaged
    MaxEdits = 2
    MaxFaults = 1
    MaxCommands = 3
INVARIANTS InstalledMatches
PROPERTIES NothingDiscarded SessionUndisturbed Settles
\* The companion may wait for its owner, who has no command left.
CHECK_DEADLOCK FALSE
