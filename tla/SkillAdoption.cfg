SPECIFICATION Spec
CONSTANTS
    p = p
    c = c
    good = good
    better = better
    bad = bad
    Skills = {p}
    Personal = {p}
    Trees <- ThreeTrees
    Unpackable = {bad}
    Versions = {1, 2}
    Absent = absent
    Partial = partial
    NoPackage = noPackage
    Unmanaged = unmanaged
    MaxEdits = 1
    MaxFaults = 0
    MaxCommands = 3
INVARIANTS ImportedIsInstalled
\* The companion may wait for its owner, who has no command left.
CHECK_DEADLOCK FALSE
