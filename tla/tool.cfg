SPECIFICATION Spec
CONSTANTS
    c = c
    d = d
    p1 = p1
    p2 = p2
    c1 = c1
    d1 = d1
    x = x
    y = y
    z = z
    Processes <- MCProcesses
    Commits <- MCCommits
    Last = 2
    Contents <- MCContents
    Bundles <- MCBundles
    Identity <- MCIdentity
    MaxCrashes = 1
    None = None
CONSTRAINT Bounded
SYMMETRY ProcessSymmetry
INVARIANTS
    RunsVerified
    OneBundleVerified
    InstallationStands
CHECK_DEADLOCK FALSE
