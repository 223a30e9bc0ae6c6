SPECIFICATION Spec
CONSTANTS
    s1 = s1
    s2 = s2
    r1 = r1
    Songs = {s1, s2}
    Starts <- MCStarts
    Resyncs = {r1}
    Capacity = 3
    MaxChanges = 2
    MaxDrops = 1
    MaxReorders = 1
    None = None
INVARIANTS AtRestInSync
PROPERTY NeverBackwards
SYMMETRY SongSymmetry
