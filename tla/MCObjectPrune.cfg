SPECIFICATION Spec
CONSTANTS
    a = a
    b = b
    c = c
    x = x
    y = y
    r1 = r1
    r2 = r2
    r3 = r3
    w1 = w1
    m1 = m1
    m2 = m2
    m3 = m3
    Objects = {a, b, c, x, y}
    Links <- MCLinks
    Refs = {r1, r2, r3}
    Mtime0 <- MCMtime
    Ref0 <- MCRef
    Writers = {w1}
    Writes <- MCWrites
    Dest <- MCDest
    Movers = {m1, m2, m3}
    From <- MCFrom
    To <- MCTo
    Pruner = Pruner
    AutoLog = {r1, r2}
    Log0 <- MCLog
    MaxFaults = 1
    None = None
INVARIANTS
    ReachableKept
    RecentKept
    WritesComplete
CHECK_DEADLOCK FALSE
