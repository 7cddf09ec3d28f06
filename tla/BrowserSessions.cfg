SPECIFICATION ClientSpec
CONSTANTS
    Apps = {a1, a2}
    Slots = {s1, s2}
    Workers = {w1}
    Host <- OneWorker
    Browsers = {b1, b2}
    IdleLimit = 2
    Buffer = 1
    Deadline = 1
    Objects = {o1, o2}
    Ids = {i1, i2, i3}
    Tabs = {p1, p2}
    Calls = {c1, c2}
    None = None
SYMMETRY Symmetry
INVARIANTS
    ClientTypeOK
    WriterHoldsLease
    CleanClose
    NoBrowserForgotten
    NoChromiumSurvivesClose
    RowNamesIncarnation
    TagsOfThisTab
PROPERTIES
    OneWriterAtATime
CHECK_DEADLOCK FALSE
