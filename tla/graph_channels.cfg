SPECIFICATION Spec
CONSTANTS
    a = a  b = b  c = c  e1 = e1  e2 = e2  e3 = e3
    Indices = {a, b, c}
    EdgeIndices = {e1, e2}
    Kinds = {"source", "port", "filter", "sink"}
    MediaChannels = {0, 2}
    UnitChannels = 2
    Capacity = 1
    Reopens = TRUE
INVARIANT ChannelsFit
SYMMETRY MCSymmetry
CHECK_DEADLOCK FALSE
