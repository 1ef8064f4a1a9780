SPECIFICATION Spec
CONSTANTS
    p1 = p1
    p2 = p2
    q1 = q1
    q2 = q2
    Mds = {h1, h2}
    PlanOrder <- MCPlanOrder
    Params = {q1, q2}
    Data = {d1, d2}
    Parts = {c1, c2}
    Mapped = {q1}
    Selected = {q2}
    ScaleTo <- MCScaleTo
    RateTo <- MCRateTo
    Configs <- MCConfigs
    MaxCalls <- MCMaxCalls
    None = None
    Msg = Msg
    Cur = Cur
    Debug = Debug
    Objs = {o1, o2, o3, o4, o5, o6, o7}
    Bufs = {b1, b2, b3, b4, b5, b6, b7}
    Caller = Caller
SYMMETRY Symmetry
INVARIANTS FieldIdFresh PartsMeet
PROPERTY ValueSemantics
CHECK_DEADLOCK FALSE
