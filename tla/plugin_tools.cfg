SPECIFICATION FairSpec
CONSTANTS
    c1 = c1
    c2 = c2
    a1 = a1
    a2 = a2
    unknown = unknown
    path = path
    outside = outside
    title = title
    part = part
    other = other
    pid = pid
    guarded = guarded
    Empty = Empty
    Allowed = {path}
    Protected = {guarded}
    Titles = {title, other}
    Within <- MCWithin
    Calls = {c1, c2}
    Agents = {a1, a2}
    Default = a2
    Choices <- MCChoices
    Machines <- MCMachines
CHECK_DEADLOCK FALSE
INVARIANTS
    OnceAtItsAgent
    ResultTellsEffect
PROPERTIES
    EveryCallReturns
