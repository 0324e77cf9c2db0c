\* Setup again while a client and a server are running.
CONSTANTS
    k1 = k1
    k2 = k2
    k3 = k3
    c1 = c1
    e1 = e1
    e2 = e2
    d1 = d1
    Keys = {k1, k2}
    ParamSetOf <- OneParamSet
    Employees = {e1}
    Departments = {d1}
    Clients = {c1}
    Server = server
    NoClient = noClient
    NoKey = noKey
    Torn = torn
SPECIFICATION Spec
INVARIANT AcceptedIsCompatible
CHECK_DEADLOCK FALSE
