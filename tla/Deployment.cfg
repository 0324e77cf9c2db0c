\* Three setups into the same directories, the first by a build with other FHE
\* parameters; the bound on the key pairs is what makes everything stop.
CONSTANTS
    k1 = k1
    k2 = k2
    k3 = k3
    c1 = c1
    e1 = e1
    e2 = e2
    d1 = d1
    Keys = {k1, k2, k3}
    ParamSetOf <- OlderBuild
    Employees = {e1, e2}
    Departments = {d1}
    Clients = {c1}
    Server = server
    NoClient = noClient
    NoKey = noKey
    Torn = torn
SPECIFICATION Spec
INVARIANTS
    TypeOK
    KeysInv
PROPERTY FreshAnswersRight
CHECK_DEADLOCK FALSE
