SPECIFICATION Spec
CONSTANTS
    u1 = u1
    u2 = u2
    a1 = a1
    app1 = app1
    e1 = e1
    e2 = e2
    Users <- MCUsers
    Admins <- MCAdmins
    Apps <- MCApps
    Endpoints <- MCEndpoints
    FirstEndpoint = e1
    MaxCalls = 1
    MaxAdmin = 2
    MaxGen = 2
INVARIANTS
    TypeOK
    NoProviderLost
    InUseIsCurrent
SYMMETRY Symmetry
