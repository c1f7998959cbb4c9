SPECIFICATION FairSpec
CONSTANTS
    a = a
    b = b
    p1 = p1
    p2 = p2
    q1 = q1
    None = None
    Logins = {a}
    Endpoints = {p1, p2, q1}
    EndpointsOf <- SeparatePorts
    EndsDuringLogin = FALSE
    MaxSerial = 3
    MaxNumber = 3
    MaxGameRestarts = 0
INVARIANTS
    LoginInv
PROPERTY
    LoginCompletes
