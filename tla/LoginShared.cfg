SPECIFICATION Spec
CONSTANTS
    a = a
    b = b
    p1 = p1
    p2 = p2
    q1 = q1
    None = None
    Logins = {a, b}
    Endpoints = {p1, p2}
    EndpointsOf <- SharedPorts
    EndsDuringLogin = TRUE
    MaxSerial = 2
    MaxNumber = 2
    MaxGameRestarts = 1
INVARIANT
    OneHandoffPerPort
