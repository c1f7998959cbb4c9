CONSTANTS
    s1 = s1
    s2 = s2
    p1 = p1
    p2 = p2
    q1 = q1
    q2 = q2
    None = None
    Sessions = {s1, s2}
    Endpoints = {p1, p2}
    EndpointsOf <- SharedPorts
    MaxSeq = 1
    MaxNumbering = 2
SPECIFICATION Spec
 
PROPERTY RegistrySpec
SYMMETRY Symmetry
