SPECIFICATION RegistrySpec
CONSTANTS
    s1 = s1
    s2 = s2
    s3 = s3
    p1 = p1
    p2 = p2
    p3 = p3
    p4 = p4
    q1 = q1
    q2 = q2
    None = None
    Sessions = {s1, s2, s3}
    Endpoints = {p1, p2, p3, p4, q1, q2}
    EndpointsOf <- MixedPorts
INVARIANTS
    BindingSound
    ExactBinding
