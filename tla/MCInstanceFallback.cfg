SPECIFICATION Spec
CONSTANTS
    primary = primary
    extra = extra
    r1 = r1
    p1 = p1
    p2 = p2
    p3 = p3
    Instance = {primary, extra}
    Managed = primary
    Runtime = extra
    Port = {p1, p2, p3}
    Request = {r1}
INVARIANT FallbackServes
CHECK_DEADLOCK FALSE
