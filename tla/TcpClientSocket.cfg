SPECIFICATION Spec
CONSTANTS
    Users = {u1, u2}
    Descriptors = {d1, d2, d3}
    INVALID_SOCKET = INVALID_SOCKET
    MaxConnects = 3
INVARIANTS TypeOK OwnSocket DataSecure OneDescriptorPerCall ForeignCloseExplained
