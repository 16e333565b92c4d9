\* A key id whose key is replaced; no symmetry, liveness does not allow it.
SPECIFICATION FairSpec
CONSTANTS
    None = None
    v1 = v1  v2 = v2  k1 = k1  k2 = k2  d1 = d1  d2 = d2
    Callers = {v1, v2}
    Keys = {k1, k2}
    KidOf <- MCOneKid
    Documents = {d1}
    Supported = {d1}
    MetadataTtl = 1
    JwksTtl = 1
    MaxLatency = 1
PROPERTIES
    RekeyHeals
    KeepsKeyService
    CallsEnd
    CallsShorten
