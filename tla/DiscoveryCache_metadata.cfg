\* The provider stops listing what the relying party needs.
SPECIFICATION Spec
CONSTANTS
    None = None
    v1 = v1  v2 = v2  k1 = k1  k2 = k2  d1 = d1  d2 = d2
    Callers = {v1, v2}
    Keys = {k1, k2}
    KidOf <- MCOwnKid
    Documents = {d1, d2}
    Supported = {d1}
    MetadataTtl = 2
    JwksTtl = 1
    MaxLatency = 1
INVARIANT MetadataConfirmed
