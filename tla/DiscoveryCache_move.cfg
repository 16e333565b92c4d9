\* A provider that rotates a key and moves; the metadata outlives a call, so
\* reads fall within its life.
SPECIFICATION Spec
CONSTANTS
    None = None
    v1 = v1  v2 = v2  k1 = k1  k2 = k2  d1 = d1  d2 = d2
    Callers = {v1, v2}
    Keys = {k1, k2}
    KidOf <- MCOwnKid
    Documents = {d1, d2}
    Supported = {d1, d2}
    MetadataTtl = 2
    JwksTtl = 1
    MaxLatency = 1
SYMMETRY Symmetry
INVARIANTS
    TypeOK
    UnknownKidWasUnpublished
    CacheInvariant
PROPERTIES
    RetiredKeyDies
    LeftUriDies
