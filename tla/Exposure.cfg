SPECIFICATION Spec
CONSTANTS
    Hosts = {h1}
    VMs = {v1, v2}
    Addrs = {a1}
    Lookups = {l1, l2}
    TTL = 2
    MaxTime = 2
    None = None
SYMMETRY Symmetry
INVARIANTS TypeOK CacheFresh
PROPERTIES SlugNotStolen
