SPECIFICATION Spec
CONSTANTS
    Keep = 2
    MaxTime = 6
INVARIANTS TypeOK
PROPERTIES NewestStays
