SPECIFICATION Spec
CONSTANTS
    Calls = {c1, c2, c3, c4}
    MaxAttempts = 1
    NoCall = NoCall
    Seed = Seed
    NoRow = NoRow
SYMMETRY Symmetry
INVARIANTS TypeOK OneGoodCode GuessesLimited
PROPERTIES UsedForGood PasswordHeld
CHECK_DEADLOCK FALSE
