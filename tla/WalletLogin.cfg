CONSTANTS
    Owner = {alice, other}
    Login = {q1, q2}
    Nonce = {n1, n2, n3}
    MaxActiveKeys = 1
SYMMETRY Symmetry
SPECIFICATION LoginSpec
INVARIANTS
    OneKeyPerChallenge
    KeysNearLimit
