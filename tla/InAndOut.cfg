SPECIFICATION Spec
CONSTANTS
    Vault = {v1, v2}
    Id = {i1, i2, i3, i4}
    None = None
    Blank = Blank
    MaxRequests = 3
    MaxLog = 2
    MaxCrashes = 1
SYMMETRY MCSymmetry
INVARIANTS TypeOK NoForeignKey SealedIsRegistered  SignOutIsResumable OpenIsAccepted FirstVaultIsCovered
CHECK_DEADLOCK FALSE
