SPECIFICATION Spec
CONSTANTS
    Certs = {c1}
    Scans = {s1, s2}
    NoScan = NoScan
    MaxStaleness = 1
    MaxTime = 2
    MaxChanges = 4
    MaxTokenLosses = 1
SYMMETRY ScanSymmetry
INVARIANTS TokenIdentifiesState ConfirmedRecordIsRecent
PROPERTIES RevocationIsTerminal
