CONSTANTS
    Accounts <- MCAccounts
    Clients <- MCClients
    Registered <- MCRegistered
    Procs = {p1, p2}
    KeyringSupport = TRUE
    MaxTokens = 2
    None = None
    Garbled = Garbled
SPECIFICATION Spec
CONSTRAINTS OneReader InfoUnderKeyring ReaderEnds GarbledIsRead
SYMMETRY Shells
INVARIANTS Recoverable OwnAccount InfoTruth
