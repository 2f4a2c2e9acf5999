CONSTANTS
    Builtin <- MCBuiltin
    UserConfs <- MCUserConfs
    CustomConfs <- MCCustomConfs
    Answers <- MCAnswers
    Commands <- MCCommands
    Domains = {"a", "b", "c"}
    None = None
    Empty = Empty
SPECIFICATION Spec
INVARIANTS TargetsLayered CertificateOwn EnteredScanned OverrideWins
