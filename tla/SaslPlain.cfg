CONSTANTS
    Names <- SmallNames
    Passwords <- SmallPasswords
SPECIFICATION Spec
INVARIANTS CredentialsArriveIntact NoCopyLeftBehind
