\* Three slots; four names, of which one is cut to another; two sessions.
SPECIFICATION Spec
CONSTANTS
    MaxUsers = 3
    UserName <- MixedNames
    Stored <- MixedStored
    Password <- Passwords
    placeholder_hash <- HashOf
    AdminName = "admin"
    AdminPassword = "admin123"
    Session = {s1, s2}
SYMMETRY AnySession
INVARIANTS TypeOK IndexSound IndexIsTable
PROPERTY RestartKeepsAccounts
CHECK_DEADLOCK TRUE
