CONSTANTS
    ProfilesJson <- ProfileTexts
    TokensJson <- TokenTexts
    Items <- ListTexts
    InitialFiles <- SomeFiles
    InitialEnvs <- SomeEnvs
    Edits <- SomeEdits
    Credentials <- SomeCredentials
    Options <- SomeOptions
    MaxEdits = 1
SPECIFICATION Spec
INVARIANT ForceReadonlyHolds
