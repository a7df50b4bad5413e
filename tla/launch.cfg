CONSTANTS
    ProfilesJson <- ProfileTexts
    TokensJson <- TokenTexts
    Items <- ListTexts
    InitialFiles <- SomeFiles
    InitialEnvs <- SomeEnvs
    Edits <- SomeEdits
    Credentials <- SomeCredentials
    Options <- SomeOptions
    MaxEdits = 1
SPECIFICATION Spec
INVARIANTS DoctorVouches SilentDoctorIsSafe ReadonlyOptionHolds
PROPERTY BlankHidesNothing
