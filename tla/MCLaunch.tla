------------------------------ MODULE MCLaunch ------------------------------
(* Files, environments and options for Launch: a flat .env, a file with two  *)
(* profiles whose secrets are variables, and what an operator may get wrong. *)
EXTENDS Launch, TLC

Nothing == [k \in {} |-> ""]

\* the texts that parse, and what of
ListTexts ==
    ("" :> {}) @@ ("safe" :> {"safe"}) @@ ("safe,ops,admin,all" :> Profiles)
    @@ ("hub.example" :> {"hub.example"})

Primary == [tokenKind |-> "bearer", direct |-> Nothing, indirect |-> [token |-> "HUB_KEY"]]
Staging ==
    [tokenKind |-> "jwt", direct |-> [username |-> "admin"],
     indirect |-> [password |-> "HUB_PASSWORD", token |-> "HUB_JWT"]]
TwoProfiles == [primary |-> Primary, staging |-> Staging]

ProfileTexts == "{two profiles}" :> TwoProfiles
TokenTexts ==
    "{ops, staging}" :>
        [ops |-> [exposureProfile |-> "ops", upstreamProfileName |-> Undefined],
         staging |-> [exposureProfile |-> "admin", upstreamProfileName |-> "staging"]]

Flat ==
    ("MCPHUB_URL" :> "http://hub") @@ ("MCPHUB_TOKEN" :> "key") @@ ("MCP_EXPOSE_ENDPOINTS" :> "safe")
    @@ ("MCP_ALLOWED_TARGET_HOSTS" :> "hub.example") @@ ("MCP_HTTP_AUTH_TOKEN" :> "secret")
Two ==
    ("MCPHUB_PROFILES_JSON" :> "{two profiles}") @@ ("MCPHUB_DEFAULT_PROFILE" :> "primary")
    @@ ("HUB_KEY" :> "key") @@ ("HUB_PASSWORD" :> "password") @@ ("HUB_JWT" :> "stale")
    @@ ("MCP_HTTP_AUTH_TOKENS_JSON" :> "{ops, staging}") @@ ("MCP_DEFAULT_EXPOSURE" :> "admin")
    @@ ("MCP_AUDIT_FILE" :> "audit.log")

SomeFiles == {Nothing, ".env" :> Flat, (".env" :> Flat) @@ ("two.env" :> Two)}
SomeEnvs == {Nothing, Flat, "MCP_ALLOWED_TARGET_HOSTS" :> ""}

SomeCredentials ==
    {[token |-> "key"], [username |-> "admin", password |-> "password"]}

Set(file, key, value) == [file |-> file, key |-> key, value |-> value]
SomeEdits ==
    {Set("process", "MCPHUB_TOKEN", ""), Set("process", "HUB_KEY", "old key"),
     Set(".env", "MCPHUB_TOKEN_KIND", "jwt"), Set(".env", "MCP_FORCE_READONLY", "true"),
     Set("process", "ALLOW_MCPB_UPLOAD", "true"), Set("two.env", "MCP_REDACT_SECRETS", "false"),
     Set("process", "MCP_DEFAULT_EXPOSURE", "all"), Set("two.env", "MCPHUB_DEFAULT_PROFILE", "staging")}

Given(configPath, profileName, readonly, exposure) ==
    [configPath |-> configPath, profileName |-> profileName, readonly |-> readonly,
     exposure |-> exposure]
SomeOptions ==
    {Given(Undefined, Undefined, FALSE, Undefined), Given(Undefined, Undefined, TRUE, "all"),
     Given("two.env", Undefined, FALSE, Undefined), Given("two.env", "staging", FALSE, "ops"),
     Given(".env", "staging", TRUE, "most")}
=============================================================================
