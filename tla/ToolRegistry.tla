---------------------------- MODULE ToolRegistry ----------------------------
(***************************************************************************)
(* What it takes to have a tool executed: the tables of Tools and the      *)
(* checks of the input (src/src/mcp/registry.ts), and what the client gets *)
(* to see of the upstream's answer.                                        *)
(*                                                                         *)
(* A client may call a tool it knows from another list, made before the    *)
(* operator started the process with other settings.                       *)
(***************************************************************************)
EXTENDS Tools, Policies

CONSTANTS
    Inputs,          \* inputs the client calls tools with
    TargetHosts,     \* MCP_ALLOWED_TARGET_HOSTS, where the operator sets it
    Upstream         \* the leaves of what the upstream answers, but for the description

-----------------------------------------------------------------------------
VARIABLES
    profile,         \* the profile the process (stdio) or path (HTTP) exposes
    flags,           \* the feature flags that are set
    forceReadonly,
    allowedTargetHosts,
    redactSecrets,   \* whether the transport installs the redactor
    description,     \* the one description kept upstream: its text and where it is from
    performed        \* the last call that reached the upstream, or NoCall

settings == <<profile, flags, forceReadonly, allowedTargetHosts, redactSecrets>>
vars == <<settings, description, performed>>

\* mutant: one of the schemas was forgotten
confirmActionForgotten == {"cleanup_activities", "upload_mcpb_bundle"}

\* confirm: true and a reason
confirmActionSchema == {"cleanup_activities", "clear_logs", "upload_mcpb_bundle"}
\* and the target, or the operation, once more: assertExpectedValue, z.literal
expectedValueSchemas ==
    {"delete_bearer_key", "delete_group", "delete_oauth_client",
     "regenerate_oauth_client_secret", "delete_builtin_prompt", "delete_builtin_resource",
     "delete_server", "delete_user", "update_system_config", "import_config_template"}

\* an input: whether it confirms, and names the target once more; the server definitions
\* in it, each with its command (if any) and its leaves; the description in it
ASSUME InputsAssumption ==
    \A i \in Inputs :
        /\ i.confirm \in BOOLEAN /\ i.expected \in BOOLEAN
        /\ \A body \in i.bodies : body.command \in BOOLEAN /\ \A leaf \in body.leaves :
            /\ IsLeaf(leaf)
            /\ \A url \in leaf.url :
                IsIpv4(url.host) => \E first, second \in 0 .. 255 : url.host = Ipv4(first, second)

ASSUME UpstreamAssumption == \A leaf \in Upstream : IsLeaf(leaf)

validateServerMutationPayload(body) ==
    /\ body.command => assertAllowedCommand("allowStdioServerCreate" \in flags)
    /\ \A candidate \in extractCandidateUrls(body.leaves) :
        /\ candidate # {}
        /\ \A url \in candidate :
            assertNoPrivateUrl(url) /\ assertAllowedTargetHost(url, allowedTargetHosts)

serverWriters == {"create_server", "update_server", "batch_create_servers"}

descriptionTools ==
    {"update_builtin_prompt", "update_builtin_resource", "update_server_prompt_description",
     "update_server_resource_description", "update_server_tool_description"}

\* tools that send a loose object as it came: a description in it is looked at by no lint
looseBodyTools ==
    serverWriters \cup
    {"create_builtin_prompt", "create_builtin_resource", "create_group", "update_group",
     "batch_create_groups", "create_bearer_key", "update_bearer_key", "create_oauth_client",
     "update_oauth_client", "create_user", "update_user", "update_system_config",
     "import_config_template"}

resetDescriptionTools ==
    {"reset_server_prompt_description", "reset_server_resource_description",
     "reset_server_tool_description"}

\* schemas and checks of the tool's execute
Accepts(t, i) ==
    /\ t.name \in confirmActionSchema \cup expectedValueSchemas => i.confirm
    /\ t.name \in expectedValueSchemas => i.expected
    /\ t.name \in serverWriters =>
            \A body \in i.bodies : validateServerMutationPayload(body)
    /\ t.name \in descriptionTools => assertSafeDescription(i.description)

-----------------------------------------------------------------------------
NoCall == [tool |-> [name |-> "none"], input |-> "none", result |-> {}]

\* the operator starts the process with other settings
Restart ==
    /\ performed = NoCall
    /\ profile' \in Profiles /\ flags' \in SUBSET Flags /\ forceReadonly' \in BOOLEAN
    /\ allowedTargetHosts' \in {{}, TargetHosts} /\ redactSecrets' \in BOOLEAN
    /\ UNCHANGED <<description, performed>>

descriptionPath == <<"tools", "description">>

\* the description that the upstream has by itself
Undescribed == [text |-> {}, from |-> "upstream"]

\* the description after a call: an input whose description is {} has none
Describe(t, i) ==
    IF t.name \in descriptionTools /\ i.description # {}
    THEN [text |-> i.description, from |-> "update"]
    ELSE IF t.name \in looseBodyTools /\ i.description # {}
    THEN [text |-> i.description, from |-> "body"]
    ELSE IF t.name \in resetDescriptionTools THEN Undescribed ELSE description

\* what the upstream answers; a call that sets the description answers with the new one
Answer(text) == Upstream \cup {Leaf(descriptionPath, text)}

\* createToolResult
Result(text) == redactValue(redactSecrets, Answer(text))

\* tools/call, of any tool the client has ever heard of: it is looked up in the list of
\* now, the checks of its input pass, and what the upstream answers is redacted
Call(t, i) ==
    /\ performed = NoCall
    /\ Allowed(t, profile, flags, forceReadonly) /\ Accepts(t, i)
    /\ description' = Describe(t, i)
    /\ performed' = [tool |-> t, input |-> i, result |-> Result(description'.text)]
    /\ UNCHANGED settings

Return ==
    /\ performed # NoCall
    /\ performed' = NoCall
    /\ UNCHANGED <<settings, description>>

Init ==
    /\ profile \in Profiles /\ flags \in SUBSET Flags /\ forceReadonly \in BOOLEAN
    /\ allowedTargetHosts \in {{}, TargetHosts} /\ redactSecrets \in BOOLEAN
    /\ description = Undescribed
    /\ performed = NoCall

Next == Restart \/ Return \/ \E t \in ALL_MANAGED_TOOLS, i \in Inputs : Call(t, i)

Spec == Init /\ [][Next]_vars

TypeOK ==
    /\ profile \in Profiles /\ flags \subseteq Flags /\ forceReadonly \in BOOLEAN
    /\ allowedTargetHosts \in {{}, TargetHosts} /\ redactSecrets \in BOOLEAN
    /\ description \in [text : {{}} \cup {i.description : i \in Inputs},
                       from : {"upstream", "update", "body"}]
    /\ performed.tool \in ALL_MANAGED_TOOLS \cup {NoCall.tool}
    /\ performed # NoCall => performed.input \in Inputs

-----------------------------------------------------------------------------
\* The risk classes of classify.ts, which the filter goes by, say of no tool that it
\* reads when its endpoint changes something: with the registry's option forceReadonly,
\* and on the safe profile, no call changes anything upstream (docs/security.md: "mutations must still
\* be impossible").
ReadonlyChangesNothing ==
    performed.tool.name \in Mutating => ~forceReadonly /\ profile # "safe"

\* A tool whose risk class its annotation advertises as read-only (readOnlyHint,
\* src/src/core/risk/annotations.ts) has an endpoint that changes nothing, and a tool
\* advertised as destructive is never on offer below the admin profile.
AnnotationsHonest ==
    performed # NoCall =>
        /\ "readOnlyHint" \in Annotations(performed.tool) => performed.tool.name \notin Mutating
        /\ "destructiveHint" \in Annotations(performed.tool) =>
                profile \in {"admin", "all"} /\ ~forceReadonly

\* What cannot be undone has been confirmed: of the tools whose endpoint is called with
\* DELETE, those not confirmed are of a class that is not destructive - the endpoints
\* of client.ts and the schemas of registry.ts agree on what takes a confirmation.
RemovalsConfirmed ==
    performed # NoCall =>
        \/ performed.input.confirm
        \/ [name |-> performed.tool.name, method |-> "DELETE"] \notin NonGet
        \/ "destructiveHint" \notin Annotations(performed.tool)

\* The IPv4 ranges of src/src/security/ssrf.ts as networks: 10/8, 127/8, 172.16/12, 169.254/16
\* and 192.168/16, each with its first and last pair of octets, as numbers
PrivateNetworks ==
    {[first |-> 10 * 256, last |-> 10 * 256 + 255], [first |-> 127 * 256, last |-> 127 * 256 + 255],
     [first |-> 172 * 256 + 16, last |-> 172 * 256 + 31],
     [first |-> 169 * 256 + 254, last |-> 169 * 256 + 254],
     [first |-> 192 * 256 + 168, last |-> 192 * 256 + 168]}

InNetwork(host, network) == host.first * 256 + host.second \in network.first .. network.last

\* A server definition that reached the upstream, alone or as one of a batch, starts a
\* command only if that is allowed, and no URL anywhere in it is at localhost or in one
\* of the private IPv4 networks or, where target hosts are listed, at a host that is
\* not.  Of a private IPv6 address the first does not hold: assertNoPrivateUrl lets
\* http://[::1] through (see the README).
TargetsVetted ==
    performed.tool.name \in serverWriters =>
        \A body \in performed.input.bodies :
            /\ body.command => "allowStdioServerCreate" \in flags
            /\ \A leaf \in {l \in body.leaves : "url" \in {l.path[i] : i \in DOMAIN l.path}} :
                \A url \in leaf.url :
                    /\ url.host # LOCALHOST
                    /\ IsIpv4(url.host) =>
                            \A network \in PrivateNetworks : ~InNetwork(url.host, network)
                    /\ allowedTargetHosts # {} => hostname(url) \in TargetHosts

\* What the redactor and the lint of descriptions take for a secret is the same, though
\* each has its own list: a description that was set with one of the tools that update
\* descriptions reads back as it was written, redacted or not, with whatever tool it is
\* read.  (One that came in the body of another tool, such as create_builtin_prompt, has
\* not been linted and may read back with a placeholder.)
DescriptionReadsBack ==
    performed # NoCall /\ description.from = "update" =>
        Leaf(descriptionPath, description.text) \in performed.result

\* With redaction on, no tool shows what a secret is made of: nothing a pattern matches,
\* and below a redacted key, however deep, nothing but the placeholder in its place.
SecretsStayInside ==
    redactSecrets => \A leaf \in performed.result :
        /\ leaf.text \cap REDACTION_PATTERNS = {}
        /\ \A i \in DOMAIN leaf.path : leaf.path[i] \in REDACTED_KEYS =>
                i = Len(leaf.path) /\ leaf.text = {REDACTED_PLACEHOLDER}
=============================================================================
