------------------------------- MODULE Tools -------------------------------
(***************************************************************************)
(* The tables that a tool call goes by: the profile and risk of a tool     *)
(* (its route's entry in src/src/core/coverage/classify.ts), its feature   *)
(* flag (src/src/mcp/registry.ts), and the HTTP method of the endpoint it  *)
(* calls (src/src/core/mcphub-client/client.ts).  They are kept apart here *)
(* as they are there.  Tools go without "mcphub_"; every tool calls one    *)
(* endpoint and no two call the same, so an endpoint goes by the name of   *)
(* its tool.                                                               *)
(***************************************************************************)
EXTENDS Naturals, FiniteSets

Profiles == {"safe", "ops", "admin", "all"}
Flags == {"allowAuthAdminTools", "allowMcpbUpload", "allowStdioServerCreate",
          "allowSystemConfigWrite"}

-----------------------------------------------------------------------------
(* Coverage: profile and risk, route by route.                             *)

Classified(profile, risk, tools) ==
    {[name |-> t, profile |-> profile, risk |-> risk] : t \in tools}

classifyServerRoute ==
    Classified("safe", "read", {"list_servers", "get_server"}) \cup
    Classified("admin", "destructive", {"create_server", "batch_create_servers",
        "update_server", "delete_server"}) \cup
    Classified("ops", "safe_write", {"toggle_server", "reload_server",
        "toggle_server_tool", "update_server_tool_description",
        "reset_server_tool_description", "toggle_server_prompt",
        "update_server_prompt_description", "reset_server_prompt_description",
        "toggle_server_resource", "update_server_resource_description",
        "reset_server_resource_description"})

classifyGroupRoute ==
    Classified("safe", "read", {"list_groups", "get_group", "list_group_servers",
        "get_group_server_configs", "get_group_server_config"}) \cup
    Classified("admin", "destructive", {"create_group", "batch_create_groups",
        "update_group", "delete_group"}) \cup
    Classified("ops", "safe_write", {"add_server_to_group", "remove_server_from_group",
        "replace_group_servers", "update_group_server_tools"})

\* mutant: the update of a prompt is taken for a read, as the lookups beside it are
PromptUpdateIsRead ==
    Classified("safe", "read", {"list_builtin_prompts", "get_builtin_prompt",
        "update_builtin_prompt"}) \cup
    Classified("admin", "destructive", {"create_builtin_prompt", "delete_builtin_prompt"})

classifyBuiltinPromptRoute ==
    Classified("safe", "read", {"list_builtin_prompts", "get_builtin_prompt"}) \cup
    Classified("admin", "destructive", {"create_builtin_prompt", "delete_builtin_prompt"}) \cup
    Classified("ops", "safe_write", {"update_builtin_prompt"})

classifyBuiltinResourceRoute ==
    Classified("safe", "read", {"list_builtin_resources", "read_builtin_resource",
        "get_builtin_resource"}) \cup
    Classified("admin", "destructive", {"create_builtin_resource",
        "delete_builtin_resource"}) \cup
    Classified("ops", "safe_write", {"update_builtin_resource"})

\* the rest of classifyRoute: status, discovery, OpenAPI, cost, settings
statusRoutes ==
    Classified("safe", "read", {"health_check", "get_runtime_config", "get_public_config",
        "get_marketplace_well_known", "list_discovery_servers", "get_discovery_server",
        "get_discovery_server_install", "list_discovery_categories", "list_discovery_tags",
        "get_downstream_openapi_spec", "get_group_downstream_openapi_spec",
        "list_openapi_servers", "get_openapi_stats"})

\* settings, users, keys, OAuth clients
adminRoutes ==
    Classified("safe", "read", {"get_server_costs", "get_group_costs", "get_user_stats"}) \cup
    Classified("safe", "secret_sensitive", {"get_settings_snapshot", "export_settings"}) \cup
    Classified("all", "dangerous_config", {"update_system_config",
        "regenerate_oauth_client_secret"}) \cup
    Classified("admin", "read", {"list_users", "get_user"}) \cup
    Classified("admin", "destructive", {"create_user", "update_user", "delete_user"}) \cup
    Classified("admin", "dangerous_config", {"list_oauth_clients", "create_oauth_client",
        "get_oauth_client", "update_oauth_client", "delete_oauth_client"})

\* keys, activities, templates, the current user
activityRoutes ==
    Classified("admin", "dangerous_config", {"list_bearer_keys", "create_bearer_key",
        "update_bearer_key", "delete_bearer_key"}) \cup
    Classified("safe", "read", {"check_activities_available", "list_activities",
        "get_activity_stats", "get_activity_filters", "get_activity",
        "get_better_auth_user", "get_current_user"}) \cup
    Classified("admin", "destructive", {"cleanup_activities"}) \cup
    Classified("ops", "safe_write", {"export_config_template", "export_group_template"}) \cup
    Classified("all", "dangerous_config", {"import_config_template"})

\* market, cloud, registry, changelog, logs, bundles
marketRoutes ==
    Classified("safe", "read", {"list_market_servers", "search_market_servers",
        "get_market_server", "list_market_categories", "get_market_servers_by_category",
        "list_market_tags", "get_market_servers_by_tag", "list_cloud_servers",
        "search_cloud_servers", "get_cloud_server", "list_cloud_categories",
        "get_cloud_servers_by_category", "list_cloud_tags", "get_cloud_servers_by_tag",
        "get_cloud_server_tools"})

catalogRoutes ==
    Classified("all", "dangerous_config", {"call_cloud_tool", "upload_mcpb_bundle"}) \cup
    Classified("safe", "read", {"list_registry_servers", "get_registry_server_versions",
        "get_registry_server_version", "get_changelog_update_info"}) \cup
    Classified("safe", "secret_sensitive", {"get_logs"}) \cup
    Classified("admin", "destructive", {"clear_logs"})

COVERAGE ==
    classifyServerRoute \cup classifyGroupRoute \cup classifyBuiltinPromptRoute \cup
    classifyBuiltinResourceRoute \cup statusRoutes \cup adminRoutes \cup activityRoutes \cup
    marketRoutes \cup catalogRoutes

\* defineTool: a tool comes with the entry getCoverageEntryByToolName finds for it, and
\* every entry here has its tool
ALL_MANAGED_TOOLS == COVERAGE

-----------------------------------------------------------------------------
(* Endpoints: the tools whose endpoint is called with another method than  *)
(* GET, section by section.                                                *)

Endpoints(method, tools) == {[name |-> t, method |-> method] : t \in tools}

activityEndpoints == Endpoints("DELETE", {"cleanup_activities"})

bearerKeyEndpoints ==
    Endpoints("POST", {"create_bearer_key"}) \cup Endpoints("PUT", {"update_bearer_key"})
    \cup Endpoints("DELETE", {"delete_bearer_key"})

builtinEndpoints ==
    Endpoints("POST", {"create_builtin_prompt", "create_builtin_resource",
        "read_builtin_resource"}) \cup
    Endpoints("PUT", {"update_builtin_prompt", "update_builtin_resource"}) \cup
    Endpoints("DELETE", {"delete_builtin_prompt", "delete_builtin_resource"})

cloudEndpoints == Endpoints("POST", {"call_cloud_tool"})

groupEndpoints ==
    Endpoints("POST", {"add_server_to_group", "batch_create_groups", "create_group"}) \cup
    Endpoints("PUT", {"replace_group_servers", "update_group", "update_group_server_tools"})
    \cup Endpoints("DELETE", {"delete_group", "remove_server_from_group"})

logEndpoints == Endpoints("DELETE", {"clear_logs"})

bundleEndpoints == Endpoints("POST", {"upload_mcpb_bundle"})

oauthClientEndpoints ==
    Endpoints("POST", {"create_oauth_client", "regenerate_oauth_client_secret"}) \cup
    Endpoints("PUT", {"update_oauth_client"}) \cup
    Endpoints("DELETE", {"delete_oauth_client"})

\* the prompts, resources and tools of a server
serverPartEndpoints ==
    Endpoints("POST", {"toggle_server_prompt", "toggle_server_resource"}) \cup
    Endpoints("PUT", {"update_server_prompt_description",
        "update_server_resource_description"}) \cup
    Endpoints("DELETE", {"reset_server_prompt_description",
        "reset_server_resource_description"})

serverEndpoints ==
    Endpoints("POST", {"batch_create_servers", "create_server", "reload_server",
        "toggle_server", "toggle_server_tool"}) \cup
    Endpoints("PUT", {"update_server", "update_server_tool_description"}) \cup
    Endpoints("DELETE", {"delete_server", "reset_server_tool_description"})

systemEndpoints ==
    Endpoints("PUT", {"update_system_config"}) \cup
    Endpoints("POST", {"export_config_template", "import_config_template"})

userEndpoints ==
    Endpoints("POST", {"create_user"}) \cup Endpoints("PUT", {"update_user"}) \cup
    Endpoints("DELETE", {"delete_user"})

NonGet ==
    activityEndpoints \cup bearerKeyEndpoints \cup builtinEndpoints \cup cloudEndpoints \cup
    groupEndpoints \cup logEndpoints \cup bundleEndpoints \cup oauthClientEndpoints \cup
    serverPartEndpoints \cup serverEndpoints \cup systemEndpoints \cup userEndpoints

\* POST /api/resources/read and /api/templates/export return what they are asked for
Mutating == {e.name : e \in NonGet} \ {"read_builtin_resource", "export_config_template"}

-----------------------------------------------------------------------------
(* The registry: what a profile, the flags and read-only mode let through. *)

exposureRank == [safe |-> 0, ops |-> 1, admin |-> 2, all |-> 3]

keyTools == {"list_bearer_keys", "create_bearer_key", "delete_bearer_key", "update_bearer_key"}
oauthTools == {"list_oauth_clients", "create_oauth_client", "delete_oauth_client",
               "get_oauth_client", "update_oauth_client", "regenerate_oauth_client_secret"}
userTools == {"list_users", "create_user", "delete_user", "get_user", "update_user"}

\* requiredFeatureFlags
Gate(t) ==
    IF t.name \in keyTools \cup oauthTools \cup userTools THEN {"allowAuthAdminTools"}
    ELSE IF t.name = "upload_mcpb_bundle" THEN {"allowMcpbUpload"}
    ELSE IF t.name = "update_system_config" THEN {"allowSystemConfigWrite"} ELSE {}

\* getAnnotationsForRisk: the hints that are true
AnnotationsOf == [read |-> {"readOnlyHint"}, safe_write |-> {}, secret_sensitive |-> {},
                  destructive |-> {"destructiveHint"},
                  dangerous_config |-> {"destructiveHint", "openWorldHint"}]

Annotations(t) == AnnotationsOf[t.risk]

isProfileAllowed(p, toolProfile) == exposureRank[p] >= exposureRank[toolProfile]

\* mutant: what is not destructive is a read
ReadonlyAllowsSafeWrites(t) == t.risk \notin {"destructive", "dangerous_config"}

ReadonlyAllows(t) == t.risk \in {"read", "secret_sensitive"}

Allowed(t, p, f, readonly) ==
    /\ isProfileAllowed(p, t.profile)
    /\ readonly => ReadonlyAllows(t)
    /\ Gate(t) \subseteq f

filterEnabledTools(p, f, readonly) == {t \in ALL_MANAGED_TOOLS : Allowed(t, p, f, readonly)}
=============================================================================
