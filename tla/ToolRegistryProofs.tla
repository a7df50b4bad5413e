------------------------ MODULE ToolRegistryProofs ------------------------
(***************************************************************************)
(* What a call that reached the upstream went through, for every list of   *)
(* inputs and target hosts and every answer of the upstream.               *)
(***************************************************************************)
EXTENDS ToolRegistry, TLAPS

\* Every tool that read-only mode lets through calls an endpoint that changes nothing
\* (classifyRoute beside the client's methods, part by part of both tables).
LEMMA ReadsChangeNothing ==
    \A t \in ALL_MANAGED_TOOLS : ReadonlyAllows(t) => t.name \notin Mutating
<1> DEFINE Fine(t) == ReadonlyAllows(t) => t.name \notin Mutating
<1> USE DEF Classified, ReadonlyAllows, Mutating, NonGet, Endpoints, activityEndpoints,
           bearerKeyEndpoints, builtinEndpoints, cloudEndpoints, groupEndpoints, logEndpoints,
           bundleEndpoints, oauthClientEndpoints, serverPartEndpoints, serverEndpoints,
           systemEndpoints, userEndpoints
<1>1. \A t \in classifyServerRoute : Fine(t) BY DEF classifyServerRoute
<1>2. \A t \in classifyGroupRoute : Fine(t) BY DEF classifyGroupRoute
<1>3. \A t \in classifyBuiltinPromptRoute : Fine(t) BY DEF classifyBuiltinPromptRoute
<1>4. \A t \in classifyBuiltinResourceRoute : Fine(t) BY DEF classifyBuiltinResourceRoute
<1>5. \A t \in statusRoutes : Fine(t) BY DEF statusRoutes
<1>6. \A t \in adminRoutes : Fine(t) BY DEF adminRoutes
<1>7. \A t \in activityRoutes : Fine(t) BY DEF activityRoutes
<1>8. \A t \in marketRoutes : Fine(t) BY DEF marketRoutes
<1>9. \A t \in catalogRoutes : Fine(t) BY DEF catalogRoutes
<1> HIDE DEF Fine
<1>10. \A t \in ALL_MANAGED_TOOLS : Fine(t)
  BY <1>1, <1>2, <1>3, <1>4, <1>5, <1>6, <1>7, <1>8, <1>9 DEF ALL_MANAGED_TOOLS, COVERAGE
<1> QED BY <1>10 DEF Fine

\* The profile and the risk of a tool go together: the safe profile has tools that read
\* only, and what is neither a read nor a safe write is on the admin profile or above.
Consistent(t) ==
    /\ t.profile \in Profiles
    /\ t.risk \in DOMAIN AnnotationsOf
    /\ t.profile = "safe" => ReadonlyAllows(t)
    /\ t.risk \in {"destructive", "dangerous_config"} => t.profile \in {"admin", "all"}

LEMMA ToolsConsistent == \A t \in ALL_MANAGED_TOOLS : Consistent(t)
<1> USE DEF Consistent, Classified, ReadonlyAllows, Profiles, AnnotationsOf
<1>1. \A t \in classifyServerRoute : Consistent(t) BY DEF classifyServerRoute
<1>2. \A t \in classifyGroupRoute : Consistent(t) BY DEF classifyGroupRoute
<1>3. \A t \in classifyBuiltinPromptRoute : Consistent(t) BY DEF classifyBuiltinPromptRoute
<1>4. \A t \in classifyBuiltinResourceRoute : Consistent(t) BY DEF classifyBuiltinResourceRoute
<1>5. \A t \in statusRoutes : Consistent(t) BY DEF statusRoutes
<1>6. \A t \in adminRoutes : Consistent(t) BY DEF adminRoutes
<1>7. \A t \in activityRoutes : Consistent(t) BY DEF activityRoutes
<1>8. \A t \in marketRoutes : Consistent(t) BY DEF marketRoutes
<1>9. \A t \in catalogRoutes : Consistent(t) BY DEF catalogRoutes
<1> HIDE DEF Consistent
<1> QED BY <1>1, <1>2, <1>3, <1>4, <1>5, <1>6, <1>7, <1>8, <1>9 DEF ALL_MANAGED_TOOLS, COVERAGE

\* Settings stay as they were while a call is performed, so it still satisfies what it
\* was let through for.
Vetted ==
    performed # NoCall =>
        /\ performed = [tool |-> performed.tool, input |-> performed.input,
                        result |-> performed.result]
        /\ performed.tool \in ALL_MANAGED_TOOLS
        /\ performed.input \in Inputs
        /\ Allowed(performed.tool, profile, flags, forceReadonly)
        /\ Accepts(performed.tool, performed.input)

\* A description that was set by the tools for it has been found free of secrets.
Described == description.from = "update" => description.text \cap suspiciousDescriptionPatterns = {}

IInv ==
    /\ TypeOK
    /\ performed = NoCall \/ performed.result = Result(description.text)
    /\ Vetted /\ Described

\* No call has been made, and nothing described, before the first one.
LEMMA InitIInv == Init => IInv
BY DEF Init, IInv, TypeOK, Vetted, Described, NoCall, Undescribed

\* A call leaves the description alone, resets it, or sets it.
LEMMA DescribeKeeps ==
    ASSUME TypeOK, Described, NEW t \in ALL_MANAGED_TOOLS, NEW i \in Inputs, Accepts(t, i),
           description' = Describe(t, i)
    PROVE  /\ description' \in [text : {{}} \cup {j.description : j \in Inputs},
                                from : {"upstream", "update", "body"}]
           /\ Described'
<1>1. CASE t.name \in descriptionTools /\ description' = [text |-> i.description, from |-> "update"]
  <2>1. i.description \cap suspiciousDescriptionPatterns = {}
    BY <1>1 DEF Accepts, assertSafeDescription
  <2> QED BY <1>1, <2>1 DEF Described
<1>2. CASE description' = [text |-> i.description, from |-> "body"]
  BY <1>2 DEF Described
<1>3. CASE description' = Undescribed
  BY <1>3 DEF Undescribed, Described
<1>4. CASE description' = description
  BY <1>4 DEF TypeOK, Described
<1> QED BY <1>1, <1>2, <1>3, <1>4 DEF Describe

\* A call is let through under the settings of the moment, and they change with none
\* under way only.
LEMMA StepIInv == IInv /\ [Next]_vars => IInv'
<1> SUFFICES ASSUME IInv, [Next]_vars PROVE IInv' OBVIOUS
<1>1. CASE Restart
  BY <1>1 DEF Restart, IInv, TypeOK, Vetted, Described
<1>2. CASE Return
  BY <1>2 DEF Return, IInv, TypeOK, Vetted, Described, settings, NoCall
<1>3. ASSUME NEW t \in ALL_MANAGED_TOOLS, NEW i \in Inputs, Call(t, i) PROVE IInv'
  <2>1. /\ performed' = [tool |-> t, input |-> i, result |-> Result(description'.text)]
        /\ UNCHANGED settings
        /\ description' = Describe(t, i)
        /\ Allowed(t, profile, flags, forceReadonly) /\ Accepts(t, i)
    BY <1>3 DEF Call
  <2>2. Result(description.text)' = Result(description'.text)
    BY <2>1 DEF Result, settings
  <2>3. Accepts(t, i)' <=> Accepts(t, i)
    BY <2>1 DEF Accepts, validateServerMutationPayload, settings
  <2>4. /\ description' \in [text : {{}} \cup {j.description : j \in Inputs},
                             from : {"upstream", "update", "body"}]
        /\ Described'
    BY <2>1, DescribeKeeps DEF IInv
  <2> QED BY <2>1, <2>2, <2>3, <2>4 DEF IInv, TypeOK, Vetted, settings, NoCall
<1>4. CASE UNCHANGED vars
  BY <1>4 DEF vars, settings, IInv, TypeOK, Vetted, Described, Accepts, validateServerMutationPayload, Result
<1> QED BY <1>1, <1>2, <1>3, <1>4 DEF Next

\* The invariant holds of every call.
THEOREM Invariance == Spec => []IInv
BY InitIInv, StepIInv, PTL DEF Spec

\* Settings, the description and the call stay of their types (registry.ts, schema.ts).
THEOREM TypeCorrect == Spec => []TypeOK
<1>1. IInv => TypeOK BY DEF IInv
<1> QED BY <1>1, Invariance, PTL

\* No call: no tool.
LEMMA NoToolNoMutation == NoCall.tool.name \notin Mutating
BY DEF NoCall, Mutating, NonGet, Endpoints,
       activityEndpoints, bearerKeyEndpoints, builtinEndpoints, cloudEndpoints,
       groupEndpoints, logEndpoints, bundleEndpoints, oauthClientEndpoints,
       serverPartEndpoints, serverEndpoints, systemEndpoints, userEndpoints

\* A tool below the admin profile is not destructive.
LEMMA DestructiveNeedsAdmin ==
    ASSUME NEW t \in ALL_MANAGED_TOOLS, NEW p \in Profiles, isProfileAllowed(p, t.profile),
           t.risk \in {"destructive", "dangerous_config"}
    PROVE  p \in {"admin", "all"}
<1>1. t.profile \in {"admin", "all"}
  BY ToolsConsistent DEF Consistent
<1> QED BY <1>1 DEF isProfileAllowed, exposureRank, Profiles

\* With read-only mode, and on the safe profile, no call changes anything upstream.
THEOREM ReadonlyChangesNothingHolds == Spec => []ReadonlyChangesNothing
<1>1. ASSUME IInv, performed.tool.name \in Mutating PROVE ~forceReadonly /\ profile # "safe"
  <2>1. performed # NoCall
    BY <1>1, NoToolNoMutation
  <2>2. performed.tool \in ALL_MANAGED_TOOLS /\ Allowed(performed.tool, profile, flags, forceReadonly)
    BY <1>1, <2>1 DEF IInv, Vetted
  <2>3. ~ReadonlyAllows(performed.tool) /\ performed.tool.profile \in Profiles \ {"safe"}
    BY <1>1, <2>2, ReadsChangeNothing, ToolsConsistent DEF Consistent
  <2>4. ~forceReadonly
    BY <2>2, <2>3 DEF Allowed
  <2>5. profile # "safe"
    BY <2>2, <2>3 DEF Allowed, isProfileAllowed, exposureRank, Profiles
  <2> QED BY <2>4, <2>5
<1>2. IInv => ReadonlyChangesNothing BY <1>1 DEF ReadonlyChangesNothing
<1> QED BY <1>2, Invariance, PTL

\* A tool advertised as read-only changes nothing, one advertised as destructive is
\* called on the admin profile or above only.
THEOREM AnnotationsHonestHolds == Spec => []AnnotationsHonest
<1>1. ASSUME IInv, performed # NoCall
      PROVE  /\ "readOnlyHint" \in Annotations(performed.tool) => performed.tool.name \notin Mutating
             /\ "destructiveHint" \in Annotations(performed.tool) =>
                    profile \in {"admin", "all"} /\ ~forceReadonly
  <2>1. performed.tool \in ALL_MANAGED_TOOLS /\ Allowed(performed.tool, profile, flags, forceReadonly)
    BY <1>1 DEF IInv, Vetted
  <2>2. performed.tool.risk \in DOMAIN AnnotationsOf
    BY <2>1, ToolsConsistent DEF Consistent
  <2>3. "readOnlyHint" \in Annotations(performed.tool) => ReadonlyAllows(performed.tool)
    BY <2>2 DEF Annotations, AnnotationsOf, ReadonlyAllows
  <2>4. "destructiveHint" \in Annotations(performed.tool) =>
            /\ performed.tool.risk \in {"destructive", "dangerous_config"}
            /\ ~ReadonlyAllows(performed.tool)
    BY <2>2 DEF Annotations, AnnotationsOf, ReadonlyAllows
  <2>5. ReadonlyAllows(performed.tool) => performed.tool.name \notin Mutating
    BY <2>1, ReadsChangeNothing
  <2>6. ASSUME "destructiveHint" \in Annotations(performed.tool)
        PROVE  profile \in {"admin", "all"} /\ ~forceReadonly
    BY <1>1, <2>1, <2>4, <2>6, DestructiveNeedsAdmin DEF Allowed, IInv, TypeOK
  <2> QED BY <2>3, <2>5, <2>6
<1>2. IInv => AnnotationsHonest BY <1>1 DEF AnnotationsHonest
<1> QED BY <1>2, Invariance, PTL

\* The tools whose endpoint is called with DELETE take a confirmation, or are safe writes.
Removed == {t \in ALL_MANAGED_TOOLS : [name |-> t.name, method |-> "DELETE"] \in NonGet}

LEMMA RemovalsTakeConfirmation ==
    ASSUME NEW t \in Removed
    PROVE  t.name \in confirmActionSchema \cup expectedValueSchemas \/ t.risk = "safe_write"
<1>1. t.name \in {"cleanup_activities", "delete_bearer_key", "delete_builtin_prompt",
                  "delete_builtin_resource", "delete_group", "remove_server_from_group",
                  "clear_logs", "delete_oauth_client", "reset_server_prompt_description",
                  "reset_server_resource_description", "delete_server",
                  "reset_server_tool_description", "delete_user"}
  BY DEF Removed, NonGet, Endpoints,
         activityEndpoints, bearerKeyEndpoints, builtinEndpoints, cloudEndpoints,
         groupEndpoints, logEndpoints, bundleEndpoints, oauthClientEndpoints,
         serverPartEndpoints, serverEndpoints, systemEndpoints, userEndpoints
<1> DEFINE Revertible == {"remove_server_from_group", "reset_server_prompt_description",
                          "reset_server_resource_description", "reset_server_tool_description"}
<1>2. t.name \in Revertible => t.risk = "safe_write"
  <2>1. CASE t \in classifyServerRoute BY <2>1 DEF classifyServerRoute, Classified
  <2>2. CASE t \in classifyGroupRoute BY <2>2 DEF classifyGroupRoute, Classified
  <2>3. CASE t \in classifyBuiltinPromptRoute \cup classifyBuiltinResourceRoute
    BY <2>3 DEF classifyBuiltinPromptRoute, classifyBuiltinResourceRoute, Classified
  <2>4. CASE t \in statusRoutes BY <2>4 DEF statusRoutes, Classified
  <2>5. CASE t \in adminRoutes BY <2>5 DEF adminRoutes, Classified
  <2>6. CASE t \in activityRoutes BY <2>6 DEF activityRoutes, Classified
  <2>7. CASE t \in marketRoutes \cup catalogRoutes
    BY <2>7 DEF marketRoutes, catalogRoutes, Classified
  <2> QED BY <2>1, <2>2, <2>3, <2>4, <2>5, <2>6, <2>7 DEF Removed, ALL_MANAGED_TOOLS, COVERAGE
<1> QED BY <1>1, <1>2 DEF confirmActionSchema, expectedValueSchemas

\* What cannot be undone has been confirmed.
THEOREM RemovalsConfirmedHolds == Spec => []RemovalsConfirmed
<1>1. ASSUME IInv, performed # NoCall,
             [name |-> performed.tool.name, method |-> "DELETE"] \in NonGet,
             "destructiveHint" \in Annotations(performed.tool)
      PROVE  performed.input.confirm
  <2>1. performed.tool \in Removed /\ Accepts(performed.tool, performed.input)
    BY <1>1 DEF IInv, Vetted, Removed
  <2>2. performed.tool.risk # "safe_write"
    BY <1>1 DEF Annotations, AnnotationsOf
  <2>3. performed.tool.name \in confirmActionSchema \cup expectedValueSchemas
    BY <2>1, <2>2, RemovalsTakeConfirmation
  <2> QED BY <2>1, <2>3 DEF Accepts
<1>2. IInv => RemovalsConfirmed BY <1>1 DEF RemovalsConfirmed
<1> QED BY <1>2, Invariance, PTL

\* The redactor leaves a leaf alone that is below no redacted key and holds no secret.
LEMMA PlainLeafStays ==
    ASSUME NEW document, NEW leaf \in document, IsLeaf(leaf), Hidden(leaf.path) = {},
           leaf.text \cap REDACTION_PATTERNS = {}
    PROVE  leaf \in redactJsonLike(document)
<1>1. redactString(leaf.text) = leaf.text
  BY DEF redactString
<1>2. [leaf EXCEPT !.text = redactString(@)] = leaf
  BY <1>1 DEF IsLeaf
<1> QED BY <1>2 DEF redactJsonLike

\* What it lets out has nothing to match, and the placeholder in the place of a subtree.
LEMMA RedactedLeaf ==
    ASSUME NEW document, \A leaf \in document : IsLeaf(leaf), NEW leaf \in redactJsonLike(document)
    PROVE  /\ leaf.text \cap REDACTION_PATTERNS = {}
           /\ \A i \in DOMAIN leaf.path : leaf.path[i] \in REDACTED_KEYS =>
                i = Len(leaf.path) /\ leaf.text = {REDACTED_PLACEHOLDER}
<1>1. REDACTED_PLACEHOLDER \notin REDACTION_PATTERNS
  BY DEF REDACTED_PLACEHOLDER, REDACTION_PATTERNS
<1>2. ASSUME NEW original \in document, Hidden(original.path) = {},
             leaf = [original EXCEPT !.text = redactString(@)]
      PROVE  /\ leaf.text \cap REDACTION_PATTERNS = {}
             /\ \A i \in DOMAIN leaf.path : leaf.path[i] \notin REDACTED_KEYS
  <2>1. leaf.text = redactString(original.text) /\ leaf.path = original.path
        /\ leaf.path \in Seq({leaf.path[i] : i \in DOMAIN leaf.path})
    BY <1>2 DEF IsLeaf
  <2>2. leaf.text \cap REDACTION_PATTERNS = {}
    BY <1>1, <2>1 DEF redactString
  <2>3. ASSUME NEW i \in DOMAIN leaf.path PROVE leaf.path[i] \notin REDACTED_KEYS
    BY <1>2, <2>1 DEF Hidden, shouldRedactKey
  <2> QED BY <2>2, <2>3
<1>3. ASSUME NEW original \in document, NEW cut \in Outermost(original.path),
             leaf = Leaf(SubSeq(original.path, 1, cut), {REDACTED_PLACEHOLDER})
      PROVE  /\ leaf.text = {REDACTED_PLACEHOLDER}
             /\ \A i \in DOMAIN leaf.path : leaf.path[i] \in REDACTED_KEYS => i = Len(leaf.path)
  <2> DEFINE path == original.path
  <2>1. path \in Seq({path[i] : i \in DOMAIN path}) /\ cut \in 1 .. Len(path)
    BY <1>3 DEF IsLeaf, Outermost, Hidden
  <2>2. leaf.text = {REDACTED_PLACEHOLDER} /\ leaf.path = SubSeq(path, 1, cut)
    BY <1>3 DEF Leaf
  <2>3. Len(leaf.path) = cut /\ DOMAIN leaf.path = 1 .. cut
        /\ \A i \in 1 .. cut : leaf.path[i] = path[i]
    BY <2>1, <2>2
  <2>4. ASSUME NEW i \in 1 .. cut, path[i] \in REDACTED_KEYS PROVE i = cut
    <3>1. i \in Hidden(path)
      BY <2>1, <2>4 DEF Hidden, shouldRedactKey
    <3> QED BY <1>3, <2>1, <3>1 DEF Outermost
  <2> QED BY <2>2, <2>3, <2>4
<1> QED BY <1>1, <1>2, <1>3 DEF redactJsonLike

\* A pair is a sequence.
LEMMA PairIsSequence == ASSUME NEW S, NEW a \in S, NEW b \in S PROVE <<a, b>> \in Seq(S)
OBVIOUS

\* The description that was set and every leaf of the answer are leaves.
LEMMA AnswerLeaves == ASSUME NEW text, NEW leaf \in Answer(text) PROVE IsLeaf(leaf)
<1>1. Leaf(descriptionPath, text) = [path |-> descriptionPath, text |-> text, url |-> {}]
  BY DEF Leaf
<1>2. descriptionPath \in Seq({descriptionPath[i] : i \in DOMAIN descriptionPath})
  <2>1. DOMAIN descriptionPath = 1 .. 2
    BY DEF descriptionPath
  <2>2. /\ descriptionPath[1] \in {descriptionPath[i] : i \in DOMAIN descriptionPath}
        /\ descriptionPath[2] \in {descriptionPath[i] : i \in DOMAIN descriptionPath}
    BY <2>1
  <2>3. descriptionPath = <<descriptionPath[1], descriptionPath[2]>>
    BY DEF descriptionPath
  <2> QED BY <2>2, <2>3, PairIsSequence
<1>3. IsLeaf(Leaf(descriptionPath, text))
  BY <1>1, <1>2 DEF IsLeaf
<1> QED BY <1>3, UpstreamAssumption DEF Answer

\* A description that was set by the tools for it reads back as it was written, until a
\* tool that looks at no description replaces it.
THEOREM DescriptionReadsBackHolds == Spec => []DescriptionReadsBack
<1>1. ASSUME IInv, performed # NoCall, description.from = "update"
      PROVE  Leaf(descriptionPath, description.text) \in performed.result
  <2> DEFINE leaf == Leaf(descriptionPath, description.text)
  <2>1. leaf \in Answer(description.text) /\ IsLeaf(leaf)
    BY AnswerLeaves DEF Answer
  <2>2. leaf.path = descriptionPath /\ leaf.text = description.text
    BY DEF Leaf
  <2>3. Hidden(descriptionPath) = {}
    <3>1. /\ Len(descriptionPath) = 2
          /\ \A i \in 1 .. 2 : descriptionPath[i] \in {"tools", "description"}
      BY DEF descriptionPath
    <3> QED BY <3>1 DEF Hidden, shouldRedactKey, REDACTED_KEYS
  <2>4. description.text \cap REDACTION_PATTERNS = {}
    BY <1>1 DEF IInv, Described, suspiciousDescriptionPatterns, REDACTION_PATTERNS
  <2>5. leaf \in redactJsonLike(Answer(description.text))
    BY <2>1, <2>2, <2>3, <2>4, PlainLeafStays
  <2> QED BY <1>1, <2>1, <2>5 DEF IInv, TypeOK, Result, redactValue
<1>2. IInv => DescriptionReadsBack BY <1>1 DEF DescriptionReadsBack
<1> QED BY <1>2, Invariance, PTL

\* With redaction on, no result holds what a secret is made of.
THEOREM SecretsStayInsideHolds == Spec => []SecretsStayInside
<1>1. ASSUME IInv, redactSecrets, NEW leaf \in performed.result
      PROVE  /\ leaf.text \cap REDACTION_PATTERNS = {}
             /\ \A i \in DOMAIN leaf.path : leaf.path[i] \in REDACTED_KEYS =>
                    i = Len(leaf.path) /\ leaf.text = {REDACTED_PLACEHOLDER}
  <2>1. performed # NoCall
    BY <1>1 DEF NoCall
  <2>2. leaf \in redactJsonLike(Answer(description.text))
    BY <1>1, <2>1 DEF IInv, TypeOK, Result, redactValue
  <2> QED BY <2>2, AnswerLeaves, RedactedLeaf
<1>2. IInv => SecretsStayInside BY <1>1 DEF SecretsStayInside
<1> QED BY <1>2, Invariance, PTL

-----------------------------------------------------------------------------
\* The octets that a number of one of the networks is made of are private ones.
PrivateOctets(a, b) == isPrivateIpv4([first |-> a, second |-> b])

LEMMA NetworkOctets ==
    ASSUME NEW a \in 0 .. 255, NEW b \in 0 .. 255, NEW network \in PrivateNetworks,
           a * 256 + b \in network.first .. network.last
    PROVE  PrivateOctets(a, b)
<1>1. ASSUME a * 256 + b \in 10 * 256 .. 10 * 256 + 255 PROVE a = 10
  BY <1>1
<1>2. ASSUME a * 256 + b \in 127 * 256 .. 127 * 256 + 255 PROVE a = 127
  BY <1>2
<1>3. ASSUME a * 256 + b \in 172 * 256 + 16 .. 172 * 256 + 31
      PROVE  a = 172 /\ b >= 16 /\ b <= 31
  BY <1>3
<1>4. ASSUME a * 256 + b \in 169 * 256 + 254 .. 169 * 256 + 254 PROVE a = 169 /\ b = 254
  BY <1>4
<1>5. ASSUME a * 256 + b \in 192 * 256 + 168 .. 192 * 256 + 168 PROVE a = 192 /\ b = 168
  BY <1>5
<1>6. \/ network.first = 10 * 256 /\ network.last = 10 * 256 + 255
      \/ network.first = 127 * 256 /\ network.last = 127 * 256 + 255
      \/ network.first = 172 * 256 + 16 /\ network.last = 172 * 256 + 31
      \/ network.first = 169 * 256 + 254 /\ network.last = 169 * 256 + 254
      \/ network.first = 192 * 256 + 168 /\ network.last = 192 * 256 + 168
  BY DEF PrivateNetworks
<1>7. \/ a \in {10, 127}
      \/ a = 172 /\ b >= 16 /\ b <= 31
      \/ a = 169 /\ b = 254
      \/ a = 192 /\ b = 168
  BY <1>1, <1>2, <1>3, <1>4, <1>5, <1>6
<1> QED BY <1>7 DEF PrivateOctets, isPrivateIpv4

\* The comparisons of isPrivateIpv4 are the networks.
LEMMA PrivateIsInNetwork ==
    ASSUME NEW host, host.first \in 0 .. 255, host.second \in 0 .. 255,
           NEW network \in PrivateNetworks, InNetwork(host, network)
    PROVE  isPrivateIpv4(host)
<1>1. host.first * 256 + host.second \in network.first .. network.last
  BY DEF InNetwork
<1>2. PrivateOctets(host.first, host.second)
  BY <1>1, NetworkOctets, Zenon
<1> QED BY <1>2 DEF PrivateOctets, isPrivateIpv4

\* A server definition that reached the upstream has been vetted, leaf by leaf.
THEOREM TargetsVettedHolds == Spec => []TargetsVetted
<1>1. ASSUME IInv, performed.tool.name \in serverWriters, NEW body \in performed.input.bodies
      PROVE  /\ body.command => "allowStdioServerCreate" \in flags
             /\ \A leaf \in {l \in body.leaves : "url" \in {l.path[i] : i \in DOMAIN l.path}} :
                \A url \in leaf.url :
                    /\ url.host # LOCALHOST
                    /\ IsIpv4(url.host) =>
                            \A network \in PrivateNetworks : ~InNetwork(url.host, network)
                    /\ allowedTargetHosts # {} => hostname(url) \in TargetHosts
  <2>1. performed # NoCall
    BY <1>1 DEF NoCall, serverWriters
  <2>2. performed.input \in Inputs /\ validateServerMutationPayload(body)
    BY <1>1, <2>1 DEF IInv, Vetted, Accepts
  <2>3. body.command => "allowStdioServerCreate" \in flags
    BY <2>2 DEF validateServerMutationPayload, assertAllowedCommand
  <2>4. ASSUME NEW leaf \in body.leaves, "url" \in {leaf.path[i] : i \in DOMAIN leaf.path},
               NEW url \in leaf.url
        PROVE  /\ url.host # LOCALHOST
               /\ IsIpv4(url.host) =>
                        \A network \in PrivateNetworks : ~InNetwork(url.host, network)
               /\ allowedTargetHosts # {} => hostname(url) \in TargetHosts
    <3>0. IsLeaf(leaf)
      BY <1>1, <2>2, InputsAssumption
    <3>1. IsIpv4(url.host) =>
              \E first, second \in 0 .. 255 : url.host = Ipv4(first, second)
      BY <1>1, <2>2, InputsAssumption
    <3>2. \E i \in 1 .. Len(leaf.path) : leaf.path[i] \in urlBearingKeys
      BY <2>4, <3>0 DEF IsLeaf, urlBearingKeys
    <3>3. leaf.url \in extractCandidateUrls(body.leaves)
      BY <3>2 DEF extractCandidateUrls
    <3>4. assertNoPrivateUrl(url) /\ assertAllowedTargetHost(url, allowedTargetHosts)
      BY <2>2, <3>3 DEF validateServerMutationPayload
    <3>5. IsIpv4(url.host) => \A network \in PrivateNetworks : ~InNetwork(url.host, network)
      <4>1. ASSUME IsIpv4(url.host), NEW network \in PrivateNetworks,
                   InNetwork(url.host, network)
            PROVE  FALSE
        <5>1. /\ url.host.first \in 0 .. 255 /\ url.host.second \in 0 .. 255
              /\ ~IsIpv6(url.host)
          <6>1. PICK first, second \in 0 .. 255 : url.host = Ipv4(first, second)
            BY <3>1, <4>1
          <6>2. url.host = [first |-> first, second |-> second] BY <6>1 DEF Ipv4
          <6>3. DOMAIN url.host = {"first", "second"} BY <6>2
          <6> QED BY <6>2, <6>3 DEF IsIpv6
        <5>2. isPrivateIpv4(url.host)
          BY <4>1, <5>1, PrivateIsInNetwork
        <5> QED BY <3>4, <4>1, <5>1, <5>2 DEF assertNoPrivateUrl, isPrivateHost, hostname
      <4> QED BY <4>1
    <3>6. allowedTargetHosts # {} => hostname(url) \in TargetHosts
      BY <1>1, <3>4 DEF IInv, TypeOK, assertAllowedTargetHost
    <3>7. url.host # LOCALHOST
      BY <3>4 DEF assertNoPrivateUrl, isPrivateHost, hostname, IsIpv6, LOCALHOST
    <3> QED BY <3>5, <3>6, <3>7
  <2> QED BY <2>3, <2>4
<1>2. IInv => TargetsVetted
  BY <1>1 DEF TargetsVetted
<1> QED BY <1>2, Invariance, PTL
=============================================================================
