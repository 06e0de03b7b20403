----------------------------- MODULE MCServices -----------------------------
(***************************************************************************)
(* The small instance of Services.  A mix names the operations a behaviour *)
(* performs, what they are about (a listing, a batch of pictures) and, for *)
(* "solo", that requests are served one after the other.                   *)
(***************************************************************************)
EXTENDS Services

MCListingMixes == {
    {"accounts"}, {"accounts", "rows"}, {"invitations", "rows"}, {"signing_keys", "rows"}, {"identity_providers", "rows"},
    {"audit_events"}, {"audit_events", "rows"}, {"oidc_applications", "forward_auth_apps", "role"}, {"oidc_applications", "rows"},
    {"forward_auth_apps", "rows"}, {"saml_applications", "role"}, {"saml_applications", "rows"}, {"account_credentials", "rows"},
    {"account_tokens", "rows"}, {"account_sessions", "rows"}, {"global_group_decisions", "rows"},
    {"managed_application_accounts", "managed_group_preview"}, {"managed_application_accounts", "rows"},
    {"managed_group_preview", "rows"}, {"managed_rule_preview", "rows"}, {"managed_rule_preview", "managed_group_preview", "locale"},
    {"global_rule_preview", "rows"}, {"global_rule_preview", "locale"}, {"signing_keys", "dek", "time"}}

MCOperatorMixes == {
    {"operator", "verify", "faults"}, {"operator", "verify", "ends"}, {"operator", "verify", "time"},
    {"operator", "verify", "recreate"}, {"operator", "validate", "ends"}, {"operator", "validate", "proof", "ends"},
    {"operator", "proof", "time"}, {"operator", "validate", "recreate"}, {"operator", "validate", "proof", "spoils"}}

MCSettingsMixes == {
    {"wallpaper", "x", "time"}, {"wallpaper", "b", "u", "time", "solo"}, {"wallpaper", "x", "picture", "i1", "i2", "time", "solo"},
    {"wallpaper", "x", "picture", "i1"}, {"look", "clear", "unsplash"}, {"image"}, {"look", "clear", "config", "pixabay"},
    {"look", "clear", "config", "unsplash", "pixabay", "solo"}, {"maintenance", "gate"}, {"maintenance", "signin", "solo"},
    {"maintenance", "name", "icon", "config", "faults", "solo"}, {"look", "wallpaper", "u", "unsplash"}}

MCAvatarMixes == {
    {"upload", "select"}, {"refresh", "select"}, {"refresh", "select", "remove", "upload", "solo"}, {"upload", "remove"},
    {"putIcon", "deleteOwner"}, {"refresh", "deleteOwner"}}

MCOutboundMixes == {{"call", "solo"}, {"call", "private", "solo"}}

MCUpstreamMixes == {
    {"signIn", "save"}, {"signIn", "rotate"}, {"signIn", "replace"},
    {"signIn", "rediscover", "time", "one"}, {"test", "callback", "complete"}, {"test", "callback", "complete", "save", "one"},
    {"test", "callback", "complete", "crash", "time", "one"}, {"test", "callback", "complete", "replace", "solo"},
    {"test", "callback", "complete", "rediscover", "solo"}, {"anyConfig", "signIn", "one", "solo"}}

MCDisclosureMixes == {
    {"accessToken", "userinfo", "disable", "solo"}, {"accessToken", "userinfo", "policy", "solo"}, {"accessToken", "userinfo", "rename", "solo"},
    {"accessToken", "userinfo", "email", "solo"}, {"accessToken", "userinfo", "unlink", "revoke", "solo"},
    {"accessToken", "userinfo", "project", "solo"}, {"legacy", "accessToken", "userinfo", "rename", "solo"},
    {"accessToken", "introspect", "disable", "solo"}, {"accessToken", "introspect", "rotateSecret", "solo"},
    {"accessToken", "introspect", "rotateSecret", "public", "solo"}, {"refreshToken", "introspect", "rotateFamily", "tokensAge", "solo"},
    {"refreshToken", "introspect", "revoke", "email", "solo"}, {"idToken", "logout", "rename", "solo"}, {"accessToken", "introspect", "userinfo", "tokensAge", "solo"}}

Of(service, mixes) == {m \cup {service} : m \in mixes}

MCMixes == UNION {
    Of("listing", MCListingMixes), Of("operatorSession", MCOperatorMixes), Of("settings", MCSettingsMixes),
    Of("pictures", MCAvatarMixes), Of("outbound", MCOutboundMixes), Of("upstream", MCUpstreamMixes),
    Of("disclosure", MCDisclosureMixes)}

\* The only mix of the run about maintenance.
MCMaintenanceMixes == {{"settings", "maintenance", "gate"}}

MCRow(i) == [id |-> i, at |-> IF i = 1 THEN 0 ELSE 1, name |-> IF i < 3 THEN i + 1 ELSE IF i = 4 THEN 5 ELSE 1,
             text |-> IF i = 2 THEN "y" ELSE "x", par |-> IF i = 3 THEN "b" ELSE "a", on |-> TRUE, fa |-> i = 4]
MCStartRows == {MCRow(i) : i \in 1..4}

MCMapOf == [k \in Batches |-> CASE k = "u" -> "unsplash" [] k = "b" -> "bing" [] k = "x" -> "pixabay"]
MCFreshFor == [bing |-> 1, unsplash |-> 1, pixabay |-> 1]

MCUrls == [scheme : {"https", "http", "ftp"}, host : {"name", "private", "alwaysBlocked"}]

MCAllConfigs == [mode : {"discovery", "manual"}, auth : {"discovery", "client_secret_basic", "none"},
    pkce : {"S256", "off"}, type : {"code", "id_token"}, openid : BOOLEAN, token : {None},
    jwks : {None, "none", "k0"}, userinfo : {None, "u0"}]
MCAllDocuments == [token : {"t1"}, jwks : {"none", "k1"}, userinfo : {"", "u1"},
    methods : {None, {}, {"client_secret_post"}}]
MCConfigs == {[mode |-> "discovery", auth |-> "discovery", pkce |-> "S256", type |-> "code", openid |-> TRUE,
    token |-> None, jwks |-> None, userinfo |-> u] : u \in {None, "u0"}}
MCDocuments == {[token |-> t, jwks |-> "k1", userinfo |-> "u1", methods |-> None] : t \in {"t1", "t2"}}

MCGrants == {{"profile", "identity"}, {"email"}}
MCAliasSets == {{<<"sub", "preferred_username">>}, {<<"nick", "email">>}}

MCSymmetry == Permutations(Procs)
=============================================================================
