------------------------------- MODULE Config -------------------------------
(***************************************************************************)
(* The configuration of the plugin: what internal/runtime accepts, how the *)
(* host's entries and the admin page's PATCH bodies become one, and when a *)
(* provider can be built from it.                                          *)
(*                                                                         *)
(* Strings are taken after TrimSpace. What depends on the characters of a  *)
(* string is a set of the strings that pass. database_url, which is never  *)
(* stored and never live, is left to the module that opens the database.   *)
(***************************************************************************)
EXTENDS Claims

CONSTANTS
    IssuerURLs,    \* the non-empty strings validateIssuerURL accepts
    OpenIDScopes,  \* scopes that include openid
    Icons,         \* icon_url_paths that IconAllowed accepts
    Segments       \* keys that claimPathSegment matches

ConfigFields ==
    {"issuer_url", "client_id", "client_secret", "scopes", "display_name", "icon_url_path",
     "claim_filters", "claim_role_mapping", "email_verified_required", "link_by_email"}

ProviderFields == {"issuer_url", "client_id", "client_secret"}

\* store.DefaultConfig, and what LoadConfig starts from.
DefaultConfig ==
    [issuer_url |-> "", client_id |-> "", client_secret |-> "",
     scopes |-> "openid profile email", display_name |-> "Sign in with OIDC",
     icon_url_path |-> "generic-key.svg", claim_filters |-> <<>>,
     claim_role_mapping |-> <<>>, email_verified_required |-> TRUE,
     link_by_email |-> FALSE]

ProviderConfigured(cfg) == \A f \in ProviderFields : cfg[f] # ""

ProviderPartiallyConfigured(cfg) == \E f \in ProviderFields : cfg[f] # ""

ValidateIssuerURL(raw) == raw \in IssuerURLs

ScopeIncludesOpenID(scopes) == scopes \in OpenIDScopes

IconAllowed(name) == name \in Icons

ValidateClaimPath(path) ==
    path # <<>> /\ \A i \in DOMAIN path : path[i] \in Segments

ValidateOperator(operator) == operator \in {"equals", "contains", "starts_with", "regex"}

ValidateOperatorValue(operator, value) ==
    operator \in {"starts_with", "regex"} => IsKind(value, "string")

ValidateRule(rule) ==
    /\ ValidateOperator(rule.operator)
    /\ ValidateClaimPath(rule.claim_path)
    /\ ValidateOperatorValue(rule.operator, rule.value)
    /\ rule.operator = "regex" => Compiles(AsString(rule.value))

\* Email linking is accepted only where a verified email is mandatory.
LinkGuard(cfg) == cfg.link_by_email => cfg.email_verified_required

ValidateConfig(cfg) ==
    /\ ProviderPartiallyConfigured(cfg) =>
           ProviderConfigured(cfg) /\ ValidateIssuerURL(cfg.issuer_url)
    /\ ScopeIncludesOpenID(cfg.scopes)
    /\ LinkGuard(cfg)
    /\ IconAllowed(cfg.icon_url_path)
    /\ \A i \in DOMAIN cfg.claim_filters : ValidateRule(cfg.claim_filters[i])
    /\ \A i \in DOMAIN cfg.claim_role_mapping :
           /\ ValidateRule(cfg.claim_role_mapping[i])
           /\ cfg.claim_role_mapping[i].role \in {"user", "admin"}

\* The host's entries, a function on the keys it sent: for three of them an
\* empty string keeps the default.
LoadConfig(entries) ==
    [f \in ConfigFields |->
        IF f \in DOMAIN entries
           /\ (f \in {"scopes", "display_name", "icon_url_path"} => entries[f] # "")
        THEN entries[f]
        ELSE DefaultConfig[f]]

\* Mutant: the body replaces the configuration.
PatchedWhole(cur, body) == [f \in DOMAIN body |-> body[f]]

\* A PATCH body, a function on the keys it holds, over the configuration the
\* handler read: an empty secret leaves the secret alone.
Patched(cur, body) ==
    [f \in ConfigFields |->
        IF f \in DOMAIN body /\ (f = "client_secret" => body[f] # "")
        THEN body[f]
        ELSE cur[f]]

\* What NewProvider is built from.
ProviderOf(cfg) == [f \in ProviderFields \cup {"scopes"} |-> cfg[f]]

=============================================================================
