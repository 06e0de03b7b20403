--------------------------- MODULE MCApplications ---------------------------
EXTENDS Applications, TLC

\* Conditions: the account has, or has not, an identity of the provider.
MCHas(i) == [op |-> "", kids |-> <<>>, fact |-> <<"provider", i>>]
MCConditions == {MCHas(i) : i \in Idps} \cup {[op |-> "not", kids |-> <<MCHas(Idp)>>, fact |-> None]}

\* Operations that meet in one behaviour, and the facts it starts from: restricted
\* applications ("closed"), groups attached ("grouped"), an allow for User
\* ("allowed"), a linked identity ("linked"), User a manager ("managed"), consent to
\* everything ("consented"), a forward-auth session ("cookie"), a token ("token").
MCMixes == {
    {"oidc", "authorize", "approve", "consent", "revoke", "solo"},
    {"oidc", "authorize", "approve", "consent", "none", "solo"},
    {"oidc", "authorize", "approve", "consent", "idpdelete", "consented", "solo"},
    {"oidc", "authorize", "login", "signin", "solo"},
    {"oidc", "authorize", "login", "both", "solo"},
    {"oidc", "authorize", "approve", "both", "solo"},
    {"oidc", "authorize", "maxage", "none", "time", "solo"},
    {"oidc", "authorize", "closed", "grouped", "linked", "relink", "decisions", "solo"},
    {"oidc", "authorize", "closed", "grouped", "allowed", "decisions"},
    {"oidc", "authorize", "closed", "grouped", "allowed", "idpdelete"},
    {"oidc", "authorize", "closed", "replace", "relink", "linked"},
    {"oidc", "authorize", "groups", "closed", "grouped", "linked"},
    {"oidc", "authorize", "disable", "delete", "crash"},
    {"oidc", "authorize", "logout", "maintenance"},
    {"oidc", "authorize", "restrict", "appdisable", "appdelete"},
    {"oidc", "authorize", "appupdate", "approve", "solo"},
    {"oidc", "appupdate", "appdelete"},
    {"oidc", "apps", "appupdate", "idpdelete", "solo"},
    {"oidc", "require", "relink", "closed", "grouped"},
    {"oidc", "require", "linked", "idpdelete"},
    {"apps", "groups", "bare", "oidc"},
    {"apps", "forward", "saml"},
    {"replace", "managed", "decisions", "linked", "oidc"},
    {"replace", "groups", "managed", "grouped", "oidc"},
    {"replace", "groups", "bare", "oidc"},
    {"restrict", "managers", "oidc"},
    {"forward", "authorize", "verify", "signout", "solo"},
    {"forward", "authorize", "verify", "both", "solo"},
    {"forward", "verify", "signout", "cookie", "time"},
    {"forward", "verify", "cookie", "disable", "maintenance"},
    {"forward", "verify", "cookie", "closed", "grouped", "allowed", "decisions", "solo"},
    {"forward", "verify", "cookie", "appdisable", "appdelete"},
    {"forward", "tokens", "pat", "closed", "grouped", "allowed"},
    {"forward", "tokens", "pat", "token", "disable", "both"},
    {"forward", "pat", "token", "time", "both"},
    {"forward", "pat", "token", "apps", "appdelete", "solo"},
    {"forward", "pat", "token", "closed", "grouped", "allowed", "decisions"},
    {"saml", "sso", "samlconsent", "time", "solo"},
    {"saml", "sso", "consented", "time"},
    {"saml", "sso", "consented", "logout", "disable"},
    {"saml", "ssoinit", "consented", "logout", "disable"},
    {"saml", "sso", "force", "signin", "samlconsent", "solo"},
    {"saml", "sso", "force", "signin", "both", "consented", "solo"},
    {"saml", "ssoinit", "appupdate", "samlconsent", "revoke"},
    {"saml", "ssoinit", "consented", "closed", "grouped", "allowed", "decisions", "delete"},
    {"saml", "sso", "samlconsent", "appdisable", "appdelete"},
    {"saml", "sso", "consented", "appupdate", "appdelete"},
    {"saml", "ssoinit", "slo", "consented", "time"},
    {"oidc", "cligroups", "replace", "managed", "linked"},
    {"oidc", "cligroups", "climanagers", "groups", "bare", "solo"},
    {"oidc", "authorize", "clidecide", "clirestrict", "closed", "grouped", "allowed", "solo"},
    {"oidc", "clidecide", "replace", "grouped"},
    {"oidc", "cliclients", "idpdelete"},
    {"forward", "cliclients", "token", "solo"},
    {"saml", "clisps", "ssoinit", "consented"},
    {"clisps", "ssoinit", "samlconsent", "solo"},
    {"oidc", "cliidps", "noidp", "bare", "solo"},
    {"oidc", "cliidps", "require", "linked"},
    {"keyring", "sign", "clikeys", "solo"},
    {"keyboot", "sign", "clikeys", "solo"},
    {"keyring", "sign"},
    {"keyring", "sign", "reconcile", "time", "solo"},
    {"keyboot", "sign"}}

MCSymmetry == Permutations(Procs)
=============================================================================
