-------------------------------- MODULE Auth --------------------------------
(***************************************************************************)
(* Who may act for which tenant: src/auth.rs.  The environment configures a *)
(* secret of the internal hop or opts out of it; the middleware admits a    *)
(* request by its headers and hands the tenant in x-fiducia-org-id to the   *)
(* handler, which compares it with the tenant the body names.               *)
(***************************************************************************)

CONSTANTS
    Tenants,
    Secrets,    \* what the environment or a header may hold
    Empty,      \* the empty string
    None        \* an absent variable or header, or one that is no UUID

ASSUME AuthAssumption ==
    /\ Empty # None /\ {Empty, None} \cap Secrets = {}
    /\ None \notin Tenants

Environment == [secret : Secrets \cup {Empty, None}, insecure : BOOLEAN]

Headers == [auth : Secrets \cup {Empty, None}, org : Tenants \cup {None}]

\* AuthConfig::from_env: an empty secret is none.
SecretOf(env) == IF env.secret = Empty THEN None ELSE env.secret

Enforced(env) == SecretOf(env) # None

\* Mutant: without a secret every request is served.
AdmittedByDefault(env, headers) ==
    Enforced(env) => headers.auth = SecretOf(env) /\ headers.org # None

\* require_internal_auth; a request that is not admitted is answered 401, or
\* 503 where nothing is configured.
Admitted(env, headers) ==
    IF Enforced(env)
    THEN headers.auth = SecretOf(env) /\ headers.org # None
    ELSE env.insecure

\* resolve_tenant, otherwise 403.
TenantAgrees(headers, tenant) == headers.org \in {None, tenant}
=============================================================================
