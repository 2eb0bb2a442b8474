-------------------------------- MODULE Auth --------------------------------
(***************************************************************************)
(* Authentication of requests (pkg/auth, pkg/middleware/auth.go) and the   *)
(* endpoint a proxy request is for (server/proxy/server.go), as operators. *)
(*                                                                         *)
(* The token of a request is the key it is signed with, whether it has     *)
(* expired, and the names in its endpoints claim.  A name is a hostname    *)
(* under an endpoint's domain or the bare endpoint.  Signatures, and the   *)
(* other claims the parser checks, are external: a token is valid under    *)
(* the verifier whose key signed it.                                       *)
(***************************************************************************)
CONSTANTS
    Endpoint,
    NoEndpoint,     \* the empty endpoint
    NoToken,        \* a request without authorization
    NoTenant        \* the empty tenant ID

\* endpointIDFromClaim, and the bottom-level domain of a Host header: the
\* endpoint of a name, which is a bare endpoint or is under its domain.
NameEndpoint(name) == name.endpoint

\* EndpointIDFromRequest: the header takes precedence; of the Host header, only
\* a domain names an endpoint, and neither an IP address nor a bare host does.
EndpointIDFromRequest(m) ==
    IF m.header # NoEndpoint THEN m.header
    ELSE IF m.host.kind = "domain" THEN NameEndpoint(m.host)
    ELSE NoEndpoint

EndpointPermitted(token, endpointID) ==
    token.endpoints = {} \/ endpointID \in token.endpoints

Error(e) == [error |-> e, endpoints |-> {}]

\* The endpoints that the token's claims name.
extractEndpoints(token) == {NameEndpoint(name) : name \in token.claim}

\* JWTVerifier.Verify.
JWTVerify(verifier, token) ==
    LET endpoints == extractEndpoints(token)
    IN  IF token.key # verifier.key THEN Error("invalid")
        ELSE IF token.expired THEN Error("expired")
        ELSE IF verifier.requireEndpoints /\ endpoints = {} THEN Error("missing endpoints")
        ELSE [error |-> "none", endpoints |-> endpoints]

\* MultiTenantVerifier.Verify: tenants is a function from the tenants' IDs.
MultiTenantVerify(verifier, tenants, token, tenantID) ==
    IF tenantID = NoTenant /\ DOMAIN tenants = {} THEN JWTVerify(verifier, token)
    ELSE IF tenantID \in DOMAIN tenants THEN JWTVerify(tenants[tenantID], token)
    ELSE Error("unknown tenant")

\* Auth.Verify: the middleware.
Verify(verifier, tenants, m) ==
    IF m.token = NoToken THEN Error("missing authorization")
    ELSE MultiTenantVerify(verifier, tenants, m.token, m.tenantID)
=============================================================================
