----------------------------- MODULE MCRouting ------------------------------
(* Instances of Routing for TLC. *)
EXTENDS Admin

CONSTANTS n1, n2, e1, e2

Verifier == [key |-> "key", requireEndpoints |-> FALSE]

Name(kind, e) == [kind |-> kind, endpoint |-> e]

\* Tokens: absent, of another key, for any endpoint, for e1 by its domain and
\* for e2.
Tokens ==
    {NoToken}
      \cup [key: {"other"}, expired: {FALSE}, claim: {{}}]
      \cup [key: {"key"}, expired: {FALSE},
            claim: {{}, {Name("domain", e1)}, {Name("bare", e2)}}]

\* The endpoint in the header, against the host, and in the host.
Addressing ==
    {<<e1, Name("domain", e2)>>, <<NoEndpoint, Name("domain", e1)>>,
     <<NoEndpoint, Name("bare", e1)>>}

Messages ==
    {[header |-> a[1], host |-> a[2], token |-> t, tenantID |-> NoTenant] :
        a \in Addressing, t \in Tokens}

\* n1's admin server takes tokens and sessions, n2's only sessions; a session
\* may be of a password n2 does not have.
Config ==
    [n \in Node |-> [verifier |-> IF n = n1 THEN Verifier ELSE NoVerifier,
                     password |-> "password"]]

Session(key) == [key |-> key, expired |-> FALSE]

\* A session, a session for a node with another password, a token besides.
Credentials ==
    {<<NoToken, Session("password")>>, <<NoToken, Session("old")>>,
     <<[key |-> "other", expired |-> FALSE, claim |-> {}], Session("password")>>}

AdminMessages ==
    {[path |-> p, forward |-> f, token |-> c[1], session |-> c[2], tenantID |-> NoTenant] :
        p \in {"status"}, f \in {n1, n2, NoForward}, c \in Credentials}
      \cup {[path |-> "open", forward |-> n2, token |-> NoToken, session |-> NoSession,
             tenantID |-> NoTenant]}
=============================================================================
