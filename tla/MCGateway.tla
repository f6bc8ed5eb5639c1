------------------------------ MODULE MCGateway ------------------------------
(***************************************************************************)
(* The settings that TLC tries: every combination of those that decide who *)
(* is let in, without uPA queries; every combination of those of the uPA   *)
(* queries, open to all; and both configured.  NSAs are alike, URLs too.   *)
(***************************************************************************)
EXTENDS Gateway, TLC

Configured(s, url, cert, key) ==
    s.dds_proxy_url = url /\ s.upa_client_cert = cert /\ s.upa_client_key = key

Open(s) == ~s.proxy_auth_enabled /\ ~s.mcp_enabled

MCConfigurations ==
    {s \in Settings :
        \/ Configured(s, FALSE, "unset", "unset")
        \/ /\ Open(s) /\ ~s.mcp_auth_enabled /\ ~s.mtls_header /\ s.oidc_required_groups = {}
        \/ /\ Configured(s, TRUE, "file", "file")
           /\ s.proxy_auth_enabled /\ s.mtls_header /\ s.oidc_required_groups = {"noc"}
           /\ ~s.mcp_enabled}

\* Nothing, the user and a group, a client certificate.
MCCarried == {NoHeaders,
    [NoHeaders EXCEPT !.user = TRUE, !.groups = {"noc"}],
    [NoHeaders EXCEPT !.mtls = TRUE]}

MCSymmetry == Permutations(Nsas) \union Permutations(Urls)
=============================================================================
