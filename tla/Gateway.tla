------------------------------- MODULE Gateway -------------------------------
(***************************************************************************)
(* The parts of the proxy that keep no reservations: the settings that it  *)
(* accepts or refuses to start with, who is let in (from the portal, over  *)
(* mTLS, through the MCP tools), and the queries of the uPAs, which read   *)
(* the DDS first.                                                          *)
(*                                                                         *)
(* A group header is the set of names that stand between its commas.       *)
(***************************************************************************)
EXTENDS Integers

CONSTANTS
    Configurations, \* the settings that the process may be started with
    Readers,        \* requests to the API that need the identity only, or to the callback endpoint
    Listers,        \* GET /providers
    Queriers,       \* GET /providers/{nsaId}/reservations
    Carried,        \* headers that the request of a tool call may carry, as fastmcp makes it
    Nsas,           \* the NSAs of the DDS, the aggregator excepted
    Urls, NoUrl,    \* provider URLs, and none
    MaxChanges      \* bound on how often the DDS documents change

Requests == Readers \union Listers \union Queriers

GroupNames == {"noc", "net ops"}

\* The settings that matter here.  The aggregator's certificate or its key is unset, an existing file
\* or a path without one.
Settings == [proxy_auth_enabled : BOOLEAN, mtls_header : BOOLEAN,
    oidc_required_groups : SUBSET GroupNames, mcp_enabled : BOOLEAN, mcp_auth_enabled : BOOLEAN,
    dds_proxy_url : BOOLEAN,
    upa_client_cert : {"unset", "file", "missing"}, upa_client_key : {"unset", "file", "missing"}]

\* What a request says of its sender: whether there is a user header and whether there is the header
\* of a verified client certificate, and the groups header, {} when there is none.
Headers == [user : BOOLEAN, groups : SUBSET GroupNames, mtls : BOOLEAN]
NoHeaders == [user |-> FALSE, groups |-> {}, mtls |-> FALSE]

ASSUME GatewayAssumption ==
    /\ Configurations \subseteq Settings /\ Carried \subseteq Headers
    /\ Readers \intersect Listers = {} /\ Readers \intersect Queriers = {} /\ Listers \intersect Queriers = {}
    /\ NoUrl \notin Urls /\ MaxChanges \in Nat

VARIABLES
    settings,   \* the environment of the process
    process,    \* whether it has started
    dds,        \* external: what the DDS lists, the aggregator's peers and every NSA's own document
    changes,    \* external: how often it has changed
    pc,         \* where each handler is
    caller,     \* who sent the last request of a reader, and over which route
    target,     \* the nsaId of a query
    provider,   \* the provider URL a query is sent to
    answer,     \* the status of the reply
    shown,      \* what GET /providers has shown, while the DDS is unchanged since
    advertised  \* the peers, with their URLs, that the DDS has listed since the request came

ddsVars == <<dds, changes>>
requestVars == <<pc, caller, target, provider, answer, advertised>>
vars == <<settings, process, ddsVars, requestVars, shown>>

\* A groups claim: a list, one text, or neither.
Claims == [shape : {"list", "text", "other"}, names : SUBSET GroupNames]
NoClaim == [shape |-> "other", names |-> {}]

\* An identity: whether there is an email address, and the groups claim; and what its request carries.
PortalUsers == [route : {"portal"}, email : BOOLEAN, carried : {NoHeaders},
    claim : {claim \in Claims : claim.shape = "list"}]
Machines == [route : {"machine"}, email : {FALSE}, carried : {NoHeaders}, claim : {NoClaim}]
ToolClients == [route : {"mcp"}, email : BOOLEAN, carried : Carried, claim : Claims]
Callers == PortalUsers \union Machines \union ToolClients
Nobody == [route |-> "machine", email |-> FALSE, carried |-> NoHeaders, claim |-> NoClaim]

Documents == [uPA : BOOLEAN, provider_url : Urls \union {NoUrl}]
Nothing == [known |-> FALSE, upas |-> {}]

\* 500 is none of the answers that the API has.
TypeOK ==
    /\ settings \in Configurations
    /\ process \in {"starting", "refused", "running"}
    /\ dds \in [peers_with : SUBSET Nsas, agents : [Nsas -> Documents]]
    /\ changes \in 0..MaxChanges
    /\ pc \in [Requests -> {"idle", "fetching", "asking"}]
    /\ caller \in [Readers -> Callers]
    /\ target \in [Requests -> Nsas \union {NoUrl}]
    /\ provider \in [Requests -> Urls \union {NoUrl}]
    /\ answer \in [Requests -> {"none", "200", "401", "403", "404", "502", "503"}]
    /\ shown \in [known : BOOLEAN, upas : SUBSET Nsas]
    /\ advertised \in [Requests -> SUBSET (Nsas \X Urls)]

Init ==
    /\ settings \in Configurations
    /\ process = "starting"
    /\ dds \in [peers_with : {Nsas}, agents : [Nsas -> [uPA : {TRUE}, provider_url : Urls]]]
    /\ changes = 0
    /\ pc = [r \in Requests |-> "idle"]
    /\ caller = [r \in Readers |-> Nobody]
    /\ target = [r \in Requests |-> NoUrl]
    /\ provider = [r \in Requests |-> NoUrl]
    /\ answer = [r \in Requests |-> "none"]
    /\ shown = Nothing
    /\ advertised = [r \in Requests |-> {}]

(***************************************************************************)
(* Startup.                                                                *)
(***************************************************************************)
\* certificate_file_must_exist
FilesExist == settings.upa_client_cert # "missing" /\ settings.upa_client_key # "missing"

\* _require_mcp_auth_when_proxy_auth_enabled
McpAuthorises ==
    ~ (settings.proxy_auth_enabled /\ settings.mcp_enabled /\ ~settings.mcp_auth_enabled)

\* Faulty variant: the certificate and its key only need each other.
UpaSettingsTogetherFaulty ==
    (settings.upa_client_cert # "unset") <=> (settings.upa_client_key # "unset")

\* _require_upa_settings_together
UpaSettingsTogether ==
    /\ settings.dds_proxy_url <=> settings.upa_client_cert # "unset"
    /\ settings.dds_proxy_url <=> settings.upa_client_key # "unset"

Valid == FilesExist /\ McpAuthorises /\ UpaSettingsTogether

Starts ==
    /\ process = "starting"
    /\ process' = IF Valid THEN "running" ELSE "refused"
    /\ UNCHANGED <<settings, ddsVars, requestVars, shown>>

\* create_upa_client: there is one when upa_queries_enabled.
UpaClient == settings.upa_client_cert # "unset"

(***************************************************************************)
(* Who is let in.                                                          *)
(***************************************************************************)
WordsOf(name) == IF name = "net ops" THEN {"net", "ops"} ELSE {name}

\* A header is split at its blanks as well, the setting is not: "net ops" is never matched.
ParseGroups(header) == UNION {WordsOf(name) : name \in header}
CheckGroups(words, required) == words \intersect required

VerifyMtls(headers) == settings.mtls_header /\ headers.mtls

\* get_authenticated_user.  "200" stands for being let in.
Judge(headers) ==
    LET required == settings.oidc_required_groups
    IN  IF ~settings.proxy_auth_enabled THEN "200"
        ELSE IF headers.user
             THEN IF required # {} /\ CheckGroups(ParseGroups(headers.groups), required) = {} THEN "403"
                  ELSE "200"
        ELSE IF VerifyMtls(headers) THEN "200" ELSE "401"

\* get_mtls_authenticated_callback
JudgeCallback(headers) == IF ~settings.proxy_auth_enabled \/ VerifyMtls(headers) THEN "200" ELSE "401"

\* A list is joined by commas, one text is taken as it is, and nothing is made of any other claim.
SerializeGroups(claim) == IF claim.shape = "other" THEN {} ELSE claim.names

\* Faulty variant: a groups header that the request carries is kept.
ForwardUserIdentityFaulty(c) ==
    IF settings.proxy_auth_enabled /\ settings.mcp_auth_enabled
    THEN [c.carried EXCEPT !.user = @ \/ c.email,
                           !.groups = IF @ = {} THEN SerializeGroups(c.claim) ELSE @]
    ELSE c.carried

\* _forward_user_identity.  The hook is installed when proxy_auth_enabled; fastmcp has then verified
\* the token.  A claim replaces the header that the request carries, a missing one leaves it.
ForwardUserIdentity(c) ==
    IF settings.proxy_auth_enabled /\ settings.mcp_auth_enabled
    THEN [c.carried EXCEPT !.user = @ \/ c.email,
                           !.groups = IF SerializeGroups(c.claim) = {} THEN @ ELSE SerializeGroups(c.claim)]
    ELSE c.carried

\* What oauth2-proxy (external) sets on the portal's route.
PortalHeaders(c) == [NoHeaders EXCEPT !.user = c.email, !.groups = c.claim.names]

HeadersOf(c) ==
    CASE c.route = "portal" -> PortalHeaders(c)
      [] c.route = "machine" -> [NoHeaders EXCEPT !.mtls = TRUE]
      [] c.route = "mcp" -> ForwardUserIdentity(c)

(***************************************************************************)
(* Requests come.                                                          *)
(***************************************************************************)
Comes(r) == process = "running" /\ pc[r] = "idle"

AnswersWith(r, status) ==
    /\ pc' = [pc EXCEPT ![r] = "idle"]
    /\ answer' = [answer EXCEPT ![r] = status]
    /\ target' = [target EXCEPT ![r] = NoUrl]
    /\ provider' = [provider EXCEPT ![r] = NoUrl]
    /\ advertised' = [advertised EXCEPT ![r] = {}]

\* The tools of the MCP server are the two GETs of the reservations.
Read(r, c) ==
    /\ r \in Readers /\ Comes(r)
    /\ c.route = "mcp" => settings.mcp_enabled
    /\ caller' = [caller EXCEPT ![r] = c]
    /\ AnswersWith(r, Judge(HeadersOf(c)))
    /\ UNCHANGED <<settings, process, ddsVars, shown>>

Callback(r, c) ==
    /\ r \in Readers /\ Comes(r)
    /\ c.route # "mcp"
    /\ caller' = [caller EXCEPT ![r] = c]
    /\ AnswersWith(r, JudgeCallback(HeadersOf(c)))
    /\ UNCHANGED <<settings, process, ddsVars, shown>>

Peers(documents) ==
    {peer \in Nsas \X Urls :
        /\ peer[1] \in documents.peers_with
        /\ documents.agents[peer[1]] = [uPA |-> TRUE, provider_url |-> peer[2]]}

\* The identity is judged first, then the uPA client must be there, also for a list that does not use
\* it, then the DDS is read.  A failed assertion of _peered_upas would be answered with 500.
AsksProviders(r, c, n) ==
    /\ r \in Listers \union Queriers /\ Comes(r)
    /\ c.route # "mcp"
    /\ \/ Judge(HeadersOf(c)) # "200" /\ AnswersWith(r, Judge(HeadersOf(c)))
       \/ /\ Judge(HeadersOf(c)) = "200"
          /\ ~UpaClient
          /\ AnswersWith(r, "503")
       \/ /\ Judge(HeadersOf(c)) = "200"
          /\ UpaClient
          /\ IF settings.dds_proxy_url
             THEN /\ pc' = [pc EXCEPT ![r] = "fetching"]
                  /\ target' = [target EXCEPT ![r] = IF r \in Queriers THEN n ELSE NoUrl]
                  /\ answer' = [answer EXCEPT ![r] = "none"]
                  /\ advertised' = [advertised EXCEPT ![r] = Peers(dds)]
                  /\ UNCHANGED provider
             ELSE AnswersWith(r, "500")
    /\ UNCHANGED <<settings, process, ddsVars, caller, shown>>

(***************************************************************************)
(* The DDS, read by every request anew, and the uPA.                       *)
(***************************************************************************)
\* Faulty variant: every uPA with a provider URL.
PeeredUpasFaulty(documents) ==
    {n \in Nsas : documents.agents[n].uPA /\ documents.agents[n].provider_url # NoUrl}

\* peered_upas.  peers_with is empty when the aggregator's own document is missing.
PeeredUpas(documents) ==
    {n \in Nsas :
        /\ n \in documents.peers_with
        /\ documents.agents[n].uPA
        /\ documents.agents[n].provider_url # NoUrl}

DdsFails(r) ==
    /\ pc[r] = "fetching"
    /\ AnswersWith(r, "502")
    /\ UNCHANGED <<settings, process, ddsVars, caller, shown>>

\* Faulty variant: every uPA among the peers, also one without a provider URL.
ShowsProvidersFaulty(r) ==
    /\ r \in Listers /\ pc[r] = "fetching"
    /\ shown' = [known |-> TRUE, upas |-> {n \in dds.peers_with : dds.agents[n].uPA}]
    /\ AnswersWith(r, "200")
    /\ UNCHANGED <<settings, process, ddsVars, caller>>

ShowsProviders(r) ==
    /\ r \in Listers /\ pc[r] = "fetching"
    /\ shown' = [known |-> TRUE, upas |-> PeeredUpas(dds)]
    /\ AnswersWith(r, "200")
    /\ UNCHANGED <<settings, process, ddsVars, caller>>

FindsProvider(r) ==
    /\ r \in Queriers /\ pc[r] = "fetching"
    /\ \/ target[r] \notin PeeredUpas(dds) /\ AnswersWith(r, "404")
       \/ /\ target[r] \in PeeredUpas(dds)
          /\ provider' = [provider EXCEPT ![r] = dds.agents[target[r]].provider_url]
          /\ pc' = [pc EXCEPT ![r] = "asking"]
          /\ UNCHANGED <<target, answer, advertised>>
    /\ UNCHANGED <<settings, process, ddsVars, caller, shown>>

\* The uPA answers, or cannot be reached, or answers what cannot be parsed.
UpaAnswers(r) ==
    /\ pc[r] = "asking"
    /\ \E status \in {"200", "502"} : AnswersWith(r, status)
    /\ UNCHANGED <<settings, process, ddsVars, caller, shown>>

\* The documents of the DDS (external) change, also between its answer and the query of the uPA.
\* Without its URL nobody reads them.
DdsChanges ==
    /\ settings.dds_proxy_url
    /\ changes < MaxChanges /\ changes' = changes + 1
    /\ \/ \E n \in Nsas : dds' = [dds EXCEPT !.peers_with =
              IF n \in dds.peers_with THEN dds.peers_with \ {n} ELSE dds.peers_with \union {n}]
       \/ \E n \in Nsas, document \in Documents : dds' = [dds EXCEPT !.agents[n] = document]
    /\ shown' = Nothing
    /\ advertised' = [r \in Requests |->
          IF pc[r] = "idle" THEN {} ELSE advertised[r] \union Peers(dds')]
    /\ UNCHANGED <<settings, process, pc, caller, target, provider, answer>>

Next ==
    \/ Starts
    \/ \E r \in Requests, c \in Callers : Read(r, c) \/ Callback(r, c)
    \/ \E r \in Requests, c \in Callers, n \in Nsas : AsksProviders(r, c, n)
    \/ \E r \in Requests : DdsFails(r) \/ ShowsProviders(r) \/ FindsProvider(r) \/ UpaAnswers(r)
    \/ DdsChanges

Spec == Init /\ [][Next]_vars

(***************************************************************************)
(* Properties.                                                             *)
(***************************************************************************)
\* README.md:676-678: the uPAs that GET /providers shows "are exactly the uPAs GET /providers/{nsaId}/
\* reservations will query".  While the DDS does not change, a query answers 404 for no other ones,
\* is sent to no other ones, and is never told that uPA queries are not configured.
ListIsExact ==
    [][\A q \in Queriers : shown.known =>
          /\ pc[q] = "fetching" /\ pc'[q] = "asking" => target[q] \in shown.upas
          /\ pc[q] = "fetching" /\ answer'[q] = "404" => target[q] \notin shown.upas
          /\ answer'[q] # "503"]_vars

\* README.md:702: only a peer of the aggregator is queried, at a provider URL that its document had
\* while the request was handled, never at one that the DDS listed before.
OnlyPeersAreAsked ==
    \A q \in Queriers : pc[q] = "asking" => <<target[q], provider[q]>> \in advertised[q]

\* README.md:372: the group check "enforces the same policy for both surfaces".  A tool call gets the
\* answer that the portal would give the same user, with a groups claim that is a list and with one
\* that is a text: whenever the request carries no identity of its own, and whatever it carries
\* when the token has an email address and names groups.
Forwarded(c) ==
    /\ c.claim.shape # "other"
    /\ c.carried = NoHeaders \/ (c.email /\ c.claim.names # {})

SamePolicy ==
    \A r \in Readers : answer[r] # "none" /\ caller[r].route = "mcp" /\ Forwarded(caller[r]) =>
        answer[r] = Judge(PortalHeaders(caller[r]))
=============================================================================
