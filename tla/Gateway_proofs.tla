---------------------------- MODULE Gateway_proofs ----------------------------
(***************************************************************************)
(* What holds of Gateway for any settings, any number of requests and      *)
(* NSAs, and however often the documents of the DDS change.                *)
(***************************************************************************)
EXTENDS Gateway, TLAPS

(***************************************************************************)
(* The settings.                                                           *)
(***************************************************************************)
\* What a process that runs has had validated.
Validated == process = "running" => Valid

\* A uPA client is only there with a DDS proxy: _peered_upas never fails its assertion.
LEMMA ClientHasDds ==
    ASSUME Valid
    PROVE  UpaClient <=> settings.dds_proxy_url
BY DEF Valid, UpaSettingsTogether, UpaClient

\* Where the policy is enforced and the tools are offered, the identity of their callers is forwarded
\* and nothing that the policy looks at is left of what the request carried: a process that would
\* forward none does not start.
LEMMA ToolsForwardIdentity ==
    ASSUME Valid, settings.mcp_enabled, settings.proxy_auth_enabled,
           NEW c \in Callers, c.route = "mcp", Forwarded(c)
    PROVE  /\ ForwardUserIdentity(c).user = c.email
           /\ ForwardUserIdentity(c).groups = c.claim.names
           /\ c.email \/ ForwardUserIdentity(c).mtls = FALSE
<1>1. c.carried \in Headers /\ c.claim \in Claims /\ c.email \in BOOLEAN
  <2>1. c \in ToolClients
    BY DEF Callers, PortalUsers, Machines
  <2> QED
    BY <2>1, GatewayAssumption DEF ToolClients
<1>2. SerializeGroups(c.claim) = c.claim.names
  BY DEF Forwarded, SerializeGroups
<1>3. ForwardUserIdentity(c) =
         [c.carried EXCEPT !.user = @ \/ c.email, !.groups = IF c.claim.names = {} THEN @ ELSE c.claim.names]
  BY <1>2 DEF Valid, McpAuthorises, ForwardUserIdentity
<1>4. CASE c.carried = NoHeaders
  BY <1>1, <1>3, <1>4 DEF NoHeaders
<1>5. CASE c.email /\ c.claim.names # {}
  BY <1>1, <1>3, <1>5 DEF Headers
<1> QED
  BY <1>4, <1>5 DEF Forwarded

LEMMA SameJudgement ==
    ASSUME Valid, settings.mcp_enabled, NEW c \in Callers, c.route = "mcp", Forwarded(c)
    PROVE  Judge(HeadersOf(c)) = Judge(PortalHeaders(c))
<1>1. HeadersOf(c) = ForwardUserIdentity(c)
  BY DEF HeadersOf
<1>2. CASE settings.proxy_auth_enabled
  <2>1. /\ PortalHeaders(c).user = c.email
        /\ PortalHeaders(c).groups = c.claim.names
        /\ PortalHeaders(c).mtls = FALSE
    BY DEF PortalHeaders, NoHeaders
  <2> QED
    BY <1>1, <1>2, <2>1, ToolsForwardIdentity DEF Judge, VerifyMtls
<1>3. CASE ~settings.proxy_auth_enabled
  BY <1>3 DEF Judge
<1> QED
  BY <1>2, <1>3

(***************************************************************************)
(* The answers.                                                            *)
(***************************************************************************)
LEMMA Judgements ==
    ASSUME NEW headers
    PROVE  /\ Judge(headers) \in {"200", "401", "403"}
           /\ JudgeCallback(headers) \in {"200", "401"}
BY DEF Judge, JudgeCallback

LEMMA RequestKinds ==
    /\ \A r \in Readers : r \in Requests /\ r \notin Listers /\ r \notin Queriers
    /\ \A r \in Listers \union Queriers : r \in Requests /\ r \notin Readers
    /\ \A r \in Requests : r \in Readers \/ r \in Listers \/ r \in Queriers
BY GatewayAssumption DEF Requests

LEMMA PeersTyped ==
    ASSUME NEW documents
    PROVE  Peers(documents) \subseteq Nsas \X Urls
BY DEF Peers

\* A peered uPA is asked where its document says.
LEMMA PeeredIsPeer ==
    ASSUME NEW documents \in [peers_with : SUBSET Nsas, agents : [Nsas -> Documents]],
           NEW n \in PeeredUpas(documents)
    PROVE  <<n, documents.agents[n].provider_url>> \in Peers(documents)
<1> DEFINE document == documents.agents[n]
<1>1. n \in Nsas /\ n \in documents.peers_with /\ document \in Documents
  BY DEF PeeredUpas
<1>2. document.uPA = TRUE /\ document.provider_url \in Urls
  BY <1>1 DEF PeeredUpas, Documents
<1>3. document = [uPA |-> TRUE, provider_url |-> document.provider_url]
  BY <1>1, <1>2 DEF Documents
<1> QED
  BY <1>1, <1>2, <1>3 DEF Peers

(***************************************************************************)
(* The invariant.                                                          *)
(***************************************************************************)
\* Who is somewhere but idle: only a request for providers, and only with a uPA client; it has no
\* answer yet.
Busy == \A r \in Requests : pc[r] # "idle" =>
    /\ r \in Listers \union Queriers
    /\ process = "running" /\ UpaClient
    /\ answer[r] = "none"
    /\ pc[r] = "asking" => r \in Queriers

\* What a request in progress has seen of the DDS includes what the DDS lists now, and the peer that
\* it asks.
Seen == \A r \in Requests :
    /\ pc[r] # "idle" => Peers(dds) \subseteq advertised[r]
    /\ pc[r] = "fetching" /\ r \in Queriers => target[r] \in Nsas
    /\ pc[r] = "asking" => <<target[r], provider[r]>> \in advertised[r]

\* The answers that were given are those of the policy, and 503 is never one of a process that has a
\* uPA client.
Judged ==
    /\ process # "running" => \A r \in Requests : pc[r] = "idle" /\ answer[r] = "none"
    /\ \A r \in Requests : answer[r] = "503" => ~UpaClient
    /\ SamePolicy

\* What GET /providers has shown is still what the DDS lists.
Shown == shown.known =>
    /\ process = "running" /\ UpaClient
    /\ shown.upas = PeeredUpas(dds)

IInv == TypeOK /\ Validated /\ Busy /\ Seen /\ Judged /\ Shown

LEMMA InitInv == Init => IInv
<1> SUFFICES ASSUME Init PROVE IInv
  OBVIOUS
<1> USE DEF Init
<1>1. dds \in [peers_with : SUBSET Nsas, agents : [Nsas -> Documents]]
  BY DEF Documents
<1>2. TypeOK
  BY <1>1, GatewayAssumption DEF TypeOK, Callers, Machines, Nobody, Nothing
<1>3. SamePolicy
  BY RequestKinds DEF SamePolicy
<1> QED
  BY <1>2, <1>3 DEF IInv, Validated, Busy, Seen, Judged, Shown, Nothing

\* A reply leaves the requests typed and ends the one that is answered.
LEMMA Answered ==
    ASSUME IInv, NEW r \in Requests, NEW status, AnswersWith(r, status),
           status \in {"200", "401", "403", "404", "502", "503"},
           status = "503" => ~UpaClient,
           process = "running",
           UNCHANGED <<settings, process, dds, changes>>,
           caller' \in [Readers -> Callers],
           r \in Readers /\ caller'[r].route = "mcp" /\ Forwarded(caller'[r]) =>
              status = Judge(PortalHeaders(caller'[r])),
           \A q \in Readers : q # r => caller'[q] = caller[q],
           shown' = shown \/ (UpaClient /\ shown' = [known |-> TRUE, upas |-> PeeredUpas(dds)])
    PROVE  IInv'
<1> USE DEF IInv, AnswersWith
<1>1. UpaClient' = UpaClient /\ Valid' = Valid
  BY DEF UpaClient, Valid, FilesExist, McpAuthorises, UpaSettingsTogether
<1>2. shown' \in [known : BOOLEAN, upas : SUBSET Nsas]
  <2>1. PeeredUpas(dds) \in SUBSET Nsas
    BY DEF PeeredUpas
  <2>2. CASE shown' = shown
    BY <2>2 DEF TypeOK
  <2>3. CASE shown' = [known |-> TRUE, upas |-> PeeredUpas(dds)]
    BY <2>1, <2>3
  <2> QED
    BY <2>2, <2>3
<1>3. TypeOK'
  BY <1>2 DEF TypeOK
<1>4. Busy'
  BY <1>1 DEF Busy, TypeOK
<1>5. Seen'
  BY DEF Seen, TypeOK
<1>6. SamePolicy'
  <2> SUFFICES ASSUME NEW q \in Readers, answer'[q] # "none", caller'[q].route = "mcp",
                      Forwarded(caller'[q])
               PROVE  answer'[q] = Judge(PortalHeaders(caller[q]))'
    BY DEF SamePolicy, Forwarded
  <2>1. Judge(PortalHeaders(caller[q]))' = Judge(PortalHeaders(caller'[q]))
    BY DEF Judge, PortalHeaders, VerifyMtls
  <2>2. q \in Requests
    BY RequestKinds
  <2>3. CASE q = r
    BY <2>1, <2>3 DEF TypeOK
  <2>4. CASE q # r
    BY <2>1, <2>2, <2>4 DEF TypeOK, Judged, SamePolicy
  <2> QED
    BY <2>3, <2>4
<1>7. Judged'
  BY <1>1, <1>6 DEF Judged, TypeOK
<1>8. Shown'
  BY <1>1 DEF Shown
<1> QED
  BY <1>1, <1>3, <1>4, <1>5, <1>7, <1>8 DEF Validated

\* What the step of a list or a query does when it comes.
LEMMA StepAsks ==
    ASSUME IInv, NEW r \in Requests, NEW c \in Callers, NEW n \in Nsas, AsksProviders(r, c, n)
    PROVE  IInv'
<1> USE DEF IInv
<1>0. /\ r \in Listers \union Queriers /\ r \notin Readers
      /\ process = "running" /\ pc[r] = "idle"
      /\ UNCHANGED <<settings, process, dds, changes, caller, shown>>
  BY RequestKinds DEF AsksProviders, Comes, ddsVars
<1>1. caller' \in [Readers -> Callers]
  BY <1>0 DEF TypeOK
<1>2. CASE AnswersWith(r, Judge(HeadersOf(c)))
  BY <1>0, <1>1, <1>2, Judgements, Answered
<1>3. CASE ~UpaClient /\ AnswersWith(r, "503")
  BY <1>0, <1>1, <1>3, Answered
<1>4. CASE /\ UpaClient /\ settings.dds_proxy_url
           /\ pc' = [pc EXCEPT ![r] = "fetching"]
           /\ target' = [target EXCEPT ![r] = IF r \in Queriers THEN n ELSE NoUrl]
           /\ answer' = [answer EXCEPT ![r] = "none"]
           /\ advertised' = [advertised EXCEPT ![r] = Peers(dds)]
           /\ UNCHANGED provider
  <2> USE <1>0, <1>4
  <2>1. UpaClient' = UpaClient /\ Valid' = Valid
    BY DEF UpaClient, Valid, FilesExist, McpAuthorises, UpaSettingsTogether
  <2>2. Peers(dds) \in SUBSET (Nsas \X Urls) /\ Peers(dds)' = Peers(dds)
    BY PeersTyped DEF Peers
  <2>3. TypeOK'
    BY <2>2 DEF TypeOK
  <2>4. Busy'
    BY <2>1 DEF Busy, TypeOK
  <2>5. Seen'
    BY <2>2 DEF Seen, TypeOK
  <2>6. SamePolicy'
    <3>1. ASSUME NEW q \in Readers PROVE answer'[q] = answer[q]
      BY RequestKinds DEF TypeOK
    <3>2. caller' = caller /\ settings' = settings
      OBVIOUS
    <3>3. ASSUME NEW q \in Readers
          PROVE  Judge(PortalHeaders(caller[q]))' = Judge(PortalHeaders(caller[q]))
      BY <3>2 DEF Judge, PortalHeaders, VerifyMtls
    <3> QED
      BY <3>1, <3>2, <3>3 DEF Judged, SamePolicy, Forwarded
  <2>7. Judged'
    BY <2>1, <2>6 DEF Judged, TypeOK
  <2>8. Shown'
    BY <2>1 DEF Shown, PeeredUpas
  <2> QED
    BY <2>1, <2>3, <2>4, <2>5, <2>7, <2>8 DEF Validated
<1>5. settings.dds_proxy_url \/ ~UpaClient
  BY <1>0, ClientHasDds DEF Validated
<1> QED
  BY <1>2, <1>3, <1>4, <1>5 DEF AsksProviders

LEMMA StepReads ==
    ASSUME IInv, NEW r \in Requests, NEW c \in Callers, Read(r, c) \/ Callback(r, c)
    PROVE  IInv'
<1> USE DEF IInv
<1>1. /\ r \in Readers /\ process = "running"
      /\ caller' = [caller EXCEPT ![r] = c]
      /\ UNCHANGED <<settings, process, dds, changes, shown>>
  BY DEF Read, Callback, Comes, ddsVars
<1>2. caller' \in [Readers -> Callers] /\ caller'[r] = c /\ \A q \in Readers : q # r => caller'[q] = caller[q]
  BY <1>1 DEF TypeOK
<1>3. CASE Read(r, c)
  <2>1. AnswersWith(r, Judge(HeadersOf(c)))
    BY <1>3 DEF Read
  <2>2. c.route = "mcp" /\ Forwarded(c) => Judge(HeadersOf(c)) = Judge(PortalHeaders(c))
    BY <1>1, <1>3, SameJudgement DEF Read, Validated
  <2>3. Judge(HeadersOf(c)) \in {"200", "401", "403"}
    BY Judgements
  <2> QED
    BY <1>1, <1>2, <2>1, <2>2, <2>3, Answered
<1>4. CASE Callback(r, c)
  <2>1. AnswersWith(r, JudgeCallback(HeadersOf(c))) /\ c.route # "mcp"
    BY <1>4 DEF Callback
  <2>2. JudgeCallback(HeadersOf(c)) \in {"200", "401"}
    BY Judgements
  <2> QED
    BY <1>1, <1>2, <2>1, <2>2, Answered
<1> QED
  BY <1>3, <1>4

LEMMA StepProgress ==
    ASSUME IInv, NEW r \in Requests,
           DdsFails(r) \/ ShowsProviders(r) \/ FindsProvider(r) \/ UpaAnswers(r)
    PROVE  IInv'
<1> USE DEF IInv
<1>1. /\ pc[r] # "idle" /\ r \in Listers \union Queriers /\ r \notin Readers
      /\ process = "running" /\ UpaClient
      /\ UNCHANGED <<settings, process, dds, changes, caller>>
  BY RequestKinds DEF DdsFails, ShowsProviders, FindsProvider, UpaAnswers, Busy, ddsVars
<1>2. caller' \in [Readers -> Callers]
  BY <1>1 DEF TypeOK
<1>3. ASSUME NEW status \in {"200", "404", "502"}, AnswersWith(r, status),
             shown' = shown \/ (UpaClient /\ shown' = [known |-> TRUE, upas |-> PeeredUpas(dds)])
      PROVE  IInv'
  BY <1>1, <1>2, <1>3, Answered
<1>4. CASE DdsFails(r) \/ ShowsProviders(r) \/ UpaAnswers(r)
  BY <1>1, <1>3, <1>4 DEF DdsFails, ShowsProviders, UpaAnswers
<1>5. CASE FindsProvider(r)
  <2>1. CASE AnswersWith(r, "404")
    BY <1>3, <1>5, <2>1 DEF FindsProvider
  <2>2. CASE /\ target[r] \in PeeredUpas(dds)
             /\ provider' = [provider EXCEPT ![r] = dds.agents[target[r]].provider_url]
             /\ pc' = [pc EXCEPT ![r] = "asking"]
             /\ UNCHANGED <<target, answer, advertised>>
    <3> USE <1>1, <2>2
    <3>0. shown' = shown /\ r \in Queriers /\ pc[r] = "fetching"
      BY <1>5 DEF FindsProvider
    <3>1. UpaClient' = UpaClient /\ Valid' = Valid /\ Peers(dds)' = Peers(dds)
      BY DEF UpaClient, Valid, FilesExist, McpAuthorises, UpaSettingsTogether, Peers
    <3>2. <<target[r], dds.agents[target[r]].provider_url>> \in Peers(dds)
      BY PeeredIsPeer DEF TypeOK
    <3>3. dds.agents[target[r]].provider_url \in Urls
      BY <3>2, PeersTyped
    <3>4. TypeOK'
      BY <3>0, <3>3 DEF TypeOK
    <3>5. Busy'
      BY <3>0, <3>1 DEF Busy, TypeOK
    <3>6. Seen'
      <4>1. Peers(dds) \subseteq advertised[r]
        BY DEF Seen
      <4>2. <<target'[r], provider'[r]>> \in advertised'[r]
        BY <3>2, <4>1 DEF TypeOK
      <4> QED
        BY <3>1, <4>2 DEF Seen, TypeOK
    <3>7. Judged'
      BY <3>1 DEF Judged, TypeOK, SamePolicy, Forwarded, Judge, PortalHeaders, VerifyMtls
    <3>8. Shown'
      BY <3>0, <3>1 DEF Shown, PeeredUpas
    <3> QED
      BY <3>1, <3>4, <3>5, <3>6, <3>7, <3>8 DEF Validated
  <2> QED
    BY <1>5, <2>1, <2>2 DEF FindsProvider
<1> QED
  BY <1>4, <1>5

LEMMA StepDds ==
    ASSUME IInv, DdsChanges
    PROVE  IInv'
<1> USE DEF IInv, DdsChanges
<1>1. UNCHANGED <<settings, process, pc, caller, target, provider, answer>>
  OBVIOUS
<1>2. UpaClient' = UpaClient /\ Valid' = Valid
  BY <1>1 DEF UpaClient, Valid, FilesExist, McpAuthorises, UpaSettingsTogether
<1>3. dds' \in [peers_with : SUBSET Nsas, agents : [Nsas -> Documents]]
  BY DEF TypeOK
<1>4. changes' \in 0..MaxChanges /\ shown' = Nothing
  BY GatewayAssumption DEF TypeOK
<1>5. Peers(dds') \subseteq Nsas \X Urls /\ Peers(dds)' = Peers(dds')
  BY PeersTyped DEF Peers
<1>6. /\ advertised' \in [Requests -> SUBSET (Nsas \X Urls)]
      /\ \A r \in Requests : pc[r] # "idle" => advertised'[r] = advertised[r] \union Peers(dds')
  BY <1>5 DEF TypeOK
<1>7. TypeOK'
  BY <1>1, <1>3, <1>4, <1>6 DEF TypeOK, Nothing
<1>8. Busy'
  BY <1>1, <1>2 DEF Busy
<1>9. Seen'
  BY <1>1, <1>5, <1>6 DEF Seen
<1>10. Judged'
  BY <1>1, <1>2 DEF Judged, SamePolicy, Forwarded, Judge, PortalHeaders, VerifyMtls
<1>11. Shown'
  BY <1>4 DEF Shown, Nothing
<1> QED
  BY <1>1, <1>2, <1>7, <1>8, <1>9, <1>10, <1>11 DEF Validated

LEMMA StepStarts ==
    ASSUME IInv, Starts
    PROVE  IInv'
<1> USE DEF IInv
<1>1. /\ process = "starting" /\ process' = IF Valid THEN "running" ELSE "refused"
      /\ UNCHANGED <<settings, dds, changes, pc, caller, target, provider, answer, advertised, shown>>
  BY DEF Starts, ddsVars, requestVars
<1>2. UpaClient' = UpaClient /\ Valid' = Valid
  BY <1>1 DEF UpaClient, Valid, FilesExist, McpAuthorises, UpaSettingsTogether
<1>3. \A r \in Requests : pc[r] = "idle" /\ answer[r] = "none"
  BY <1>1 DEF Judged
<1>4. TypeOK'
  BY <1>1 DEF TypeOK
<1>5. Seen'
  BY <1>1, <1>3 DEF Seen
<1>6. SamePolicy'
  BY <1>1, <1>3, RequestKinds DEF SamePolicy
<1>7. Shown' /\ Busy'
  BY <1>1, <1>3 DEF Shown, Busy
<1> QED
  BY <1>1, <1>2, <1>3, <1>4, <1>5, <1>6, <1>7 DEF Validated, Judged

LEMMA StepInv == IInv /\ [Next]_vars => IInv'
<1> SUFFICES ASSUME IInv, [Next]_vars PROVE IInv'
  OBVIOUS
<1>1. CASE UNCHANGED vars
  <2>1. /\ UNCHANGED <<settings, process, dds, changes, pc, caller, target, provider, answer>>
        /\ UNCHANGED <<advertised, shown>>
    BY <1>1 DEF vars, ddsVars, requestVars
  <2> QED
    BY <2>1 DEF IInv, TypeOK, Validated, Valid, FilesExist, McpAuthorises, UpaSettingsTogether, UpaClient,
                Busy, Seen, Peers, Judged, SamePolicy, Forwarded, Judge, PortalHeaders, VerifyMtls, Shown,
                PeeredUpas
<1>2. CASE Next
  BY <1>2, StepStarts, StepReads, StepAsks, StepProgress, StepDds DEF Next
<1> QED
  BY <1>1, <1>2

\* Types: no request is ever answered with 500, the failed assertion of _peered_upas.
THEOREM TypeCorrect == Spec => []TypeOK
<1>1. IInv => TypeOK
  BY DEF IInv
<1> QED
  BY <1>1, InitInv, StepInv, PTL DEF Spec

\* Only a peer of the aggregator is queried, at a provider URL that its document had while the request
\* was handled (peered_upas, _query_upa), however often the documents change in between.
THEOREM AsksPeersOnly == Spec => []OnlyPeersAreAsked
<1>1. IInv => OnlyPeersAreAsked
  BY RequestKinds DEF IInv, Seen, OnlyPeersAreAsked
<1> QED
  BY <1>1, InitInv, StepInv, PTL DEF Spec

\* The tools of the MCP server let in whom the portal lets in (_forward_user_identity,
\* get_authenticated_user), with any settings that the process starts with: a token with an email
\* address and groups, whatever its request carries, and any user whose request carries nothing.
THEOREM OnePolicy == Spec => []SamePolicy
<1>1. IInv => SamePolicy
  BY DEF IInv, Judged
<1> QED
  BY <1>1, InitInv, StepInv, PTL DEF Spec

(***************************************************************************)
(* What GET /providers shows, step by step.                                *)
(***************************************************************************)
\* The action that ListIsExact says every step is.
ExactStep == \A q \in Queriers : shown.known =>
    /\ pc[q] = "fetching" /\ pc'[q] = "asking" => target[q] \in shown.upas
    /\ pc[q] = "fetching" /\ answer'[q] = "404" => target[q] \notin shown.upas
    /\ answer'[q] # "503"

LEMMA ExactNext == IInv /\ IInv' /\ [Next]_vars => ExactStep
<1> SUFFICES ASSUME IInv, IInv', [Next]_vars, NEW q \in Queriers, shown.known
             PROVE  /\ pc[q] = "fetching" /\ pc'[q] = "asking" => target[q] \in shown.upas
                    /\ pc[q] = "fetching" /\ answer'[q] = "404" => target[q] \notin shown.upas
                    /\ answer'[q] # "503"
  BY DEF ExactStep
<1>0. q \in Requests
  BY RequestKinds
<1>1. shown.upas = PeeredUpas(dds) /\ UpaClient
  BY DEF IInv, Shown
<1>2. settings' = settings /\ answer'[q] # "503"
  <2>1. settings' = settings
    BY DEF Next, Starts, Read, Callback, AsksProviders, DdsFails, ShowsProviders, FindsProvider, UpaAnswers,
           DdsChanges, vars
  <2> QED
    BY <1>0, <1>1, <2>1 DEF IInv, Judged, UpaClient
<1>3. ASSUME pc[q] = "fetching" PROVE answer[q] # "404" /\ pc[q] # "asking"
  BY <1>0, <1>3 DEF IInv, Busy
<1>4. CASE UNCHANGED <<pc, answer>>
  BY <1>2, <1>3, <1>4
<1>5. ASSUME NEW r \in Requests, r # q, NEW where, NEW status,
             pc' = [pc EXCEPT ![r] = where], answer' = answer \/ answer' = [answer EXCEPT ![r] = status]
      PROVE  UNCHANGED <<pc[q], answer[q]>>
  BY <1>0, <1>5 DEF IInv, TypeOK
<1>6. ASSUME NEW r \in Requests, r # q, NEW status, AnswersWith(r, status)
      PROVE  UNCHANGED <<pc[q], answer[q]>>
  BY <1>5, <1>6 DEF AnswersWith
<1>7. ASSUME NEW r \in Requests, NEW c \in Callers, Read(r, c) \/ Callback(r, c)
      PROVE  UNCHANGED <<pc[q], answer[q]>>
  BY <1>6, <1>7, RequestKinds DEF Read, Callback
<1>8. ASSUME NEW r \in Requests, NEW c \in Callers, NEW n \in Nsas, AsksProviders(r, c, n)
      PROVE  pc[q] = "idle" \/ UNCHANGED <<pc[q], answer[q]>>
  <2>1. CASE r = q
    BY <1>8, <2>1 DEF AsksProviders, Comes
  <2>2. CASE r # q
    BY <1>5, <1>6, <1>8, <2>2 DEF AsksProviders
  <2> QED
    BY <2>1, <2>2
<1>9. ASSUME NEW r \in Requests, DdsFails(r) \/ ShowsProviders(r) \/ UpaAnswers(r)
      PROVE  \/ UNCHANGED <<pc[q], answer[q]>> \/ pc[q] = "asking"
             \/ pc'[q] # "asking" /\ answer'[q] # "404"
  <2>1. CASE r = q
    BY <1>0, <1>9, <2>1, RequestKinds DEF DdsFails, ShowsProviders, UpaAnswers, AnswersWith, IInv, TypeOK
  <2>2. CASE r # q
    BY <1>6, <1>9, <2>2 DEF DdsFails, ShowsProviders, UpaAnswers
  <2> QED
    BY <2>1, <2>2
<1>10. ASSUME NEW r \in Requests, FindsProvider(r)
       PROVE  \/ UNCHANGED <<pc[q], answer[q]>>
              \/ target[q] \in PeeredUpas(dds) /\ answer'[q] # "404"
              \/ target[q] \notin PeeredUpas(dds) /\ pc'[q] # "asking"
  <2>1. CASE r = q /\ AnswersWith(r, "404")
    BY <1>0, <1>10, <2>1 DEF FindsProvider, AnswersWith, IInv, TypeOK
  <2>2. CASE r = q /\ ~AnswersWith(r, "404")
    BY <1>0, <1>3, <1>10, <2>2 DEF FindsProvider
  <2>3. CASE r # q
    BY <1>5, <1>6, <1>10, <2>3 DEF FindsProvider
  <2> QED
    BY <2>1, <2>2, <2>3
<1>11. CASE Starts \/ DdsChanges \/ UNCHANGED vars
  BY <1>2, <1>3, <1>11 DEF Starts, DdsChanges, vars, requestVars
<1> QED
  BY <1>1, <1>2, <1>3, <1>7, <1>8, <1>9, <1>10, <1>11 DEF Next

\* While the DDS does not change, a query is sent to a uPA that GET /providers showed, answers 404
\* for no such one, and is never told that uPA queries are not configured (peered_upas, _peered_upas).
THEOREM ListExact == Spec => ListIsExact
BY InitInv, StepInv, ExactNext, PTL DEF Spec, ListIsExact, ExactStep
=============================================================================
