------------------------------ MODULE Aggregator ------------------------------
(***************************************************************************)
(* The environment of the proxy on its southbound side, as the proxy's     *)
(* code uses it: the NSI aggregator's record of one committed connection   *)
(* and the messages between the two.  The aggregator is not part of the    *)
(* repository; everything here is external.                                *)
(*                                                                         *)
(* Time is logical.  provAt and relAt number the provisionConfirmed and    *)
(* releaseConfirmed results of the connection's history (0: none yet);     *)
(* upAt is the number of the provisionConfirmed result after which the     *)
(* data plane was last reported active.  sla.prov and sla.rel number the   *)
(* last result whose DATAPLANE_TIMEOUT has passed on the clock.            *)
(*                                                                         *)
(* A message is the answer to a request (to, kind) or a notification about *)
(* the connection (kind, at).  Messages wait in net until the proxy's      *)
(* callback endpoint handles them, in any order; one that is lost is one   *)
(* that stays there for ever.                                              *)
(***************************************************************************)
EXTENDS StateMapping

CONSTANTS
    Provisions, Releases, Terminates,   \* the operations that requesters may ask for
    NoRequest,                          \* the "to" of a notification
    Faults                              \* what may go wrong; each name is a guard below

Operations == Provisions \union Releases \union Terminates

FaultNames == {"drop", "errorEvent", "forcedEnd", "unexpected", "forget", "postFails",
    "garbled", "queryFails", "crash"}

ASSUME OperationsAssumption ==
    /\ Provisions \intersect Releases = {}
    /\ Provisions \intersect Terminates = {}
    /\ Releases \intersect Terminates = {}
    /\ NoRequest \notin Operations

ASSUME FaultsAssumption == Faults \subseteq FaultNames

VARIABLES
    agg,        \* the aggregator's record of the connection
    sla,        \* which results are older than DATAPLANE_TIMEOUT
    requests,   \* operations posted to the aggregator, not handled yet
    acked,      \* operations it has accepted with an Acknowledgment
    accepted,   \* accepted operations it has not answered yet
    net         \* answers and notifications on their way to the callback endpoint

aggVars == <<agg, sla, requests, acked, accepted, net>>

AggRecords == [lifecycle : LifecycleStates \union {"Unknown"}, provision : ProvisionStates,
    active : BOOLEAN, errors : BOOLEAN, provAt : Nat, relAt : Nat, upAt : Nat]

Messages ==
    [to : Operations, kind : {"confirmed", "unexpected"}, at : {0}]
        \union [to : {NoRequest}, kind : {"up", "down", "error"}, at : Nat]

AggTypeOK ==
    /\ agg \in AggRecords
    /\ sla \in [prov : Nat, rel : Nat]
    /\ requests \subseteq Operations
    /\ acked \subseteq Operations
    /\ accepted \subseteq Operations
    /\ net \subseteq Messages

Answer(r, kind) == [to |-> r, kind |-> kind, at |-> 0]
Notification(kind, at) == [to |-> NoRequest, kind |-> kind, at |-> at]

\* A committed connection that is released, or one that is active.
ReservedConnection == [lifecycle |-> "Created", provision |-> "Released", active |-> FALSE,
    errors |-> FALSE, provAt |-> 0, relAt |-> 0, upAt |-> 0]
ActiveConnection == [ReservedConnection EXCEPT
    !.provision = "Provisioned", !.active = TRUE, !.provAt = 1, !.upAt = 1]

AggInit ==
    /\ agg \in {ReservedConnection, ActiveConnection}
    /\ sla = [prov |-> 0, rel |-> 0]
    /\ requests = {} /\ acked = {} /\ accepted = {} /\ net = {}

(***************************************************************************)
(* Handling a request: what the state machines allow is accepted; an       *)
(* operation the connection is already in or past may be accepted again    *)
(* (it changes nothing until it is confirmed) or, like any other, refused. *)
(***************************************************************************)
Startable(r) ==
    \/ r \in Provisions /\ agg.lifecycle = "Created" /\ agg.provision # "Releasing"
    \/ r \in Releases /\ agg.lifecycle = "Created" /\ agg.provision # "Provisioning"
    \/ r \in Terminates /\ agg.lifecycle \in {"Created", "Failed", "Terminating"}

Begun(r) ==
    CASE r \in Provisions /\ agg.provision = "Released" -> [agg EXCEPT !.provision = "Provisioning"]
      [] r \in Releases /\ agg.provision = "Provisioned" -> [agg EXCEPT !.provision = "Releasing"]
      [] r \in Terminates -> [agg EXCEPT !.lifecycle = "Terminating"]
      [] OTHER -> agg

AggAccepts(r) ==
    /\ r \in requests
    /\ Startable(r)
    /\ agg' = Begun(r)
    /\ requests' = requests \ {r}
    /\ acked' = acked \union {r}
    /\ accepted' = accepted \union {r}
    /\ UNCHANGED <<sla, net>>

AggRefuses(r) ==
    /\ r \in requests
    /\ requests' = requests \ {r}
    /\ UNCHANGED <<agg, sla, acked, accepted, net>>

\* The answer to an accepted operation; one overtaken by another operation is never answered.
Confirmed(r) ==
    CASE r \in Provisions -> [agg EXCEPT !.provision = "Provisioned", !.provAt = @ + 1]
      [] r \in Releases -> [agg EXCEPT !.provision = "Released", !.relAt = @ + 1]
      [] OTHER -> [agg EXCEPT !.lifecycle = "Terminated"]

AggConfirms(r) ==
    /\ r \in accepted
    /\ \/ r \in Provisions /\ agg.lifecycle = "Created"
          /\ agg.provision \in {"Provisioning", "Provisioned"}
       \/ r \in Releases /\ agg.lifecycle = "Created"
          /\ agg.provision \in {"Releasing", "Released"}
       \/ r \in Terminates /\ agg.lifecycle = "Terminating"
    /\ agg' = Confirmed(r)
    /\ accepted' = accepted \ {r}
    /\ net' = net \union {Answer(r, "confirmed")}
    /\ UNCHANGED <<sla, requests, acked>>

AggAnswersUnexpectedly(r) ==
    /\ "unexpected" \in Faults
    /\ r \in accepted
    /\ accepted' = accepted \ {r}
    /\ net' = net \union {Answer(r, "unexpected")}
    /\ UNCHANGED <<agg, sla, requests, acked>>

(***************************************************************************)
(* The data plane comes up once after each provisionConfirmed; it goes     *)
(* down after a release or a terminate, or on its own ("drop").            *)
(***************************************************************************)
DataPlaneUp ==
    /\ agg.lifecycle = "Created"
    /\ agg.provision = "Provisioned" /\ ~agg.active /\ agg.upAt < agg.provAt
    /\ agg' = [agg EXCEPT !.active = TRUE, !.upAt = agg.provAt]
    /\ net' = net \union {Notification("up", agg.provAt)}
    /\ UNCHANGED <<sla, requests, acked, accepted>>

DataPlaneDown ==
    /\ agg.active
    /\ \/ agg.provision = "Released"
       \/ agg.lifecycle \in {"Terminating", "Terminated", "Failed"}
       \/ "drop" \in Faults /\ agg.provision = "Provisioned"
    /\ agg' = [agg EXCEPT !.active = FALSE]
    /\ net' = net \union {Notification("down", agg.upAt)}
    /\ UNCHANGED <<sla, requests, acked, accepted>>

\* An errorEvent: it stays in the notification history and is pushed once.
ErrorEvent ==
    /\ "errorEvent" \in Faults
    /\ ~agg.errors
    /\ agg' = [agg EXCEPT !.errors = TRUE]
    /\ net' = net \union {Notification("error", 0)}
    /\ UNCHANGED <<sla, requests, acked, accepted>>

ForcedEnd ==
    /\ "forcedEnd" \in Faults
    /\ agg.lifecycle = "Created"
    /\ agg' = [agg EXCEPT !.lifecycle = "Failed"]
    /\ UNCHANGED <<sla, requests, acked, accepted, net>>

\* A terminated connection disappears from the aggregator's answers.
Forget ==
    /\ "forget" \in Faults
    /\ agg.lifecycle = "Terminated"
    /\ agg' = [agg EXCEPT !.lifecycle = "Unknown"]
    /\ UNCHANGED <<sla, requests, acked, accepted, net>>

\* DATAPLANE_TIMEOUT passes on the clock since the last result of each operation.
SlaPasses ==
    /\ sla # [prov |-> agg.provAt, rel |-> agg.relAt]
    /\ sla' = [prov |-> agg.provAt, rel |-> agg.relAt]
    /\ UNCHANGED <<agg, requests, acked, accepted, net>>

AggNext ==
    \/ \E r \in Operations :
          AggAccepts(r) \/ AggRefuses(r) \/ AggConfirms(r) \/ AggAnswersUnexpectedly(r)
    \/ DataPlaneUp \/ DataPlaneDown \/ ErrorEvent \/ ForcedEnd \/ Forget \/ SlaPasses
=============================================================================
