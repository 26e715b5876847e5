------------------------------ MODULE AgentLease ------------------------------
(***************************************************************************)
(* Agents and their lease with the Discovery service (discovery/register.ts*)
(* DiscoveryClient): registration, heartbeats, re-registration when the    *)
(* rubric set changes, deregistration.                                     *)
(*                                                                         *)
(* Discovery and the network to it are external.  A request is a message   *)
(* that may be lost or overtaken; the card it carries is named by the      *)
(* version of the rubric set, which determines its fingerprint.  An        *)
(* agent's guid survives a restart (its guid file).                        *)
(***************************************************************************)
EXTENDS Integers, Sequences, FiniteSets

CONSTANTS None, Guids, MaxLost, MaxVersion     \* the last two are bounds

ASSUME LeaseAssumption == MaxLost \in Nat /\ MaxVersion \in Nat

VARIABLES listed,        \* Discovery: the card it has for each guid, or None
          net,           \* requests to Discovery under way
          lost,          \* losses, and starts and stops by an operator, for the bound
          proc, version, \* the agents: process, version of the rubric set
          slipped        \* history: a card of theirs was lost or overtaken

lease == <<listed, net, lost, proc, version, slipped>>

InitLease ==
    /\ listed = [g \in Guids |-> None] /\ net = {} /\ lost = 0
    /\ proc = [g \in Guids |-> "down"] /\ version = [g \in Guids |-> 0]
    /\ slipped = {}

-----------------------------------------------------------------------------
(* The agents' side of Discovery.                                          *)
Request(kind, g, v) == [kind |-> kind, guid |-> g, version |-> v]
CardOfStart(g) == Request("register", g, 0)     \* mutant: the card is captured once
Card(g) == Request("register", g, version[g])     \* built fresh on every call

(* start(), by an operator; the failure of its registration is swallowed.  *)
Start(g) ==
    /\ proc[g] = "down" /\ lost < MaxLost /\ lost' = lost + 1
    /\ proc' = [proc EXCEPT ![g] = "up"] /\ net' = net \cup {Card(g)}
    /\ UNCHANGED <<listed, version, slipped>>

Heartbeat(g) ==
    /\ proc[g] = "up"
    /\ net' = net \cup {Request("heartbeat", g, 0)}
    /\ UNCHANGED <<listed, lost, proc, version, slipped>>

(* A release was applied: the agent registers again, once.                 *)
Reregister(g) ==
    /\ proc[g] = "up" /\ version[g] < MaxVersion
    /\ version' = [version EXCEPT ![g] = @ + 1]
    /\ net' = net \cup {[Card(g) EXCEPT !.version = version'[g]]}
    /\ UNCHANGED <<listed, lost, proc, slipped>>

(* heartbeat(): 404, or no answer, and the agent registers; the listener   *)
(* of an agent that is stopping still runs.                                *)
NotHeard(g) == {}     \* mutant
Unknown(g) == IF proc[g] = "down" THEN {} ELSE {Card(g)}
Answered(r) == r.kind = "heartbeat" /\ listed[r.guid] # None
AnswerHeartbeat(g) == \E r \in net :
    /\ r.kind = "heartbeat" /\ r.guid = g
    /\ net' = (net \ {r}) \cup (IF Answered(r) THEN {} ELSE Unknown(r.guid))
    /\ UNCHANGED <<listed, lost, proc, version, slipped>>

TakeCard(g) == \E r \in net :
    /\ r.kind = "register" /\ r.guid = g /\ net' = net \ {r}
    /\ listed' = [listed EXCEPT ![r.guid] = r]
    /\ slipped' = IF \E q \in net : q.kind = "register" /\ q.guid = r.guid /\ q.version < r.version
                  THEN slipped \cup {r.guid} ELSE slipped
    /\ UNCHANGED <<lost, proc, version>>

TakeDelete(g) == \E r \in net :
    /\ r.kind = "delete" /\ r.guid = g /\ net' = net \ {r}
    /\ listed' = [listed EXCEPT ![r.guid] = None]
    /\ UNCHANGED <<lost, proc, version, slipped>>

(* A request or its answer is lost; the lease runs out; Discovery forgets. *)
Lose == \E r \in net :
    /\ lost < MaxLost /\ lost' = lost + 1
    /\ net' = (net \ {r}) \cup (IF r.kind = "heartbeat" THEN Unknown(r.guid) ELSE {})
    /\ slipped' = IF r.kind = "register" THEN slipped \cup {r.guid} ELSE slipped
    /\ UNCHANGED <<listed, proc, version>>
Expire(g) ==
    /\ listed[g] # None /\ lost < MaxLost /\ lost' = lost + 1
    /\ listed' = [listed EXCEPT ![g] = None]
    /\ UNCHANGED <<net, proc, version, slipped>>

(* stop(), on SIGTERM: the timer is cleared, best effort.                  *)
StopsServing(g) ==
    /\ proc[g] = "up" /\ proc' = [proc EXCEPT ![g] = "stopping"]
    /\ net' = net \cup {Request("delete", g, 0)}
Deregister(g) ==
    /\ StopsServing(g) /\ lost < MaxLost /\ lost' = lost + 1
    /\ UNCHANGED <<listed, version, slipped>>

(* Killed without a shutdown, or drained after SIGTERM.                    *)
Exit(g) ==
    /\ proc[g] # "down" /\ proc' = [proc EXCEPT ![g] = "down"]
    /\ proc[g] = "up" => lost < MaxLost
    /\ lost' = IF proc[g] = "up" THEN lost + 1 ELSE lost
    /\ UNCHANGED <<listed, net, version, slipped>>

Network(g) == AnswerHeartbeat(g) \/ TakeCard(g) \/ TakeDelete(g)
Agent(g) == Start(g) \/ Heartbeat(g) \/ Reregister(g) \/ Deregister(g) \/ Exit(g)
NextLease == Lose \/ \E g \in Guids : Agent(g) \/ Network(g) \/ Expire(g)

(* Heartbeats are on a timer, and a request that is not lost arrives.      *)
Fairness == \A g \in Guids :
    /\ WF_lease(Heartbeat(g)) /\ WF_lease(AnswerHeartbeat(g))
    /\ WF_lease(TakeCard(g)) /\ WF_lease(TakeDelete(g))

SpecLease == InitLease /\ [][NextLease]_lease /\ Fairness

-----------------------------------------------------------------------------
LeaseTypeOK ==
    /\ \A g \in Guids : listed[g] # None => listed[g].guid = g
    /\ \A r \in net : r.kind \in {"heartbeat", "register", "delete"} /\ r.guid \in Guids
    /\ proc \in [Guids -> {"down", "up", "stopping"}] /\ version \in [Guids -> 0..MaxVersion]

(* register.ts: a stale fingerprint "is worse than none at all".  What     *)
(* Discovery has of a live agent is its current card, unless a newer one   *)
(* is on its way, or one was lost or overtaken: heartbeats do not mend it. *)
StaleCardExplained == \A g \in Guids \ slipped :
    proc[g] = "up" /\ listed[g] # None /\ listed[g].version # version[g] => Card(g) \in net

(* "A Discovery bounce heals within one heartbeat interval": whatever is    *)
(* lost, an agent that runs is listed again, and one that starts is listed *)
(* even if the request of its start was lost.                              *)
ListingHeals == \A g \in Guids : proc[g] = "up" ~> listed[g] # None \/ proc[g] # "up"
=============================================================================
