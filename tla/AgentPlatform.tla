---------------------------- MODULE AgentPlatform ----------------------------
(***************************************************************************)
(* Agents that are launched when a capability is asked for and destroyed   *)
(* when idle: the Supervisor (platform/supervisor.ts), the manifests it    *)
(* launches from (platform/manifest.ts) and the resolver that reads        *)
(* Discovery (orchestrator/discovery-registry.ts), on top of the agents    *)
(* and their leases.                                                       *)
(*                                                                         *)
(* The launcher is external.  The Supervisor runs on one thread: what it   *)
(* does between two awaits is one action.  A launch may come up under the  *)
(* guid of an agent that was stopped.                                      *)
(***************************************************************************)
EXTENDS AgentLease

CONSTANTS Manifests,      \* sequence of manifests: [caps, mode]
          ManifestOf,     \* which manifest an instance is of, an index by guid
          Calls,          \* ensureRunning calls that may be under way at once
          Capabilities,   \* what they ask for
          TTL, MaxTime    \* the last is a bound

ASSUME PlatformAssumption ==
    /\ ManifestOf \in [Guids -> DOMAIN Manifests]
    /\ TTL \in Nat /\ MaxTime \in Nat
    /\ None \notin Guids \cup Calls \cup [cap : Capabilities, last : Nat]

VARIABLES call,          \* [at, cap, found] of each call
          inflight,      \* by capability: the call that launches, or None
          running,       \* by guid: [cap, last], or None
          sweep,         \* [at, cutoff, guid]
          now,
          used,          \* history: when each agent was last handed out or touched
          owned          \* history: launched here, and not while a sweep awaited their stop

supervisor == <<call, inflight, running, sweep, now, used, owned>>
vars == <<lease, supervisor>>

Idle == [at |-> "idle", cap |-> None, found |-> None]
NoSweep == [at |-> "idle", cutoff |-> 0, guid |-> None]

Init ==
    /\ InitLease
    /\ call = [c \in Calls |-> Idle] /\ inflight = [k \in Capabilities |-> None]
    /\ running = [g \in Guids |-> None] /\ sweep = NoSweep /\ now = 0
    /\ used = [g \in Guids |-> -1] /\ owned = {}

Caps(g) == Manifests[ManifestOf[g]].caps
Mode(g) == Manifests[ManifestOf[g]].mode

-----------------------------------------------------------------------------
(* ensureRunning.                                                          *)
ManifestFor(k) == {m \in DOMAIN Manifests : k \in Manifests[m].caps /\
                     \A n \in 1..m - 1 : k \notin Manifests[n].caps}

EnsureRunning(c) == \E k \in Capabilities :
    /\ call[c].at \in {"idle", "done", "failed"}
    /\ call' = [call EXCEPT ![c] = [at |-> "resolving", cap |-> k, found |-> None]]
    /\ UNCHANGED <<lease, inflight, running, sweep, now, used, owned>>

(* capabilityResolver.resolve: one of those listed, production first.      *)
Matches(k) == {g \in Guids : listed[g] # None /\ k \in Caps(g)}
Preferred(k) ==
    LET production == {g \in Matches(k) : Mode(g) = "production"}
    IN IF production # {} THEN production ELSE Matches(k)
Resolve(c) ==
    /\ call[c].at = "resolving"
    /\ \E g \in IF Matches(call[c].cap) = {} THEN {None} ELSE Preferred(call[c].cap) :
         call' = [call EXCEPT ![c] = [at |-> "resolved", cap |-> @.cap, found |-> g]]
    /\ UNCHANGED <<lease, inflight, running, sweep, now, used, owned>>

(* What the caller is given.                                               *)
Settled(cs, how, g) == [c \in Calls |->
    IF c \in cs THEN [call[c] EXCEPT !.at = how, !.found = g] ELSE call[c]]

(* Discovery does not answer, or not with a list: ensureRunning rejects.   *)
ResolveFails(c) ==
    /\ call[c].at = "resolving" /\ call' = Settled({c}, "failed", None)
    /\ UNCHANGED <<lease, inflight, running, sweep, now, used, owned>>

TrackNew(g, k) == IF running[g] = None THEN [cap |-> k, last |-> now] ELSE running[g]     \* mutant
Track(g, k) == [cap |-> IF running[g] = None THEN k ELSE running[g].cap, last |-> now]

UseLive(c) ==
    /\ call[c].at = "resolved" /\ call[c].found # None
    /\ LET g == call[c].found
       IN /\ running' = [running EXCEPT ![g] = Track(g, call[c].cap)]
          /\ call' = Settled({c}, "done", g) /\ used' = [used EXCEPT ![g] = now]
    /\ UNCHANGED <<lease, inflight, sweep, now, owned>>

Join(c) ==
    /\ call[c].at = "resolved" /\ call[c].found = None /\ inflight[call[c].cap] # None
    /\ call' = [call EXCEPT ![c].at = "joined"]
    /\ UNCHANGED <<lease, inflight, running, sweep, now, used, owned>>

Launch(c) ==
    /\ call[c].at = "resolved" /\ call[c].found = None /\ inflight[call[c].cap] = None
    /\ IF ManifestFor(call[c].cap) = {}
       THEN call' = Settled({c}, "failed", None) /\ UNCHANGED inflight
       ELSE /\ call' = [call EXCEPT ![c].at = "launching"]
            /\ inflight' = [inflight EXCEPT ![call[c].cap] = c]
    /\ UNCHANGED <<lease, running, sweep, now, used, owned>>

(* The launch settles, for the caller and for those who joined it.         *)
OwnerOnly(c) == {c}     \* mutant
Waiting(c) == {c} \cup {d \in Calls : call[d].at = "joined" /\ call[d].cap = call[c].cap}
LaunchEnds(c) ==
    /\ call[c].at = "launching"
    /\ inflight' = [inflight EXCEPT ![call[c].cap] = None]

(* The launcher resolves once the agent is ready; its start() has sent a   *)
(* registration whose failure it swallows.                                 *)
LaunchReady(c) == LaunchEnds(c) /\ \E g \in Guids :
    /\ proc[g] = "down" /\ ManifestOf[g] \in ManifestFor(call[c].cap)
    /\ proc' = [proc EXCEPT ![g] = "up"] /\ net' = net \cup {Card(g)}
    /\ running' = [running EXCEPT ![g] = [cap |-> call[c].cap, last |-> now]]
    /\ call' = Settled(Waiting(c), "done", g) /\ used' = [used EXCEPT ![g] = now]
    /\ owned' = IF sweep.guid = g THEN owned \ {g} ELSE owned \cup {g}
    /\ UNCHANGED <<listed, lost, version, slipped, sweep, now>>
LaunchFails(c) ==
    /\ LaunchEnds(c) /\ call' = Settled(Waiting(c), "failed", None)
    /\ UNCHANGED <<lease, running, sweep, now, used, owned>>

-----------------------------------------------------------------------------
(* touch, and sweepIdle with its await of each stop.                       *)
Touch(g) ==
    /\ running[g] # None
    /\ running' = [running EXCEPT ![g].last = now] /\ used' = [used EXCEPT ![g] = now]
    /\ UNCHANGED <<lease, call, inflight, sweep, now, owned>>

Sweep ==
    /\ sweep.at = "idle" /\ now > TTL
    /\ sweep' = [at |-> "on", cutoff |-> now - TTL, guid |-> None]
    /\ UNCHANGED <<lease, call, inflight, running, now, used, owned>>

Stale(g) == running[g] # None /\ running[g].last < sweep.cutoff
Stop(g) ==
    /\ sweep.at = "on" /\ Stale(g)
    /\ sweep' = [sweep EXCEPT !.at = "stopping", !.guid = g]
    /\ UNCHANGED <<lease, call, inflight, running, now, used, owned>>

(* The launcher sends SIGTERM, and resolves once the agent has drained.    *)
Signal ==
    /\ sweep.at = "stopping" /\ sweep' = [sweep EXCEPT !.at = "draining"]
    /\ StopsServing(sweep.guid) \/ (proc[sweep.guid] # "up" /\ UNCHANGED <<proc, net>>)
    /\ UNCHANGED <<listed, lost, version, slipped, call, inflight, running, now, used, owned>>
Stopped ==
    /\ sweep.at = "draining" /\ proc[sweep.guid] # "stopping"
    /\ running' = [running EXCEPT ![sweep.guid] = None]
    /\ sweep' = [sweep EXCEPT !.at = "on", !.guid = None]
    /\ UNCHANGED <<lease, call, inflight, now, used, owned>>

(* The launcher rejects: the sweep ends there and the agent stays listed.  *)
StopFailsForgets ==     \* mutant: deleted although it may run
    /\ sweep.guid # None /\ sweep' = NoSweep
    /\ running' = [running EXCEPT ![sweep.guid] = None]
    /\ UNCHANGED <<lease, call, inflight, now, used, owned>>
StopFails ==
    /\ sweep.guid # None /\ sweep' = NoSweep
    /\ UNCHANGED <<lease, call, inflight, running, now, used, owned>>
SweepEnds ==
    /\ sweep.at = "on" /\ ~\E g \in Guids : Stale(g)
    /\ sweep' = NoSweep
    /\ UNCHANGED <<lease, call, inflight, running, now, used, owned>>

Tick ==
    /\ now < MaxTime /\ now' = now + 1
    /\ UNCHANGED <<lease, call, inflight, running, sweep, used, owned>>

(* An agent started by an operator is not the Supervisor's.                *)
World ==
    /\ NextLease
    /\ owned' = {g \in owned : ~(proc[g] = "down" /\ proc'[g] = "up")}
    /\ UNCHANGED <<call, inflight, running, sweep, now, used>>

Call(c) == EnsureRunning(c) \/ Resolve(c) \/ ResolveFails(c) \/ UseLive(c) \/ Join(c)
    \/ Launch(c) \/ LaunchReady(c) \/ LaunchFails(c)
Next ==
    \/ World \/ \E c \in Calls : Call(c)
    \/ \E g \in Guids : Touch(g) \/ Stop(g)
    \/ Sweep \/ Signal \/ Stopped \/ StopFails \/ SweepEnds \/ Tick

Spec == Init /\ [][Next]_vars

-----------------------------------------------------------------------------
TypeOK ==
    /\ LeaseTypeOK
    /\ \A c \in Calls : call[c].at = "done" => call[c].found \in Guids
    /\ sweep.at \in {"stopping", "draining"} <=> sweep.guid # None

(* What the Supervisor began is not forgotten.  An agent it launched is on *)
(* its list as long as it runs, so that it will be destroyed when idle.    *)
(* One case is left out, since there the code does forget: an agent that   *)
(* comes back under its old guid while a sweep awaits its stop is deleted  *)
(* from the list when that stop resolves.  A call that joined a launch has *)
(* one to wait for, whichever calls end first, and a launch is of one call *)
(* that is waiting for it.                                                 *)
LaunchedIsTracked == \A g \in owned : proc[g] = "up" => running[g] # None
JoinedIsAwaited == \A c \in Calls :
    /\ call[c].at = "joined" => inflight[call[c].cap] # None
    /\ call[c].at = "launching" <=> \E k \in Capabilities : inflight[k] = c
NothingIsForgotten == TypeOK /\ LaunchedIsTracked /\ JoinedIsAwaited

(* The sweep stops only agents that nobody was given, or touched, within   *)
(* the TTL before it began: also when calls end while it awaits another.   *)
DestroyedOnlyIfIdle ==
    [][\A g \in Guids : sweep.guid # g /\ sweep'.guid = g => used[g] < sweep.cutoff]_vars
=============================================================================
