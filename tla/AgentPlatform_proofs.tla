------------------------ MODULE AgentPlatform_proofs ------------------------
(***************************************************************************)
(* For any number of agents, calls, capabilities, releases and losses:     *)
(* what Discovery has of an agent is its current card, or the reason why   *)
(* it is not is known; the Supervisor forgets nothing that it began, and   *)
(* destroys only idle agents; and whatever order the writes of a run       *)
(* arrive in, its history tells where it stopped and where to take it up.  *)
(***************************************************************************)
EXTENDS AgentPlatform, TrajectoryHistory, WellFoundedInduction, TLAPS

-----------------------------------------------------------------------------
(* The lease with Discovery (AgentLease).                                  *)
Cards == [kind : {"heartbeat", "register", "delete"}, guid : Guids, version : Nat]

LeaseTyped ==
    /\ listed \in [Guids -> Cards \cup {None}]
    /\ net \subseteq Cards
    /\ proc \in [Guids -> {"down", "up", "stopping"}]
    /\ version \in [Guids -> 0..MaxVersion]
    /\ slipped \subseteq Guids
    /\ \A g \in Guids : listed[g] # None => listed[g].guid = g

(* A card of an older version is under way, or listed, only as long as the *)
(* current one is under way too.                                           *)
OldCardsAreFollowed == \A g \in Guids \ slipped :
    /\ \A r \in net : r.kind = "register" /\ r.guid = g /\ r.version # version[g] => Card(g) \in net
    /\ listed[g] # None /\ listed[g].version # version[g] => Card(g) \in net
(* No card is of a version the agent has not reached.                      *)
NoCardAhead == \A r \in net : r.kind = "register" => r.version <= version[r.guid]

LeaseInv == LeaseTyped /\ OldCardsAreFollowed /\ NoCardAhead

-----------------------------------------------------------------------------
LEMMA LeaseInit == InitLease => LeaseInv
BY LeaseAssumption
   DEF LeaseAssumption, InitLease, LeaseInv, LeaseTyped, OldCardsAreFollowed, NoCardAhead, Cards

(* Every step keeps the types.                                             *)
LEMMA LeaseTypeStep ==
    ASSUME LeaseTyped, [NextLease]_lease PROVE LeaseTyped'
<1> USE LeaseAssumption DEF LeaseAssumption, LeaseTyped, Cards, Request, Card
<1>1. ASSUME NEW g \in Guids, Start(g) PROVE LeaseTyped'
  BY <1>1 DEF Start
<1>2. ASSUME NEW g \in Guids, Heartbeat(g) PROVE LeaseTyped'
  BY <1>2 DEF Heartbeat
<1>3. ASSUME NEW g \in Guids, Reregister(g) PROVE LeaseTyped'
  BY <1>3 DEF Reregister
<1>4. ASSUME NEW g \in Guids, Deregister(g) PROVE LeaseTyped'
  BY <1>4 DEF Deregister, StopsServing
<1>5. ASSUME NEW g \in Guids, Exit(g) PROVE LeaseTyped'
  BY <1>5 DEF Exit
<1>6. ASSUME NEW g \in Guids, AnswerHeartbeat(g) PROVE LeaseTyped'
  BY <1>6 DEF AnswerHeartbeat, Answered, Unknown
<1>7. ASSUME NEW g \in Guids, TakeCard(g) PROVE LeaseTyped'
  BY <1>7 DEF TakeCard
<1>8. ASSUME NEW g \in Guids, TakeDelete(g) PROVE LeaseTyped'
  BY <1>8 DEF TakeDelete
<1>9. ASSUME NEW g \in Guids, Expire(g) PROVE LeaseTyped'
  BY <1>9 DEF Expire
<1>10. CASE Lose
  BY <1>10 DEF Lose, Unknown
<1>11. CASE UNCHANGED lease
  BY <1>11 DEF lease
<1> QED
  BY <1>1, <1>2, <1>3, <1>4, <1>5, <1>6, <1>7, <1>8, <1>9, <1>10, <1>11 DEF NextLease, Agent,
     Network

(* Versions only grow, and a card is built of the current one.             *)
LEMMA NoCardAheadStep ==
    ASSUME LeaseTyped, NoCardAhead, [NextLease]_lease PROVE NoCardAhead'
<1> USE LeaseAssumption DEF LeaseAssumption, LeaseTyped, Cards, Request, Card, NoCardAhead
<1>1. ASSUME NEW g \in Guids, Start(g) PROVE NoCardAhead'
  BY <1>1 DEF Start
<1>2. ASSUME NEW g \in Guids, Heartbeat(g) PROVE NoCardAhead'
  BY <1>2 DEF Heartbeat
<1>3. ASSUME NEW g \in Guids, Reregister(g) PROVE NoCardAhead'
  BY <1>3 DEF Reregister
<1>4. ASSUME NEW g \in Guids, Deregister(g) PROVE NoCardAhead'
  BY <1>4 DEF Deregister, StopsServing
<1>5. ASSUME NEW g \in Guids, Exit(g) PROVE NoCardAhead'
  BY <1>5 DEF Exit
<1>6. ASSUME NEW g \in Guids, AnswerHeartbeat(g) PROVE NoCardAhead'
  BY <1>6 DEF AnswerHeartbeat, Answered, Unknown
<1>7. ASSUME NEW g \in Guids, TakeCard(g) PROVE NoCardAhead'
  BY <1>7 DEF TakeCard
<1>8. ASSUME NEW g \in Guids, TakeDelete(g) PROVE NoCardAhead'
  BY <1>8 DEF TakeDelete
<1>9. ASSUME NEW g \in Guids, Expire(g) PROVE NoCardAhead'
  BY <1>9 DEF Expire
<1>10. CASE Lose
  BY <1>10 DEF Lose, Unknown
<1>11. CASE UNCHANGED lease
  BY <1>11 DEF lease
<1> QED
  BY <1>1, <1>2, <1>3, <1>4, <1>5, <1>6, <1>7, <1>8, <1>9, <1>10, <1>11 DEF NextLease, Agent,
     Network

(* The current card leaves the network only for Discovery, with none older *)
(* behind it, or by a loss or an overtaking that is noted.                 *)
LEMMA FollowedStep ==
    ASSUME LeaseTyped, NoCardAhead, OldCardsAreFollowed, [NextLease]_lease
    PROVE  OldCardsAreFollowed'
<1> USE LeaseAssumption DEF LeaseAssumption, LeaseTyped, Cards, Request, Card, OldCardsAreFollowed
<1>1. ASSUME NEW g \in Guids, Start(g) PROVE OldCardsAreFollowed'
  BY <1>1 DEF Start
<1>2. ASSUME NEW g \in Guids, Heartbeat(g) PROVE OldCardsAreFollowed'
  BY <1>2 DEF Heartbeat
<1>3. ASSUME NEW g \in Guids, Reregister(g) PROVE OldCardsAreFollowed'
  BY <1>3 DEF Reregister
<1>4. ASSUME NEW g \in Guids, Deregister(g) PROVE OldCardsAreFollowed'
  BY <1>4 DEF Deregister, StopsServing
<1>5. ASSUME NEW g \in Guids, Exit(g) PROVE OldCardsAreFollowed'
  BY <1>5 DEF Exit
<1>6. ASSUME NEW g \in Guids, AnswerHeartbeat(g) PROVE OldCardsAreFollowed'
  BY <1>6 DEF AnswerHeartbeat, Answered, Unknown
<1>7. ASSUME NEW g \in Guids, TakeCard(g) PROVE OldCardsAreFollowed'
  BY <1>7 DEF TakeCard, NoCardAhead
<1>8. ASSUME NEW g \in Guids, TakeDelete(g) PROVE OldCardsAreFollowed'
  BY <1>8 DEF TakeDelete
<1>9. ASSUME NEW g \in Guids, Expire(g) PROVE OldCardsAreFollowed'
  BY <1>9 DEF Expire
<1>10. CASE Lose
  BY <1>10 DEF Lose, Unknown
<1>11. CASE UNCHANGED lease
  BY <1>11 DEF lease
<1> QED
  BY <1>1, <1>2, <1>3, <1>4, <1>5, <1>6, <1>7, <1>8, <1>9, <1>10, <1>11 DEF NextLease, Agent,
     Network

(* LeaseInv is inductive.                                                  *)
LEMMA LeaseStep == LeaseInv /\ [NextLease]_lease => LeaseInv'
BY LeaseTypeStep, NoCardAheadStep, FollowedStep DEF LeaseInv

(* register.ts: a stale card is only ever listed while the current one is  *)
(* under way, unless one was lost or overtaken.                            *)
THEOREM StaleCardExplainedAlways == SpecLease => []StaleCardExplained
<1>1. LeaseInv => StaleCardExplained
  BY DEF LeaseInv, OldCardsAreFollowed, StaleCardExplained
<1> QED
  BY LeaseInit, LeaseStep, <1>1, PTL DEF SpecLease

-----------------------------------------------------------------------------
(* The Supervisor and the resolver on top of it (AgentPlatform).           *)
Tracked == [cap : Capabilities, last : Nat]

CallRecords == [at : {"idle", "resolving", "resolved", "joined", "launching", "done", "failed"},
                cap : Capabilities \cup {None}, found : Guids \cup {None}]
CallTyped ==
    /\ call \in [Calls -> CallRecords]
    /\ inflight \in [Capabilities -> Calls \cup {None}]
    /\ \A c \in Calls : /\ call[c].at = "done" => call[c].found \in Guids
                        /\ call[c].at # "idle" => call[c].cap \in Capabilities
SweepTyped ==
    /\ sweep \in [at : {"idle", "on", "stopping", "draining"}, cutoff : Nat, guid : Guids \cup {None}]
    /\ sweep.at \in {"stopping", "draining"} <=> sweep.guid # None
UseTyped ==
    /\ now \in Nat /\ running \in [Guids -> Tracked \cup {None}]
    /\ used \in [Guids -> Nat \cup {-1}]
Typed == LeaseTyped /\ CallTyped /\ SweepTyped /\ UseTyped /\ owned \subseteq Guids

(* A launch in flight is the launch of that capability, by that call.      *)
OneLauncher ==
    /\ \A k \in Capabilities : inflight[k] # None =>
         call[inflight[k]].at = "launching" /\ call[inflight[k]].cap = k
    /\ \A c \in Calls :
         /\ call[c].at = "launching" => inflight[call[c].cap] = c
         /\ call[c].at = "joined" => inflight[call[c].cap] # None

(* An agent the sweep awaits has received its signal, and does not come    *)
(* back as the Supervisor's.                                               *)
StopsAreFinal ==
    /\ \A g \in owned : proc[g] = "up" => running[g] # None
    /\ sweep.at = "draining" /\ sweep.guid \in owned => proc[sweep.guid] # "up"

(* Whoever is given an agent, or touches it, has its clock set.            *)
ClocksAreKept == \A g \in Guids : running[g] # None => used[g] <= running[g].last

Inv == Typed /\ OneLauncher /\ StopsAreFinal /\ ClocksAreKept

-----------------------------------------------------------------------------
(* Nothing is listed, asked for or running at first.                       *)
LEMMA InitInv == Init => Inv
<1> SUFFICES ASSUME Init PROVE Inv
  OBVIOUS
<1> USE LeaseAssumption, PlatformAssumption DEF LeaseAssumption, PlatformAssumption, Init
<1>1. LeaseTyped
  BY DEF LeaseTyped, InitLease, Cards
<1>2. CallTyped
  BY DEF CallTyped, CallRecords, Idle
<1>3. SweepTyped
  BY DEF SweepTyped, NoSweep
<1>4. UseTyped
  BY DEF UseTyped, Tracked
<1>5. OneLauncher
  BY DEF OneLauncher, Idle
<1>6. StopsAreFinal /\ ClocksAreKept
  BY DEF StopsAreFinal, ClocksAreKept
<1>7. owned \subseteq Guids
  OBVIOUS
<1> QED
  BY <1>1, <1>2, <1>3, <1>4, <1>5, <1>6, <1>7 DEF Inv, Typed

(* No step of the world starts an agent that is stopping.                  *)
LEMMA OnlyTheDownStart ==
    ASSUME LeaseTyped, [NextLease]_lease, NEW g \in Guids, proc'[g] = "up"
    PROVE  proc[g] \in {"up", "down"}
BY DEF LeaseTyped, NextLease, Agent, Network, lease, Start, Heartbeat, Reregister, Deregister,
       StopsServing, Exit, AnswerHeartbeat, TakeCard, TakeDelete, Expire, Lose

(* What the calls that settle together are told.                           *)
SettledAs(cs, how, g) ==
    /\ call' \in [Calls -> CallRecords]
    /\ \A d \in Calls : IF d \in cs THEN /\ call'[d].at = how /\ call'[d].found = g
                                         /\ call'[d].cap = call[d].cap
                        ELSE call'[d] = call[d]
LEMMA Settling ==
    ASSUME CallTyped, NEW cs, NEW how \in {"done", "failed"}, NEW g \in Guids \cup {None},
           call' = Settled(cs, how, g)
    PROVE  SettledAs(cs, how, g)
<1>1. ASSUME NEW d \in Calls
      PROVE  /\ call'[d] \in CallRecords
             /\ IF d \in cs THEN call'[d].at = how /\ call'[d].found = g /\ call'[d].cap = call[d].cap
                ELSE call'[d] = call[d]
  <2>1. call[d] \in CallRecords
    BY DEF CallTyped
  <2>2. call'[d] = IF d \in cs THEN [call[d] EXCEPT !.at = how, !.found = g] ELSE call[d]
    BY DEF Settled
  <2> QED
    BY <2>1, <2>2 DEF CallRecords
<1>2. call' = [d \in Calls |-> call'[d]]
  BY DEF Settled
<1> QED
  BY <1>1, <1>2 DEF SettledAs

(* A tracked agent has its clock set, whether or not it was on the list.   *)
LEMMA Tracking ==
    ASSUME UseTyped, NEW g \in Guids, NEW k \in Capabilities
    PROVE  Track(g, k) \in Tracked /\ Track(g, k).last = now
<1>1. running[g] # None => running[g].cap \in Capabilities
  BY DEF UseTyped, Tracked
<1> QED
  BY <1>1 DEF Track, UseTyped, Tracked

(* Every step keeps the types.                                             *)
LEMMA TypeStep ==
    ASSUME Typed, [Next]_vars
    PROVE  Typed'
<1> USE LeaseAssumption, PlatformAssumption DEF LeaseAssumption, PlatformAssumption, Typed,
   lease, supervisor
<1>1. ASSUME NEW c \in Calls, EnsureRunning(c) PROVE Typed'
  BY <1>1 DEF EnsureRunning, CallTyped, CallRecords, SweepTyped, UseTyped, LeaseTyped, Cards,
     Tracked
<1>2. ASSUME NEW c \in Calls, Resolve(c) PROVE Typed'
  <2> DEFINE found(g) == [at |-> "resolved", cap |-> call[c].cap, found |-> g]
  <2>1. PICK g \in Guids \cup {None} : call' = [call EXCEPT ![c] = found(g)]
    BY <1>2 DEF Resolve, Matches, Preferred
  <2>2. call[c].cap \in Capabilities /\ found(g) \in CallRecords
    BY <1>2 DEF Resolve, CallTyped, CallRecords
  <2>3. CallTyped'
    BY <1>2, <2>1, <2>2 DEF Resolve, CallTyped
  <2> QED
    BY <1>2, <2>3 DEF Resolve, LeaseTyped, SweepTyped, UseTyped
<1>3. ASSUME NEW c \in Calls, UseLive(c) PROVE Typed'
  <2>1. /\ call[c].found \in Guids /\ call[c].cap \in Capabilities
        /\ call' = Settled({c}, "done", call[c].found)
    BY <1>3 DEF UseLive, CallTyped, CallRecords
  <2>2. SettledAs({c}, "done", call[c].found)
    BY <2>1, Settling
  <2>3. CallTyped'
    BY <1>3, <2>1, <2>2 DEF SettledAs, CallTyped, CallRecords, UseLive
  <2>4. Track(call[c].found, call[c].cap) \in Tracked
    BY <2>1, Tracking
  <2>5. UseTyped'
    BY <1>3, <2>1, <2>4 DEF UseLive, UseTyped
  <2> QED
    BY <1>3, <2>3, <2>5 DEF UseLive, LeaseTyped, SweepTyped
<1>4. ASSUME NEW c \in Calls, Join(c) PROVE Typed'
  BY <1>4 DEF Join, CallTyped, CallRecords, SweepTyped, UseTyped, LeaseTyped, Cards, Tracked
<1>5. ASSUME NEW c \in Calls, Launch(c) PROVE Typed'
  <2>1. CASE call' = Settled({c}, "failed", None) /\ UNCHANGED inflight
    <3>1. SettledAs({c}, "failed", None)
      BY <2>1, Settling
    <3>2. CallTyped'
      BY <1>5, <2>1, <3>1 DEF SettledAs, CallTyped, CallRecords, Launch
    <3> QED
      BY <1>5, <3>2 DEF Launch, LeaseTyped, SweepTyped, UseTyped
  <2>2. CASE /\ call' = [call EXCEPT ![c].at = "launching"]
             /\ inflight' = [inflight EXCEPT ![call[c].cap] = c]
    BY <1>5, <2>2 DEF Launch, CallTyped, CallRecords, SweepTyped, UseTyped, LeaseTyped, Cards,
       Tracked
  <2> QED
    BY <1>5, <2>1, <2>2 DEF Launch
<1>6. ASSUME NEW c \in Calls, LaunchReady(c) PROVE Typed'
  <2>1. PICK g \in Guids :
          /\ proc[g] = "down" /\ proc' = [proc EXCEPT ![g] = "up"] /\ net' = net \cup {Card(g)}
          /\ running' = [running EXCEPT ![g] = [cap |-> call[c].cap, last |-> now]]
          /\ call' = Settled(Waiting(c), "done", g) /\ used' = [used EXCEPT ![g] = now]
          /\ owned' = IF sweep.guid = g THEN owned \ {g} ELSE owned \cup {g}
    BY <1>6 DEF LaunchReady
  <2>2. UNCHANGED <<listed, version, slipped, sweep, now>> /\ inflight' = [inflight EXCEPT ![call[c].cap] = None]
    BY <1>6 DEF LaunchReady, LaunchEnds
  <2>3. call[c].cap \in Capabilities
    BY <1>6 DEF LaunchReady, LaunchEnds, CallTyped
  <2>4. SettledAs(Waiting(c), "done", g)
    BY <2>1, Settling
  <2>5. CallTyped'
    BY <1>6, <2>2, <2>4 DEF SettledAs, CallTyped, CallRecords, Waiting, LaunchReady, LaunchEnds
  <2>6. LeaseTyped' /\ SweepTyped' /\ owned' \subseteq Guids
    BY <2>1, <2>2 DEF LeaseTyped, SweepTyped, Cards, Card, Request
  <2>7. UseTyped'
    BY <2>1, <2>2, <2>3 DEF UseTyped, Tracked
  <2> QED
    BY <2>5, <2>6, <2>7
<1>7. ASSUME NEW c \in Calls, LaunchFails(c) PROVE Typed'
  <2>1. SettledAs(Waiting(c), "failed", None)
    BY <1>7, Settling DEF LaunchFails
  <2>2. CallTyped'
    BY <1>7, <2>1 DEF SettledAs, CallTyped, CallRecords, Waiting, LaunchFails, LaunchEnds
  <2> QED
    BY <1>7, <2>2 DEF LaunchFails, LeaseTyped, SweepTyped, UseTyped
<1>8. ASSUME NEW g \in Guids, Touch(g) PROVE Typed'
  BY <1>8 DEF Touch, CallTyped, CallRecords, SweepTyped, UseTyped, LeaseTyped, Cards, Tracked
<1>9. CASE Sweep
  BY <1>9 DEF Sweep, CallTyped, CallRecords, SweepTyped, UseTyped, LeaseTyped, Cards, Tracked
<1>10. ASSUME NEW g \in Guids, Stop(g) PROVE Typed'
  BY <1>10 DEF Stop, Stale, CallTyped, CallRecords, SweepTyped, UseTyped, LeaseTyped, Cards, Tracked
<1>11. CASE Signal
  <2>1. sweep.guid \in Guids
    BY <1>11 DEF Signal, SweepTyped
  <2>2. LeaseTyped'
    BY <1>11, <2>1 DEF Signal, StopsServing, Request, LeaseTyped, Cards
  <2> QED
    BY <1>11, <2>2 DEF Signal, CallTyped, SweepTyped, UseTyped
<1>12. CASE Stopped
  BY <1>12 DEF Stopped, CallTyped, CallRecords, SweepTyped, UseTyped, LeaseTyped, Cards, Tracked
<1>13. CASE StopFails
  BY <1>13 DEF StopFails, NoSweep, CallTyped, CallRecords, SweepTyped, UseTyped, LeaseTyped,
     Cards, Tracked
<1>14. CASE SweepEnds
  BY <1>14 DEF SweepEnds, NoSweep, CallTyped, CallRecords, SweepTyped, UseTyped, LeaseTyped,
     Cards, Tracked
<1>15. CASE Tick
  BY <1>15 DEF Tick, CallTyped, CallRecords, SweepTyped, UseTyped, LeaseTyped, Cards, Tracked
<1>16. CASE World
  BY <1>16, LeaseTypeStep DEF World, CallTyped, SweepTyped, UseTyped
<1>17. ASSUME NEW c \in Calls, ResolveFails(c) PROVE Typed'
  <2>1. SettledAs({c}, "failed", None)
    BY <1>17, Settling DEF ResolveFails
  <2>2. CallTyped'
    BY <1>17, <2>1 DEF SettledAs, CallTyped, CallRecords, ResolveFails
  <2> QED
    BY <1>17, <2>2 DEF ResolveFails, LeaseTyped, SweepTyped, UseTyped
<1>18. CASE UNCHANGED vars
  BY <1>18 DEF vars, CallTyped, CallRecords, SweepTyped, UseTyped, LeaseTyped, Cards, Tracked
<1> QED
  BY <1>1, <1>2, <1>3, <1>4, <1>5, <1>6, <1>7, <1>8, <1>9, <1>10, <1>11, <1>12, <1>13, <1>14,
     <1>15, <1>16, <1>17, <1>18
     DEF Next, Call

(* A launch ends for all who wait for it, and only then is it forgotten.   *)
LEMMA LauncherStep ==
    ASSUME Typed, OneLauncher, [Next]_vars
    PROVE  OneLauncher'
<1> USE PlatformAssumption DEF PlatformAssumption, Typed, lease, supervisor
<1>1. ASSUME NEW c \in Calls, EnsureRunning(c) PROVE OneLauncher'
  BY <1>1 DEF EnsureRunning, CallTyped, OneLauncher
<1>2. ASSUME NEW c \in Calls, Resolve(c) PROVE OneLauncher'
  BY <1>2 DEF Resolve, Matches, Preferred, Caps, Mode, CallTyped, OneLauncher
<1>3. ASSUME NEW c \in Calls, UseLive(c) PROVE OneLauncher'
  <2>1. call' = Settled({c}, "done", call[c].found) /\ call[c].found \in Guids
    BY <1>3 DEF UseLive, CallTyped, CallRecords
  <2>2. call[c].at = "resolved" /\ UNCHANGED inflight
    BY <1>3 DEF UseLive
  <2>3. SettledAs({c}, "done", call[c].found)
    BY <2>1, Settling
  <2> QED
    BY <2>2, <2>3 DEF SettledAs, CallTyped, OneLauncher
<1>4. ASSUME NEW c \in Calls, Join(c) PROVE OneLauncher'
  BY <1>4 DEF Join, CallTyped, OneLauncher
<1>5. ASSUME NEW c \in Calls, Launch(c) PROVE OneLauncher'
  <2>1. CASE call' = Settled({c}, "failed", None) /\ UNCHANGED inflight
    <3>1. SettledAs({c}, "failed", None)
      BY <2>1, Settling
    <3>2. call[c].at = "resolved" /\ \A d \in Calls \ {c} : call'[d] = call[d]
      BY <1>5, <3>1 DEF Launch, SettledAs
    <3>3. \A k \in Capabilities : inflight[k] # None => inflight[k] \in Calls \ {c}
      BY <3>2 DEF CallTyped, OneLauncher
    <3>4. \A d \in Calls : call'[d].at \in {"launching", "joined"} => call'[d] = call[d] /\ d # c
      BY <3>1, <3>2 DEF SettledAs
    <3>5. \A k \in Capabilities : inflight'[k] # None =>
            call'[inflight'[k]].at = "launching" /\ call'[inflight'[k]].cap = k
      BY <2>1, <3>2, <3>3 DEF OneLauncher
    <3>6. \A d \in Calls : /\ call'[d].at = "launching" => inflight'[call'[d].cap] = d
                           /\ call'[d].at = "joined" => inflight'[call'[d].cap] # None
      BY <2>1, <3>4 DEF OneLauncher
    <3> QED
      BY <3>5, <3>6 DEF OneLauncher
  <2>2. CASE /\ call' = [call EXCEPT ![c].at = "launching"]
             /\ inflight' = [inflight EXCEPT ![call[c].cap] = c]
    BY <1>5, <2>2 DEF Launch, CallRecords, CallTyped, OneLauncher
  <2> QED
    BY <1>5, <2>1, <2>2 DEF Launch
<1>6. ASSUME NEW c \in Calls, LaunchReady(c) PROVE OneLauncher'
  <2>1. PICK g \in Guids : call' = Settled(Waiting(c), "done", g)
    BY <1>6 DEF LaunchReady
  <2>2. call[c].at = "launching" /\ inflight' = [inflight EXCEPT ![call[c].cap] = None]
    BY <1>6 DEF LaunchReady, LaunchEnds
  <2>3. SettledAs(Waiting(c), "done", g)
    BY <2>1, Settling
  <2> QED
    BY <2>2, <2>3 DEF SettledAs, Waiting, CallTyped, OneLauncher
<1>7. ASSUME NEW c \in Calls, LaunchFails(c) PROVE OneLauncher'
  <2>1. SettledAs(Waiting(c), "failed", None)
    BY <1>7, Settling DEF LaunchFails
  <2>2. call[c].at = "launching" /\ inflight' = [inflight EXCEPT ![call[c].cap] = None]
    BY <1>7 DEF LaunchFails, LaunchEnds
  <2> QED
    BY <2>1, <2>2 DEF SettledAs, Waiting, CallTyped, OneLauncher
<1>8. ASSUME NEW g \in Guids, Touch(g) PROVE OneLauncher'
  BY <1>8 DEF Touch, CallTyped, OneLauncher
<1>9. CASE Sweep
  BY <1>9 DEF Sweep, CallTyped, OneLauncher
<1>10. ASSUME NEW g \in Guids, Stop(g) PROVE OneLauncher'
  BY <1>10 DEF Stop, Stale, CallTyped, OneLauncher
<1>11. CASE Signal
  BY <1>11 DEF Signal, StopsServing, CallTyped, OneLauncher
<1>12. CASE Stopped
  BY <1>12 DEF Stopped, CallTyped, OneLauncher
<1>13. CASE StopFails
  BY <1>13 DEF StopFails, NoSweep, CallTyped, OneLauncher
<1>14. CASE SweepEnds
  BY <1>14 DEF SweepEnds, NoSweep, CallTyped, OneLauncher
<1>15. CASE Tick
  BY <1>15 DEF Tick, CallTyped, OneLauncher
<1>16. CASE World
  BY <1>16 DEF World, CallTyped, OneLauncher
<1>17. ASSUME NEW c \in Calls, ResolveFails(c) PROVE OneLauncher'
  <2>1. SettledAs({c}, "failed", None)
    BY <1>17, Settling DEF ResolveFails
  <2>2. call[c].at = "resolving" /\ UNCHANGED inflight
    BY <1>17 DEF ResolveFails
  <2> QED
    BY <2>1, <2>2 DEF SettledAs, CallTyped, OneLauncher
<1>18. CASE UNCHANGED vars
  BY <1>18 DEF vars, CallTyped, OneLauncher
<1> QED
  BY <1>1, <1>2, <1>3, <1>4, <1>5, <1>6, <1>7, <1>8, <1>9, <1>10, <1>11, <1>12, <1>13, <1>14,
     <1>15, <1>16, <1>17, <1>18
     DEF Next, Call

(* Only an agent that has gone leaves the list.                            *)
LEMMA StopStep ==
    ASSUME Typed, StopsAreFinal, [Next]_vars
    PROVE  StopsAreFinal'
<1> USE PlatformAssumption DEF PlatformAssumption, Typed, lease, supervisor
<1>1. ASSUME NEW c \in Calls, EnsureRunning(c) PROVE StopsAreFinal'
  BY <1>1 DEF EnsureRunning, LeaseTyped, SweepTyped, UseTyped, Tracked, StopsAreFinal
<1>2. ASSUME NEW c \in Calls, Resolve(c) PROVE StopsAreFinal'
  BY <1>2 DEF Resolve, Matches, Preferred, Caps, Mode, LeaseTyped, SweepTyped, UseTyped,
     Tracked, StopsAreFinal
<1>3. ASSUME NEW c \in Calls, UseLive(c) PROVE StopsAreFinal'
  <2>1. call[c].found \in Guids /\ call[c].cap \in Capabilities
    BY <1>3 DEF UseLive, CallTyped, CallRecords
  <2> DEFINE g == call[c].found
             new == Track(g, call[c].cap)
  <2>2. new \in Tracked /\ new.last = now
    BY <2>1, Tracking
  <2>3. new # None
    BY <2>2 DEF Tracked
  <2>4. running' = [running EXCEPT ![g] = new] /\ used' = [used EXCEPT ![g] = now]
    BY <1>3 DEF UseLive
  <2> HIDE DEF new
  <2> QED
    BY <1>3, <2>1, <2>2, <2>3, <2>4 DEF UseLive, LeaseTyped, SweepTyped, UseTyped, Tracked,
       StopsAreFinal
<1>4. ASSUME NEW c \in Calls, Join(c) PROVE StopsAreFinal'
  BY <1>4 DEF Join, LeaseTyped, SweepTyped, UseTyped, Tracked, StopsAreFinal
<1>5. ASSUME NEW c \in Calls, Launch(c) PROVE StopsAreFinal'
  BY <1>5 DEF Launch, Settled, LeaseTyped, SweepTyped, UseTyped, Tracked, StopsAreFinal
<1>6. ASSUME NEW c \in Calls, LaunchReady(c) PROVE StopsAreFinal'
  <2>1. PICK g \in Guids :
          /\ proc[g] = "down" /\ proc' = [proc EXCEPT ![g] = "up"]
          /\ running' = [running EXCEPT ![g] = [cap |-> call[c].cap, last |-> now]]
          /\ used' = [used EXCEPT ![g] = now]
          /\ owned' = IF sweep.guid = g THEN owned \ {g} ELSE owned \cup {g}
    BY <1>6 DEF LaunchReady
  <2>2. UNCHANGED sweep /\ call[c].cap \in Capabilities
    BY <1>6 DEF LaunchReady, LaunchEnds, CallTyped
  <2>3. [cap |-> call[c].cap, last |-> now] # None
    BY <2>2 DEF UseTyped
  <2> QED
    BY <2>1, <2>2, <2>3 DEF LeaseTyped, SweepTyped, UseTyped, Tracked, StopsAreFinal
<1>7. ASSUME NEW c \in Calls, LaunchFails(c) PROVE StopsAreFinal'
  BY <1>7 DEF LaunchFails, LaunchEnds, Settled, Waiting, LeaseTyped, SweepTyped, UseTyped,
     Tracked, StopsAreFinal
<1>8. ASSUME NEW g \in Guids, Touch(g) PROVE StopsAreFinal'
  BY <1>8 DEF Touch, LeaseTyped, SweepTyped, UseTyped, Tracked, StopsAreFinal
<1>9. CASE Sweep
  BY <1>9 DEF Sweep, LeaseTyped, SweepTyped, UseTyped, Tracked, StopsAreFinal
<1>10. ASSUME NEW g \in Guids, Stop(g) PROVE StopsAreFinal'
  BY <1>10 DEF Stop, Stale, LeaseTyped, SweepTyped, UseTyped, Tracked, StopsAreFinal
<1>11. CASE Signal
  BY <1>11 DEF Signal, StopsServing, LeaseTyped, SweepTyped, UseTyped, Tracked, StopsAreFinal
<1>12. CASE Stopped
  BY <1>12 DEF Stopped, LeaseTyped, SweepTyped, UseTyped, Tracked, StopsAreFinal
<1>13. CASE StopFails
  BY <1>13 DEF StopFails, NoSweep, LeaseTyped, SweepTyped, UseTyped, Tracked, StopsAreFinal
<1>14. CASE SweepEnds
  BY <1>14 DEF SweepEnds, NoSweep, LeaseTyped, SweepTyped, UseTyped, Tracked, StopsAreFinal
<1>15. CASE Tick
  BY <1>15 DEF Tick, LeaseTyped, SweepTyped, UseTyped, Tracked, StopsAreFinal
<1>16. CASE World
  BY <1>16, OnlyTheDownStart DEF World, LeaseTyped, SweepTyped, UseTyped, Tracked, StopsAreFinal
<1>17. ASSUME NEW c \in Calls, ResolveFails(c) PROVE StopsAreFinal'
  BY <1>17 DEF ResolveFails, LeaseTyped, SweepTyped, UseTyped, Tracked, StopsAreFinal
<1>18. CASE UNCHANGED vars
  BY <1>18 DEF vars, LeaseTyped, SweepTyped, UseTyped, Tracked, StopsAreFinal
<1> QED
  BY <1>1, <1>2, <1>3, <1>4, <1>5, <1>6, <1>7, <1>8, <1>9, <1>10, <1>11, <1>12, <1>13, <1>14,
     <1>15, <1>16, <1>17, <1>18
     DEF Next, Call

(* Every use sets the clock the sweep reads.                               *)
LEMMA ClockStep ==
    ASSUME Typed, ClocksAreKept, [Next]_vars
    PROVE  ClocksAreKept'
<1> USE PlatformAssumption DEF PlatformAssumption, Typed, lease, supervisor
<1>1. ASSUME NEW c \in Calls, EnsureRunning(c) PROVE ClocksAreKept'
  BY <1>1 DEF EnsureRunning, UseTyped, Tracked, ClocksAreKept
<1>2. ASSUME NEW c \in Calls, Resolve(c) PROVE ClocksAreKept'
  BY <1>2 DEF Resolve, Matches, Preferred, Caps, Mode, UseTyped, Tracked, ClocksAreKept
<1>3. ASSUME NEW c \in Calls, UseLive(c) PROVE ClocksAreKept'
  <2>1. call[c].found \in Guids /\ call[c].cap \in Capabilities
    BY <1>3 DEF UseLive, CallTyped, CallRecords
  <2> DEFINE g == call[c].found
             new == Track(g, call[c].cap)
  <2>2. new \in Tracked /\ new.last = now
    BY <2>1, Tracking
  <2>3. new # None
    BY <2>2 DEF Tracked
  <2>4. running' = [running EXCEPT ![g] = new] /\ used' = [used EXCEPT ![g] = now]
    BY <1>3 DEF UseLive
  <2> HIDE DEF new
  <2> QED
    BY <1>3, <2>1, <2>2, <2>3, <2>4 DEF UseLive, UseTyped, Tracked, ClocksAreKept
<1>4. ASSUME NEW c \in Calls, Join(c) PROVE ClocksAreKept'
  BY <1>4 DEF Join, UseTyped, Tracked, ClocksAreKept
<1>5. ASSUME NEW c \in Calls, Launch(c) PROVE ClocksAreKept'
  BY <1>5 DEF Launch, Settled, UseTyped, Tracked, ClocksAreKept
<1>6. ASSUME NEW c \in Calls, LaunchReady(c) PROVE ClocksAreKept'
  <2>1. PICK g \in Guids :
          /\ proc[g] = "down" /\ proc' = [proc EXCEPT ![g] = "up"]
          /\ running' = [running EXCEPT ![g] = [cap |-> call[c].cap, last |-> now]]
          /\ used' = [used EXCEPT ![g] = now]
          /\ owned' = IF sweep.guid = g THEN owned \ {g} ELSE owned \cup {g}
    BY <1>6 DEF LaunchReady
  <2>2. UNCHANGED sweep /\ call[c].cap \in Capabilities
    BY <1>6 DEF LaunchReady, LaunchEnds, CallTyped
  <2>3. [cap |-> call[c].cap, last |-> now] # None
    BY <2>2 DEF UseTyped
  <2> QED
    BY <2>1, <2>2, <2>3 DEF UseTyped, Tracked, ClocksAreKept
<1>7. ASSUME NEW c \in Calls, LaunchFails(c) PROVE ClocksAreKept'
  BY <1>7 DEF LaunchFails, LaunchEnds, Settled, Waiting, UseTyped, Tracked, ClocksAreKept
<1>8. ASSUME NEW g \in Guids, Touch(g) PROVE ClocksAreKept'
  BY <1>8 DEF Touch, UseTyped, Tracked, ClocksAreKept
<1>9. CASE Sweep
  BY <1>9 DEF Sweep, UseTyped, Tracked, ClocksAreKept
<1>10. ASSUME NEW g \in Guids, Stop(g) PROVE ClocksAreKept'
  BY <1>10 DEF Stop, Stale, UseTyped, Tracked, ClocksAreKept
<1>11. CASE Signal
  BY <1>11 DEF Signal, StopsServing, UseTyped, Tracked, ClocksAreKept
<1>12. CASE Stopped
  BY <1>12 DEF Stopped, UseTyped, Tracked, ClocksAreKept
<1>13. CASE StopFails
  BY <1>13 DEF StopFails, NoSweep, UseTyped, Tracked, ClocksAreKept
<1>14. CASE SweepEnds
  BY <1>14 DEF SweepEnds, NoSweep, UseTyped, Tracked, ClocksAreKept
<1>15. CASE Tick
  BY <1>15 DEF Tick, UseTyped, Tracked, ClocksAreKept
<1>16. CASE World
  BY <1>16 DEF World, UseTyped, Tracked, ClocksAreKept
<1>17. ASSUME NEW c \in Calls, ResolveFails(c) PROVE ClocksAreKept'
  BY <1>17 DEF ResolveFails, UseTyped, Tracked, ClocksAreKept
<1>18. CASE UNCHANGED vars
  BY <1>18 DEF vars, UseTyped, Tracked, ClocksAreKept
<1> QED
  BY <1>1, <1>2, <1>3, <1>4, <1>5, <1>6, <1>7, <1>8, <1>9, <1>10, <1>11, <1>12, <1>13, <1>14,
     <1>15, <1>16, <1>17, <1>18
     DEF Next, Call

(* Inv is inductive.                                                       *)
LEMMA InvStep == Inv /\ [Next]_vars => Inv'
BY TypeStep, LauncherStep, StopStep, ClockStep DEF Inv

(* supervisor.ts: a launched agent stays on the list while it runs, unless *)
(* it came back under its old guid while its stop was awaited; and a       *)
(* joined call has a launch that will settle it.                           *)
THEOREM NothingIsForgottenAlways == Spec => []NothingIsForgotten
<1>1. Inv => NothingIsForgotten
  BY PlatformAssumption DEF PlatformAssumption, Inv, Typed, LeaseTyped, CallTyped, SweepTyped,
     Cards,
     OneLauncher, StopsAreFinal, NothingIsForgotten, TypeOK, LeaseTypeOK, LaunchedIsTracked, JoinedIsAwaited
<1> QED
  BY InitInv, InvStep, <1>1, PTL DEF Spec

(* sweepIdle: no agent is stopped that was given out or touched within the *)
(* TTL before the sweep began.                                             *)
THEOREM DestroyedOnlyIfIdleAlways == Spec => DestroyedOnlyIfIdle
<1> DEFINE Idles == \A g \in Guids : sweep.guid # g /\ sweep'.guid = g => used[g] < sweep.cutoff
<1>1. ASSUME Inv, [Next]_vars PROVE [Idles]_vars
  <2>1. ASSUME NEW g \in Guids, sweep.guid # g, sweep'.guid = g PROVE Stop(g)
    <3>1. None # g
      BY PlatformAssumption DEF PlatformAssumption
    <3>2. CASE UNCHANGED sweep
      BY <2>1, <3>2
    <3>3. CASE sweep'.guid = None
      BY <2>1, <3>1, <3>3
    <3>4. CASE Signal
      BY <2>1, <3>4, <1>1 DEF Signal, Inv, Typed, SweepTyped
    <3>5. ASSUME NEW h \in Guids, Stop(h) PROVE Stop(g)
      BY <2>1, <3>5, <1>1 DEF Stop, Inv, Typed, SweepTyped
    <3>6. CASE World \/ (\E c \in Calls : Call(c)) \/ (\E h \in Guids : Touch(h)) \/ Tick
      <4>1. UNCHANGED sweep
        BY <3>6 DEF Call, EnsureRunning, Resolve, ResolveFails, UseLive, Join, Launch, LaunchReady,
           LaunchFails, Touch,
           Tick, World
      <4> QED
        BY <3>2, <4>1
    <3>7. CASE Sweep \/ Stopped \/ StopFails \/ SweepEnds
      <4>1. sweep'.guid = None
        <5>1. CASE Stopped
          BY <5>1, <1>1 DEF Stopped, Inv, Typed, SweepTyped
        <5>2. CASE Sweep \/ StopFails \/ SweepEnds
          BY <5>2 DEF Sweep, StopFails, SweepEnds, NoSweep
        <5> QED
          BY <3>7, <5>1, <5>2
      <4> QED
        BY <3>3, <4>1
    <3>8. CASE UNCHANGED vars
      BY <3>2, <3>8 DEF vars, supervisor
    <3> QED
      BY <1>1, <3>4, <3>5, <3>6, <3>7, <3>8 DEF Next
  <2>2. ASSUME NEW g \in Guids, Stop(g) PROVE used[g] < sweep.cutoff
    BY <1>1, <2>2 DEF Inv, Typed, SweepTyped, UseTyped, Tracked, ClocksAreKept, Stop, Stale
  <2> QED
    BY <2>1, <2>2
<1> QED
  BY InitInv, InvStep, <1>1, PTL DEF Spec, DestroyedOnlyIfIdle

-----------------------------------------------------------------------------
(* The history of a run (TrajectoryHistory).                               *)
Writes == [agent : Agents, seq : Seqs, terminal : BOOLEAN, status : {"ok", "error"}, ref : Refs \cup {Absent},
           outcome : {"completed", "failed", "shutdown", Absent}]

RowsWereSent ==
    /\ \A w \in Sent : Key(w) \in DOMAIN table
    /\ \A k \in DOMAIN table : table[k] \in Sent /\ Key(table[k]) = k
(* Any set of writes sent has a last.                                      *)
NumbersAreBounded == \E n \in Int : \A w \in Sent : w.seq <= n

HistoryInv == arrived \in Seq(Writes) /\ RowsWereSent /\ NumbersAreBounded /\ FirstAttemptStays

(* A step of the history is the arrival of a write.                        *)
LEMMA WriteArrives ==
    ASSUME NextHistory PROVE \E w \in Writes : Arrive(w)
BY DEF NextHistory, RecordStep, RecordTerminal, Step, Terminal, Writes

LEMMA SentMore ==
    ASSUME arrived \in Seq(Writes), NEW w \in Writes, Arrive(w)
    PROVE  /\ arrived' \in Seq(Writes) /\ Sent' = Sent \cup {w}
           /\ Len(arrived') = Len(arrived) + 1 /\ arrived'[Len(arrived) + 1] = w
           /\ DOMAIN arrived = 1..Len(arrived) /\ DOMAIN arrived' = 1..(Len(arrived) + 1)
           /\ \A i \in DOMAIN arrived : arrived'[i] = arrived[i]
<1>1. /\ arrived' \in Seq(Writes) /\ Len(arrived') = Len(arrived) + 1 /\ arrived'[Len(arrived) + 1] = w
      /\ DOMAIN arrived = 1..Len(arrived) /\ DOMAIN arrived' = 1..(Len(arrived) + 1) /\ Len(arrived) \in Nat
      /\ \A i \in DOMAIN arrived : arrived'[i] = arrived[i]
  BY DEF Arrive
<1>2. Range(arrived') = Range(arrived) \cup {w}
  <2> DEFINE n == Len(arrived)
             m == Len(arrived) + 1
  <2>1. 1..m = 1..n \cup {m}
    BY <1>1
  <2> HIDE DEF m, n
  <2> QED
    BY <1>1, <2>1 DEF Range, m, n
<1> QED
  BY <1>1, <1>2 DEF Sent

LEMMA InsertKeeps ==
    ASSUME NEW w, Arrive(w)
    PROVE  /\ DOMAIN table' = DOMAIN table \cup {Key(w)}
           /\ \A k \in DOMAIN table : table'[k] = table[k]
           /\ Key(w) \notin DOMAIN table => table'[Key(w)] = w
BY DEF Arrive, Insert

LEMMA HistoryInit == InitHistory => HistoryInv
<1> SUFFICES ASSUME InitHistory PROVE HistoryInv
  OBVIOUS
<1>1. arrived \in Seq(Writes) /\ DOMAIN arrived = {} /\ DOMAIN table = {}
  BY DEF InitHistory
<1>2. Sent = {}
  BY <1>1 DEF Sent, Range
<1> QED
  BY <1>1, <1>2 DEF HistoryInv, RowsWereSent, NumbersAreBounded, FirstAttemptStays

LEMMA HistoryStep == HistoryInv /\ [NextHistory]_history => HistoryInv'
<1> SUFFICES ASSUME HistoryInv, [NextHistory]_history PROVE HistoryInv'
  OBVIOUS
<1>1. CASE UNCHANGED history
  BY <1>1 DEF history, HistoryInv, RowsWereSent, NumbersAreBounded, FirstAttemptStays, Sent, Key
<1>2. ASSUME NEW w \in Writes, Arrive(w) PROVE HistoryInv'
  <2>1. arrived \in Seq(Writes) /\ RowsWereSent /\ NumbersAreBounded /\ FirstAttemptStays
    BY DEF HistoryInv
  <2>2. /\ arrived' \in Seq(Writes) /\ Sent' = Sent \cup {w}
        /\ Len(arrived') = Len(arrived) + 1 /\ arrived'[Len(arrived) + 1] = w
        /\ DOMAIN arrived = 1..Len(arrived) /\ DOMAIN arrived' = 1..(Len(arrived) + 1)
        /\ \A i \in DOMAIN arrived : arrived'[i] = arrived[i]
    BY <1>2, <2>1, SentMore
  <2>3. /\ DOMAIN table' = DOMAIN table \cup {Key(w)}
        /\ \A k \in DOMAIN table : table'[k] = table[k]
        /\ Key(w) \notin DOMAIN table => table'[Key(w)] = w
    BY <1>2, InsertKeeps
  <2>4. RowsWereSent'
    BY <2>1, <2>2, <2>3 DEF RowsWereSent, Key
  <2>5. NumbersAreBounded'
    <3>1. PICK n \in Int : \A v \in Sent : v.seq <= n
      BY <2>1 DEF NumbersAreBounded
    <3>2. w.seq \in Int /\ \A v \in Sent : v.seq \in Int
      <4>1. Sent \subseteq Writes
        BY <2>1 DEF Sent, Range
      <4> QED
        BY <4>1, HistoryAssumption DEF HistoryAssumption, Writes
    <3>3. CASE w.seq <= n
      BY <2>2, <3>1, <3>3 DEF NumbersAreBounded
    <3>4. CASE n <= w.seq
      <4>1. \A v \in Sent' : v.seq <= w.seq
        BY <2>2, <3>1, <3>2, <3>4
      <4> QED
        BY <3>2, <4>1 DEF NumbersAreBounded
    <3> QED
      BY <3>2, <3>3, <3>4
  <2>6. FirstAttemptStays'
    <3> SUFFICES ASSUME NEW v \in Sent'
                 PROVE  \E i \in DOMAIN arrived' :
                           /\ Key(arrived'[i]) = Key(v) /\ Key(v) \in DOMAIN table' /\ table'[Key(v)] = arrived'[i]
                           /\ \A j \in 1..(i - 1) : Key(arrived'[j]) # Key(v)
      BY DEF FirstAttemptStays, Key
    <3>1. Len(arrived) \in Nat
      BY <2>1
    <3>2. ASSUME NEW u \in Sent, Key(u) = Key(v)
          PROVE  \E i \in DOMAIN arrived' :
                    /\ Key(arrived'[i]) = Key(v) /\ Key(v) \in DOMAIN table' /\ table'[Key(v)] = arrived'[i]
                    /\ \A j \in 1..(i - 1) : Key(arrived'[j]) # Key(v)
      <4>1. PICK i \in DOMAIN arrived :
               /\ Key(arrived[i]) = Key(u) /\ Key(u) \in DOMAIN table /\ table[Key(u)] = arrived[i]
               /\ \A j \in 1..(i - 1) : Key(arrived[j]) # Key(u)
        BY <2>1 DEF FirstAttemptStays
      <4>2. i \in DOMAIN arrived' /\ 1..(i - 1) \subseteq DOMAIN arrived
        BY <2>2, <3>1
      <4> QED
        BY <2>2, <2>3, <3>2, <4>1, <4>2
    <3>3. CASE \A u \in Sent : Key(u) # Key(v)
      <4>1. v = w /\ Key(v) \notin DOMAIN table
        BY <2>1, <2>2, <3>3 DEF RowsWereSent
      <4>2. \A j \in DOMAIN arrived : arrived[j] \in Sent
        BY DEF Sent, Range
      <4>3. \A j \in 1..(Len(arrived) + 1 - 1) : Key(arrived'[j]) # Key(v)
        BY <2>2, <3>1, <3>3, <4>2
      <4>4. Len(arrived) + 1 \in DOMAIN arrived'
        BY <2>2, <3>1
      <4> QED
        BY <2>2, <2>3, <4>1, <4>3, <4>4
    <3> QED
      BY <3>2, <3>3
  <2> QED
    BY <2>2, <2>4, <2>5, <2>6 DEF HistoryInv
<1> QED
  BY <1>1, <1>2, WriteArrives

-----------------------------------------------------------------------------
(* A bounded set of rows has a last.                                       *)
LEMMA LastRow ==
    ASSUME NEW S \in SUBSET Writes, S # {}, NEW n \in Int, \A w \in S : w.seq <= n
    PROVE  LastOf(S) \in S /\ \A w \in S : w.seq <= LastOf(S).seq
<1> DEFINE D == {n - w.seq : w \in S}
           R == OpToRel(<, Nat)
<1>1. \A w \in S : w.seq \in Int
  BY HistoryAssumption DEF HistoryAssumption, Writes
<1>2. D \subseteq Nat /\ D # {}
  BY <1>1
<1>3. IsWellFoundedOn(R, Nat)
  BY NatLessThanWellFounded
<1>4. \A i, j \in Nat : i < j => <<i, j>> \in R
  BY DEF OpToRel
<1> HIDE DEF R
<1>5. PICK d \in D : \A e \in D : ~(<<e, d>> \in R)
  BY <1>2, <1>3, WFMin
<1>6. PICK r \in S : d = n - r.seq
  BY <1>5
<1>7. \A w \in S : w.seq <= r.seq
  <2> SUFFICES ASSUME NEW w \in S, r.seq < w.seq PROVE FALSE
    BY <1>1
  <2>1. n - w.seq \in D /\ n - w.seq < d
    BY <1>1, <1>6
  <2> QED
    BY <1>2, <1>4, <1>5, <2>1
<1> QED
  BY <1>6, <1>7 DEF LastOf

(* What is read of an agent was sent by it.                                *)
LEMMA LaneWasSent ==
    ASSUME HistoryInv, NEW a
    PROVE  /\ Lane(a) \subseteq SentBy(a) /\ Sent \subseteq Writes
           /\ (Once(a) => Lane(a) = SentBy(a))
<1>1. Sent \subseteq Writes
  BY DEF HistoryInv, Sent, Range
<1>2. Lane(a) \subseteq SentBy(a)
  BY DEF HistoryInv, RowsWereSent, Lane, SentBy, Key
<1>3. ASSUME Once(a), NEW w \in SentBy(a) PROVE w \in Lane(a)
  <2>1. w \in Sent /\ w.agent = a /\ Key(w) \in DOMAIN table /\ Key(w)[1] = a
    BY DEF HistoryInv, RowsWereSent, SentBy, Key
  <2>2. table[Key(w)] \in Sent /\ Key(table[Key(w)]) = Key(w)
    BY <2>1 DEF HistoryInv, RowsWereSent
  <2>3. table[Key(w)] = w
    BY <1>3, <2>1, <2>2 DEF Once, SentBy, Key
  <2> QED
    BY <2>1, <2>3 DEF Lane
<1> QED
  BY <1>1, <1>2, <1>3

(* The last row of any part of a lane.                                     *)
LEMMA LastOfLane ==
    ASSUME HistoryInv, NEW a, NEW S \in SUBSET Lane(a), S # {}
    PROVE  LastOf(S) \in S /\ \A w \in S : w.seq \in Int /\ w.seq <= LastOf(S).seq
<1>1. PICK n \in Int : \A w \in Sent : w.seq <= n
  BY DEF HistoryInv, NumbersAreBounded
<1>2. S \subseteq Writes /\ \A w \in S : w.seq <= n
  BY <1>1, LaneWasSent DEF SentBy
<1>3. \A w \in S : w.seq \in Int
  BY <1>2, HistoryAssumption DEF HistoryAssumption, Writes
<1> QED
  BY <1>2, <1>3, LastRow

(* No row of the lane lies after the stop.                                 *)
LEMMA StopIsLast ==
    ASSUME HistoryInv, NEW a
    PROVE  /\ StopPoint(a).lastSeq \in Int /\ -1 <= StopPoint(a).lastSeq
           /\ \A w \in Lane(a) : w.seq <= StopPoint(a).lastSeq
           /\ StopPoint(a).lastSeq # -1 => \E w \in Lane(a) : w.seq = StopPoint(a).lastSeq
           /\ StopPoint(a).terminated <=> \E w \in Lane(a) : w.terminal
<1> DEFINE last == StopPoint(a).lastSeq
<1>1. last = IF Lane(a) = {} \/ LastOf(Lane(a)).seq < -1 THEN -1 ELSE LastOf(Lane(a)).seq
  BY DEF StopPoint
<1>2. StopPoint(a).terminated <=> \E w \in Lane(a) : w.terminal
  <2>1. CASE {r \in Lane(a) : r.terminal} = {}
    <3>1. StopPoint(a).terminated = FALSE
      BY <2>1 DEF StopPoint
    <3> QED
      BY <2>1, <3>1
  <2>2. CASE {r \in Lane(a) : r.terminal} # {}
    <3>1. StopPoint(a).terminated = TRUE
      BY <2>2 DEF StopPoint
    <3> QED
      BY <2>2, <3>1
  <2> QED
    BY <2>1, <2>2
<1> HIDE DEF last
<1>3. CASE Lane(a) = {}
  BY <1>1, <1>2, <1>3 DEF last
<1>4. CASE Lane(a) # {}
  <2>1. LastOf(Lane(a)) \in Lane(a) /\ \A w \in Lane(a) : w.seq \in Int /\ w.seq <= LastOf(Lane(a)).seq
    BY <1>4, LastOfLane
  <2>2. LastOf(Lane(a)).seq \in Int
    BY <2>1
  <2>3. CASE LastOf(Lane(a)).seq < -1
    <3>1. last = -1
      BY <1>1, <2>3
    <3>2. \A w \in Lane(a) : w.seq <= -1
      BY <2>1, <2>2, <2>3
    <3> QED
      BY <1>2, <3>1, <3>2 DEF last
  <2>4. CASE ~(LastOf(Lane(a)).seq < -1)
    <3>1. last = LastOf(Lane(a)).seq
      BY <1>1, <1>4, <2>4
    <3> QED
      BY <1>2, <2>1, <2>2, <2>4, <3>1 DEF last
  <2> QED
    BY <2>3, <2>4
<1> QED
  BY <1>3, <1>4

(* The step to resume from is the last success of the lane.                *)
LEMMA ResumeIsLast ==
    ASSUME HistoryInv, NEW a
    PROVE  /\ ResumePoint(a) # Absent =>
                \E w \in Lane(a) : Succeeded(w) /\ ResumePoint(a) = [seq |-> w.seq, ref |-> w.ref]
           /\ \A w \in Lane(a) : Succeeded(w) => ResumePoint(a) # Absent /\ w.seq <= ResumePoint(a).seq
<1> DEFINE rows == {r \in Lane(a) : r.status = "ok" /\ r.ref # Absent}
<1>1. ResumePoint(a) = IF rows = {} THEN Absent ELSE [seq |-> LastOf(rows).seq, ref |-> LastOf(rows).ref]
  BY DEF ResumePoint
<1>2. \A w : w \in rows <=> w \in Lane(a) /\ Succeeded(w)
  BY DEF Succeeded
<1> HIDE DEF rows
<1>3. CASE rows = {}
  BY <1>1, <1>2, <1>3
<1>4. CASE rows # {}
  <2>1. rows \subseteq Lane(a)
    BY <1>2
  <2>2. LastOf(rows) \in rows /\ \A w \in rows : w.seq <= LastOf(rows).seq
    BY <1>4, <2>1, LastOfLane
  <2>3. LastOf(rows) \in Writes /\ LastOf(rows).ref # Absent
    BY <1>2, <2>1, <2>2, LaneWasSent DEF SentBy, Succeeded
  <2>4. [seq |-> LastOf(rows).seq, ref |-> LastOf(rows).ref] # Absent
    BY <2>3, HistoryAssumption DEF HistoryAssumption, Writes
  <2>5. ResumePoint(a) = [seq |-> LastOf(rows).seq, ref |-> LastOf(rows).ref]
    BY <1>1, <1>4
  <2> QED
    BY <1>2, <2>2, <2>4, <2>5
<1> QED
  BY <1>3, <1>4

LEMMA OutcomeIsLast ==
    ASSUME HistoryInv, NEW a, Once(a), NEW w \in SentBy(a), w.terminal,
           \A v \in SentBy(a) : v.terminal => v.seq <= w.seq
    PROVE  StopPoint(a).outcome = w.outcome
<1> DEFINE terminals == {r \in Lane(a) : r.terminal}
<1>1. w \in terminals /\ terminals \subseteq Lane(a) /\ Lane(a) = SentBy(a)
  BY LaneWasSent
<1>2. LastOf(terminals) \in terminals /\ \A v \in terminals : v.seq \in Int /\ v.seq <= LastOf(terminals).seq
  BY <1>1, LastOfLane
<1>3. LastOf(terminals).seq = w.seq
  BY <1>1, <1>2
<1>4. LastOf(terminals) = w
  BY <1>1, <1>2, <1>3 DEF Once
<1> QED
  BY <1>1, <1>4 DEF StopPoint

(* trajectory-history.ts: whatever order the writes of any number of       *)
(* agents arrive in, repeated or lost, the history tells where a run       *)
(* stopped and from which step it can be taken up again.                   *)
THEOREM HistoryIsReadAlways == HistorySpec => []HistoryIsRead
<1>1. ASSUME HistoryInv PROVE HistoryIsRead
  <2>1. FirstAttemptStays
    BY <1>1 DEF HistoryInv
  <2>2. ASSUME NEW a \in Agents, ResumePoint(a) # Absent
        PROVE  /\ ResumePoint(a).seq <= StopPoint(a).lastSeq
               /\ \E w \in SentBy(a) : Succeeded(w) /\ ResumePoint(a) = [seq |-> w.seq, ref |-> w.ref]
    <3>1. PICK w \in Lane(a) : Succeeded(w) /\ ResumePoint(a) = [seq |-> w.seq, ref |-> w.ref]
      BY <1>1, <2>2, ResumeIsLast
    <3>2. w \in SentBy(a) /\ w.seq <= StopPoint(a).lastSeq
      BY <1>1, LaneWasSent, StopIsLast
    <3> QED
      BY <3>1, <3>2
  <2>3. ASSUME NEW a \in Agents, Once(a) PROVE ReadsWhatWasSent(a)
    <3>1. Lane(a) = SentBy(a)
      BY <1>1, <2>3, LaneWasSent
    <3>2. /\ \A w \in SentBy(a) : w.seq <= StopPoint(a).lastSeq
          /\ StopPoint(a).terminated <=> \E w \in SentBy(a) : w.terminal
      BY <1>1, <3>1, StopIsLast
    <3>3. \A w \in SentBy(a) : Succeeded(w) => ResumePoint(a) # Absent /\ w.seq <= ResumePoint(a).seq
      BY <1>1, <3>1, ResumeIsLast
    <3>4. \A w \in SentBy(a) : w.terminal /\ (\A v \in SentBy(a) : v.terminal => v.seq <= w.seq) =>
             StopPoint(a).outcome = w.outcome
      BY <1>1, <2>3, OutcomeIsLast
    <3> QED
      BY <3>1, <3>2, <3>3, <3>4 DEF ReadsWhatWasSent
  <2> QED
    BY <2>1, <2>2, <2>3 DEF HistoryIsRead, ResumesBeforeItsStop
<1> QED
  BY HistoryInit, HistoryStep, <1>1, PTL DEF HistorySpec

(* An arrival adds at most its write to the lane of its agent.             *)
LEMMA LanesGrow ==
    ASSUME HistoryInv, NEW w \in Writes, Arrive(w), NEW a
    PROVE  Lane(a) \subseteq Lane(a)' /\ (w.agent # a => Lane(a)' = Lane(a))
<1>1. /\ DOMAIN table' = DOMAIN table \cup {Key(w)}
      /\ \A k \in DOMAIN table : table'[k] = table[k]
  BY InsertKeeps
<1>2. Key(w)[1] = w.agent
  BY DEF Key
<1> QED
  BY <1>1, <1>2 DEF Lane

(* trajectory-history.ts: what a reader was told of a run stays good.      *)
THEOREM HistoryMovesOnAlways == HistorySpec => HistoryMovesOn
<1> DEFINE On ==
      \A a \in Agents :
        /\ Lane(a) \subseteq Lane(a)'
        /\ StopPoint(a).lastSeq <= StopPoint(a)'.lastSeq
        /\ StopPoint(a).terminated => StopPoint(a)'.terminated
        /\ ResumePoint(a) # Absent => ResumePoint(a)' # Absent /\ ResumePoint(a).seq <= ResumePoint(a)'.seq
        /\ (\E b \in Agents \ {a} : Lane(b)' # Lane(b)) => Lane(a)' = Lane(a)
      Read == HistoryInv =>
        \A a \in Agents :
          /\ StopPoint(a).lastSeq \in Int /\ -1 <= StopPoint(a).lastSeq
          /\ \A v \in Lane(a) : v.seq <= StopPoint(a).lastSeq
          /\ StopPoint(a).terminated <=> \E v \in Lane(a) : v.terminal
          /\ \A u \in Lane(a) : Succeeded(u) => ResumePoint(a) # Absent /\ u.seq <= ResumePoint(a).seq
<1>1. Read
  BY StopIsLast, ResumeIsLast
<1>2. Read'
  BY <1>1, PTL
<1>3. ASSUME HistoryInv, [NextHistory]_history PROVE [On]_history
  <2> SUFFICES ASSUME NEW w \in Writes, Arrive(w) PROVE On
    BY <1>3, WriteArrives
  <2>1. HistoryInv'
    BY <1>3, HistoryStep
  <2>2. \A a : Lane(a) \subseteq Lane(a)' /\ (w.agent # a => Lane(a)' = Lane(a))
    BY <1>3, LanesGrow
  <2>3. ASSUME NEW a \in Agents
        PROVE  /\ StopPoint(a).lastSeq <= StopPoint(a)'.lastSeq
               /\ StopPoint(a).terminated => StopPoint(a)'.terminated
    <3>1. /\ StopPoint(a).lastSeq \in Int
          /\ StopPoint(a).lastSeq # -1 => \E v \in Lane(a) : v.seq = StopPoint(a).lastSeq
          /\ StopPoint(a).terminated <=> \E v \in Lane(a) : v.terminal
      BY <1>3, StopIsLast
    <3>2. /\ StopPoint(a)'.lastSeq \in Int /\ -1 <= StopPoint(a)'.lastSeq
          /\ \A v \in Lane(a)' : v.seq <= StopPoint(a)'.lastSeq
          /\ StopPoint(a)'.terminated <=> \E v \in Lane(a)' : v.terminal
      BY <1>2, <2>1
    <3> QED
      BY <2>2, <3>1, <3>2
  <2>4. ASSUME NEW a \in Agents, ResumePoint(a) # Absent
        PROVE  ResumePoint(a)' # Absent /\ ResumePoint(a).seq <= ResumePoint(a)'.seq
    <3>1. PICK v \in Lane(a) : Succeeded(v) /\ ResumePoint(a) = [seq |-> v.seq, ref |-> v.ref]
      BY <1>3, <2>4, ResumeIsLast
    <3>2. \A u \in Lane(a)' : Succeeded(u) => ResumePoint(a)' # Absent /\ u.seq <= ResumePoint(a)'.seq
      BY <1>2, <2>1 DEF Succeeded
    <3>3. v \in Lane(a)' /\ ResumePoint(a).seq = v.seq
      BY <2>2, <3>1
    <3> QED
      BY <3>1, <3>2, <3>3
  <2>5. ASSUME NEW a \in Agents, NEW b \in Agents \ {a}, Lane(b)' # Lane(b) PROVE Lane(a)' = Lane(a)
    BY <2>2, <2>5
  <2> QED
    BY <2>2, <2>3, <2>4, <2>5
<1> QED
  BY HistoryInit, HistoryStep, <1>3, PTL DEF HistorySpec, HistoryMovesOn
=============================================================================
