-------------------------- MODULE TrajectoryHistory --------------------------
(***************************************************************************)
(* The DAG History store (platform/trajectory-history.ts) and the two      *)
(* endpoints that write it (api/routes/data-access.ts), for one            *)
(* correlation.                                                            *)
(*                                                                         *)
(* A write is [agent, seq, terminal, status, ref, outcome].  Writes arrive *)
(* in any order, any number of times, or never: an agent may retry freely, *)
(* and a mirrored step whose write fails is given up.  The table is a      *)
(* function from the keys (agent, seq) to the write that came first.       *)
(***************************************************************************)
EXTENDS Integers, Sequences, FiniteSets, FiniteSetsExt, Functions

CONSTANTS Agents,        \* agent_guid
          Seqs,          \* the numbers agents give their steps: z.number().int()
          Refs,          \* content hashes
          Absent,        \* SQL NULL
          MaxArrivals    \* bound: writes that arrive

ASSUME HistoryAssumption == Seqs \subseteq Int /\ Absent \notin [seq : Seqs, ref : Refs]

VARIABLES table,    \* agent_trajectory
          arrived   \* the writes in the order they arrived, repeated ones too

history == <<table, arrived>>

Step(agent, seq, status, ref) ==
    [agent |-> agent, seq |-> seq, terminal |-> FALSE, status |-> status, ref |-> ref, outcome |-> Absent]
Terminal(agent, seq, outcome, ref) ==
    [agent |-> agent, seq |-> seq, terminal |-> TRUE, status |-> IF outcome = "failed" THEN "error" ELSE "ok",
     ref |-> ref, outcome |-> outcome]

(* onConflictDoNothing, on (correlation, agent, seq).                      *)
Key(w) == <<w.agent, w.seq>>
InsertOrUpdate(rows, w) == [k \in DOMAIN rows \cup {Key(w)} |-> IF k = Key(w) THEN w ELSE rows[k]]     \* mutant
Insert(rows, w) ==
    [k \in DOMAIN rows \cup {Key(w)} |-> IF k \in DOMAIN rows THEN rows[k] ELSE w]

Arrive(w) ==
    /\ Len(arrived) < MaxArrivals
    /\ table' = Insert(table, w)
    /\ arrived' = Append(arrived, w)

(* POST /trajectory/steps.                                                 *)
RecordStep ==
    \E a \in Agents, n \in Seqs, status \in {"ok", "error"}, ref \in Refs \cup {Absent} :
        Arrive(Step(a, n, status, ref))
(* POST /trajectory/terminal.                                              *)
RecordTerminal ==
    \E a \in Agents, n \in Seqs, outcome \in {"completed", "failed", "shutdown"}, ref \in Refs \cup {Absent} :
        Arrive(Terminal(a, n, outcome, ref))

InitHistory == table = <<>> /\ arrived = <<>>
NextHistory == RecordStep \/ RecordTerminal
HistorySpec == InitHistory /\ [][NextHistory]_history

-----------------------------------------------------------------------------
Lane(agent) == {table[k] : k \in {q \in DOMAIN table : q[1] = agent}}

(* whereDidItStop: a row of the last terminal marker in order of seq.      *)
LastOf(rows) == CHOOSE r \in rows : \A q \in rows : q.seq <= r.seq
StopPoint(agent) ==
    LET rows == Lane(agent)
        terminals == {r \in rows : r.terminal}
    IN [lastSeq |-> IF rows = {} \/ LastOf(rows).seq < -1 THEN -1 ELSE LastOf(rows).seq,
        terminated |-> terminals # {},
        outcome |-> IF terminals = {} THEN Absent ELSE LastOf(terminals).outcome]

ResumePointOfFailed(agent) ==     \* mutant: an artifact is an artifact
    LET rows == {r \in Lane(agent) : r.ref # Absent}
    IN IF rows = {} THEN Absent ELSE [seq |-> LastOf(rows).seq, ref |-> LastOf(rows).ref]
(* resumePoint: the last row that is ok and names an artifact.             *)
ResumePoint(agent) ==
    LET rows == {r \in Lane(agent) : r.status = "ok" /\ r.ref # Absent}
    IN IF rows = {} THEN Absent ELSE [seq |-> LastOf(rows).seq, ref |-> LastOf(rows).ref]

-----------------------------------------------------------------------------
Sent == Range(arrived)
SentBy(agent) == {w \in Sent : w.agent = agent}
(* The agent never uses a number for two different writes.                 *)
Once(agent) == \A v, w \in SentBy(agent) : v.seq = w.seq => v = w
Succeeded(w) == w.status = "ok" /\ w.ref # Absent

(* trajectory-history.ts: however the writes of a run are ordered and      *)
(* repeated on the way, the first attempt at a step stays; a reader is     *)
(* told to resume from a step that was sent as a success, at or before the *)
(* stop; and of an agent that uses a number once he reads exactly what was *)
(* sent: the stop is at or after every write, a run without a terminal     *)
(* marker is told from one with, its outcome is that of the last marker,   *)
(* and no success lies after the step to resume from.  (A step retried     *)
(* under its number keeps the row of the first attempt, which may be its   *)
(* failure, and a marker under the number of a step is dropped; and a step *)
(* whose write was lost may lie before the one to resume from.)            *)
FirstAttemptStays ==
    \A w \in Sent : \E i \in DOMAIN arrived :
        /\ Key(arrived[i]) = Key(w) /\ Key(w) \in DOMAIN table /\ table[Key(w)] = arrived[i]
        /\ \A j \in 1..(i - 1) : Key(arrived[j]) # Key(w)
ResumesBeforeItsStop(a) ==
    ResumePoint(a) # Absent =>
        /\ ResumePoint(a).seq <= StopPoint(a).lastSeq
        /\ \E w \in SentBy(a) : Succeeded(w) /\ ResumePoint(a) = [seq |-> w.seq, ref |-> w.ref]
ReadsWhatWasSent(a) ==
    /\ Lane(a) = SentBy(a)
    /\ \A w \in SentBy(a) : w.seq <= StopPoint(a).lastSeq
    /\ StopPoint(a).terminated <=> \E w \in SentBy(a) : w.terminal
    /\ \A w \in SentBy(a) : w.terminal /\ (\A v \in SentBy(a) : v.terminal => v.seq <= w.seq) =>
           StopPoint(a).outcome = w.outcome
    /\ \A w \in SentBy(a) : Succeeded(w) => ResumePoint(a) # Absent /\ w.seq <= ResumePoint(a).seq
HistoryIsRead ==
    /\ FirstAttemptStays
    /\ \A a \in Agents : ResumesBeforeItsStop(a) /\ (Once(a) => ReadsWhatWasSent(a))

(* trajectory-history.ts: what a reader was told stays good.  An arriving  *)
(* write leaves the lanes of other agents alone; no stop point and no      *)
(* resume point moves back, and a run once seen to have ended stays ended. *)
HistoryMovesOn == [][
    \A a \in Agents :
        /\ Lane(a) \subseteq Lane(a)'
        /\ StopPoint(a).lastSeq <= StopPoint(a)'.lastSeq
        /\ StopPoint(a).terminated => StopPoint(a)'.terminated
        /\ ResumePoint(a) # Absent => ResumePoint(a)' # Absent /\ ResumePoint(a).seq <= ResumePoint(a)'.seq
        /\ (\E b \in Agents \ {a} : Lane(b)' # Lane(b)) => Lane(a)' = Lane(a)]_history
=============================================================================
