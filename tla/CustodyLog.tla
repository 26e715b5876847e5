----------------------------- MODULE CustodyLog -----------------------------
(***************************************************************************)
(* What the custody ledger promises its callers: one append-only log per   *)
(* domain.  A call of appendEvent adds its event at most once, at the end  *)
(* of its domain's log and in one step; a call that returns normally has   *)
(* added it.  A call that fails, or whose process dies, may or may not     *)
(* have added it (the log does not promise that a failed call left nothing *)
(* behind).                                                                *)
(***************************************************************************)
EXTENDS Sequences

CONSTANTS Calls,          \* calls of appendEvent
          Domains,
          DomainOf,       \* [Calls -> Domains]
          EventOf         \* the event each call carries

VARIABLES log,            \* [Domains -> sequence of events]
          added,          \* calls whose event is in the log
          reply           \* [Calls -> {"none", "ok", "error"}]

logVars == <<log, added, reply>>

Init ==
    /\ log = [d \in Domains |-> <<>>]
    /\ added = {}
    /\ reply = [c \in Calls |-> "none"]

Add(c) ==
    /\ c \notin added
    /\ reply[c] = "none"
    /\ log' = [log EXCEPT ![DomainOf[c]] = Append(@, EventOf[c])]
    /\ added' = added \cup {c}

(* The commit is durable but its acknowledgement is lost: the call fails.  *)
AddUnknown(c) == Add(c) /\ reply' = [reply EXCEPT ![c] = "error"]
AddKnown(c)   == Add(c) /\ UNCHANGED reply

ReturnOk(c) ==
    /\ c \in added
    /\ reply[c] = "none"
    /\ reply' = [reply EXCEPT ![c] = "ok"]
    /\ UNCHANGED <<log, added>>

(* Several calls fail in one step when the process that made them dies.    *)
Fail(C) ==
    /\ \A c \in C : reply[c] = "none"
    /\ reply' = [c \in Calls |-> IF c \in C THEN "error" ELSE reply[c]]
    /\ UNCHANGED <<log, added>>

Next ==
    \/ \E c \in Calls : AddKnown(c) \/ AddUnknown(c) \/ ReturnOk(c)
    \/ \E C \in SUBSET Calls : Fail(C)

Spec == Init /\ [][Next]_logVars
=============================================================================
