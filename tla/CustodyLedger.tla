---------------------------- MODULE CustodyLedger ----------------------------
(***************************************************************************)
(* custody/ledger.ts, custody/sink.ts and custody/anchor.ts: concurrent    *)
(* calls of appendEvent from several agent processes on one database, the  *)
(* mirroring of every committed event to the provenance sinks, and anchors *)
(* of the chain's head.                                                    *)
(*                                                                         *)
(* The database runs at READ COMMITTED: a transaction reads the rows that  *)
(* are committed when its statement runs (and its own).  seq is one        *)
(* bigserial for all domains: it is drawn by the INSERT and not given back *)
(* when the transaction aborts.                                            *)
(***************************************************************************)
EXTENDS CustodyChain

CONSTANTS Calls,          \* calls of appendEvent
          Agents,         \* operating-system processes that make the calls
          Domains,
          Correlations,
          AgentOf,        \* [Calls -> Agents]
          DomainOf,       \* [Calls -> Domains]
          EventOf,        \* [Calls -> hashed event fields, with .corr]
          Sinks,          \* configured provenance sinks
          RequiredSinks,  \* those built with required: true
          AnchorCalls,    \* calls of anchorHead
          NoCall

ASSUME LedgerAssumption ==
    /\ AgentOf \in [Calls -> Agents]
    /\ DomainOf \in [Calls -> Domains]
    /\ \A c \in Calls : EventOf[c].corr \in Correlations
    /\ RequiredSinks \subseteq Sinks
    /\ NoCall \notin Calls

VARIABLES table,          \* committed rows of custody_events
          nextSeq,        \* the bigserial
          lock,           \* [Domains -> the call holding the advisory lock]
          pc,             \* [Calls -> control point of the call]
          head,           \* [Calls -> prevHash the transaction read]
          row,            \* [Calls -> the row it inserted]
          post,           \* [Calls -> [Sinks -> state of the POST]]
          mirror,         \* [Sinks -> envelopes the external service holds]
          anchoring,      \* [AnchorCalls -> head row it signs, or NoRow]
          anchors         \* rows of custody_anchors, in insertion order

chainVars == <<table, nextSeq, lock, head, row>>
anchorVars == <<anchoring, anchors>>
vars == <<table, nextSeq, lock, pc, head, row, post, mirror, anchoring, anchors>>

Events == {EventOf[c] : c \in Calls}
Hashes == Seq(Events)
Rows == [seq : Nat \ {0}, domain : Domains, ev : Events, prev : Hashes, hash : Hashes]
AnchorRows == [domain : Domains, headSeq : Nat, headHash : Hashes]
NoRow == [seq |-> 0]            \* bigserials start at 1

InTransaction == {"locked", "read", "inserted"}

Init ==
    /\ table = {}
    /\ nextSeq = 1
    /\ lock = [d \in Domains |-> NoCall]
    /\ pc = [c \in Calls |-> "called"]
    /\ head = [c \in Calls |-> GENESIS_HASH]
    /\ row = [c \in Calls |-> NoRow]
    /\ post = [c \in Calls |-> [s \in Sinks |-> "none"]]
    /\ mirror = [s \in Sinks |-> {}]
    /\ anchoring = [a \in AnchorCalls |-> NoRow]
    /\ anchors = <<>>

-----------------------------------------------------------------------------
(* The transaction of appendEvent.  Operators marked "mutant" are used only *)
(* to show that the properties below depend on the definition after them.  *)

LockIgnored(c) == TRUE                             \* mutant: no advisory lock
LockFree(c) == lock[DomainOf[c]] = NoCall

(* SELECT pg_advisory_xact_lock(hashtext(domain)).                         *)
AcquireLock(c) ==
    /\ pc[c] = "called"
    /\ LockFree(c)
    /\ lock' = [lock EXCEPT ![DomainOf[c]] = c]
    /\ pc' = [pc EXCEPT ![c] = "locked"]
    /\ UNCHANGED <<table, nextSeq, head, row, post, mirror, anchorVars>>

VisibleAnyDomain(c) == table                       \* mutant: no WHERE domain
Visible(c) == RowsOf(table, DomainOf[c])

ReadHead(c) ==
    /\ pc[c] = "locked"
    /\ head' = [head EXCEPT ![c] = HeadHash(Visible(c))]
    /\ pc' = [pc EXCEPT ![c] = "read"]
    /\ UNCHANGED <<table, nextSeq, lock, row, post, mirror, anchorVars>>

(* hashEntry, then INSERT ... RETURNING seq.                               *)
NewRow(c) ==
    [seq |-> nextSeq, domain |-> DomainOf[c], ev |-> EventOf[c],
     prev |-> head[c], hash |-> HashEntry(head[c], EventOf[c])]

Insert(c) ==
    /\ pc[c] = "read"
    /\ row' = [row EXCEPT ![c] = NewRow(c)]
    /\ nextSeq' = nextSeq + 1
    /\ pc' = [pc EXCEPT ![c] = "inserted"]
    /\ UNCHANGED <<table, lock, head, post, mirror, anchorVars>>

SessionLock(c) == UNCHANGED lock                   \* mutant: pg_advisory_lock
Release(c) == lock' = [lock EXCEPT ![DomainOf[c]] = NoCall]

(* The commit makes the row visible and releases the lock.  The call goes  *)
(* on to open one POST to every sink (Promise.all over sinks.map).         *)
Commit(c) ==
    /\ pc[c] = "inserted"
    /\ table' = table \cup {row[c]}
    /\ Release(c)
    /\ pc' = [pc EXCEPT ![c] = "mirroring"]
    /\ post' = [post EXCEPT ![c] = [s \in Sinks |-> "open"]]
    /\ UNCHANGED <<nextSeq, head, row, mirror, anchorVars>>

(* The row is durable, the acknowledgement is lost with the connection:    *)
(* the call throws and mirrors nothing.                                    *)
CommitUnknown(c) ==
    /\ pc[c] = "inserted"
    /\ table' = table \cup {row[c]}
    /\ Release(c)
    /\ pc' = [pc EXCEPT ![c] = "failed"]
    /\ UNCHANGED <<nextSeq, head, row, post, mirror, anchorVars>>

(* A statement fails: the transaction rolls back and the call throws.      *)
Rollback(c) ==
    /\ pc[c] \in InTransaction
    /\ Release(c)
    /\ pc' = [pc EXCEPT ![c] = "failed"]
    /\ UNCHANGED <<table, nextSeq, head, row, post, mirror, anchorVars>>

-----------------------------------------------------------------------------
(* The sinks: HttpProvenanceSink.write.                                    *)

Envelope(c) == row[c]

SentBeforeCommit(c, s) == pc[c] = "inserted"       \* mutant: in the transaction
Sent(c, s) == post[c][s] \in {"open", "error"}

(* The service stores the envelope.  The POST can still fail (an error     *)
(* status, a late answer), and a request already sent can arrive after the *)
(* 5 s abort, after its caller has thrown, or after the caller's death.    *)
Deliver(c, s) ==
    /\ Sent(c, s)
    /\ mirror' = [mirror EXCEPT ![s] = @ \cup {Envelope(c)}]
    /\ \E answer \in {"ok", "error"} :
          /\ post[c][s] = "error" => answer = "error"
          /\ post' = [post EXCEPT ![c][s] = answer]
    /\ UNCHANGED <<chainVars, pc, anchorVars>>

PostFails(c, s) ==
    /\ post[c][s] = "open"
    /\ post' = [post EXCEPT ![c][s] = "error"]
    /\ UNCHANGED <<chainVars, pc, mirror, anchorVars>>

(* Only a required sink's write rejects; an advisory one warns.            *)
Rejects(c, s) == s \in RequiredSinks /\ post[c][s] = "error"
Resolves(c, s) == post[c][s] # "open" /\ ~Rejects(c, s)

NotAwaited(c) == TRUE                              \* mutant: no await
AllResolve(c) == \A s \in Sinks : Resolves(c, s)

Return(c) ==
    /\ pc[c] = "mirroring"
    /\ AllResolve(c)
    /\ pc' = [pc EXCEPT ![c] = "done"]
    /\ UNCHANGED <<chainVars, post, mirror, anchorVars>>

(* Promise.all rejects at the first rejection; the other POSTs go on.      *)
Throw(c) ==
    /\ pc[c] = "mirroring"
    /\ \E s \in Sinks : Rejects(c, s)
    /\ pc' = [pc EXCEPT ![c] = "failed"]
    /\ UNCHANGED <<chainVars, post, mirror, anchorVars>>

-----------------------------------------------------------------------------
(* An agent process dies.  Its open transactions roll back, which releases *)
(* their locks; what it committed stays.                                   *)

InFlight == InTransaction \cup {"mirroring"}
Victims(a) == {c \in Calls : AgentOf[c] = a /\ pc[c] \in InFlight}

Crash(a) ==
    /\ Victims(a) # {}
    /\ pc' = [c \in Calls |-> IF c \in Victims(a) THEN "dead" ELSE pc[c]]
    /\ lock' = [d \in Domains |-> IF lock[d] \in Victims(a) THEN NoCall ELSE lock[d]]
    /\ UNCHANGED <<table, nextSeq, head, row, post, mirror, anchorVars>>

-----------------------------------------------------------------------------
(* anchorHead: reads the head without the lock, signs it, inserts it.      *)

AnchorRead(a, d) ==
    /\ anchoring[a] = NoRow
    /\ RowsOf(table, d) # {}
    /\ anchoring' = [anchoring EXCEPT ![a] = Latest(RowsOf(table, d))]
    /\ UNCHANGED <<chainVars, pc, post, mirror, anchors>>

SignedSeqReread(r) == Latest(RowsOf(table, r.domain)).seq  \* mutant: two reads
SignedSeq(r) == r.seq

AnchorRow(r) ==
    [domain |-> r.domain, headSeq |-> SignedSeq(r), headHash |-> r.hash]

AnchorInsert(a) ==
    /\ anchoring[a] # NoRow
    /\ Len(anchors) < Cardinality(AnchorCalls)     \* bound: one per call
    /\ anchors' = Append(anchors, AnchorRow(anchoring[a]))
    /\ anchoring' = [anchoring EXCEPT ![a] = NoRow]
    /\ UNCHANGED <<chainVars, pc, post, mirror>>

-----------------------------------------------------------------------------
(* custody/export.ts buildCustodyDossier: the events of a correlation, the *)
(* verdict on them and the first anchor at or beyond the last of them.     *)
CoversAny(anchor, headSeq) == TRUE                 \* mutant: no WHERE head_seq
Covers(anchor, headSeq) == anchor.headSeq >= headSeq

Dossier(d, k) ==
    LET events == Slice(table, d, k)
        headSeq == IF events = {} THEN 0 ELSE Latest(events).seq
        covering == {i \in DOMAIN anchors : anchors[i].domain = d /\ Covers(anchors[i], headSeq)}
        first == {i \in covering : \A j \in covering : anchors[i].headSeq <= anchors[j].headSeq}
    IN [events |-> events, integrity |-> VerifyChain(events),
        anchors |-> {anchors[i] : i \in first}]     \* LIMIT 1 takes any of these

-----------------------------------------------------------------------------
Database(c) == AcquireLock(c) \/ ReadHead(c) \/ Insert(c) \/ Commit(c)
Settle(c, s) == post[c][s] = "open" /\ (Deliver(c, s) \/ PostFails(c, s))
Answer(c) == Return(c) \/ Throw(c)

Next ==
    \/ \E c \in Calls :
          \/ AcquireLock(c) \/ ReadHead(c) \/ Insert(c)
          \/ Commit(c) \/ CommitUnknown(c) \/ Rollback(c)
          \/ Return(c) \/ Throw(c)
          \/ \E s \in Sinks : Deliver(c, s) \/ PostFails(c, s)
    \/ \E a \in Agents : Crash(a)
    \/ \E a \in AnchorCalls :
          \/ \E d \in Domains : AnchorRead(a, d)
          \/ AnchorInsert(a)

Spec == Init /\ [][Next]_vars

(* The database executes statements that were sent, a POST is over within  *)
(* its 5 s timeout, and the event loop resumes a call whose promises have  *)
(* settled.  Nothing is assumed of crashes, failures or anchoring.         *)
Fairness ==
    /\ \A c \in Calls : WF_vars(Database(c)) /\ WF_vars(Answer(c))
    /\ \A c \in Calls : \A s \in Sinks : WF_vars(Settle(c, s))

FairSpec == Spec /\ Fairness

-----------------------------------------------------------------------------
(* Every variable keeps its type.                                          *)
TypeOK ==
    /\ table \subseteq Rows
    /\ nextSeq \in Nat \ {0}
    /\ lock \in [Domains -> Calls \cup {NoCall}]
    /\ pc \in [Calls -> InFlight \cup {"called", "done", "failed", "dead"}]
    /\ head \in [Calls -> Hashes]
    /\ row \in [Calls -> Rows \cup {NoRow}]
    /\ post \in [Calls -> [Sinks -> {"none", "open", "ok", "error"}]]
    /\ mirror \in [Sinks -> SUBSET Rows]
    /\ anchoring \in [AnchorCalls -> Rows \cup {NoRow}]
    /\ anchors \in Seq(AnchorRows)

(* verifyChain over a whole domain never reports a break in rows that only *)
(* appendEvent wrote, whatever calls overlapped, rolled back or died.      *)
DomainVerifies == \A d \in Domains : VerifyChain(RowsOf(table, d)).ok

(* The hash of a row commits to every event of its domain up to that row,  *)
(* in seq order and to nothing else: no event was chained past, none was   *)
(* dropped and no two rows share a predecessor.                            *)
HashCommitsToHistory ==
    \A r \in table :
       LET past == {q \in RowsOf(table, r.domain) : q.seq <= r.seq}
       IN /\ Len(r.hash) = Cardinality(past)
          /\ \A q \in past : r.hash[Cardinality(Before(past, q)) + 1] = q.ev

(* Rows are only ever added, and within a domain the order in which rows   *)
(* become visible is their seq order: a reader that has seen seq n never   *)
(* finds a smaller one later.                                              *)
AppendOnly ==
    [][/\ table \subseteq table'
       /\ \A r \in table' \ table :
             \A q \in RowsOf(table, r.domain) : q.seq < r.seq]_vars

(* The external record never holds an envelope that the ledger does not    *)
(* have: an auditor who reads only the sink is not told of events that     *)
(* were rolled back, or given another seq, prevHash or entryHash.          *)
MirrorIsInLedger == \A s \in Sinks : mirror[s] \subseteq table

(* A call that returns has its event in the ledger and in every sink that  *)
(* was configured as required.                                             *)
ReturnedIsRecorded ==
    \A c \in Calls : pc[c] = "done" =>
       /\ row[c] \in table
       /\ \A s \in RequiredSinks : row[c] \in mirror[s]

(* An anchor, once inserted, attests to a row that is in the chain, and    *)
(* every later head extends the history it signed.                         *)
Extends(h, g) == Len(g) <= Len(h) /\ \A i \in 1 .. Len(g) : h[i] = g[i]

AnchorsHold ==
    \A i \in DOMAIN anchors :
       LET rows == RowsOf(table, anchors[i].domain)
       IN /\ \E r \in rows : /\ r.seq = anchors[i].headSeq
                             /\ r.hash = anchors[i].headHash
          /\ Extends(HeadHash(rows), anchors[i].headHash)

(* What verifyChain({correlationId}) answers on an honest ledger: intact   *)
(* exactly when no row of another correlation lies between two rows of the *)
(* one asked for.                                                          *)
Contiguous(S, d) ==
    \A r1, r2 \in S : \A q \in RowsOf(table, d) :
       r1.seq < q.seq /\ q.seq < r2.seq => q \in S

SliceVerdict ==
    \A d \in Domains, k \in Correlations :
       VerifyChain(Slice(table, d, k)).ok <=> Contiguous(Slice(table, d, k), d)

(* The anchor a dossier cites commits to every event the dossier lists.    *)
DossierHolds ==
    \A d \in Domains, k \in Correlations : \A a \in Dossier(d, k).anchors :
       \A r \in Dossier(d, k).events : Extends(a.headHash, r.hash)

(* What a part of the chain attests to, a row, an anchor, a dossier or a   *)
(* slice by correlation, agrees with the whole.  (ledger.ts:258-260 expects of      *)
(* every honest slice that it verifies; of two runs whose events alternate *)
(* neither does.)                                                          *)
PartsAttest == HashCommitsToHistory /\ AnchorsHold /\ DossierHolds /\ SliceVerdict

(* What the sinks hold and what a caller is told agree with the ledger.    *)
MirrorAgrees == MirrorIsInLedger /\ ReturnedIsRecorded

(* Every call of appendEvent comes to an end: nobody waits for a lock or a *)
(* sink for ever.                                                          *)
EveryCallEnds == \A c \in Calls : <>(pc[c] \in {"done", "failed", "dead"})

-----------------------------------------------------------------------------
(* The ledger implements CustodyLog: a domain's log is what its head hash  *)
(* commits to, an event is in the log when its row is committed.           *)
Reply(c) == CASE pc[c] = "done" -> "ok"
              [] pc[c] \in {"failed", "dead"} -> "error"
              [] OTHER -> "none"

Log == INSTANCE CustodyLog WITH
          log   <- [d \in Domains |-> HeadHash(RowsOf(table, d))],
          added <- {c \in Calls : row[c] \in table},
          reply <- [c \in Calls |-> Reply(c)]

ImplementsLog == Log!Spec
=============================================================================
