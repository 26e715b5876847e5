------------------------ MODULE CustodyLedger_proofs ------------------------
(***************************************************************************)
(* Proofs about CustodyLedger for any number of calls, agents, domains,    *)
(* correlations and sinks.                                                 *)
(***************************************************************************)
EXTENDS CustodyLedger, FiniteSetTheorems, TLAPS

(* h is what ReadHead must find in the rows S of a domain.  The newest row *)
(* is named by a witness: CHOOSE comes in only where the code selects it.  *)
IsNewest(S, q) == q \in S /\ \A p \in S : p.seq <= q.seq

IsHead(h, S) ==
    \/ S = {} /\ h = GENESIS_HASH
    \/ \E q \in S : IsNewest(S, q) /\ h = q.hash

(* The types of the variables of the chain.                                *)
ChainTypeOK ==
    /\ table \subseteq Rows
    /\ nextSeq \in Nat \ {0}
    /\ lock \in [Domains -> Calls \cup {NoCall}]
    /\ pc \in [Calls -> InFlight \cup {"called", "done", "failed", "dead"}]
    /\ head \in [Calls -> Hashes]
    /\ row \in [Calls -> Rows \cup {NoRow}]

(* Whoever is between the lock and the end of its transaction holds the    *)
(* lock of its domain, so no two such calls write to one domain.           *)
HoldsLock == \A c \in Calls : pc[c] \in InTransaction => lock[DomainOf[c]] = c

(* A seq was drawn once.                                                   *)
SeqsDrawn ==
    /\ \A c \in Calls : row[c].seq < nextSeq
    /\ \A c, e \in Calls : c # e /\ row[c] # NoRow => row[c].seq # row[e].seq
    /\ \A c \in Calls : pc[c] \in {"called", "locked", "read"} => row[c] = NoRow
    /\ \A r \in table : \E c \in Calls : r = row[c] /\ pc[c] \notin InTransaction

(* The head a transaction read is still the head, because of the lock.     *)
HeadIsCurrent ==
    \A c \in Calls : pc[c] \in {"read", "inserted"} =>
        IsHead(head[c], RowsOf(table, DomainOf[c]))

(* The row a transaction inserted is the next link of its domain.          *)
RowIsNext ==
    \A c \in Calls : pc[c] = "inserted" =>
        /\ row[c] \in Rows
        /\ row[c].domain = DomainOf[c]
        /\ row[c].ev = EventOf[c]
        /\ row[c].prev = head[c]
        /\ row[c].hash = HashEntry(head[c], EventOf[c])
        /\ \A q \in RowsOf(table, DomainOf[c]) : q.seq < row[c].seq

(* Every committed row links to the row before it and is hashed right.     *)
Linked ==
    \A r \in table :
        /\ IsHead(r.prev, Before(RowsOf(table, r.domain), r))
        /\ r.hash = HashEntry(r.prev, r.ev)

HasNewest ==
    \A d \in Domains :
        RowsOf(table, d) # {} => \E q \in RowsOf(table, d) : IsNewest(RowsOf(table, d), q)

ChainInv ==
    /\ HoldsLock
    /\ SeqsDrawn
    /\ HeadIsCurrent
    /\ RowIsNext
    /\ Linked
    /\ HasNewest

-----------------------------------------------------------------------------
(* Appending an event to a hash gives a hash.                              *)
LEMMA HashEntryType ==
    ASSUME NEW h \in Hashes, NEW c \in Calls
    PROVE  HashEntry(h, EventOf[c]) \in Hashes
BY DEF HashEntry, Hashes, Events

(* The chain starts from a hash.                                           *)
LEMMA GenesisType == GENESIS_HASH \in Hashes
BY DEF GENESIS_HASH, Hashes

(* The columns of a row.                                                   *)
LEMMA NewRowType ==
    ASSUME ChainTypeOK, NEW c \in Calls
    PROVE  NewRow(c) \in Rows
<1>1. DomainOf[c] \in Domains
  BY LedgerAssumption
<1>2. EventOf[c] \in Events
  BY DEF Events
<1>3. head[c] \in Hashes
  BY DEF ChainTypeOK
<1>4. HashEntry(head[c], EventOf[c]) \in Hashes
  BY <1>3, HashEntryType
<1>5. nextSeq \in Nat \ {0}
  BY DEF ChainTypeOK
<1> QED
  BY <1>1, <1>2, <1>3, <1>4, <1>5 DEF NewRow, Rows

(* Two rows of the table with one seq are one row.                         *)
LEMMA SeqIdentifies ==
    ASSUME ChainTypeOK, SeqsDrawn, NEW r \in table, NEW q \in table, r.seq = q.seq
    PROVE  r = q
<1>1. PICK c \in Calls : r = row[c]
  BY DEF SeqsDrawn
<1>2. PICK e \in Calls : q = row[e]
  BY DEF SeqsDrawn
<1>3. r.seq # 0
  BY DEF ChainTypeOK, Rows
<1>4. row[c] # NoRow
  BY <1>1, <1>3 DEF NoRow
<1> QED
  BY <1>1, <1>2, <1>4 DEF SeqsDrawn

(* What ReadHead computes is the head, when the domain has a newest row.   *)
LEMMA HeadHashIsHead ==
    ASSUME NEW S, S # {} => \E q \in S : IsNewest(S, q)
    PROVE  IsHead(HeadHash(S), S)
<1>1. CASE S = {}
  BY <1>1 DEF IsHead, HeadHash
<1>2. CASE S # {}
  <2>1. PICK q \in S : \A p \in S : p.seq <= q.seq
    BY <1>2 DEF IsNewest
  <2>2. Latest(S) \in S /\ \A p \in S : p.seq <= Latest(S).seq
    BY <2>1 DEF Latest
  <2> QED
    BY <1>2, <2>2 DEF IsHead, HeadHash, IsNewest
<1> QED
  BY <1>1, <1>2

-----------------------------------------------------------------------------
(* The steps that leave the chain alone.                                   *)
LEMMA ChainStutter ==
    ASSUME ChainTypeOK, ChainInv, UNCHANGED <<chainVars, pc>>
    PROVE  ChainTypeOK' /\ ChainInv'
BY DEF ChainTypeOK, ChainInv, HoldsLock, SeqsDrawn, HeadIsCurrent, RowIsNext, Linked,
       HasNewest, chainVars, RowsOf, Before, IsHead, IsNewest

(* The steps of the transaction, one lemma each.                           *)
LEMMA AcquireLockStep ==
    ASSUME ChainTypeOK, ChainInv, NEW c \in Calls, AcquireLock(c)
    PROVE  ChainTypeOK' /\ ChainInv'
<1> USE LedgerAssumption DEF ChainTypeOK, ChainInv, AcquireLock
<1>1. ChainTypeOK'
  BY DEF InFlight, InTransaction
<1>2. HoldsLock'
  BY DEF HoldsLock, LockFree, InTransaction
<1>3. SeqsDrawn'
  <2>1. row[c] = NoRow /\ NoRow \notin table
    BY DEF SeqsDrawn, NoRow, Rows
  <2> QED
    BY <2>1 DEF SeqsDrawn, InTransaction
<1>4. HeadIsCurrent' /\ RowIsNext'
  BY DEF HeadIsCurrent, RowIsNext, RowsOf, IsHead, IsNewest
<1>5. Linked' /\ HasNewest'
  BY DEF Linked, HasNewest, RowsOf, Before, IsHead, IsNewest
<1> QED
  BY <1>1, <1>2, <1>3, <1>4, <1>5

LEMMA ReadHeadStep ==
    ASSUME ChainTypeOK, ChainInv, NEW c \in Calls, ReadHead(c)
    PROVE  ChainTypeOK' /\ ChainInv'
<1> USE LedgerAssumption DEF ChainTypeOK, ChainInv, ReadHead, Visible
<1> DEFINE S == RowsOf(table, DomainOf[c])
<1>1. IsHead(HeadHash(S), S)
  BY HeadHashIsHead DEF HasNewest
<1>2. HeadHash(S) \in Hashes
  <2>1. CASE S = {} /\ HeadHash(S) = GENESIS_HASH
    BY <2>1, GenesisType
  <2>2. ASSUME NEW q \in S, HeadHash(S) = q.hash PROVE HeadHash(S) \in Hashes
    BY <2>2 DEF RowsOf, Rows
  <2> QED
    BY <1>1, <2>1, <2>2 DEF IsHead
<1>3. ChainTypeOK'
  BY <1>2 DEF InFlight, InTransaction
<1>4. HoldsLock'
  BY DEF HoldsLock, InTransaction
<1>5. SeqsDrawn'
  BY DEF SeqsDrawn, InTransaction
<1>6. HeadIsCurrent'
  BY <1>1 DEF HeadIsCurrent, RowsOf, IsHead, IsNewest
<1>7. RowIsNext'
  BY DEF RowIsNext, RowsOf
<1>8. Linked' /\ HasNewest'
  BY DEF Linked, HasNewest, RowsOf, Before, IsHead, IsNewest
<1> QED
  BY <1>3, <1>4, <1>5, <1>6, <1>7, <1>8

LEMMA InsertStep ==
    ASSUME ChainTypeOK, ChainInv, NEW c \in Calls, Insert(c)
    PROVE  ChainTypeOK' /\ ChainInv'
<1> USE LedgerAssumption DEF ChainTypeOK, ChainInv, Insert
<1>1. NewRow(c) \in Rows
  BY NewRowType
<1>2. ChainTypeOK'
  BY <1>1 DEF InFlight, InTransaction
<1>3. HoldsLock'
  BY DEF HoldsLock, InTransaction
<1>4. SeqsDrawn'
  <2>1. row'[c].seq = nextSeq
    BY DEF NewRow
  <2>2. \A e \in Calls : e # c => row'[e] = row[e]
    OBVIOUS
  <2>3. \A e \in Calls : row[e].seq \in Nat
    BY DEF Rows, NoRow
  <2> QED
    BY <2>1, <2>2, <2>3 DEF SeqsDrawn, InTransaction
<1>5. HeadIsCurrent'
  BY DEF HeadIsCurrent, RowsOf, IsHead, IsNewest
<1>6. RowIsNext'
  <2>1. \A q \in table : q.seq < nextSeq
    BY DEF SeqsDrawn
  <2> QED
    BY <1>1, <2>1 DEF RowIsNext, NewRow, RowsOf
<1>7. Linked' /\ HasNewest'
  BY DEF Linked, HasNewest, RowsOf, Before, IsHead, IsNewest
<1> QED
  BY <1>2, <1>3, <1>4, <1>5, <1>6, <1>7

(* Both outcomes of a commit add the row and release the lock.             *)
LEMMA CommitStep ==
    ASSUME ChainTypeOK, ChainInv, NEW c \in Calls, Commit(c) \/ CommitUnknown(c)
    PROVE  ChainTypeOK' /\ ChainInv'
<1> USE LedgerAssumption DEF ChainTypeOK, ChainInv, Release
<1> DEFINE d == DomainOf[c]
<1>1. /\ pc[c] = "inserted"
      /\ table' = table \cup {row[c]}
      /\ lock' = [lock EXCEPT ![d] = NoCall]
      /\ pc' \in {[pc EXCEPT ![c] = "mirroring"], [pc EXCEPT ![c] = "failed"]}
      /\ UNCHANGED <<nextSeq, head, row>>
  BY DEF Commit, CommitUnknown
<1> HIDE DEF d
<1>2. /\ row[c] \in Rows /\ row[c].domain = d
      /\ row[c].prev = head[c] /\ row[c].ev = EventOf[c]
      /\ row[c].hash = HashEntry(head[c], EventOf[c])
      /\ \A q \in RowsOf(table, d) : q.seq < row[c].seq
  BY <1>1 DEF RowIsNext, d
<1>3. RowsOf(table', d) = RowsOf(table, d) \cup {row[c]}
  BY <1>1, <1>2 DEF RowsOf
<1>4. \A e \in Domains : e # d => RowsOf(table', e) = RowsOf(table, e)
  BY <1>1, <1>2 DEF RowsOf
<1>5. ChainTypeOK'
  BY <1>1, <1>2 DEF d, InFlight, InTransaction
<1>6. \A e \in Calls : e # c /\ pc[e] \in InTransaction => DomainOf[e] # d
  BY <1>1 DEF HoldsLock, InTransaction, d
<1>7. HoldsLock'
  BY <1>1, <1>6 DEF HoldsLock, InTransaction, d
<1>8. SeqsDrawn'
  <2>1. pc'[c] \notin InTransaction \cup {"called"} /\ \A e \in Calls : e # c => pc'[e] = pc[e]
    BY <1>1 DEF InTransaction
  <2>2. \A e \in Calls : pc'[e] \in {"called", "locked", "read"} => row[e] = NoRow
    BY <2>1 DEF SeqsDrawn, InTransaction
  <2>3. \A r \in table' : \E e \in Calls : r = row[e] /\ pc'[e] \notin InTransaction
    BY <1>1, <2>1 DEF SeqsDrawn
  <2> QED
    BY <1>1, <2>2, <2>3 DEF SeqsDrawn
<1>9. HeadIsCurrent'
  <2> SUFFICES ASSUME NEW e \in Calls, pc'[e] \in {"read", "inserted"}
               PROVE  IsHead(head[e], RowsOf(table', DomainOf[e]))
    BY <1>1 DEF HeadIsCurrent
  <2>1. e # c /\ pc[e] = pc'[e]
    BY <1>1
  <2>2. DomainOf[e] # d /\ DomainOf[e] \in Domains
    BY <1>6, <2>1 DEF InTransaction
  <2> QED
    BY <1>4, <2>1, <2>2 DEF HeadIsCurrent
<1>10. RowIsNext'
  <2> SUFFICES ASSUME NEW e \in Calls, pc'[e] = "inserted"
               PROVE  /\ row[e] \in Rows
                      /\ row[e].domain = DomainOf[e]
                      /\ row[e].ev = EventOf[e]
                      /\ row[e].prev = head[e]
                      /\ row[e].hash = HashEntry(head[e], EventOf[e])
                      /\ \A q \in RowsOf(table', DomainOf[e]) : q.seq < row[e].seq
    BY <1>1 DEF RowIsNext
  <2>1. e # c /\ pc[e] = pc'[e]
    BY <1>1
  <2>2. DomainOf[e] # d /\ DomainOf[e] \in Domains
    BY <1>6, <2>1 DEF InTransaction
  <2> QED
    BY <1>4, <2>1, <2>2 DEF RowIsNext
<1>11. Linked'
  <2> SUFFICES ASSUME NEW r \in table'
               PROVE  /\ IsHead(r.prev, Before(RowsOf(table', r.domain), r))
                      /\ r.hash = HashEntry(r.prev, r.ev)
    BY DEF Linked
  <2>1. CASE r = row[c]
    <3>1. Before(RowsOf(table', d), r) = RowsOf(table, d)
      BY <1>2, <1>3, <2>1 DEF Before, Rows
    <3>2. IsHead(head[c], RowsOf(table, d))
      BY <1>1 DEF HeadIsCurrent, d
    <3> QED
      BY <1>2, <2>1, <3>1, <3>2
  <2>2. CASE r \in table
    <3>1. Before(RowsOf(table', r.domain), r) = Before(RowsOf(table, r.domain), r)
      <4>1. CASE r.domain = d
        <5>1. ~(row[c].seq < r.seq)
          BY <1>2, <2>2, <4>1 DEF RowsOf, Rows
        <5> QED
          BY <1>3, <4>1, <5>1 DEF Before
      <4>2. CASE r.domain # d
        BY <1>4, <2>2, <4>2 DEF Rows
      <4> QED
        BY <4>1, <4>2
    <3> QED
      BY <2>2, <3>1 DEF Linked
  <2> QED
    BY <1>1, <2>1, <2>2
<1>12. HasNewest'
  <2>1. IsNewest(RowsOf(table', d), row[c])
    BY <1>2, <1>3 DEF IsNewest, RowsOf, Rows
  <2> QED
    BY <1>4, <2>1 DEF HasNewest, IsNewest
<1> QED
  BY <1>5, <1>7, <1>8, <1>9, <1>10, <1>11, <1>12

LEMMA RollbackStep ==
    ASSUME ChainTypeOK, ChainInv, NEW c \in Calls, Rollback(c)
    PROVE  ChainTypeOK' /\ ChainInv'
<1> USE LedgerAssumption DEF ChainTypeOK, ChainInv, Rollback, Release
<1>1. ChainTypeOK'
  BY DEF InFlight, InTransaction
<1>2. HoldsLock'
  BY DEF HoldsLock, InTransaction
<1>3. SeqsDrawn'
  BY DEF SeqsDrawn, InTransaction
<1>4. HeadIsCurrent' /\ RowIsNext'
  BY DEF HeadIsCurrent, RowIsNext, RowsOf, IsHead, IsNewest
<1>5. Linked' /\ HasNewest'
  BY DEF Linked, HasNewest, RowsOf, Before, IsHead, IsNewest
<1> QED
  BY <1>1, <1>2, <1>3, <1>4, <1>5

(* A call answers its caller, or an agent dies: rows and heads stay.       *)
LEMMA AnswerStep ==
    ASSUME ChainTypeOK, ChainInv, NEW c \in Calls, Return(c) \/ Throw(c)
    PROVE  ChainTypeOK' /\ ChainInv'
<1> USE DEF ChainTypeOK, ChainInv, Return, Throw, chainVars
<1>1. ChainTypeOK'
  BY DEF InFlight, InTransaction
<1>2. HoldsLock' /\ SeqsDrawn'
  BY DEF HoldsLock, SeqsDrawn, InTransaction
<1>3. HeadIsCurrent' /\ RowIsNext'
  BY DEF HeadIsCurrent, RowIsNext, RowsOf, IsHead, IsNewest
<1>4. Linked' /\ HasNewest'
  BY DEF Linked, HasNewest, RowsOf, Before, IsHead, IsNewest
<1> QED
  BY <1>1, <1>2, <1>3, <1>4

LEMMA CrashStep ==
    ASSUME ChainTypeOK, ChainInv, NEW a \in Agents, Crash(a)
    PROVE  ChainTypeOK' /\ ChainInv'
<1> USE LedgerAssumption DEF ChainTypeOK, ChainInv, Crash
<1>1. ChainTypeOK'
  BY DEF InFlight, InTransaction
<1>2. HoldsLock'
  BY DEF HoldsLock, InTransaction, Victims
<1>3. SeqsDrawn'
  BY DEF SeqsDrawn, InTransaction
<1>4. HeadIsCurrent' /\ RowIsNext'
  BY DEF HeadIsCurrent, RowIsNext, RowsOf, IsHead, IsNewest
<1>5. Linked' /\ HasNewest'
  BY DEF Linked, HasNewest, RowsOf, Before, IsHead, IsNewest
<1> QED
  BY <1>1, <1>2, <1>3, <1>4, <1>5

-----------------------------------------------------------------------------
LEMMA ChainInductive ==
    /\ Init => ChainTypeOK /\ ChainInv
    /\ ChainTypeOK /\ ChainInv /\ [Next]_vars => ChainTypeOK' /\ ChainInv'
<1>1. Init => ChainTypeOK
  BY DEF Init, ChainTypeOK, GENESIS_HASH, Hashes
<1>2. Init => ChainInv
  BY DEF Init, ChainInv, HoldsLock, SeqsDrawn, HeadIsCurrent, RowIsNext, Linked,
         HasNewest, RowsOf, InTransaction, NoRow
<1>3. ASSUME ChainTypeOK, ChainInv, [Next]_vars
      PROVE  ChainTypeOK' /\ ChainInv'
  <2>1. ASSUME NEW c \in Calls, NEW s \in Sinks, Deliver(c, s) \/ PostFails(c, s)
        PROVE  ChainTypeOK' /\ ChainInv'
    BY <1>3, <2>1, ChainStutter DEF Deliver, PostFails
  <2>2. ASSUME NEW a \in AnchorCalls, AnchorInsert(a) \/ \E d \in Domains : AnchorRead(a, d)
        PROVE  ChainTypeOK' /\ ChainInv'
    BY <1>3, <2>2, ChainStutter DEF AnchorInsert, AnchorRead
  <2>3. CASE UNCHANGED vars
    BY <1>3, <2>3, ChainStutter DEF vars, chainVars
  <2> QED
    BY <1>3, <2>1, <2>2, <2>3, AcquireLockStep, ReadHeadStep, InsertStep, CommitStep,
       RollbackStep, AnswerStep, CrashStep DEF Next
<1> QED
  BY <1>1, <1>2, <1>3

(* The inductive invariant of the chain holds for every instance.          *)
THEOREM ChainInvariant == Spec => [](ChainTypeOK /\ ChainInv)
BY ChainInductive, PTL DEF Spec

-----------------------------------------------------------------------------
(* verifyChain over a domain reports no break (ledger.ts:245): every row   *)
(* that appendEvent committed links to the row before it, for any number   *)
(* of overlapping, failing and dying calls.                                *)
THEOREM DomainVerifiesAlways == Spec => []DomainVerifies
<1>1. ChainTypeOK /\ ChainInv => DomainVerifies
  <2> SUFFICES ASSUME ChainTypeOK, ChainInv, NEW d \in Domains
               PROVE  BrokenRows(RowsOf(table, d)) = {}
    BY DEF DomainVerifies, VerifyChain
  <2> DEFINE S == RowsOf(table, d)
  <2> SUFFICES ASSUME NEW r \in S PROVE ~PrevDiscontinuity(S, r) /\ ~HashMismatch(r)
    BY DEF BrokenRows
  <2>1. /\ r \in table /\ r.domain = d
        /\ IsHead(r.prev, Before(S, r))
        /\ r.hash = HashEntry(r.prev, r.ev)
    BY DEF ChainInv, Linked, RowsOf
  <2>2. ~HashMismatch(r)
    BY <2>1 DEF HashMismatch
  <2>3. ASSUME Before(S, r) # {} PROVE r.prev = Latest(Before(S, r)).hash
    <3> DEFINE B == Before(S, r)
    <3>1. PICK q \in B : (\A p \in B : p.seq <= q.seq) /\ r.prev = q.hash
      BY <2>1, <2>3 DEF IsHead, IsNewest
    <3>2. Latest(B) \in B /\ \A p \in B : p.seq <= Latest(B).seq
      BY <3>1 DEF Latest
    <3>3. q \in table /\ Latest(B) \in table
      BY <3>1, <3>2 DEF Before, RowsOf
    <3>4. q.seq = Latest(B).seq
      BY <3>1, <3>2, <3>3 DEF ChainTypeOK, Rows
    <3>5. q = Latest(B)
      BY <3>3, <3>4, SeqIdentifies DEF ChainInv
    <3> QED
      BY <3>1, <3>5
  <2> QED
    BY <2>2, <2>3 DEF PrevDiscontinuity
<1> QED
  BY <1>1, ChainInvariant, PTL

(* Only the two outcomes of a commit touch the table.                      *)
LEMMA TableFrame ==
    ASSUME [Next]_vars
    PROVE  UNCHANGED table \/ \E c \in Calls : Commit(c) \/ CommitUnknown(c)
<1>1. ASSUME NEW c \in Calls,
             \/ AcquireLock(c) \/ ReadHead(c) \/ Insert(c) \/ Rollback(c)
             \/ Return(c) \/ Throw(c)
             \/ \E s \in Sinks : Deliver(c, s) \/ PostFails(c, s)
      PROVE  UNCHANGED table
  BY <1>1 DEF AcquireLock, ReadHead, Insert, Rollback, Return, Throw, Deliver,
              PostFails, chainVars
<1>2. ASSUME NEW a \in Agents, Crash(a) PROVE UNCHANGED table
  BY <1>2 DEF Crash
<1>3. ASSUME NEW a \in AnchorCalls, AnchorInsert(a) \/ \E d \in Domains : AnchorRead(a, d)
      PROVE  UNCHANGED table
  BY <1>3 DEF AnchorInsert, AnchorRead, chainVars
<1>4. UNCHANGED vars => UNCHANGED table
  BY DEF vars
<1> QED
  BY <1>1, <1>2, <1>3, <1>4 DEF Next

(* No step removes or changes a committed row, and a row that becomes      *)
(* visible has a larger seq than every row of its domain.                  *)
THEOREM AppendOnlyAlways == Spec => AppendOnly
<1>1. ASSUME ChainTypeOK, ChainInv, [Next]_vars
      PROVE  [/\ table \subseteq table'
              /\ \A r \in table' \ table :
                    \A q \in RowsOf(table, r.domain) : q.seq < r.seq]_vars
  <2>1. ASSUME NEW c \in Calls, Commit(c) \/ CommitUnknown(c)
        PROVE  /\ table \subseteq table'
               /\ \A r \in table' \ table :
                     \A q \in RowsOf(table, r.domain) : q.seq < r.seq
    <3>1. pc[c] = "inserted" /\ table' = table \cup {row[c]}
      BY <2>1 DEF Commit, CommitUnknown
    <3> QED
      BY <1>1, <3>1 DEF ChainInv, RowIsNext
  <2> QED
    BY <1>1, <2>1, TableFrame
<1> QED
  BY <1>1, ChainInvariant, PTL DEF Spec, AppendOnly

-----------------------------------------------------------------------------
(* Where the envelopes of a call are: nowhere before its commit, and in    *)
(* every sink that answered ok after it.                                   *)
MirrorInv ==
    /\ post \in [Calls -> [Sinks -> {"none", "open", "ok", "error"}]]
    /\ mirror \in [Sinks -> SUBSET table]
    /\ \A c \in Calls, s \in Sinks :
          /\ pc[c] \in {"called", "locked", "read", "inserted"} => post[c][s] = "none"
          /\ pc[c] = "mirroring" => post[c][s] # "none"
          /\ post[c][s] # "none" => row[c] \in table
          /\ post[c][s] = "ok" => row[c] \in mirror[s]
          /\ pc[c] = "done" /\ s \in RequiredSinks => post[c][s] = "ok"
    /\ \A c \in Calls : pc[c] \in {"mirroring", "done"} => row[c] \in table

LEMMA MirrorInductive ==
    /\ Init => MirrorInv
    /\ ChainTypeOK /\ ChainInv /\ MirrorInv /\ [Next]_vars => MirrorInv'
<1>1. Init => MirrorInv
  BY DEF Init, MirrorInv
<1>2. ASSUME ChainTypeOK, ChainInv, MirrorInv, [Next]_vars
      PROVE  MirrorInv'
  <2> USE <1>2, LedgerAssumption DEF MirrorInv
  <2>1. ASSUME NEW c \in Calls, AcquireLock(c) \/ ReadHead(c) \/ Rollback(c)
        PROVE  MirrorInv'
    BY <2>1 DEF AcquireLock, ReadHead, Rollback, InTransaction, ChainTypeOK
  <2>2. ASSUME NEW c \in Calls, Insert(c) PROVE MirrorInv'
    BY <2>2 DEF Insert, ChainTypeOK
  <2>3. ASSUME NEW c \in Calls, Commit(c) PROVE MirrorInv'
    BY <2>3 DEF Commit, ChainTypeOK
  <2>4. ASSUME NEW c \in Calls, CommitUnknown(c) PROVE MirrorInv'
    BY <2>4 DEF CommitUnknown, ChainTypeOK
  <2>5. ASSUME NEW c \in Calls, NEW t \in Sinks, Deliver(c, t) PROVE MirrorInv'
    <3>1. row[c] \in table
      BY <2>5 DEF Deliver, Sent
    <3>2. PICK answer \in {"ok", "error"} : post' = [post EXCEPT ![c][t] = answer]
      BY <2>5 DEF Deliver, Sent
    <3>3. /\ post[c][t] \in {"open", "error"}
          /\ mirror' = [mirror EXCEPT ![t] = @ \cup {row[c]}]
          /\ UNCHANGED <<table, pc, row>>
      BY <2>5 DEF Deliver, Sent, Envelope, chainVars
    <3>4. pc[c] = "done" => t \notin RequiredSinks
      BY <3>3
    <3> QED
      BY <3>1, <3>2, <3>3, <3>4
  <2>6. ASSUME NEW c \in Calls, NEW t \in Sinks, PostFails(c, t) PROVE MirrorInv'
    BY <2>6 DEF PostFails, chainVars
  <2>7. ASSUME NEW c \in Calls, Return(c) PROVE MirrorInv'
    BY <2>7 DEF Return, AllResolve, Resolves, Rejects, chainVars, ChainTypeOK
  <2>8. ASSUME NEW c \in Calls, Throw(c) PROVE MirrorInv'
    BY <2>8 DEF Throw, chainVars, ChainTypeOK
  <2>9. ASSUME NEW a \in Agents, Crash(a) PROVE MirrorInv'
    BY <2>9 DEF Crash, ChainTypeOK
  <2>10. ASSUME NEW a \in AnchorCalls, AnchorInsert(a) \/ \E d \in Domains : AnchorRead(a, d)
         PROVE  MirrorInv'
    BY <2>10 DEF AnchorInsert, AnchorRead, chainVars
  <2>11. CASE UNCHANGED vars
    BY <2>11 DEF vars
  <2> QED
    BY <2>1, <2>2, <2>3, <2>4, <2>5, <2>6, <2>7, <2>8, <2>9, <2>10, <2>11 DEF Next
<1> QED
  BY <1>1, <1>2

THEOREM MirrorInvariant == Spec => []MirrorInv
BY ChainInductive, MirrorInductive, PTL DEF Spec

(* No sink ever holds an envelope the ledger does not have.                *)
THEOREM MirrorIsInLedgerAlways == Spec => []MirrorIsInLedger
<1>1. MirrorInv => MirrorIsInLedger
  BY DEF MirrorInv, MirrorIsInLedger
<1> QED
  BY <1>1, MirrorInvariant, PTL

(* A call that returned is in the ledger and in every required sink: no    *)
(* lost answer, late POST or crash makes appendEvent claim otherwise.      *)
THEOREM ReturnedIsRecordedAlways == Spec => []ReturnedIsRecorded
<1>1. MirrorInv => ReturnedIsRecorded
  BY LedgerAssumption DEF MirrorInv, ReturnedIsRecorded
<1> QED
  BY <1>1, MirrorInvariant, PTL

(* The mirror and the caller are never ahead of the ledger.                *)
THEOREM MirrorAgreesAlways == Spec => []MirrorAgrees
<1>1. MirrorIsInLedger /\ ReturnedIsRecorded => MirrorAgrees
  BY DEF MirrorAgrees
<1> QED
  BY <1>1, MirrorIsInLedgerAlways, ReturnedIsRecordedAlways, PTL

-----------------------------------------------------------------------------
(* Every variable keeps its type.                                          *)
THEOREM TypeCorrect == Spec => []TypeOK
<1>1. ChainTypeOK /\ MirrorInv =>
        /\ post \in [Calls -> [Sinks -> {"none", "open", "ok", "error"}]]
        /\ mirror \in [Sinks -> SUBSET Rows]
  BY DEF ChainTypeOK, MirrorInv
<1> DEFINE Anchored == anchoring \in [AnchorCalls -> Rows \cup {NoRow}]
           Anchors == anchors \in Seq([domain : Domains, headSeq : Nat, headHash : Hashes])
<1>2. Init => Anchored /\ Anchors
  BY DEF Init
<1>3. ASSUME ChainTypeOK, ChainInv, Anchored, Anchors, [Next]_vars
      PROVE  Anchored' /\ Anchors'
  <2>1. ASSUME NEW a \in AnchorCalls, NEW d \in Domains, AnchorRead(a, d)
        PROVE  Anchored' /\ Anchors'
    <3>1. PICK q \in RowsOf(table, d) : \A p \in RowsOf(table, d) : p.seq <= q.seq
      BY <1>3, <2>1 DEF AnchorRead, ChainInv, HasNewest, IsNewest
    <3>2. Latest(RowsOf(table, d)) \in RowsOf(table, d)
      BY <3>1 DEF Latest
    <3>3. Latest(RowsOf(table, d)) \in Rows
      BY <1>3, <3>2 DEF RowsOf, ChainTypeOK
    <3> QED
      BY <1>3, <2>1, <3>3 DEF AnchorRead
  <2>2. ASSUME NEW a \in AnchorCalls, AnchorInsert(a)
        PROVE  Anchored' /\ Anchors'
    <3>1. anchoring[a] \in Rows
      BY <1>3, <2>2 DEF AnchorInsert
    <3>2. AnchorRow(anchoring[a]) \in [domain : Domains, headSeq : Nat, headHash : Hashes]
      BY <3>1 DEF AnchorRow, SignedSeq, Rows
    <3> QED
      BY <1>3, <2>2, <3>2 DEF AnchorInsert
  <2>3. ASSUME NEW c \in Calls,
               \/ AcquireLock(c) \/ ReadHead(c) \/ Insert(c) \/ Commit(c)
               \/ CommitUnknown(c) \/ Rollback(c) \/ Return(c) \/ Throw(c)
               \/ \E s \in Sinks : Deliver(c, s) \/ PostFails(c, s)
        PROVE  UNCHANGED anchorVars
    BY <2>3 DEF AcquireLock, ReadHead, Insert, Commit, CommitUnknown, Rollback,
                Return, Throw, Deliver, PostFails
  <2>4. ASSUME NEW a \in Agents, Crash(a) PROVE UNCHANGED anchorVars
    BY <2>4 DEF Crash
  <2>5. UNCHANGED anchorVars => Anchored' /\ Anchors'
    BY <1>3 DEF anchorVars
  <2>6. UNCHANGED vars => UNCHANGED anchorVars
    BY DEF vars, anchorVars
  <2> QED
    BY <1>3, <2>1, <2>2, <2>3, <2>4, <2>5, <2>6 DEF Next
<1>4. ChainTypeOK /\ MirrorInv /\ Anchored /\ Anchors => TypeOK
  BY <1>1 DEF TypeOK, ChainTypeOK, AnchorRows
<1> HIDE DEF Anchored, Anchors
<1> QED
  BY <1>2, <1>3, <1>4, ChainInductive, MirrorInvariant, ChainInvariant, PTL DEF Spec
-----------------------------------------------------------------------------
(* What is true of the rows S of a domain, apart from their links: the     *)
(* database lists them (every selection has a first and a last row), the   *)
(* hash of a row commits to the events up to it, and hashes grow with seq. *)
UpTo(S, r) == {q \in S : q.seq <= r.seq}

HasOldestAndNewest(S) ==
    \A T \in SUBSET S : T # {} =>
        /\ \E q \in T : \A p \in T : q.seq <= p.seq
        /\ \E q \in T : \A p \in T : p.seq <= q.seq

CommitsToHistory(S) ==
    \A r \in S :
        /\ Len(r.hash) = Cardinality(UpTo(S, r))
        /\ \A q \in UpTo(S, r) : r.hash[Cardinality(Before(UpTo(S, r), q)) + 1] = q.ev

HashesGrow(S) ==
    \A q, r \in S : q.seq < r.seq => Len(q.hash) < Len(r.hash) /\ Extends(r.hash, q.hash)

History(S) ==
    /\ IsFiniteSet(S)
    /\ HasOldestAndNewest(S)
    /\ CommitsToHistory(S)
    /\ HashesGrow(S)

PartsInv == \A d \in Domains : History(RowsOf(table, d))

(* A row that is appended to rows of smaller seq, and names their head,    *)
(* continues their history.                                                *)
LEMMA HistoryContinues ==
    ASSUME NEW S \in SUBSET Rows, NEW x \in Rows, History(S),
           \A q \in S : q.seq < x.seq,
           \A q, r \in S : q.seq = r.seq => q = r,
           IsHead(x.prev, S), x.hash = HashEntry(x.prev, x.ev)
    PROVE  History(S \cup {x})
<1> DEFINE SX == S \cup {x}
<1>1. x \notin S /\ \A r \in SX : r.seq \in Nat /\ r.hash \in Seq(Events) /\ r.ev \in Events
  BY DEF Rows, Hashes
<1>2. IsFiniteSet(SX)
  BY FS_AddElement DEF History
<1>3. HasOldestAndNewest(SX)
  <2> SUFFICES ASSUME NEW T \in SUBSET SX, T # {}
               PROVE  /\ \E q \in T : \A p \in T : q.seq <= p.seq
                      /\ \E q \in T : \A p \in T : p.seq <= q.seq
    BY DEF HasOldestAndNewest
  <2>1. CASE x \notin T
    BY <2>1 DEF History, HasOldestAndNewest
  <2>2. CASE T = {x}
    BY <1>1, <2>2
  <2>3. CASE x \in T /\ T # {x}
    <3>1. T \ {x} \in SUBSET S /\ T \ {x} # {}
      BY <2>3
    <3>2. PICK q \in T \ {x} : \A p \in T \ {x} : q.seq <= p.seq
      BY <3>1 DEF History, HasOldestAndNewest
    <3>3. q.seq < x.seq
      BY <3>1, <3>2
    <3>4. \A p \in T : q.seq <= p.seq
      BY <1>1, <3>1, <3>2, <3>3
    <3>5. \A p \in T : p.seq <= x.seq
      BY <1>1, <3>1
    <3> QED
      BY <2>3, <3>2, <3>4, <3>5
  <2> QED
    BY <2>1, <2>2, <2>3
<1>4. \A r \in S : UpTo(SX, r) = UpTo(S, r)
  BY <1>1 DEF UpTo
<1>5. UpTo(SX, x) = SX
  BY <1>1 DEF UpTo
<1>6. x.prev \in Seq(Events) /\ Len(x.hash) = Len(x.prev) + 1
      /\ (\A i \in 1 .. Len(x.prev) : x.hash[i] = x.prev[i]) /\ x.hash[Len(x.prev) + 1] = x.ev
  BY <1>1 DEF Rows, Hashes, HashEntry
<1>7. /\ Cardinality(S) \in Nat /\ Cardinality(SX) = Cardinality(S) + 1
      /\ \A T \in SUBSET S : Cardinality(T) \in Nat /\ Cardinality(T) <= Cardinality(S)
  BY <1>1, FS_AddElement, FS_CardinalityType, FS_Subset DEF History
<1>8. /\ Len(x.prev) = Cardinality(S)
      /\ \A q \in S : x.prev[Cardinality(Before(S, q)) + 1] = q.ev
      /\ \A q \in S : Len(q.hash) <= Len(x.prev) /\ Extends(x.prev, q.hash)
  <2>1. CASE S = {} /\ x.prev = GENESIS_HASH
    BY <2>1, FS_EmptySet DEF GENESIS_HASH
  <2>2. ASSUME NEW n \in S, \A p \in S : p.seq <= n.seq, x.prev = n.hash
        PROVE  /\ Len(x.prev) = Cardinality(S)
               /\ \A q \in S : x.prev[Cardinality(Before(S, q)) + 1] = q.ev
               /\ \A q \in S : Len(q.hash) <= Len(x.prev) /\ Extends(x.prev, q.hash)
    <3>1. UpTo(S, n) = S
      BY <2>2 DEF UpTo
    <3>2. \A q \in S : q.seq < n.seq \/ q = n
      BY <1>1, <2>2
    <3>3. \A q \in S : Len(q.hash) <= Len(n.hash) /\ Extends(n.hash, q.hash)
      BY <1>1, <3>2 DEF History, HashesGrow, Extends
    <3> QED
      BY <2>2, <3>1, <3>3 DEF History, CommitsToHistory
  <2> QED
    BY <2>1, <2>2 DEF IsHead, IsNewest
<1>9. CommitsToHistory(SX)
  <2>1. ASSUME NEW r \in S
        PROVE  /\ Len(r.hash) = Cardinality(UpTo(SX, r))
               /\ \A q \in UpTo(SX, r) :
                     r.hash[Cardinality(Before(UpTo(SX, r), q)) + 1] = q.ev
    BY <1>4 DEF History, CommitsToHistory
  <2>2. Len(x.hash) = Cardinality(UpTo(SX, x))
    BY <1>5, <1>6, <1>7, <1>8
  <2>3. Before(SX, x) = S
    BY <1>1 DEF Before
  <2>4. x.hash[Cardinality(Before(SX, x)) + 1] = x.ev
    BY <1>6, <1>8, <2>3
  <2>5. ASSUME NEW q \in S PROVE x.hash[Cardinality(Before(SX, q)) + 1] = q.ev
    <3>1. Before(SX, q) = Before(S, q) /\ Before(S, q) \in SUBSET S /\ q \notin Before(S, q)
      BY <1>1 DEF Before
    <3>2. IsFiniteSet(Before(S, q)) /\ Cardinality(Before(S, q)) \in Nat
          /\ Cardinality(Before(S, q)) # Cardinality(S)
      BY <3>1, <1>7, FS_Subset DEF History
    <3>3. Cardinality(Before(S, q)) + 1 \in 1 .. Len(x.prev)
      BY <1>7, <1>8, <3>1, <3>2
    <3> QED
      BY <1>6, <1>8, <3>1, <3>3
  <2> QED
    BY <1>5, <2>1, <2>2, <2>4, <2>5 DEF CommitsToHistory
<1>10. HashesGrow(SX)
  <2>1. ASSUME NEW q \in S
        PROVE  Len(q.hash) < Len(x.hash) /\ Extends(x.hash, q.hash)
    <3>1. Len(q.hash) \in Nat /\ Len(x.prev) \in Nat /\ Len(q.hash) <= Len(x.prev)
      BY <1>1, <1>6, <1>8
    <3>2. \A i \in 1 .. Len(q.hash) : x.hash[i] = q.hash[i]
      BY <1>6, <1>8, <3>1 DEF Extends
    <3> QED
      BY <1>6, <3>1, <3>2 DEF Extends
  <2>2. \A q \in S : ~(x.seq < q.seq)
    BY <1>1
  <2> QED
    BY <1>1, <2>1, <2>2 DEF History, HashesGrow
<1> QED
  BY <1>2, <1>3, <1>9, <1>10 DEF History

(* What a commit does to the rows of the domains, and what it commits.     *)
LEMMA CommitFacts ==
    ASSUME ChainTypeOK, ChainInv, NEW c \in Calls, Commit(c) \/ CommitUnknown(c)
    PROVE  /\ DomainOf[c] \in Domains
           /\ row[c] \in Rows /\ row[c].domain = DomainOf[c]
           /\ row[c].hash = HashEntry(row[c].prev, row[c].ev)
           /\ row[c].ev = EventOf[c] /\ row[c].prev = head[c]
           /\ IsHead(row[c].prev, RowsOf(table, DomainOf[c]))
           /\ \A q \in RowsOf(table, DomainOf[c]) : q.seq < row[c].seq
           /\ table' = table \cup {row[c]}
           /\ RowsOf(table', DomainOf[c]) = RowsOf(table, DomainOf[c]) \cup {row[c]}
           /\ \A d \in Domains : d # DomainOf[c] => RowsOf(table', d) = RowsOf(table, d)
<1>1. pc[c] = "inserted" /\ table' = table \cup {row[c]}
  BY DEF Commit, CommitUnknown
<1>2. DomainOf[c] \in Domains
  BY LedgerAssumption
<1>3. /\ row[c] \in Rows /\ row[c].domain = DomainOf[c]
      /\ row[c].hash = HashEntry(row[c].prev, row[c].ev)
      /\ row[c].ev = EventOf[c] /\ row[c].prev = head[c]
      /\ \A q \in RowsOf(table, DomainOf[c]) : q.seq < row[c].seq
  BY <1>1 DEF ChainInv, RowIsNext
<1>4. IsHead(row[c].prev, RowsOf(table, DomainOf[c]))
  BY <1>1, <1>3 DEF ChainInv, HeadIsCurrent
<1>5. RowsOf(table', DomainOf[c]) = RowsOf(table, DomainOf[c]) \cup {row[c]}
  BY <1>1, <1>3 DEF RowsOf
<1>6. \A d \in Domains : d # DomainOf[c] => RowsOf(table', d) = RowsOf(table, d)
  BY <1>1, <1>3 DEF RowsOf
<1> QED
  BY <1>1, <1>2, <1>3, <1>4, <1>5, <1>6

LEMMA PartsInductive ==
    /\ Init => PartsInv
    /\ ChainTypeOK /\ ChainInv /\ PartsInv /\ [Next]_vars => PartsInv'
<1>1. Init => PartsInv
  <2> SUFFICES ASSUME Init, NEW d \in Domains PROVE History(RowsOf(table, d))
    BY DEF PartsInv
  <2>1. RowsOf(table, d) = {}
    BY DEF Init, RowsOf
  <2>2. IsFiniteSet(RowsOf(table, d))
    BY <2>1, FS_EmptySet
  <2> QED
    BY <2>1, <2>2 DEF History, HasOldestAndNewest, CommitsToHistory, HashesGrow
<1>2. ASSUME ChainTypeOK, ChainInv, PartsInv, [Next]_vars PROVE PartsInv'
  <2>1. CASE UNCHANGED table
    BY <1>2, <2>1 DEF PartsInv
  <2>2. ASSUME NEW c \in Calls, Commit(c) \/ CommitUnknown(c) PROVE PartsInv'
    <3> DEFINE S == RowsOf(table, DomainOf[c])
    <3>1. S \in SUBSET Rows /\ \A q, r \in S : q.seq = r.seq => q = r
      BY <1>2, SeqIdentifies DEF RowsOf, ChainTypeOK, ChainInv
    <3>2. History(S) /\ \A q \in S : q.seq < row[c].seq
      BY <1>2, <2>2, CommitFacts DEF PartsInv
    <3>3. /\ row[c] \in Rows /\ IsHead(row[c].prev, S)
          /\ row[c].hash = HashEntry(row[c].prev, row[c].ev)
      BY <1>2, <2>2, CommitFacts
    <3> HIDE DEF S
    <3>4. History(S \cup {row[c]})
      BY <3>1, <3>2, <3>3, HistoryContinues
    <3>5. ASSUME NEW d \in Domains PROVE History(RowsOf(table', d))
      <4>1. CASE d = DomainOf[c]
        BY <1>2, <2>2, <3>4, <4>1, CommitFacts DEF S
      <4>2. CASE d # DomainOf[c]
        BY <1>2, <2>2, <4>2, CommitFacts DEF PartsInv
      <4> QED
        BY <4>1, <4>2
    <3> QED
      BY <3>5 DEF PartsInv
  <2> QED
    BY <1>2, <2>1, <2>2, TableFrame
<1> QED
  BY <1>1, <1>2

THEOREM PartsInvariant == Spec => []PartsInv
BY ChainInductive, PartsInductive, PTL DEF Spec

(* Of two rows of a domain the later one's hash extends the other's.       *)
LEMMA LaterExtends ==
    ASSUME ChainTypeOK, ChainInv, PartsInv, NEW d \in Domains,
           NEW r \in RowsOf(table, d), NEW q \in RowsOf(table, d), q.seq <= r.seq
    PROVE  Extends(r.hash, q.hash)
<1>1. r \in table /\ q \in table /\ r.seq \in Nat /\ q.seq \in Nat
  BY DEF RowsOf, ChainTypeOK, Rows
<1>2. r.hash \in Seq(Events)
  BY <1>1 DEF ChainTypeOK, Rows, Hashes
<1>3. CASE q.seq = r.seq
  BY <1>1, <1>2, <1>3, SeqIdentifies DEF ChainInv, Extends
<1>4. CASE q.seq < r.seq
  BY <1>4 DEF PartsInv, History, HashesGrow
<1> QED
  BY <1>1, <1>3, <1>4

(* Latest finds the newest row of every selection from a domain.           *)
LEMMA LatestIsNewest ==
    ASSUME PartsInv, NEW d \in Domains, NEW S \in SUBSET RowsOf(table, d), S # {}
    PROVE  Latest(S) \in S /\ \A p \in S : p.seq <= Latest(S).seq
<1>1. \E q \in S : \A p \in S : p.seq <= q.seq
  BY DEF PartsInv, History, HasOldestAndNewest
<1> QED
  BY <1>1 DEF Latest

-----------------------------------------------------------------------------
(* What is signed is a committed row, and stays one.                       *)
AnchorInv ==
    /\ anchors \in Seq(AnchorRows)
    /\ \A a \in AnchorCalls : anchoring[a] # NoRow => anchoring[a] \in table
    /\ \A i \in DOMAIN anchors : \E r \in table :
          /\ r.domain = anchors[i].domain
          /\ r.seq = anchors[i].headSeq
          /\ r.hash = anchors[i].headHash

LEMMA AnchorInductive ==
    /\ Init => AnchorInv
    /\ ChainTypeOK /\ PartsInv /\ TypeOK /\ AnchorInv /\ [Next]_vars => AnchorInv'
<1>1. Init => AnchorInv
  BY DEF Init, AnchorInv
<1>2. ASSUME ChainTypeOK, PartsInv, TypeOK, AnchorInv, [Next]_vars PROVE AnchorInv'
  <2>1. table \subseteq table'
    BY <1>2, TableFrame DEF Commit, CommitUnknown
  <2>2. CASE UNCHANGED anchorVars
    BY <1>2, <2>1, <2>2 DEF AnchorInv, anchorVars
  <2>3. ASSUME NEW a \in AnchorCalls, NEW d \in Domains, AnchorRead(a, d) PROVE AnchorInv'
    <3>1. Latest(RowsOf(table, d)) \in table
      BY <1>2, <2>3, LatestIsNewest DEF AnchorRead, RowsOf
    <3>2. anchoring' = [anchoring EXCEPT ![a] = Latest(RowsOf(table, d))] /\ UNCHANGED anchors
      BY <2>3 DEF AnchorRead
    <3>3. anchoring \in [AnchorCalls -> Rows \cup {NoRow}]
      BY <1>2 DEF TypeOK
    <3> QED
      BY <1>2, <2>1, <3>1, <3>2, <3>3 DEF AnchorInv
  <2>4. ASSUME NEW a \in AnchorCalls, AnchorInsert(a) PROVE AnchorInv'
    <3> DEFINE r == anchoring[a]
    <3>1. r \in table /\ anchors' = Append(anchors, AnchorRow(r))
      BY <1>2, <2>4 DEF AnchorInsert, AnchorInv
    <3>2. /\ AnchorRow(r) \in AnchorRows
          /\ AnchorRow(r).domain = r.domain /\ AnchorRow(r).headSeq = r.seq
          /\ AnchorRow(r).headHash = r.hash
      BY <1>2, <3>1 DEF AnchorRow, AnchorRows, SignedSeq, ChainTypeOK, Rows
    <3>3. \A b \in AnchorCalls : anchoring'[b] # NoRow => anchoring'[b] \in table'
      BY <1>2, <2>1, <2>4 DEF AnchorInsert, AnchorInv, TypeOK
    <3> HIDE DEF r
    <3>4. ASSUME NEW i \in DOMAIN anchors'
          PROVE  \E q \in table' : /\ q.domain = anchors'[i].domain
                                   /\ q.seq = anchors'[i].headSeq
                                   /\ q.hash = anchors'[i].headHash
      <4>1. CASE i \in DOMAIN anchors
        BY <1>2, <2>1, <3>1, <3>2, <4>1 DEF AnchorInv
      <4>2. CASE i \notin DOMAIN anchors
        BY <1>2, <2>1, <3>1, <3>2, <4>2 DEF AnchorInv
      <4> QED
        BY <4>1, <4>2
    <3> QED
      BY <1>2, <3>1, <3>2, <3>3, <3>4 DEF AnchorInv
  <2>5. ASSUME NEW c \in Calls,
               \/ AcquireLock(c) \/ ReadHead(c) \/ Insert(c) \/ Commit(c)
               \/ CommitUnknown(c) \/ Rollback(c) \/ Return(c) \/ Throw(c)
               \/ \E s \in Sinks : Deliver(c, s) \/ PostFails(c, s)
        PROVE  UNCHANGED anchorVars
    BY <2>5 DEF AcquireLock, ReadHead, Insert, Commit, CommitUnknown, Rollback,
                Return, Throw, Deliver, PostFails
  <2>6. ASSUME NEW a \in Agents, Crash(a) PROVE UNCHANGED anchorVars
    BY <2>6 DEF Crash
  <2>7. UNCHANGED vars => UNCHANGED anchorVars
    BY DEF vars, anchorVars
  <2> QED
    BY <1>2, <2>2, <2>3, <2>4, <2>5, <2>6, <2>7 DEF Next
<1> QED
  BY <1>1, <1>2

THEOREM AnchorInvariant == Spec => []AnchorInv
BY ChainInvariant, PartsInvariant, TypeCorrect, AnchorInductive, PTL DEF Spec

-----------------------------------------------------------------------------
LEMMA AttestHistory ==
    ASSUME ChainTypeOK, PartsInv
    PROVE  HashCommitsToHistory
<1> SUFFICES ASSUME NEW r \in table
             PROVE  LET past == {q \in RowsOf(table, r.domain) : q.seq <= r.seq}
                    IN /\ Len(r.hash) = Cardinality(past)
                       /\ \A q \in past : r.hash[Cardinality(Before(past, q)) + 1] = q.ev
  BY DEF HashCommitsToHistory
<1>1. r.domain \in Domains /\ r \in RowsOf(table, r.domain)
  BY DEF ChainTypeOK, Rows, RowsOf
<1>2. CommitsToHistory(RowsOf(table, r.domain))
  BY <1>1 DEF PartsInv, History
<1> QED
  BY <1>1, <1>2 DEF CommitsToHistory, UpTo

LEMMA AttestAnchors ==
    ASSUME ChainTypeOK, ChainInv, PartsInv, AnchorInv
    PROVE  AnchorsHold
<1> SUFFICES ASSUME NEW i \in DOMAIN anchors
             PROVE  LET rows == RowsOf(table, anchors[i].domain)
                    IN /\ \E r \in rows : /\ r.seq = anchors[i].headSeq
                                          /\ r.hash = anchors[i].headHash
                       /\ Extends(HeadHash(rows), anchors[i].headHash)
  BY DEF AnchorsHold
<1> DEFINE rows == RowsOf(table, anchors[i].domain)
<1>1. PICK r \in table : /\ r.domain = anchors[i].domain
                         /\ r.seq = anchors[i].headSeq
                         /\ r.hash = anchors[i].headHash
  BY DEF AnchorInv
<1>2. r \in rows /\ anchors[i].domain \in Domains
  BY <1>1 DEF RowsOf, ChainTypeOK, Rows
<1>3. Latest(rows) \in rows /\ r.seq <= Latest(rows).seq
  BY <1>2, LatestIsNewest
<1>4. Extends(Latest(rows).hash, r.hash)
  BY <1>2, <1>3, LaterExtends
<1> QED
  BY <1>1, <1>2, <1>4 DEF HeadHash

LEMMA AttestDossiers ==
    ASSUME ChainTypeOK, ChainInv, PartsInv, AnchorInv
    PROVE  DossierHolds
<1> SUFFICES ASSUME NEW d \in Domains, NEW k \in Correlations,
                    NEW a \in Dossier(d, k).anchors, NEW r \in Dossier(d, k).events
             PROVE  Extends(a.headHash, r.hash)
  BY DEF DossierHolds
<1> DEFINE events == Slice(table, d, k)
<1>1. r \in events /\ events # {} /\ events \in SUBSET RowsOf(table, d)
  BY DEF Dossier, Slice
<1>2. r.seq <= Latest(events).seq /\ Latest(events) \in events
  BY <1>1, LatestIsNewest
<1>3. PICK i \in DOMAIN anchors :
         a = anchors[i] /\ anchors[i].domain = d /\ Covers(anchors[i], Latest(events).seq)
  BY <1>1 DEF Dossier
<1>4. PICK q \in table : q.domain = a.domain /\ q.seq = a.headSeq /\ q.hash = a.headHash
  BY <1>3 DEF AnchorInv
<1>5. q \in RowsOf(table, d) /\ r \in RowsOf(table, d)
  BY <1>1, <1>3, <1>4 DEF RowsOf
<1>6. q.seq \in Nat /\ r.seq \in Nat /\ Latest(events).seq \in Nat
  BY <1>1, <1>2, <1>5 DEF RowsOf, ChainTypeOK, Rows
<1>7. r.seq <= q.seq
  BY <1>2, <1>3, <1>4, <1>6 DEF Covers
<1> QED
  BY <1>4, <1>5, <1>7, LaterExtends

(* A slice verifies exactly when the rows it selects are contiguous.       *)
LEMMA AttestSlices ==
    ASSUME ChainTypeOK, ChainInv, PartsInv
    PROVE  SliceVerdict
<1> SUFFICES ASSUME NEW d \in Domains, NEW k \in Correlations
             PROVE  VerifyChain(Slice(table, d, k)).ok <=> Contiguous(Slice(table, d, k), d)
  BY DEF SliceVerdict
<1> DEFINE R == RowsOf(table, d)
           S == Slice(table, d, k)
<1>1. S \in SUBSET R /\ R \in SUBSET table
  BY DEF Slice, RowsOf
<1>2. \A r \in R : /\ r \in table /\ r.seq \in Nat /\ r.domain = d
                   /\ r.hash = HashEntry(r.prev, r.ev) /\ IsHead(r.prev, Before(R, r))
  BY DEF ChainTypeOK, Rows, ChainInv, Linked, RowsOf
<1>3. \A r, q \in R : r.seq = q.seq => r = q
  BY <1>2, SeqIdentifies DEF ChainInv
<1>9. \A r \in R : r.seq \in Nat
  BY <1>2
<1>4. \A r \in S : Before(S, r) # {} =>
          Latest(Before(S, r)) \in Before(S, r)
          /\ \A p \in Before(S, r) : p.seq <= Latest(Before(S, r)).seq
  <2> SUFFICES ASSUME NEW r \in S, Before(S, r) # {}
               PROVE  Latest(Before(S, r)) \in Before(S, r)
                      /\ \A p \in Before(S, r) : p.seq <= Latest(Before(S, r)).seq
    OBVIOUS
  <2>1. Before(S, r) \in SUBSET RowsOf(table, d)
    BY <1>1 DEF Before
  <2> QED
    BY <2>1, LatestIsNewest
<1>5. VerifyChain(S).ok <=> BrokenRows(S) = {}
  BY DEF VerifyChain
<1>6. BrokenRows(S) = {} <=> \A r \in S : ~PrevDiscontinuity(S, r)
  BY <1>1, <1>2 DEF BrokenRows, HashMismatch
<1> HIDE DEF R, S
<1>7. ASSUME Contiguous(S, d), NEW r \in S PROVE ~PrevDiscontinuity(S, r)
  <2> SUFFICES ASSUME Before(S, r) # {} PROVE r.prev = Latest(Before(S, r)).hash
    BY DEF PrevDiscontinuity
  <2> DEFINE p == Latest(Before(S, r))
  <2>1. /\ p \in Before(S, r) /\ p \in S /\ p.seq < r.seq /\ p \in R /\ r \in R
        /\ \A q \in Before(S, r) : q.seq <= p.seq
    BY <1>1, <1>4 DEF Before
  <2> HIDE DEF p
  <2>2. p \in Before(R, r)
    BY <2>1 DEF Before
  <2>3. PICK n \in Before(R, r) : (\A q \in Before(R, r) : q.seq <= n.seq) /\ r.prev = n.hash
    BY <1>2, <2>1, <2>2 DEF IsHead, IsNewest
  <2>4. n \in R /\ n.seq < r.seq /\ p.seq <= n.seq
    BY <2>2, <2>3 DEF Before
  <2>5. CASE p.seq < n.seq
    <3>1. n \in S
      BY <1>7, <2>1, <2>4, <2>5 DEF Contiguous, R
    <3>2. n.seq <= p.seq
      BY <2>1, <2>4, <3>1 DEF Before
    <3> QED
      BY <1>9, <2>1, <2>4, <2>5, <3>2
  <2>6. CASE p.seq = n.seq
    BY <1>3, <2>1, <2>3, <2>4, <2>6 DEF p
  <2> QED
    BY <1>9, <2>1, <2>4, <2>5, <2>6
<1>8. ASSUME \A r \in S : ~PrevDiscontinuity(S, r),
             NEW r1 \in S, NEW r2 \in S, NEW q \in R, r1.seq < q.seq, q.seq < r2.seq,
             q \notin S
      PROVE  FALSE
  <2> DEFINE T == {r \in S : q.seq < r.seq}
  <2>1. T \in SUBSET R /\ T # {}
    BY <1>1, <1>8
  <2>2. PICK r \in T : \A t \in T : r.seq <= t.seq
    BY <2>1 DEF R, PartsInv, History, HasOldestAndNewest
  <2>3. r \in S /\ r \in R /\ q.seq < r.seq /\ r1 \in R
    BY <1>1, <2>2
  <2>4. r1 \in Before(S, r)
    BY <1>8, <1>9, <2>3 DEF Before
  <2> DEFINE p == Latest(Before(S, r))
  <2>5. p \in S /\ p \in R /\ p.seq < r.seq /\ r.prev = p.hash
    BY <1>1, <1>4, <1>8, <2>3, <2>4 DEF Before, PrevDiscontinuity
  <2> HIDE DEF p
  <2>6. p \notin T
    BY <1>9, <2>2, <2>3, <2>5
  <2>7. p.seq < q.seq
    BY <1>3, <1>8, <1>9, <2>3, <2>5, <2>6
  <2>8. q \in Before(R, r)
    BY <2>3 DEF Before
  <2>9. PICK n \in Before(R, r) : (\A t \in Before(R, r) : t.seq <= n.seq) /\ r.prev = n.hash
    BY <1>2, <2>3, <2>8 DEF IsHead, IsNewest
  <2>10. n \in R /\ p.seq < n.seq
    BY <1>9, <2>5, <2>7, <2>8, <2>9 DEF Before
  <2>11. Len(p.hash) < Len(n.hash) /\ p.hash = n.hash
    BY <2>5, <2>9, <2>10 DEF R, PartsInv, History, HashesGrow
  <2>12. Len(p.hash) \in Nat
    BY <1>2, <2>5 DEF ChainTypeOK, Rows, Hashes
  <2> QED
    BY <2>11, <2>12
<1> QED
  BY <1>5, <1>6, <1>7, <1>8 DEF Contiguous, R, S

(* What a row, an anchor, a dossier or a slice attests to agrees with the  *)
(* chain, for any number of calls, domains, correlations and anchors.      *)
THEOREM PartsAttestAlways == Spec => []PartsAttest
<1>1. ChainTypeOK /\ ChainInv /\ PartsInv /\ AnchorInv => PartsAttest
  BY AttestHistory, AttestAnchors, AttestDossiers, AttestSlices DEF PartsAttest
<1> QED
  BY <1>1, ChainInvariant, PartsInvariant, AnchorInvariant, PTL

-----------------------------------------------------------------------------
(* The refinement.  What the log, the calls that added to it and the       *)
(* replies are in a state of the ledger.                                   *)
LogOf == [d \in Domains |-> HeadHash(RowsOf(table, d))]
AddedOf == {c \in Calls : row[c] \in table}
ReplyOf == [c \in Calls |-> Reply(c)]

(* A head is unique: what a transaction read is what HeadHash computes.    *)
LEMMA HeadIsHeadHash ==
    ASSUME ChainTypeOK, ChainInv, PartsInv, NEW d \in Domains, NEW h, IsHead(h, RowsOf(table, d))
    PROVE  h = HeadHash(RowsOf(table, d))
<1> DEFINE S == RowsOf(table, d)
<1>1. CASE S = {}
  BY <1>1 DEF IsHead, HeadHash
<1>2. CASE S # {}
  <2>1. PICK q \in S : (\A p \in S : p.seq <= q.seq) /\ h = q.hash
    BY <1>2 DEF IsHead, IsNewest
  <2>2. Latest(S) \in S /\ \A p \in S : p.seq <= Latest(S).seq
    BY <1>2, LatestIsNewest
  <2>3. q \in table /\ Latest(S) \in table
    BY <2>1, <2>2 DEF RowsOf
  <2>4. q.seq \in Nat /\ Latest(S).seq \in Nat
    BY <2>3 DEF ChainTypeOK, Rows
  <2>5. q.seq = Latest(S).seq
    BY <2>1, <2>2, <2>4
  <2>6. q = Latest(S)
    BY <2>3, <2>5, SeqIdentifies DEF ChainInv
  <2> QED
    BY <1>2, <2>1, <2>6 DEF HeadHash
<1> QED
  BY <1>1, <1>2

(* The commit of a call appends its event to the log of its domain.        *)
LEMMA CommitAdds ==
    ASSUME ChainTypeOK, ChainInv, PartsInv, NEW c \in Calls, Commit(c) \/ CommitUnknown(c)
    PROVE  /\ c \notin AddedOf
           /\ LogOf' = [LogOf EXCEPT ![DomainOf[c]] = Append(@, EventOf[c])]
           /\ AddedOf' = AddedOf \cup {c}
<1> DEFINE d == DomainOf[c]
<1>1. pc[c] = "inserted" /\ UNCHANGED row
  BY DEF Commit, CommitUnknown
<1>2. row[c] \in Rows /\ row[c] # NoRow
  BY CommitFacts DEF Rows, NoRow
<1>3. \A e \in Calls : e # c => row[e] # row[c]
  BY <1>2 DEF ChainInv, SeqsDrawn
<1>4. row[c] \notin table
  BY <1>1, <1>3 DEF ChainInv, SeqsDrawn, InTransaction
<1>5. AddedOf' = AddedOf \cup {c}
  BY <1>1, <1>3, CommitFacts DEF AddedOf
<1>6. \A q \in RowsOf(table', d) : q.seq <= row[c].seq
  <2>1. \A q \in RowsOf(table, d) : q.seq \in Nat /\ q.seq < row[c].seq
    BY CommitFacts DEF RowsOf, ChainTypeOK, Rows
  <2>2. RowsOf(table', d) = RowsOf(table, d) \cup {row[c]} /\ row[c].seq \in Nat
    BY <1>2, CommitFacts DEF Rows
  <2> QED
    BY <2>1, <2>2
<1>7. HeadHash(RowsOf(table', d)) = row[c].hash
  <2> DEFINE T == RowsOf(table', d)
  <2>1. row[c] \in T /\ T # {}
    BY CommitFacts
  <2>2. Latest(T) \in T /\ \A q \in T : q.seq <= Latest(T).seq
    BY <1>6, <2>1 DEF Latest
  <2>3. Latest(T) = row[c] \/ (Latest(T) \in RowsOf(table, d) /\ Latest(T).seq < row[c].seq)
    BY <2>2, CommitFacts
  <2>4. Latest(T).seq \in Nat /\ row[c].seq \in Nat
    BY <1>2, <2>3 DEF RowsOf, ChainTypeOK, Rows
  <2>5. Latest(T) = row[c]
    BY <2>1, <2>2, <2>3, <2>4
  <2> QED
    BY <2>1, <2>5 DEF HeadHash
<1>8. row[c].hash = Append(HeadHash(RowsOf(table, d)), EventOf[c])
  BY CommitFacts, HeadIsHeadHash DEF HashEntry
<1>9. LogOf' = [LogOf EXCEPT ![d] = Append(@, EventOf[c])]
  <2>1. LogOf' = [e \in Domains |-> HeadHash(RowsOf(table', e))]
    BY DEF LogOf
  <2>2. \A e \in Domains : e # d => HeadHash(RowsOf(table', e)) = LogOf[e]
    BY CommitFacts DEF LogOf
  <2>3. HeadHash(RowsOf(table', d)) = Append(LogOf[d], EventOf[c]) /\ d \in Domains
    BY <1>7, <1>8, CommitFacts DEF LogOf
  <2>4. LogOf = [e \in Domains |-> LogOf[e]]
    BY DEF LogOf
  <2> HIDE DEF d
  <2> QED
    BY <2>1, <2>2, <2>3, <2>4
<1>10. c \notin AddedOf
  BY <1>4 DEF AddedOf
<1> QED
  BY <1>5, <1>9, <1>10

(* Until a call has a row, drawing one adds nothing to the log.            *)
LEMMA InsertKeepsAdded ==
    ASSUME ChainTypeOK, ChainInv, NEW c \in Calls, Insert(c)
    PROVE  AddedOf' = AddedOf
<1>1. /\ pc[c] = "read" /\ UNCHANGED table
      /\ row' = [row EXCEPT ![c] = NewRow(c)]
  BY DEF Insert
<1>2. row[c] = NoRow /\ NoRow \notin table
  BY <1>1 DEF ChainInv, SeqsDrawn, ChainTypeOK, Rows, NoRow
<1>3. \A r \in table : r.seq < nextSeq /\ nextSeq \in Nat
  BY DEF ChainInv, SeqsDrawn, ChainTypeOK
<1>4. NewRow(c).seq = nextSeq
  BY DEF NewRow
<1>5. NewRow(c) \notin table
  BY <1>3, <1>4
<1> QED
  BY <1>1, <1>2, <1>5 DEF AddedOf, ChainTypeOK

LEMMA LogDefs ==
    /\ Log!Init <=> /\ LogOf = [d \in Domains |-> <<>>]
                    /\ AddedOf = {}
                    /\ ReplyOf = [c \in Calls |-> "none"]
    /\ Log!logVars = <<LogOf, AddedOf, ReplyOf>>
    /\ \A c \in Calls :
          Log!Add(c) <=> /\ c \notin AddedOf
                         /\ ReplyOf[c] = "none"
                         /\ LogOf' = [LogOf EXCEPT ![DomainOf[c]] = Append(@, EventOf[c])]
                         /\ AddedOf' = AddedOf \cup {c}
    /\ \A c \in Calls :
          Log!ReturnOk(c) <=> /\ c \in AddedOf
                              /\ ReplyOf[c] = "none"
                              /\ ReplyOf' = [ReplyOf EXCEPT ![c] = "ok"]
                              /\ UNCHANGED <<LogOf, AddedOf>>
    /\ \A C \in SUBSET Calls :
          Log!Fail(C) <=> /\ \A c \in C : ReplyOf[c] = "none"
                          /\ ReplyOf' = [c \in Calls |-> IF c \in C THEN "error" ELSE ReplyOf[c]]
                          /\ UNCHANGED <<LogOf, AddedOf>>
BY DEF Log!Init, Log!logVars, Log!Add, Log!ReturnOk, Log!Fail, LogOf, AddedOf, ReplyOf

(* What a step does to the replies, by what it does to pc.                 *)
LEMMA ReplyIs ==
    ASSUME ChainTypeOK, NEW c \in Calls
    PROVE  /\ ReplyOf[c] = Reply(c)
           /\ pc[c] = "done" => ReplyOf[c] = "ok"
           /\ pc[c] \in {"failed", "dead"} => ReplyOf[c] = "error"
           /\ pc[c] \in {"called", "locked", "read", "inserted", "mirroring"} => ReplyOf[c] = "none"
BY DEF ReplyOf, Reply

LEMMA LogStep ==
    ASSUME ChainTypeOK, ChainInv, PartsInv, MirrorInv, [Next]_vars, ChainTypeOK'
    PROVE  [Log!Next]_Log!logVars
<1> DEFINE Running == {"called", "locked", "read", "inserted", "mirroring"}
<1>1. \A c \in Calls : /\ pc[c] = "done" => ReplyOf[c] = "ok"
                       /\ pc[c] \in {"failed", "dead"} => ReplyOf[c] = "error"
                       /\ pc[c] \in Running => ReplyOf[c] = "none"
  BY ReplyIs
<1>2. \A c \in Calls : /\ pc'[c] = "done" => ReplyOf'[c] = "ok"
                       /\ pc'[c] \in {"failed", "dead"} => ReplyOf'[c] = "error"
                       /\ pc'[c] \in Running => ReplyOf'[c] = "none"
  BY DEF ReplyOf, Reply
<1>3. /\ ReplyOf = [c \in Calls |-> ReplyOf[c]]
      /\ ReplyOf' = [c \in Calls |-> ReplyOf'[c]]
  BY DEF ReplyOf
<1>4. \A c \in Calls : pc'[c] = pc[c] => ReplyOf'[c] = ReplyOf[c]
  BY DEF ReplyOf, Reply
<1>5. UNCHANGED table => UNCHANGED LogOf
  BY DEF LogOf
<1>6. UNCHANGED <<table, row>> => UNCHANGED AddedOf
  BY DEF AddedOf
<1> HIDE DEF Running
<1>7. ASSUME UNCHANGED <<LogOf, AddedOf>>, \A c \in Calls : ReplyOf'[c] = ReplyOf[c]
      PROVE  [Log!Next]_Log!logVars
  <2>1. ReplyOf' = ReplyOf
    BY <1>3, <1>7
  <2>2. UNCHANGED Log!logVars
    BY <1>7, <2>1 DEF Log!logVars, LogOf, AddedOf, ReplyOf
  <2> QED
    BY <2>2
(* The commit, with and without its acknowledgement.                       *)
<1>8. ASSUME NEW c \in Calls, Commit(c) \/ CommitUnknown(c)
      PROVE  [Log!Next]_Log!logVars
  <2>1. ReplyOf[c] = "none"
    BY <1>1, <1>8 DEF Commit, CommitUnknown, Running
  <2>2. Log!Add(c)
    BY <1>8, <2>1, CommitAdds, LogDefs
  <2>3. CASE Commit(c)
    <3>1. \A e \in Calls : ReplyOf'[e] = ReplyOf[e]
      BY <1>1, <1>2, <1>4, <2>3 DEF Commit, Running, ChainTypeOK
    <3>2. UNCHANGED ReplyOf
      BY <1>3, <3>1
    <3>3. Log!AddKnown(c)
      BY <2>2, <3>2 DEF Log!AddKnown, ReplyOf
    <3> QED
      BY <3>3 DEF Log!Next
  <2>4. CASE CommitUnknown(c)
    <3>1. ReplyOf'[c] = "error" /\ \A e \in Calls : e # c => ReplyOf'[e] = ReplyOf[e]
      BY <1>2, <1>4, <2>4 DEF CommitUnknown, ChainTypeOK
    <3>2. ReplyOf' = [ReplyOf EXCEPT ![c] = "error"]
      BY <1>3, <3>1
    <3>3. Log!AddUnknown(c)
      BY <2>2, <3>2 DEF Log!AddUnknown, ReplyOf
    <3> QED
      BY <3>3 DEF Log!Next
  <2> QED
    BY <1>8, <2>3, <2>4
<1>9. ASSUME NEW c \in Calls, Return(c) PROVE [Log!Next]_Log!logVars
  <2>1. UNCHANGED <<LogOf, AddedOf>>
    BY <1>5, <1>6, <1>9 DEF Return, chainVars
  <2>2. ReplyOf'[c] = "ok" /\ \A e \in Calls : e # c => ReplyOf'[e] = ReplyOf[e]
    BY <1>2, <1>4, <1>9 DEF Return, ChainTypeOK
  <2>3. ReplyOf' = [ReplyOf EXCEPT ![c] = "ok"]
    BY <1>3, <2>2
  <2>4. ReplyOf[c] = "none" /\ c \in AddedOf
    BY <1>1, <1>9 DEF Return, Running, AddedOf, MirrorInv
  <2>5. Log!ReturnOk(c)
    BY <2>1, <2>3, <2>4, LogDefs
  <2> QED
    BY <2>5 DEF Log!Next
(* Failures: of one call, or of all that a dying process had under way.    *)
<1>10. ASSUME NEW C \in SUBSET Calls, UNCHANGED <<table, row>>,
              \A c \in C : pc[c] \in Running /\ pc'[c] \in {"failed", "dead"},
              \A c \in Calls \ C : pc'[c] = pc[c]
       PROVE  [Log!Next]_Log!logVars
  <2>1. UNCHANGED <<LogOf, AddedOf>>
    BY <1>5, <1>6, <1>10
  <2>2. \A c \in C : ReplyOf[c] = "none" /\ ReplyOf'[c] = "error"
    BY <1>1, <1>2, <1>10
  <2>3. \A c \in Calls \ C : ReplyOf'[c] = ReplyOf[c]
    BY <1>4, <1>10
  <2>4. ReplyOf' = [c \in Calls |-> IF c \in C THEN "error" ELSE ReplyOf[c]]
    BY <1>3, <2>2, <2>3
  <2>5. Log!Fail(C)
    BY <2>1, <2>2, <2>4, LogDefs
  <2> QED
    BY <2>5 DEF Log!Next
<1>11. ASSUME NEW c \in Calls, Rollback(c) \/ Throw(c) PROVE [Log!Next]_Log!logVars
  <2>1. /\ UNCHANGED <<table, row>>
        /\ pc[c] \in Running /\ pc'[c] = "failed"
        /\ \A e \in Calls \ {c} : pc'[e] = pc[e]
    BY <1>11 DEF Rollback, Throw, Running, InTransaction, chainVars, ChainTypeOK
  <2>2. {c} \in SUBSET Calls /\ \A e \in {c} : pc[e] \in Running /\ pc'[e] \in {"failed", "dead"}
    BY <2>1
  <2> QED
    BY <1>10, <2>1, <2>2
<1>12. ASSUME NEW a \in Agents, Crash(a) PROVE [Log!Next]_Log!logVars
  <2>1. /\ UNCHANGED <<table, row>>
        /\ Victims(a) \in SUBSET Calls
        /\ \A c \in Victims(a) : pc[c] \in Running /\ pc'[c] = "dead"
        /\ \A c \in Calls \ Victims(a) : pc'[c] = pc[c]
    BY <1>12 DEF Crash, Victims, Running, InFlight, InTransaction
  <2> QED
    BY <1>10, <2>1
(* Steps inside a transaction, of the sinks and of the anchors: stuttering. *)
<1>13. ASSUME NEW c \in Calls, AcquireLock(c) \/ ReadHead(c) \/ Insert(c)
       PROVE  [Log!Next]_Log!logVars
  <2>1. UNCHANGED LogOf
    BY <1>5, <1>13 DEF AcquireLock, ReadHead, Insert
  <2>2. UNCHANGED AddedOf
    BY <1>6, <1>13, InsertKeepsAdded DEF AcquireLock, ReadHead
  <2>3. pc[c] \in Running /\ pc'[c] \in Running /\ \A e \in Calls : e # c => pc'[e] = pc[e]
    BY <1>13 DEF AcquireLock, ReadHead, Insert, Running, ChainTypeOK
  <2>4. \A e \in Calls : ReplyOf'[e] = ReplyOf[e]
    BY <1>1, <1>2, <1>4, <2>3
  <2> QED
    BY <1>7, <2>1, <2>2, <2>4
<1>14. ASSUME UNCHANGED <<table, row, pc>> PROVE [Log!Next]_Log!logVars
  BY <1>4, <1>5, <1>6, <1>7, <1>14
<1>15. ASSUME NEW c \in Calls, NEW s \in Sinks, Deliver(c, s) \/ PostFails(c, s)
       PROVE  [Log!Next]_Log!logVars
  BY <1>14, <1>15 DEF Deliver, PostFails, chainVars
<1>16. ASSUME NEW a \in AnchorCalls, AnchorInsert(a) \/ \E d \in Domains : AnchorRead(a, d)
       PROVE  [Log!Next]_Log!logVars
  BY <1>14, <1>16 DEF AnchorInsert, AnchorRead, chainVars
<1>17. CASE UNCHANGED vars
  BY <1>14, <1>17 DEF vars
<1> QED
  BY <1>8, <1>9, <1>11, <1>12, <1>13, <1>15, <1>16, <1>17 DEF Next

(* appendEvent implements the append-only log that custody consumers rely  *)
(* on: every commit is one append by one call, whatever overlaps or fails. *)
THEOREM LedgerImplementsLog == Spec => ImplementsLog
<1>1. Init => Log!Init
  <2> SUFFICES ASSUME Init PROVE Log!Init
    OBVIOUS
  <2>1. /\ LogOf = [d \in Domains |-> <<>>]
        /\ AddedOf = {}
        /\ ReplyOf = [c \in Calls |-> "none"]
    BY DEF Init, LogOf, AddedOf, ReplyOf, Reply, RowsOf, HeadHash, GENESIS_HASH
  <2> QED
    BY <2>1, LogDefs
<1>2. ChainTypeOK /\ ChainInv /\ PartsInv /\ MirrorInv /\ [Next]_vars /\ ChainTypeOK'
        => [Log!Next]_Log!logVars
  BY LogStep
<1> QED
  BY <1>1, <1>2, ChainInvariant, PartsInvariant, MirrorInvariant, PTL
     DEF Spec, ImplementsLog, Log!Spec
=============================================================================
