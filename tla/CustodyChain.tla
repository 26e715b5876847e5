---------------------------- MODULE CustodyChain ----------------------------
(***************************************************************************)
(* The hash chain of custody/ledger.ts as operators on sets of rows of the *)
(* table custody_events.  A row is a record with the columns the chain     *)
(* uses: seq, domain, ev (the hashed fields of the event), prev and hash.  *)
(*                                                                         *)
(* SHA-256 is modelled as free of collisions in the plainest way: the hash *)
(* of an entry IS the sequence of the events it commits to, so             *)
(* Append(prev, ev) is equal for two entries exactly when prev and ev are. *)
(***************************************************************************)
EXTENDS Integers, Sequences, FiniteSets

GENESIS_HASH == <<>>

HashEntry(prev, ev) == Append(prev, ev)

(* ORDER BY seq DESC LIMIT 1. *)
Latest(S) == CHOOSE r \in S : \A q \in S : q.seq <= r.seq

(* For mutants only: no default for the first entry of a domain.           *)
HeadHashNoGenesis(S) == IF S = {} THEN <<[corr |-> "undefined"]>> ELSE Latest(S).hash

HeadHash(S) == IF S = {} THEN GENESIS_HASH ELSE Latest(S).hash

Before(S, r) == {q \in S : q.seq < r.seq}

(* The rows of one domain, and of one correlation in it. *)
RowsOf(T, d) == {r \in T : r.domain = d}
Slice(T, d, c) == {r \in RowsOf(T, d) : r.ev.corr = c}

(***************************************************************************)
(* verifyChain walks the rows it selected in seq order.  It stops at the   *)
(* first row that does not name the row before it (the first row's prev is *)
(* taken on trust), or whose hash is not that of its fields.               *)
(***************************************************************************)
(* For mutants only: the first row is expected to follow genesis.          *)
PrevFromGenesis(S, r) == r.prev # HeadHash(Before(S, r))

PrevDiscontinuity(S, r) ==
    /\ Before(S, r) # {}
    /\ r.prev # Latest(Before(S, r)).hash

HashMismatch(r) == r.hash # HashEntry(r.prev, r.ev)

BrokenRows(S) == {r \in S : PrevDiscontinuity(S, r) \/ HashMismatch(r)}

FirstBroken(S) ==
    CHOOSE r \in BrokenRows(S) : \A q \in BrokenRows(S) : r.seq <= q.seq

VerifyChain(S) ==
    IF BrokenRows(S) = {}
    THEN [ok |-> TRUE, entriesChecked |-> Cardinality(S), brokenAt |-> 0]
    ELSE [ok |-> FALSE,
          entriesChecked |-> Cardinality(Before(S, FirstBroken(S))),
          brokenAt |-> FirstBroken(S).seq]
=============================================================================
