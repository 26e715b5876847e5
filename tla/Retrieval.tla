----------------------------- MODULE Retrieval -----------------------------
(***************************************************************************)
(* What a question finds: the vector search of the Data Access API         *)
(* (api/routes/data-access.ts), the fusion of its ranked lists             *)
(* (agent/fusion.ts) and the lanes of the retrieve node                    *)
(* (agent/nodes/retrieve.ts).                                              *)
(*                                                                         *)
(* A point is [labels, table].  A query is the order in which its vector   *)
(* ranks the points, best first.                                           *)
(***************************************************************************)
EXTENDS Integers, Sequences, SequencesExt, FiniteSets, FiniteSetsExt, Functions

CONSTANTS PROSE_TOP_K, FUSED_PROSE_K, TABLE_TOP_K,     \* 6, 6 and 3 in the code
          RRF_K,                                        \* 60 in the code
          EnforceLabels                                 \* enforceLabels()

LabelsIntersect(labels, callers) == labels \cap callers # {}
Admits(point, callers) == EnforceLabels => LabelsIntersect(point.labels, callers)

Best(n, list) == SubSeq(list, 1, IF n < Len(list) THEN n ELSE Len(list))

(* POST /vector-search: both conditions are part of the query, so that the *)
(* limit counts what passes them.                                          *)
SearchThenFilter(points, order, limit, tableOnly, callers) ==     \* mutant
    SelectSeq(Best(limit, order),
              LAMBDA p : Admits(points[p], callers) /\ (tableOnly => points[p].table))
Search(points, order, limit, tableOnly, callers) ==
    Best(limit, SelectSeq(order,
              LAMBDA p : Admits(points[p], callers) /\ (tableOnly => points[p].table)))

-----------------------------------------------------------------------------
(* fuse: the sum of 1 / (k + rank), over one denominator, and a stable     *)
(* sort of the items in the order they were first met.                     *)
Denominator == FoldLeft(LAMBDA a, r : a * (RRF_K + r - 1), 1, [r \in 1..PROSE_TOP_K |-> r])
ByFirstList(lists, p) ==     \* mutant: an item met again is not added
    LET l == CHOOSE i \in DOMAIN lists : p \in ToSet(lists[i]) /\ \A j \in 1..i - 1 : p \notin ToSet(lists[j])
    IN Denominator \div (RRF_K + SelectInSeq(lists[l], LAMBDA q : q = p) - 1)
Score(lists, p) ==
    FoldLeft(LAMBDA sum, list : sum + (IF p \in ToSet(list)
                                       THEN Denominator \div (RRF_K + SelectInSeq(list, LAMBDA q : q = p) - 1) ELSE 0),
             0, lists)
Once(list) == FoldLeft(LAMBDA out, p : IF p \in ToSet(out) THEN out ELSE Append(out, p), <<>>, list)
Fuse(lists) ==
    LET met == Once(FlattenSeq(lists))
        before(i, j) == \/ Score(lists, met[i]) > Score(lists, met[j])
                        \/ Score(lists, met[i]) = Score(lists, met[j]) /\ i < j
    IN [n \in DOMAIN met |-> met[SetToSortSeq(DOMAIN met, before)[n]]]

(* retrieve, of one tier: the prose lane, the table lane or what it falls  *)
(* back to, and the canary.                                                *)
Retrieve(points, orders, laneFails, callers) ==
    LET prose == Best(FUSED_PROSE_K, Fuse([q \in DOMAIN orders |->
                                               Search(points, orders[q], PROSE_TOP_K, FALSE, callers)]))
        tables == IF laneFails THEN SelectSeq(prose, LAMBDA p : points[p].table)
                  ELSE Search(points, orders[1], TABLE_TOP_K, TRUE, callers)
    IN SelectSeq(Once(tables \o prose), LAMBDA p : Admits(points[p], callers))

-----------------------------------------------------------------------------
(* A caller finds what he would find if the points he may not see did not  *)
(* exist: they neither reach him nor take the place of another (with the   *)
(* labels not enforced, that no label takes a point from him).  The best   *)
(* table he may see is there however prose ranks, unless its lane failed.  *)
(* Prose comes in an order that no query disagrees with, and what more of  *)
(* the queries found comes first, wherever they ranked it: that needs      *)
(* RRF_K > (lists - 1) * (PROSE_TOP_K - 1), 60 > 25 in the code.           *)
Position(list, p) == IF p \in ToSet(list) THEN SelectInSeq(list, LAMBDA q : q = p) ELSE Len(list) + 1
NeverWorse(lists, p, q) ==
    \A l \in DOMAIN lists : p \in ToSet(lists[l]) /\ Position(lists[l], p) < Position(lists[l], q)
FoundBy(lists, p) == Cardinality({l \in DOMAIN lists : p \in ToSet(lists[l])})
FusionHolds(lists) ==
    LET fused == Fuse(lists)
    IN /\ ToSet(fused) = UNION {ToSet(lists[l]) : l \in DOMAIN lists} /\ IsInjective(fused)
       /\ \A p, q \in ToSet(fused) :
             NeverWorse(lists, p, q) \/ FoundBy(lists, p) > FoundBy(lists, q)
             => Position(fused, p) < Position(fused, q)
       /\ Len(lists) = 1 => fused = lists[1]

RetrievalHolds(points, orders, laneFails, callers) ==
    LET seen == {p \in DOMAIN points : EnforceLabels => points[p].labels \cap callers # {}}
        found == Retrieve(points, orders, laneFails, callers)
        alone == [q \in DOMAIN orders |-> SelectSeq(orders[q], LAMBDA p : p \in seen)]
        tables == SelectSeq(alone[1], LAMBDA p : points[p].table)
    IN /\ found = Retrieve([p \in seen |-> points[p]], alone, laneFails, callers)
       /\ ToSet(found) \subseteq seen /\ IsInjective(found)
       /\ seen # {} => found # <<>>
       /\ tables # <<>> /\ ~laneFails => found[1] = tables[1]
       /\ FusionHolds([q \in DOMAIN orders |-> Search(points, orders[q], PROSE_TOP_K, FALSE, callers)])
=============================================================================
