-------------------------------- MODULE Pages --------------------------------
(***************************************************************************)
(* Rows sorted by a score, cut to a page: what both stores' lists share.   *)
(* Source: the sorts and limits of src/internal/store/redis/store.go and   *)
(* src/internal/store/memory/memory.go.                                    *)
(***************************************************************************)
EXTENDS Integers, FiniteSetsExt

\* The cursor of a first page, and of a page that nothing follows.
NoCursor == -1

\* The rows with the highest scores, an arbitrary choice among equal ones.
TopRows(ids, limit, score) ==
  {top \in kSubset(Min({limit, Cardinality(ids)}), ids) :
     \A p \in top, q \in ids \ top : score[p] >= score[q]}

Lowest(scores) == Min(scores)
Highest(scores) == Max(scores)

\* items[:limit] of rows that came in no particular order.
AnyRows(ids, limit) == kSubset(Min({limit, Cardinality(ids)}), ids)
=============================================================================
