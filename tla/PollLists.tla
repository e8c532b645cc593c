------------------------------ MODULE PollLists ------------------------------
(***************************************************************************)
(* What the list queries of the Redis store read and what they show.       *)
(* Source: the lists of src/internal/store/redis/store.go.                 *)
(*                                                                         *)
(* "all" is SearchPolls and GetPollStats, "public" ListPublicPolls and     *)
(* ListPublicPollStats, "votes" GetMyVotes, "mine" ListMyCreatedPollStats. *)
(***************************************************************************)
EXTENDS RedisKeyspace, Pages

\* The index that a query of user u reads its ids from.
Source(kind, u) ==
  CASE kind = "mine" -> createdPolls[u]
    [] kind = "all" -> pollsIndex
    [] kind = "public" -> publicIndex
    [] kind = "votes" -> {p \in Polls : userVotes[u][p] # NoOption}

\* Mutant: the creator of a poll from created_polls is not looked at.
ShowsAnyOwner(kind, u, closedToo, p) ==
  /\ meta[p].present
  /\ kind = "votes" \/ closedToo \/ ~ReadsClosed(meta[p])

\* Whether a poll that is looked up goes on the page.  GetMyVotes also shows
\* closed polls; "mine" checks the creator in case the index is stale.
Shows(kind, u, closedToo, p) ==
  /\ meta[p].present
  /\ kind = "votes" \/ closedToo \/ ~ReadsClosed(meta[p])
  /\ kind = "mine" => meta[p].createdBy = u

-----------------------------------------------------------------------------
(* Pages of created_polls, where p has the score score[p] *)

\* Mutant: a page starts with the poll the last one ended with.
BelowInclusive(n, cursor) == cursor = NoCursor \/ n <= cursor

\* The range of ZREVRANGEBYSCORE excludes the cursor.
Below(n, cursor) == cursor = NoCursor \/ n < cursor

\* Mutant: the cursor is the score of the row after the page.
CursorOfNextRow(shown, left) == Highest(left)

\* Of the scores shown on a page and those left: the cursor is the score of the
\* page's last row.
CursorOf(shown, left) == Lowest(shown)

\* The ids of a page and the next cursor: the range asks for a row more than the
\* page holds.
RangePages(u, limit, cursor, score) ==
  LET ids == {p \in createdPolls[u] : Below(score[p], cursor)}
      scores(ps) == {score[p] : p \in ps} IN
  {[rows |-> top,
    next |-> IF Cardinality(ids) > limit THEN CursorOf(scores(top), scores(ids \ top))
             ELSE NoCursor]
     : top \in TopRows(ids, limit, score)}

\* Mutant: the limit is not applied.
CutNever(found, limit) == {found}

\* items[:limit] of the lists without a cursor; the ids came in no particular order.
Cut(found, limit) == AnyRows(found, limit)
=============================================================================
