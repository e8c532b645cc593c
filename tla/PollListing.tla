----------------------------- MODULE PollListing -----------------------------
(***************************************************************************)
(* The list queries of the Redis store, run by one client while others     *)
(* create, close and delete polls: PollLists, command by command.          *)
(*                                                                         *)
(* A query reads the ids of an index with one command and then calls       *)
(* getPoll for each of them; anything may run in between.  Of getPoll only *)
(* its first command is kept: it decides whether the poll is found, who    *)
(* created it and whether it is closed (RedisStore has all three).         *)
(*                                                                         *)
(* "mine" (ListMyCreatedPollStats) is read page by page: a page ends at a  *)
(* score, and the client asks for the next one below that score.  The      *)
(* others (SearchPolls and GetPollStats; ListPublicPolls and               *)
(* ListPublicPollStats; GetMyVotes) answer once and are cut at the limit.  *)
(***************************************************************************)
EXTENDS PollLists

CONSTANTS
  Me,            \* the client's user id
  Kinds,         \* the queries it makes
  Limits,        \* polls a page may be asked to hold (1 to 100 in the code)
  Fractions,     \* values of crc32(id) % 1e6 in a score (a million in the code)
  OptionLists,   \* the option sets polls are created with
  ExpiryTicks,   \* the expiry instants they are created with
  Visibility,    \* whether they are created public, private or either
  ScoresDiffer   \* no two polls of a user have the same second and fraction

ASSUME ListingAssumption ==
  /\ Me \in Users
  /\ Kinds \subseteq {"mine", "all", "public", "votes"}
  /\ Limits \subseteq Nat \ {0} /\ Fractions \in Nat \ {0}
  /\ OptionLists \subseteq SUBSET Options /\ ExpiryTicks \subseteq Nat
  /\ ScoresDiffer \in BOOLEAN /\ Visibility \subseteq BOOLEAN

VARIABLES
  score,     \* score of each poll in its creator's created_polls
  usedIds,   \* poll ids drawn so far: uuids do not repeat
  step,      \* what the query does next
  query,     \* its kind, whether closed polls are wanted, polls on a page
  cursor,    \* polls from this score on were on earlier pages
  rows,      \* ids still to be looked up
  items,     \* polls found for this page
  next,      \* the cursor to be returned with the page
  earlier,   \* polls on earlier pages
  matching,  \* polls that have matched the query ever since it was first made
  everLive   \* polls that have been live at some moment since

queryVars == <<step, query, cursor, rows, items, next>>
ghosts == <<earlier, matching, everLive>>
vars == <<keyVars, now, score, usedIds, queryVars, ghosts>>

NoQuery == [kind |-> "none", closedToo |-> FALSE, limit |-> 1]

\* Every variable holds a value of its type, and no page is longer than asked.
TypeOK ==
  /\ KeyspaceTypeOK
  /\ score \in [Polls -> Nat] /\ usedIds \subseteq Polls
  /\ step \in {"idle", "index", "rows", "page"}
  /\ query \in [kind: Kinds, closedToo: BOOLEAN, limit: Limits] \cup {NoQuery}
  /\ cursor \in Nat \cup {NoCursor} /\ next \in Nat \cup {NoCursor}
  /\ rows \subseteq Polls /\ items \subseteq Polls
  /\ step = "page" => Cardinality(items) <= query.limit
  /\ earlier \subseteq Polls /\ matching \subseteq Polls /\ everLive \subseteq Polls

Init ==
  /\ KeyspaceInit
  /\ score = [p \in Polls |-> 0] /\ usedIds = {}
  /\ step = "idle" /\ query = NoQuery
  /\ cursor = NoCursor /\ next = NoCursor
  /\ rows = {} /\ items = {}
  /\ earlier = {} /\ matching = {} /\ everLive = {}

-----------------------------------------------------------------------------
(* What a query looks for *)

Kept(q, p) == Shows(q.kind, Me, q.closedToo, p)

Matches(q) ==
  IF q = NoQuery THEN {} ELSE {p \in Source(q.kind, Me) : Live(p) /\ Kept(q, p)}

LivePolls == {p \in Polls : Live(p)}

\* After every step of the writers or of the clock.
Witness ==
  /\ UNCHANGED <<queryVars, earlier>>
  /\ matching' = matching \cap Matches(query)'
  /\ everLive' = IF query = NoQuery THEN {} ELSE everLive \cup LivePolls'

-----------------------------------------------------------------------------
(* The query *)

Ask(kind, closedToo, limit) ==
  /\ step = "idle"
  /\ step' = "index"
  /\ query' = [kind |-> kind, closedToo |-> closedToo, limit |-> limit]
  /\ matching' = Matches(query')
  /\ everLive' = LivePolls
  /\ UNCHANGED <<keyVars, now, score, usedIds, cursor, rows, items, next, earlier>>

\* ListMyCreatedPollStats reads the ids of a page.
ReadRange ==
  /\ step = "index" /\ query.kind = "mine"
  /\ \E page \in RangePages(Me, query.limit, cursor, score) :
       rows' = page.rows /\ next' = page.next
  /\ step' = "rows"
  /\ UNCHANGED <<keyVars, now, score, usedIds, query, cursor, items, ghosts>>

\* SMEMBERS, or HGETALL of the user's votes.
ReadIndex ==
  /\ step = "index" /\ query.kind # "mine"
  /\ rows' = Source(query.kind, Me)
  /\ step' = "rows"
  /\ UNCHANGED <<keyVars, now, score, usedIds, query, cursor, items, next, ghosts>>

\* The rows of a range are looked up from the highest score down.
IsNextRow(p) == p \in rows /\ (query.kind = "mine" => \A q \in rows : score[p] >= score[q])

\* Mutant: an id without a poll ends the query.
AfterRowStops(p) == IF meta[p].present THEN rows \ {p} ELSE {}

\* An id without a poll is skipped.
AfterRow(p) == rows \ {p}

ReadRow(p) ==
  /\ step = "rows"
  /\ IsNextRow(p)
  /\ items' = IF Kept(query, p) THEN items \cup {p} ELSE items
  /\ rows' = AfterRow(p)
  /\ UNCHANGED <<keyVars, now, score, usedIds, step, query, cursor, next, ghosts>>

ReturnPage ==
  /\ step = "rows" /\ rows = {}
  /\ items' \in (IF query.kind = "mine" THEN {items} ELSE Cut(items, query.limit))
  /\ step' = "page"
  /\ UNCHANGED <<keyVars, now, score, usedIds, query, cursor, rows, next, ghosts>>

\* The client asks for the next page with the cursor it was given.
AskNextPage ==
  /\ step = "page" /\ next # NoCursor
  /\ step' = "index"
  /\ cursor' = next
  /\ earlier' = earlier \cup items
  /\ items' = {} /\ next' = NoCursor
  /\ UNCHANGED <<keyVars, now, score, usedIds, query, rows, matching, everLive>>

\* The client has what it wants, or a command has failed and it got an error.
Stop ==
  /\ step # "idle"
  /\ step' = "idle" /\ query' = NoQuery
  /\ cursor' = NoCursor /\ next' = NoCursor
  /\ rows' = {} /\ items' = {}
  /\ earlier' = {} /\ matching' = {} /\ everLive' = {}
  /\ UNCHANGED <<keyVars, now, score, usedIds>>

-----------------------------------------------------------------------------
(* Other requests: the commands of RedisStore that lists can see *)

\* created_polls gets the poll's second and the fraction its id gives it.
Create(p, u, opts, e, public) ==
  /\ p \notin usedIds
  /\ e > now
  /\ CreateTx(p, u, opts, e, public)
  /\ usedIds' = usedIds \cup {p}
  /\ \E f \in 0 .. Fractions - 1 :
       LET s == Seconds(now) * Fractions + f IN
       /\ ScoresDiffer => \A q \in createdPolls[u] : score[q] # s
       /\ score' = [score EXCEPT ![p] = s]
  /\ UNCHANGED now
  /\ Witness

CastMine(p, o) == /\ VoteScript(p, Me, o, NoKey)
                  /\ UNCHANGED <<now, score, usedIds>>
                  /\ Witness

\* Its HDEL takes the poll out of the user's votes.
UndoMine(p) == /\ UndoScript(p, Me, NoKey)
               /\ UNCHANGED <<now, score, usedIds>>
               /\ Witness

\* A ClosePoll that read the poll before it was deleted writes after that too.
Close(p) == /\ p \in usedIds
            /\ SetClosed(p)
            /\ UNCHANGED <<now, score, usedIds>>
            /\ Witness

\* The commands of DeletePoll in their order; the request may end after any.
Delete(p) == /\ Live(p) /\ DelPoll(p)
             /\ UNCHANGED <<now, score, usedIds>>
             /\ Witness

DropFromLists(p, u) ==
  /\ p \in usedIds /\ ~Live(p)
  /\ \/ p \in pollsIndex /\ SRemIndex(p)
     \/ p \notin pollsIndex /\ p \in publicIndex /\ SRemPublic(p)
     \/ p \notin pollsIndex \cup publicIndex /\ p \in createdPolls[u] /\ ZRemCreated(p, u)
  /\ UNCHANGED <<now, score, usedIds>>
  /\ Witness

Tick == /\ now < MaxTime
        /\ now' = now + 1
        /\ UNCHANGED <<keyVars, score, usedIds>>
        /\ Witness

Next ==
  \/ \E kind \in Kinds, closedToo \in BOOLEAN, limit \in Limits : Ask(kind, closedToo, limit)
  \/ ReadRange
  \/ ReadIndex
  \/ \E p \in Polls : ReadRow(p)
  \/ ReturnPage
  \/ AskNextPage
  \/ Stop
  \/ \E p \in Polls : \/ \E u \in Users, opts \in OptionLists, e \in ExpiryTicks,
                             public \in Visibility : Create(p, u, opts, e, public)
                      \/ \E o \in Options : CastMine(p, o)
                      \/ UndoMine(p)
                      \/ Close(p)
                      \/ Delete(p)
                      \/ \E u \in Users : DropFromLists(p, u)
  \/ Tick

Spec == Init /\ [][Next]_vars

-----------------------------------------------------------------------------
(* Properties *)

\* A client that follows the cursors to the last page has been given every poll
\* that matched all along, although polls are created, closed and deleted
\* between the pages and whole pages may come back short (scores differ).
WalkComplete ==
  step = "page" /\ query.kind = "mine" /\ next = NoCursor => matching \subseteq earlier \cup items

\* No poll comes on two pages of a walk.
NoPollTwice == query.kind = "mine" => items \cap earlier = {}

\* A list that answers once and holds fewer polls than its limit shows every poll
\* that matched all along, whatever stale ids its index holds and although votes
\* are cast and undone meanwhile.  (What a full list has cut off cannot be asked for.)
ListComplete ==
  step = "page" /\ query.kind \notin {"none", "mine"} /\ Cardinality(items) < query.limit
    => matching \subseteq items

\* The user's own list never shows a hash that a late ClosePoll has brought
\* back: what it shows was a live poll during the query.  (The other lists may.)
MineWereLive == query.kind = "mine" => items \subseteq everLive

(* The state behind these, in parts *)

\* Whatever a list may be given is a poll that was created.
OnlyDrawn ==
  /\ IsFiniteSet(usedIds)
  /\ pollsIndex \cup publicIndex \subseteq usedIds
  /\ \A u \in Users : createdPolls[u] \subseteq usedIds
  /\ \A p \in Polls \ usedIds : /\ ~meta[p].present
                                /\ \A u \in Users : userVotes[u][p] = NoOption

ScoresApart ==
  ScoresDiffer =>
    \A u \in Users : \A p, q \in createdPolls[u] : p # q => score[p] # score[q]

\* What the query remembers at each step, and the witnesses of what it missed.
QueryState ==
  /\ step = "idle" <=> query = NoQuery
  /\ step = "idle" => rows = {} /\ items = {} /\ earlier = {} /\ matching = {}
  /\ step \in {"idle", "index"} => rows = {} /\ items = {} /\ next = NoCursor
  /\ step = "page" => rows = {}
  /\ step = "idle" \/ query.kind # "mine" => cursor = NoCursor /\ next = NoCursor /\ earlier = {}
  /\ rows \cup items \cup earlier \subseteq usedIds
  /\ matching \subseteq Matches(query)
  /\ query # NoQuery => LivePolls \subseteq everLive

\* Pages above the cursor are done, this one lies between the cursor and the next.
PagesInOrder ==
  query.kind = "mine" =>
    /\ \A p \in earlier : cursor # NoCursor /\ score[p] >= cursor
    /\ \A p \in rows \cup items : /\ Below(score[p], cursor)
                                  /\ next # NoCursor => score[p] >= next
    /\ next # NoCursor => Below(next, cursor)
    /\ Cardinality(rows \cup items) <= query.limit

\* What matched all along and has not been found yet is still to come.
NothingSkipped ==
  /\ query.kind = "mine" /\ ScoresDiffer =>
       \A p \in matching \ (earlier \cup items \cup rows) :
         IF step = "index" THEN Below(score[p], cursor)
                           ELSE next # NoCursor /\ score[p] < next
  /\ query.kind # "mine" /\ step = "rows" => matching \subseteq items \cup rows
  /\ query.kind # "mine" /\ step = "page" /\ Cardinality(items) < query.limit
       => matching \subseteq items

\* Together with the types this is kept by every step, of the query and of the
\* writers between its commands (store.go, ListMyCreatedPollStats and the lists).
ListingInv ==
  /\ TypeOK
  /\ OnlyDrawn
  /\ ScoresApart
  /\ QueryState
  /\ PagesInOrder
  /\ NothingSkipped
  /\ MineWereLive
=============================================================================
