---------------------------- MODULE RedisKeyspace ----------------------------
(***************************************************************************)
(* The Redis keys of the production store, and the commands it sends.      *)
(* Source: src/internal/store/redis/{store.go, scripts.go}.                *)
(*                                                                         *)
(* Redis executes one command, one MULTI/EXEC block or one Lua script at a *)
(* time, so each operator below that primes variables is one atomic step.  *)
(*                                                                         *)
(*   poll:{id}            hash  meta[p]                                    *)
(*   poll:{id}:options    hash  options[p]    (the fields' values)         *)
(*   poll:{id}:votes      hash  voteFields[p] (its fields), votes[p]       *)
(*   poll:{id}:voters     set   voters[p]                                  *)
(*   user:{u}:votes       hash  userVotes[u]                               *)
(*   idem:{u}:{k}         string with a TTL    idem[u][k] (its deadline)   *)
(*   polls:index, polls:public                 pollsIndex, publicIndex     *)
(*   user:{u}:created_polls  sorted set        createdPolls[u]             *)
(*                                                                         *)
(* A field that is missing from a hash reads as the Go zero value, so a    *)
(* missing field and a missing hash are the same NoUser / FALSE / 0 here,  *)
(* and only "present" tells an absent hash from one with missing fields.   *)
(***************************************************************************)
EXTENDS Integers, FiniteSets

CONSTANTS
  Users,            \* user ids: never empty strings, the service trims and checks
  Polls,            \* poll ids, drawn from uuid.NewString()
  Options,          \* option texts
  Keys,             \* idempotency keys, unique only within one user
  NoUser,           \* the empty created_by of a hash without that field
  NoOption,         \* no field for the poll in user:{u}:votes
  NoKey,            \* the empty idempotency key: the check is disabled
  TicksPerSecond,   \* clock ticks in a second: 2 shows every half second
  IdemSeconds,      \* TTL of an idempotency key (300 in the code)
  MaxTime           \* bound on the clock, for TLC

ASSUME UsersFinite == IsFiniteSet(Users)
ASSUME Sentinels == /\ NoUser \notin Users
                    /\ NoOption \notin Options
                    /\ NoKey \notin Keys
ASSUME ClockAssumption == /\ TicksPerSecond \in Nat \ {0}
                          /\ IdemSeconds \in Nat \ {0}
                          /\ MaxTime \in Nat

VARIABLES
  meta, options, voteFields, votes, voters, userVotes, idem,
  pollsIndex, publicIndex, createdPolls,
  now               \* the wall clock in ticks, shared by Redis and the servers

pollVars == <<meta, options, voteFields, votes, voters>>
indexVars == <<pollsIndex, publicIndex, createdPolls>>
keyVars == <<pollVars, userVotes, idem, indexVars>>

-----------------------------------------------------------------------------
(* Types and the empty database *)

Meta == [present: BOOLEAN, createdBy: Users \cup {NoUser}, isClosed: BOOLEAN,
         expiresAt: Nat, isPublic: BOOLEAN]

NoMeta == [present |-> FALSE, createdBy |-> NoUser, isClosed |-> FALSE,
           expiresAt |-> 0, isPublic |-> FALSE]

KeyspaceTypeOK ==
  /\ meta \in [Polls -> Meta]
  /\ options \in [Polls -> SUBSET Options]
  /\ voteFields \in [Polls -> SUBSET Options]
  /\ votes \in [Polls -> [Options -> Nat]]
  /\ voters \in [Polls -> SUBSET Users]
  /\ userVotes \in [Users -> [Polls -> Options \cup {NoOption}]]
  /\ idem \in [Users -> [Keys -> Nat]]
  /\ pollsIndex \subseteq Polls
  /\ publicIndex \subseteq Polls
  /\ createdPolls \in [Users -> SUBSET Polls]
  /\ now \in Nat \ {0}

NoVotes == [o \in Options |-> 0]

KeyspaceInit ==
  /\ meta = [p \in Polls |-> NoMeta]
  /\ options = [p \in Polls |-> {}]
  /\ voteFields = [p \in Polls |-> {}]
  /\ votes = [p \in Polls |-> NoVotes]
  /\ voters = [p \in Polls |-> {}]
  /\ userVotes = [u \in Users |-> [p \in Polls |-> NoOption]]
  /\ idem = [u \in Users |-> [k \in Keys |-> 0]]
  /\ pollsIndex = {}
  /\ publicIndex = {}
  /\ createdPolls = [u \in Users |-> {}]
  /\ now = 1

-----------------------------------------------------------------------------
(* What a script or a reader learns from the keys *)

Seconds(t) == t \div TicksPerSecond

IdemTicks == IdemSeconds * TicksPerSecond

\* Mutant: the key is looked up without its user (idem:{idempotency_key}).
IdemSeenAnyUser(u, k) == k # NoKey /\ \E v \in Users : now <= idem[v][k]

\* GET idem:{u}:{k} finds a value until its TTL has passed.
IdemSeen(u, k) == k # NoKey /\ now <= idem[u][k]

\* Mutant: one more second passes before a poll counts as expired.
PastExpiryLate(m) == m.expiresAt # 0 /\ Seconds(now) > m.expiresAt + 1

\* The scripts compare the whole seconds of TIME with the stored seconds, and
\* only when the field exists.
PastExpiry(m) == m.expiresAt # 0 /\ Seconds(now) > m.expiresAt

\* getPoll compares the server's clock, to the nanosecond, with those seconds.
ReadsClosed(m) == m.isClosed \/ now > m.expiresAt * TicksPerSecond

\* A live poll: created and not deleted since.  A hash that HSET brought back
\* after a DEL has no created_by.
Live(p) == meta[p].createdBy # NoUser

-----------------------------------------------------------------------------
(* The two Lua scripts: their result, and what they write when it is "ok" *)

\* Mutant: is_closed is not looked at.
GateNoClosed(p, u, k) ==
  IF IdemSeen(u, k) THEN "noop"
  ELSE IF ~meta[p].present THEN "notfound"
  ELSE IF PastExpiry(meta[p]) THEN "forbidden"
  ELSE "open"

\* Mutant: the key is checked after the state of the poll.
GateKeyLast(p, u, k) ==
  IF ~meta[p].present THEN "notfound"
  ELSE IF meta[p].isClosed \/ PastExpiry(meta[p]) THEN "forbidden"
  ELSE IF IdemSeen(u, k) THEN "noop"
  ELSE "open"

\* The checks both scripts start with, in their order.
Gate(p, u, k) ==
  IF IdemSeen(u, k) THEN "noop"
  ELSE IF ~meta[p].present THEN "notfound"
  ELSE IF meta[p].isClosed \/ PastExpiry(meta[p]) THEN "forbidden"
  ELSE "open"

\* Mutant: SISMEMBER is dropped.
VoteResultTwice(p, u, o, k) ==
  IF Gate(p, u, k) # "open" THEN Gate(p, u, k)
  ELSE IF o \notin voteFields[p] THEN "invalid"
  ELSE "ok"

VoteResult(p, u, o, k) ==
  IF Gate(p, u, k) # "open" THEN Gate(p, u, k)
  ELSE IF u \in voters[p] THEN "conflict"
  ELSE IF o \notin voteFields[p] THEN "invalid"
  ELSE "ok"

\* Mutant: neither SISMEMBER nor the recorded option is checked.
UndoResultUnchecked(p, u, k) ==
  IF Gate(p, u, k) # "open" THEN Gate(p, u, k) ELSE "ok"

UndoResult(p, u, k) ==
  IF Gate(p, u, k) # "open" THEN Gate(p, u, k)
  ELSE IF u \notin voters[p] \/ userVotes[u][p] = NoOption THEN "conflict"
  ELSE "ok"

\* Mutant: the TTL is taken in the wrong unit.
MarkKeyShort(u, k) ==
  idem' = IF k = NoKey THEN idem ELSE [idem EXCEPT ![u][k] = now + IdemSeconds]

\* SETEX / SET with a TTL, skipped when the request carries no key.
MarkKey(u, k) ==
  idem' = IF k = NoKey THEN idem ELSE [idem EXCEPT ![u][k] = now + IdemTicks]

ApplyVote(p, u, o, k) ==
  /\ voters' = [voters EXCEPT ![p] = @ \cup {u}]
  /\ voteFields' = [voteFields EXCEPT ![p] = @ \cup {o}]
  /\ votes' = [votes EXCEPT ![p][o] = @ + 1]
  /\ userVotes' = [userVotes EXCEPT ![u][p] = o]
  /\ MarkKey(u, k)
  /\ UNCHANGED <<meta, options, indexVars>>

\* Mutant: the undo forgets HINCRBY.
DecrementedNever(n) == n

\* HINCRBY -1, and back to 0 should it have gone below.
Decremented(n) == IF n - 1 < 0 THEN 0 ELSE n - 1

ApplyUndo(p, u, k) ==
  LET o == userVotes[u][p] IN
  /\ voters' = [voters EXCEPT ![p] = @ \ {u}]
  /\ voteFields' = [voteFields EXCEPT ![p] = @ \cup {o}]
  /\ votes' = [votes EXCEPT ![p][o] = Decremented(@)]
  /\ userVotes' = [userVotes EXCEPT ![u][p] = NoOption]
  /\ MarkKey(u, k)
  /\ UNCHANGED <<meta, options, indexVars>>

VoteScript(p, u, o, k) ==
  \/ VoteResult(p, u, o, k) = "ok" /\ ApplyVote(p, u, o, k)
  \/ VoteResult(p, u, o, k) # "ok" /\ UNCHANGED keyVars

UndoScript(p, u, k) ==
  \/ UndoResult(p, u, k) = "ok" /\ ApplyUndo(p, u, k)
  \/ UndoResult(p, u, k) # "ok" /\ UNCHANGED keyVars

-----------------------------------------------------------------------------
(* The other commands *)

\* The MULTI/EXEC block of CreatePoll; e is the requested expiry in ticks,
\* stored in whole seconds.
CreateTx(p, u, opts, e, public) ==
  /\ meta' = [meta EXCEPT ![p] =
       [present |-> TRUE, createdBy |-> u, isClosed |-> FALSE,
        expiresAt |-> Seconds(e), isPublic |-> public]]
  /\ options' = [options EXCEPT ![p] = @ \cup opts]
  /\ voteFields' = [voteFields EXCEPT ![p] = @ \cup opts]
  /\ votes' = [votes EXCEPT ![p] = [o \in Options |-> IF o \in opts THEN 0 ELSE @[o]]]
  /\ voters' = [voters EXCEPT ![p] = {}]
  /\ pollsIndex' = pollsIndex \cup {p}
  /\ publicIndex' = IF public THEN publicIndex \cup {p} ELSE publicIndex
  /\ createdPolls' = [createdPolls EXCEPT ![u] = @ \cup {p}]
  /\ UNCHANGED <<userVotes, idem>>

\* HSET poll:{id} is_closed true: it creates the hash when it is absent.
SetClosed(p) ==
  /\ meta' = [meta EXCEPT ![p] = [@ EXCEPT !.present = TRUE, !.isClosed = TRUE]]
  /\ UNCHANGED <<options, voteFields, votes, voters, userVotes, idem, indexVars>>

\* Mutant: DEL leaves poll:{id}:voters behind.
DelPollKeepsVoters(p) ==
  /\ meta' = [meta EXCEPT ![p] = NoMeta]
  /\ options' = [options EXCEPT ![p] = {}]
  /\ voteFields' = [voteFields EXCEPT ![p] = {}]
  /\ votes' = [votes EXCEPT ![p] = NoVotes]
  /\ UNCHANGED <<voters, userVotes, idem, indexVars>>

\* Mutant: DEL leaves poll:{id}:votes behind.
DelPollKeepsVotes(p) ==
  /\ meta' = [meta EXCEPT ![p] = NoMeta]
  /\ options' = [options EXCEPT ![p] = {}]
  /\ voters' = [voters EXCEPT ![p] = {}]
  /\ UNCHANGED <<voteFields, votes, userVotes, idem, indexVars>>

\* DEL of the poll's four keys in one command.
DelPoll(p) ==
  /\ meta' = [meta EXCEPT ![p] = NoMeta]
  /\ options' = [options EXCEPT ![p] = {}]
  /\ voteFields' = [voteFields EXCEPT ![p] = {}]
  /\ votes' = [votes EXCEPT ![p] = NoVotes]
  /\ voters' = [voters EXCEPT ![p] = {}]
  /\ UNCHANGED <<userVotes, idem, indexVars>>

SRemIndex(p) ==
  /\ pollsIndex' = pollsIndex \ {p}
  /\ UNCHANGED <<pollVars, userVotes, idem, publicIndex, createdPolls>>

SRemPublic(p) ==
  /\ publicIndex' = publicIndex \ {p}
  /\ UNCHANGED <<pollVars, userVotes, idem, pollsIndex, createdPolls>>

ZRemCreated(p, u) ==
  /\ createdPolls' = [createdPolls EXCEPT ![u] = @ \ {p}]
  /\ UNCHANGED <<pollVars, userVotes, idem, pollsIndex, publicIndex>>

SetIdem(u, k) ==
  /\ MarkKey(u, k)
  /\ UNCHANGED <<pollVars, userVotes, indexVars>>
=============================================================================
