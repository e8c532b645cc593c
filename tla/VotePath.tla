------------------------------- MODULE VotePath -------------------------------
(***************************************************************************)
(* One vote on its way from a client that repeats it until it knows,       *)
(* through the httpserver and the grpcserver to the store and back, while  *)
(* both servers are stopped and started.  Source: the middlewares of       *)
(* src/internal/http/middleware, the router, Vote and httpStatusFromGRPC   *)
(* in src/internal/http/handler, toStatus in src/internal/grpc/server,     *)
(* Service.Vote, and the two main functions under src/cmd.                 *)
(*                                                                         *)
(* The store is what RedisStore and RedisKeyspace show of it: the script   *)
(* is one step, the poll is read for the answer after it, either may fail, *)
(* and the mark of a key outlives the client's attempts (the client gives  *)
(* up after 8 attempts of 5 s; a mark lasts 300 s).                        *)
(*                                                                         *)
(* There is one process of each server.  A command that is on its way to   *)
(* Redis when its request is given up or cut may still be executed later.  *)
(***************************************************************************)
EXTENDS RateLimit

CONSTANTS
  Me,           \* the client's user
  Shapes,       \* what its request looks like, see ShapeAssumption
  MaxAttempts,  \* 8 in http_consistency_test.go
  MaxStops      \* how often a server is told to stop, for TLC

\* "header": X-User-Id is set; "query": only user_id in the query or a cookie is;
\* "anonymous": none is; "empty": no option; "blank": an option of blanks only;
\* "unknown": an option that is not one of the poll's, which only the script sees.
ASSUME ShapeAssumption ==
  /\ Shapes \subseteq {"header", "query", "anonymous", "empty", "blank", "unknown"}
  /\ Me \in Users
  /\ MaxAttempts \in Nat \ {0}
  /\ MaxStops \in Nat /\ MaxStops < MaxStarts

VARIABLES
  http,      \* the httpserver: "up" or, told to stop, "draining"
  grpc,      \* the grpcserver: the same, and "stopping" before it drains
  stops,     \* how often they were told to stop
  shape,     \* the client's request
  attempts,  \* how often the client has sent it
  stage,     \* where the current attempt is
  status,    \* the HTTP status on its way back
  told,      \* history: which of the Verdicts attempts have been answered with
  outcome,   \* what the client reports: true or false, or "none" so far
  late,      \* commands of lost attempts that may still be executed
  poll,      \* its hash: "open", "closed" (or expired), or "gone" when deleted
  voted,     \* the user has a ballot in the poll
  marked,    \* idem:{user}:{key} is set
  effects    \* how often a script has counted this vote

serverVars == <<http, grpc, stops>>
clientVars == <<shape, attempts, outcome>>
storeVars == <<poll, voted, marked, effects>>
attemptVars == <<stage, status, told>>
pathVars == <<limitVars, serverVars, clientVars, attemptVars, storeVars, late>>

Stages == {"none", "sent", "script", "read", "received"}
Statuses == {200, 400, 401, 403, 404, 409, 429, 500}
NoStatus == 0

\* The statuses that say for good whether the vote counts.
Verdicts == {200, 400, 401, 403}

\* Every variable holds a value of its type; no bucket is overdrawn.
PathTypeOK ==
  /\ LimitTypeOK
  /\ http \in {"up", "draining"}
  /\ grpc \in {"up", "stopping", "draining"}
  /\ stops \in 0 .. MaxStops
  /\ shape \in Shapes /\ attempts \in 0 .. MaxAttempts
  /\ stage \in Stages
  /\ status \in Statuses \cup {NoStatus} /\ (status # NoStatus <=> stage = "received")
  /\ told \subseteq Verdicts
  /\ outcome \in {"none", "true", "false"}
  /\ late \in 0 .. MaxAttempts
  /\ poll \in {"open", "closed", "gone"}
  /\ voted \in BOOLEAN /\ marked \in BOOLEAN /\ effects \in Nat

Init ==
  /\ LimitInit
  /\ http = "up" /\ grpc = "up" /\ stops = 0
  /\ shape \in Shapes /\ attempts = 0 /\ outcome = "none"
  /\ stage = "none" /\ status = NoStatus /\ told = {}
  /\ late = 0
  /\ poll = "open" /\ voted = FALSE /\ marked = FALSE /\ effects = 0

-----------------------------------------------------------------------------
(* The client: voteWithRetry *)

ReachesStore == shape \in {"header", "query", "unknown"}

Deciding == outcome = "none" /\ stage = "none"

\* The client has no connection while the httpserver is stopping.
Attempt ==
  /\ Deciding /\ attempts < MaxAttempts
  /\ attempts' = attempts + 1
  /\ stage' = IF http = "up" THEN "sent" ELSE "none"
  /\ UNCHANGED <<limitVars, serverVars, shape, outcome, status, told, storeVars, late>>

NoAttempt == stage' = "none" /\ status' = NoStatus /\ UNCHANGED told

\* 200 and 409 decide; anything else is tried again.
Reported ==
  CASE status = 200 -> "true" [] status = 409 -> "false" [] OTHER -> "none"

Receive ==
  /\ stage = "received"
  /\ outcome' = Reported
  /\ NoAttempt
  /\ UNCHANGED <<limitVars, serverVars, shape, attempts, storeVars, late>>

GiveUp ==
  /\ Deciding /\ attempts = MaxAttempts
  /\ outcome' = "false"
  /\ UNCHANGED <<limitVars, serverVars, shape, attempts, attemptVars, storeVars, late>>

\* How many commands may be late when the attempt ends; one that has not been
\* sent to Redis by then never is.
LateAfter(mayRun) == IF mayRun THEN {late, late + 1} ELSE {late}

\* Five seconds have passed, or the answer is lost.  The servers cancel the
\* request when they notice, which may be after its script has been executed.
TimeOut ==
  /\ stage # "none"
  /\ NoAttempt
  /\ late' \in LateAfter(stage = "script" \/ (stage = "sent" /\ ReachesStore))
  /\ UNCHANGED <<limitVars, serverVars, clientVars, storeVars>>

-----------------------------------------------------------------------------
(* The httpserver *)

\* The answer is on its way to the client.
Respond(s) == stage' = "received" /\ status' = s /\ told' = told \cup ({s} \cap Verdicts)

HttpStatusFromGRPC(code) ==
  CASE code = "OK" -> 200
    [] code = "InvalidArgument" -> 400
    [] code = "Unauthenticated" -> 401
    [] code = "PermissionDenied" -> 403
    [] code = "NotFound" -> 404
    [] code = "AlreadyExists" -> 409
    [] OTHER -> 500

\* The RPC ends with this code, and the handler responds.
RpcEnds(code) == Respond(HttpStatusFromGRPC(code))

\* toStatus of an error of the service or the store.
ToStatus(error) ==
  CASE error = "notfound" -> "NotFound"
    [] error = "forbidden" -> "PermissionDenied"
    [] error = "conflict" -> "AlreadyExists"
    [] error = "invalid" -> "InvalidArgument"
    [] OTHER -> "Internal"

\* The RPC fails, or Service.Vote refuses the blank option, or calls the store.
CallVote ==
  IF grpc \notin {"up", "stopping"} THEN RpcEnds("Unavailable")
  ELSE IF shape = "blank" THEN RpcEnds(ToStatus("invalid"))
  ELSE stage' = "script" /\ UNCHANGED <<status, told>>

Header == IF shape \in {"query", "anonymous"} THEN NoUser ELSE Me

\* The middlewares in the router's order, the checks of the handler, and its call.
Serve ==
  /\ stage = "sent"
  /\ TokenBucket(Header)
  /\ IF ~Passes(Header) THEN Respond(429)
     ELSE IF shape = "anonymous" THEN Respond(401)
     ELSE IF shape = "empty" THEN Respond(400)
     ELSE CallVote
  /\ UNCHANGED <<serverVars, clientVars, storeVars, late>>

-----------------------------------------------------------------------------
(* The grpcserver and the store *)

\* Mutant: the key is looked up after the ballot.
ScriptResultKeyLast ==
  IF poll = "gone" THEN "notfound"
  ELSE IF poll = "closed" THEN "forbidden"
  ELSE IF voted THEN "conflict"
  ELSE IF shape = "unknown" THEN "invalid"
  ELSE IF marked THEN "noop" ELSE "ok"

\* The checks of voteScript in their order.
ScriptResult ==
  IF marked THEN "noop"
  ELSE IF poll = "gone" THEN "notfound"
  ELSE IF poll = "closed" THEN "forbidden"
  ELSE IF voted THEN "conflict"
  ELSE IF shape = "unknown" THEN "invalid" ELSE "ok"

RunScript ==
  IF ScriptResult = "ok"
  THEN /\ voted' = TRUE /\ marked' = TRUE
       /\ effects' = effects + 1
       /\ UNCHANGED poll
  ELSE UNCHANGED storeVars

\* The script runs; its answer arrives, or go-redis sends it again.
Script ==
  /\ stage = "script"
  /\ RunScript
  /\ \/ /\ ScriptResult \in {"ok", "noop"}
        /\ stage' = "read" /\ UNCHANGED <<status, told>>
     \/ /\ ScriptResult \notin {"ok", "noop"}
        /\ RpcEnds(ToStatus(ScriptResult))
     \/ UNCHANGED attemptVars
  /\ UNCHANGED <<limitVars, serverVars, clientVars, late>>

\* getPoll for the answer.
Read ==
  /\ stage = "read"
  /\ RpcEnds(IF poll = "gone" THEN ToStatus("notfound") ELSE "OK")
  /\ UNCHANGED <<limitVars, serverVars, clientVars, storeVars, late>>

\* Redis does not answer in time, or answers with an error.
StoreFails ==
  /\ stage \in {"script", "read"}
  /\ RpcEnds(ToStatus("error"))
  /\ late' \in LateAfter(stage = "script")
  /\ UNCHANGED <<limitVars, serverVars, clientVars, storeVars>>

\* Redis executes a command of an attempt that has ended.
LateScript ==
  /\ late > 0
  /\ late' = late - 1
  /\ RunScript
  /\ UNCHANGED <<limitVars, serverVars, clientVars, attemptVars>>

-----------------------------------------------------------------------------
(* Stopping and starting *)

Stopped == stops < MaxStops /\ stops' = stops + 1

HttpStop ==
  /\ http = "up" /\ Stopped
  /\ http' = "draining"
  /\ UNCHANGED <<limitVars, grpc, clientVars, attemptVars, storeVars, late>>

\* Shutdown returns when the requests have ended or after five seconds, event
\* streams among them; then main returns and cuts those that are left.  The next
\* process starts; until then clients are refused, as while this one drains.
HttpExit ==
  /\ http = "draining"
  /\ http' = "up" /\ FreshLimiter
  /\ IF stage \in {"none", "received"} THEN UNCHANGED <<attemptVars, late>>
     ELSE NoAttempt /\ late' \in LateAfter(stage = "script")
  /\ UNCHANGED <<grpc, stops, clientVars, storeVars>>

\* The metrics server is shut down first; RPCs are still accepted.
GrpcStop ==
  /\ grpc = "up" /\ Stopped
  /\ grpc' = "stopping"
  /\ UNCHANGED <<limitVars, http, clientVars, attemptVars, storeVars, late>>

\* GracefulStop: no new RPCs.
GrpcDrain ==
  /\ grpc = "stopping"
  /\ grpc' = "draining"
  /\ UNCHANGED <<limitVars, http, stops, clientVars, attemptVars, storeVars, late>>

\* GracefulStop returns when the RPCs have ended; after five seconds Stop cuts
\* those that are left, which the caller sees as Unavailable, as it sees every RPC
\* until the next process has started.
GrpcExit ==
  /\ grpc = "draining"
  /\ grpc' = "up"
  /\ IF stage \in {"script", "read"}
     THEN /\ RpcEnds("Unavailable")
          /\ late' \in LateAfter(stage = "script")
     ELSE UNCHANGED <<attemptVars, late>>
  /\ UNCHANGED <<limitVars, http, stops, clientVars, storeVars>>

-----------------------------------------------------------------------------
(* Everyone else *)

\* Requests of others, and of the same user elsewhere, meet the same limiter.
OtherRequest(u) ==
  /\ TokenBucket(u)
  /\ UNCHANGED <<serverVars, clientVars, attemptVars, storeVars, late>>

\* The same user votes in another window, with another key or none.
VoteElsewhere ==
  /\ poll = "open" /\ ~voted
  /\ voted' = TRUE
  /\ UNCHANGED <<limitVars, serverVars, clientVars, attemptVars, poll, marked, effects, late>>

\* Or takes the ballot back there, this vote's or the other one.
UndoElsewhere ==
  /\ poll = "open" /\ voted
  /\ voted' = FALSE
  /\ UNCHANGED <<limitVars, serverVars, clientVars, attemptVars, poll, marked, effects, late>>

\* The owner closes the poll, or it expires.
PollCloses ==
  /\ poll = "open"
  /\ poll' = "closed"
  /\ UNCHANGED <<limitVars, serverVars, clientVars, attemptVars, voted, marked, effects, late>>

\* Its keys are deleted, also those of a hash that came back (a second DeletePoll).
PollDeleted ==
  /\ poll # "gone"
  /\ poll' = "gone" /\ voted' = FALSE
  /\ UNCHANGED <<limitVars, serverVars, clientVars, attemptVars, marked, effects, late>>

\* A ClosePoll that found the poll before it was deleted writes is_closed after
\* that: the hash is back, closed and without options and voters.
PollRevived ==
  /\ poll = "gone"
  /\ poll' = "closed"
  /\ UNCHANGED <<limitVars, serverVars, clientVars, attemptVars, voted, marked, effects, late>>

TimePasses == Tick /\ UNCHANGED <<serverVars, clientVars, attemptVars, storeVars, late>>

Next ==
  \/ Attempt \/ Receive \/ GiveUp \/ TimeOut
  \/ Serve \/ Script \/ Read \/ StoreFails \/ LateScript
  \/ HttpStop \/ HttpExit
  \/ GrpcStop \/ GrpcDrain \/ GrpcExit
  \/ \E u \in Users \cup {NoUser} : OtherRequest(u)
  \/ VoteElsewhere \/ UndoElsewhere \/ PollCloses \/ PollDeleted \/ PollRevived
  \/ TimePasses

Spec == Init /\ [][Next]_pathVars

-----------------------------------------------------------------------------
(* Properties *)

\* What the client is told is true and stays true, whatever its earlier attempts
\* did and however late their commands are executed.  Once an attempt has been
\* answered with 200, and when a success is reported, the vote has been counted
\* exactly once; once one has been answered with 400, 401 or 403, the vote has not
\* been counted and never will be, by no attempt.  409 is true when given; if the
\* ballot it met is then undone, a late command of an earlier attempt may still
\* count.  (429, 500 and silence say nothing, 404 that the poll has been deleted.)
AnswerTellsEffect ==
  [][/\ 200 \in told' \/ outcome' = "true" => effects' = 1
     /\ told' \cap {400, 401, 403} # {} => effects' = 0
     /\ status' = 409 /\ status # 409 => effects' = 0]_pathVars
=============================================================================
