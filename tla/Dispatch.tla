------------------------------- MODULE Dispatch -------------------------------
(***************************************************************************)
(* dispatch_with_retry of the client (opc-da-client/src/com_worker.rs): how *)
(* the worker gets a request done over the pooled connection of its ProgID. *)
(* A handler is a sequence of COM calls, each a step of a module that       *)
(* EXTENDS this one; when it returns a connection error, the connection is  *)
(* evicted and the handler starts again, up to MaxAttempts times.           *)
(*                                                                          *)
(* A module passes what the server keeps for a connection as two actions:   *)
(* `fresh' makes it that of a new connection, `same' leaves it alone.       *)
(***************************************************************************)
EXTENDS Integers, Sequences

CONSTANT MaxAttempts   \* MAX_RECONNECT_ATTEMPTS, 3 in the code

ASSUME DispatchAssumption == MaxAttempts \in Nat

VARIABLES
  at,       \* the COM call the worker makes next; "idle" between requests
  attempt,  \* of the loop
  pooled,   \* the connection: none, live, dead (its server process is gone)
  outcome   \* what the handler returns, or the request was answered

dispatchVars == <<at, attempt, pooled, outcome>>

Ok(result) == [status |-> "ok", result |-> result]
Err(kind)  == [status |-> kind, result |-> <<>>]

DispatchTypeOK ==
  /\ attempt \in 0..MaxAttempts
  /\ pooled \in {"none", "live", "dead"}
  /\ outcome.status \in {"ok", "conn", "other"}

DispatchInit == at = "idle" /\ attempt = 0 /\ pooled = "none" /\ outcome = Err("other")

\* A COM call on a dead connection can only fail, with a connection error; on
\* a live one it may fail with such an error (is_connection_error) or others.
Works  == pooled = "live"
Errors == IF Works THEN {"conn", "other"} ELSE {"conn"}

\* The request is answered.
Answer(o) == at' = "idle" /\ outcome' = o

\* A request is taken.
Take == at = "idle" /\ at' = "pool" /\ attempt' = 0 /\ UNCHANGED <<pooled, outcome>>

\* Mutant of Retry: attempts are not counted.
RetryForever == at' = "pool" /\ UNCHANGED <<attempt, outcome>>

\* Another turn of the loop, if there is one left.
Retry ==
  IF attempt < MaxAttempts
  THEN at' = "pool" /\ attempt' = attempt + 1 /\ UNCHANGED outcome
  ELSE Answer(Err("conn")) /\ UNCHANGED attempt

\* The handler returns.
Return(o, fresh, same) ==
  IF o.status = "conn"
  THEN Retry /\ pooled' = "none" /\ fresh
  ELSE Answer(o) /\ UNCHANGED <<attempt, pooled>> /\ same

\* The connection of the pool, made if there is none, and the first call of
\* the handler; `?' of a connect that fails ends the request.
Pool(first, fresh, same) ==
  /\ at = "pool" /\ UNCHANGED attempt
  /\ \/ pooled = "none" /\ Answer(Err("other")) /\ UNCHANGED pooled /\ same
     \/ at' = first /\ UNCHANGED outcome
        /\ IF pooled = "none" THEN pooled' = "live" /\ fresh ELSE UNCHANGED pooled /\ same

\* The requests Disconnect, and Reconnect, whose connect may fail.
Disconnect(fresh) ==
  at = "idle" /\ pooled' = "none" /\ fresh /\ UNCHANGED <<at, attempt, outcome>>
Reconnect(fresh) ==
  at = "idle" /\ pooled' \in {"live", "none"} /\ fresh /\ UNCHANGED <<at, attempt, outcome>>

\* The server process dies under the connection.
Crash(fresh) ==
  pooled = "live" /\ pooled' = "dead" /\ fresh /\ UNCHANGED <<at, attempt, outcome>>

\* However many calls fail, a request is answered in the end.
EveryRequestIsAnswered == at # "idle" ~> at = "idle"

=============================================================================
