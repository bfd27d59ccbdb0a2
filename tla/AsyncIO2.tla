------------------------------ MODULE AsyncIO2 ------------------------------
(***************************************************************************)
(* The asynchronous transactions of one OPC group of the server            *)
(* (opc-da-server/src/objects/group.rs): IOPCAsyncIO2::Read stores a       *)
(* snapshot of the requested items in the transaction table `txns' under   *)
(* the transaction id the CLIENT chose, and starts a worker thread; the    *)
(* worker and Cancel2 compete for the table entry; whoever removes it      *)
(* calls the sinks back (OnReadComplete, OnCancelComplete).                *)
(*                                                                         *)
(* COM runs the server in the multithreaded apartment, so Reads, Cancel2s  *)
(* and Refresh2s of one group overlap; a call is split at the locks it     *)
(* takes and at the callbacks it makes.                                    *)
(***************************************************************************)
EXTENDS Naturals, FiniteSets, Sequences

CONSTANTS Tids,        \* transaction ids clients choose (dwTransactionID)
          Items,       \* server handles of items
          Sinks,       \* callback sinks clients advise
          MaxCalls,    \* bound: Read and Refresh2 calls that get a cancel id
          TidPolicy    \* which transaction ids a client may choose, see MayUse

TidPolicies == {"any", "settled"}

ASSUME AsyncAssumption ==
  /\ Tids \subseteq Nat
  /\ MaxCalls \in Nat
  /\ TidPolicy \in TidPolicies

CancelIds == 1..MaxCalls
Kinds     == {"OnReadComplete", "OnCancelComplete", "OnDataChange"}
Outcomes  == {"unused", "called", "pending", "superseded",
              "completed", "cancelled", "refreshed"}

VARIABLES
  items,           \* handles in GroupInner::items
  advised,         \* sinks whose GIT cookie can be resolved
  alive,           \* the GroupObj has not been dropped
  next_cancel_id,  \* AtomicU32, starts at 1 (u32 wrap is beyond MaxCalls)
  txns,            \* tid |-> entry of the transaction table
  calls,           \* Read calls that hold a cancel id, entry not yet stored
  workers,         \* async_read_worker threads that have not looked yet
  jobs,            \* callbacks in progress, on a worker's or a caller's thread
  issued,          \* history: what each Read asked for
  outcome,         \* history: what became of each cancel id
  notes            \* history: callbacks each sink got for each cancel id

vars == <<items, advised, alive, next_cancel_id, txns, calls, workers, jobs,
          issued, outcome, notes>>

NoTxn   == [cid |-> 0, frames |-> {}]
Entry   == [cid : 0..MaxCalls, frames : SUBSET Items]
Request == [cid : CancelIds, tid : Tids, frames : SUBSET Items]
Thread  == [cid : CancelIds, tid : Tids]
Job     == [kind : Kinds, cid : CancelIds, tid : Tids, frames : SUBSET Items,
            stage : {"owned", "push"}, left : SUBSET Sinks]

TypeOK ==
  /\ items \subseteq Items
  /\ advised \subseteq Sinks
  /\ alive \in BOOLEAN
  /\ next_cancel_id \in 1..(MaxCalls + 1)
  /\ txns \in [Tids -> Entry]
  /\ calls \subseteq Request
  /\ workers \subseteq Thread
  /\ jobs \subseteq Job
  /\ issued \subseteq Request
  /\ outcome \in [CancelIds -> Outcomes]
  /\ notes \in [CancelIds -> [Sinks -> Seq(Kinds)]]

Init ==
  /\ items = {} /\ advised = {} /\ alive = TRUE
  /\ next_cancel_id = 1
  /\ txns = [t \in Tids |-> NoTxn]
  /\ calls = {} /\ workers = {} /\ jobs = {} /\ issued = {}
  /\ outcome = [c \in CancelIds |-> "unused"]
  /\ notes = [c \in CancelIds |-> [s \in Sinks |-> <<>>]]

-----------------------------------------------------------------------------
(* The item table and the connection point, as far as transactions see them. *)
(* The connection point outlives the group for a client that holds it.       *)

AddItem(h) ==
  /\ alive /\ h \notin items
  /\ items' = items \cup {h}
  /\ UNCHANGED <<advised, alive, next_cancel_id, txns, calls, workers, jobs,
                 issued, outcome, notes>>

RemoveItem(h) ==
  /\ alive /\ h \in items
  /\ items' = items \ {h}
  /\ UNCHANGED <<advised, alive, next_cancel_id, txns, calls, workers, jobs,
                 issued, outcome, notes>>

Advise(s) ==
  /\ s \notin advised
  /\ advised' = advised \cup {s}
  /\ UNCHANGED <<items, alive, next_cancel_id, txns, calls, workers, jobs,
                 issued, outcome, notes>>

Unadvise(s) ==
  /\ s \in advised
  /\ advised' = advised \ {s}
  /\ UNCHANGED <<items, alive, next_cancel_id, txns, calls, workers, jobs,
                 issued, outcome, notes>>

\* The last reference is gone: no call is running (COM holds one for each).
\* Drop revokes every GIT cookie; worker threads keep their Arcs and go on.
DropGroup ==
  /\ alive
  /\ calls = {} /\ \A j \in jobs : j.kind = "OnReadComplete"
  /\ alive' = FALSE
  /\ advised' = {}
  /\ UNCHANGED <<items, next_cancel_id, txns, calls, workers, jobs, issued,
                 outcome, notes>>

-----------------------------------------------------------------------------
(* IOPCAsyncIO2::Read. *)

\* What the client has been told about transaction id t is final: each Read
\* with t has returned, and its completion or its Cancel2 has run to the end.
Settled(t) ==
  \A r \in issued : r.tid = t =>
    /\ outcome[r.cid] \in {"completed", "cancelled"}
    /\ \A j \in jobs : j.cid # r.cid

MayUse(t) ==
  CASE TidPolicy = "any"     -> TRUE
    [] TidPolicy = "settled" -> Settled(t)

\* The handles asked for are looked up under the group lock; if none is known
\* the call returns cancel id 0 and no transaction exists. Otherwise it takes
\* the next cancel id.
ReadBegin(t, hs) ==
  LET frames == hs \cap items
      r      == [cid |-> next_cancel_id, tid |-> t, frames |-> frames]
  IN /\ alive /\ MayUse(t)
     /\ next_cancel_id <= MaxCalls
     /\ frames # {}
     /\ next_cancel_id' = next_cancel_id + 1
     /\ calls' = calls \cup {r}
     /\ issued' = issued \cup {r}
     /\ outcome' = [outcome EXCEPT ![r.cid] = "called"]
     /\ UNCHANGED <<items, advised, alive, txns, workers, jobs, notes>>

\* Mutant of ReadInsert: the worker is not spawned.
ReadInsertOnly(r) ==
  LET old == txns[r.tid].cid
  IN /\ r \in calls
     /\ calls' = calls \ {r}
     /\ txns' = [txns EXCEPT ![r.tid] = [cid |-> r.cid, frames |-> r.frames]]
     /\ outcome' = [c \in CancelIds |->
                      CASE c = r.cid -> "pending"
                        [] c = old /\ c # r.cid -> "superseded"
                        [] OTHER -> outcome[c]]
     /\ UNCHANGED <<items, advised, alive, next_cancel_id, workers, jobs, issued, notes>>

\* txns.insert(tid, (cancel_id, frames)) replaces an entry that is there;
\* then the worker thread is spawned and the call returns.
ReadInsert(r) ==
  LET old == txns[r.tid].cid
  IN /\ r \in calls
     /\ calls' = calls \ {r}
     /\ txns' = [txns EXCEPT ![r.tid] = [cid |-> r.cid, frames |-> r.frames]]
     /\ workers' = workers \cup {[cid |-> r.cid, tid |-> r.tid]}
     /\ outcome' = [c \in CancelIds |->
                      CASE c = r.cid -> "pending"
                        [] c = old /\ c # r.cid -> "superseded"
                        [] OTHER -> outcome[c]]
     /\ UNCHANGED <<items, advised, alive, next_cancel_id, jobs, issued, notes>>

-----------------------------------------------------------------------------
\* Mutant of WorkerTake: the old check, which looks at the entry and leaves it.
WorkerLooks(w) ==
  LET e == txns[w.tid]
  IN /\ w \in workers
     /\ workers' = workers \ {w}
     /\ IF e.cid = w.cid
        THEN /\ jobs' = jobs \cup {[kind |-> "OnReadComplete", cid |-> w.cid,
                                    tid |-> w.tid, frames |-> e.frames,
                                    stage |-> "owned", left |-> {}]}
             /\ outcome' = [outcome EXCEPT ![w.cid] = "completed"]
        ELSE UNCHANGED <<jobs, outcome>>
     /\ UNCHANGED <<items, advised, alive, next_cancel_id, txns, calls, issued, notes>>

(* async_read_worker: one lock, `remove(tid)' and only then the comparison   *)
(* of cancel ids; an entry of another transaction is gone all the same.      *)

WorkerTake(w) ==
  LET e == txns[w.tid]
  IN /\ w \in workers
     /\ workers' = workers \ {w}
     /\ txns' = [txns EXCEPT ![w.tid] = NoTxn]
     /\ IF e.cid = w.cid
        THEN /\ jobs' = jobs \cup {[kind |-> "OnReadComplete", cid |-> w.cid,
                                    tid |-> w.tid, frames |-> e.frames,
                                    stage |-> "owned", left |-> {}]}
             /\ outcome' = [outcome EXCEPT ![w.cid] = "completed"]
        ELSE UNCHANGED <<jobs, outcome>>
     /\ UNCHANGED <<items, advised, alive, next_cancel_id, calls, issued, notes>>

\* Mutant of Cancel2: the entry stays in the table.
Cancel2KeepsEntry(c) ==
  \E t \in Tids :
    /\ alive /\ txns[t].cid = c
    /\ jobs' = jobs \cup {[kind |-> "OnCancelComplete", cid |-> c, tid |-> t,
                           frames |-> {}, stage |-> "owned", left |-> {}]}
    /\ outcome' = [outcome EXCEPT ![c] = "cancelled"]
    /\ UNCHANGED <<items, advised, alive, next_cancel_id, txns, calls, workers,
                   issued, notes>>

\* Mutant of Cancel2: the cancel id is taken for a key of the table.
Cancel2ByTid(c) ==
  \E t \in Tids :
    /\ alive /\ t = c /\ txns[t].cid # 0
    /\ txns' = [txns EXCEPT ![t] = NoTxn]
    /\ jobs' = jobs \cup {[kind |-> "OnCancelComplete", cid |-> c, tid |-> t,
                           frames |-> {}, stage |-> "owned", left |-> {}]}
    /\ outcome' = [outcome EXCEPT ![c] = "cancelled"]
    /\ UNCHANGED <<items, advised, alive, next_cancel_id, calls, workers,
                   issued, notes>>

(* Cancel2 finds the entry by its cancel id and removes it under the lock;   *)
(* with no such entry it returns E_INVALIDARG and changes nothing.           *)
Cancel2(c) ==
  \E t \in Tids :
    /\ alive /\ txns[t].cid = c
    /\ txns' = [txns EXCEPT ![t] = NoTxn]
    /\ jobs' = jobs \cup {[kind |-> "OnCancelComplete", cid |-> c, tid |-> t,
                           frames |-> {}, stage |-> "owned", left |-> {}]}
    /\ outcome' = [outcome EXCEPT ![c] = "cancelled"]
    /\ UNCHANGED <<items, advised, alive, next_cancel_id, calls, workers,
                   issued, notes>>

(* Refresh2 takes a cancel id and pushes on the caller's thread; no entry is *)
(* stored, so its cancel id never cancels anything.                          *)
Refresh2(t) ==
  /\ alive /\ next_cancel_id <= MaxCalls
  /\ next_cancel_id' = next_cancel_id + 1
  /\ outcome' = [outcome EXCEPT ![next_cancel_id] = "refreshed"]
  /\ jobs' = IF items = {} THEN jobs
             ELSE jobs \cup {[kind |-> "OnDataChange", cid |-> next_cancel_id,
                              tid |-> t, frames |-> items, stage |-> "owned",
                              left |-> {}]}
  /\ UNCHANGED <<items, advised, alive, txns, calls, workers, issued, notes>>

-----------------------------------------------------------------------------
(* A callback in progress: typed_sinks copies the cookies and resolves them, *)
(* then the sinks are called one after the other with no lock held.          *)

TypedSinks(j) ==
  /\ j \in jobs /\ j.stage = "owned"
  /\ jobs' = (jobs \ {j}) \cup {[j EXCEPT !.stage = "push", !.left = advised]}
  /\ UNCHANGED <<items, advised, alive, next_cancel_id, txns, calls, workers,
                 issued, outcome, notes>>

Notify(j, s) ==
  /\ j \in jobs /\ j.stage = "push" /\ s \in j.left
  /\ jobs' = (jobs \ {j}) \cup {[j EXCEPT !.left = @ \ {s}]}
  /\ notes' = [notes EXCEPT ![j.cid][s] = Append(@, j.kind)]
  /\ UNCHANGED <<items, advised, alive, next_cancel_id, txns, calls, workers,
                 issued, outcome>>

Finish(j) ==
  /\ j \in jobs /\ j.stage = "push" /\ j.left = {}
  /\ jobs' = jobs \ {j}
  /\ UNCHANGED <<items, advised, alive, next_cancel_id, txns, calls, workers,
                 issued, outcome, notes>>

-----------------------------------------------------------------------------
Client ==
  \/ \E h \in Items : AddItem(h) \/ RemoveItem(h)
  \/ \E s \in Sinks : Advise(s) \/ Unadvise(s)
  \/ \E c \in CancelIds : Cancel2(c)
  \/ \E t \in Tids : Refresh2(t)
  \/ \E t \in Tids, hs \in SUBSET Items : ReadBegin(t, hs)
  \/ DropGroup

Server ==
  \/ \E r \in calls : ReadInsert(r)
  \/ \E w \in workers : WorkerTake(w)
  \/ \E j \in jobs : TypedSinks(j) \/ Finish(j) \/ \E s \in Sinks : Notify(j, s)

Next == Client \/ Server

Spec == Init /\ [][Next]_vars

\* Threads get the CPU and a sink's callback returns; a client owes nothing.
FairSpec == Spec /\ WF_vars(Server)

-----------------------------------------------------------------------------
(* Properties. *)

\* However Reads, workers, Cancel2s and Refresh2s overlap, a sink is called
\* back at most once for a transaction (the "double notification" the comment
\* on async_read_worker speaks of).
AtMostOneCallback ==
  \A c \in CancelIds, s \in Sinks : Len(notes[c][s]) <= 1

\* Once Cancel2 has returned S_OK no sink hears of a completed read, and no
\* thread is on its way to tell it; a sink advised in between makes no
\* difference.
CancelIsFinal ==
  \A c \in CancelIds : outcome[c] = "cancelled" =>
    /\ \A j \in jobs : j.cid = c => j.kind = "OnCancelComplete"
    /\ \A s \in Sinks : \A i \in DOMAIN notes[c][s] :
         notes[c][s][i] = "OnCancelComplete"

\* A transaction whose entry another Read replaced is never called back.
SupersededIsSilent ==
  \A c \in CancelIds : outcome[c] = "superseded" =>
    /\ \A j \in jobs : j.cid # c
    /\ \A s \in Sinks : notes[c][s] = <<>>

\* OnReadComplete carries the items its own Read found, under the transaction
\* id of that Read, whatever has been stored under that id since.
CompletesItsOwnRead ==
  \A j \in jobs : j.kind = "OnReadComplete" =>
    [cid |-> j.cid, tid |-> j.tid, frames |-> j.frames] \in issued

\* What a client may rely on in a callback: it gets one at most for a transaction, no
\* completion of one it has cancelled, and the values its own Read asked for.
CallbacksAreSound == AtMostOneCallback /\ CancelIsFinal /\ CompletesItsOwnRead

\* A transaction that has been stored and not been settled is in the table:
\* its worker will find it and Cancel2 can still find it.
NoTransactionLost ==
  \A c \in CancelIds : outcome[c] = "pending" =>
    \E t \in Tids : txns[t].cid = c

\* No other Read has been given the transaction id of c's.
Unshared(c) ==
  \A r, q \in issued : r.cid = c /\ q.tid = r.tid => q = r

\* A stored transaction stays in the table until its worker or a Cancel2 takes
\* it, if its transaction id is its own.
UnsharedReadKept ==
  \A c \in CancelIds : outcome[c] = "pending" /\ Unshared(c) =>
    \E t \in Tids : txns[t].cid = c

\* Every Read whose transaction id is its own is completed or cancelled, and
\* the callbacks about it come to an end.
UnsharedReadEnds ==
  \A c \in CancelIds :
    outcome[c] = "called" ~>
      \/ ~Unshared(c)
      \/ /\ outcome[c] \in {"completed", "cancelled"}
         /\ \A j \in jobs : j.cid # c

\* What a client may rely on, whatever the interleaving: see Transactions.
Abstract == INSTANCE Transactions WITH
  status <- [c \in CancelIds |->
               IF outcome[c] = "called" THEN "pending" ELSE outcome[c]],
  told   <- notes

ImplementsTransactions == Abstract!Spec
=============================================================================
