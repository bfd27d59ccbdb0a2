--------------------------- MODULE AsyncIO2_proofs ---------------------------
(***************************************************************************)
(* Proofs about AsyncIO2 for every set of transaction ids, items and sinks *)
(* and every number of calls. The argument: a cancel id is issued once, so *)
(* it stands in at most one table entry or one callback in progress; its   *)
(* outcome says which, and the callbacks already made are those of its     *)
(* outcome.                                                                *)
(***************************************************************************)
EXTENDS AsyncIO2, TLAPS

\* The kind of callback that reports an outcome.
ReportOf(o) == CASE o = "completed" -> "OnReadComplete"
                 [] o = "cancelled" -> "OnCancelComplete"
                 [] o = "refreshed" -> "OnDataChange"
                 [] OTHER -> "none"

\* Cancel ids are handed out in order, each to one request.
IssuedOnce ==
  /\ \A r \in issued : r.cid < next_cancel_id
  /\ \A r1, r2 \in issued : r1.cid = r2.cid => r1 = r2
  /\ \A c \in CancelIds : c >= next_cancel_id => outcome[c] = "unused"
  /\ calls \subseteq issued
  /\ \A r \in calls : outcome[r.cid] = "called"

\* An entry of the table belongs to a pending request, stored as it was asked.
EntriesArePending ==
  \A t \in Tids : txns[t].cid # 0 =>
    /\ outcome[txns[t].cid] = "pending"
    /\ [cid |-> txns[t].cid, tid |-> t, frames |-> txns[t].frames] \in issued

\* A callback in progress reports the outcome of its cancel id, and is alone.
JobsReportOutcomes ==
  /\ \A j \in jobs : outcome[j.cid] \in {"completed", "cancelled", "refreshed"}
  /\ \A j \in jobs : j.kind = ReportOf(outcome[j.cid])
  /\ \A j1, j2 \in jobs : j1.cid = j2.cid => j1 = j2

\* A sink has heard nothing of a cancel id, or its outcome; a callback still
\* to be made has not been made.
NotesReportOutcomes ==
  /\ \A c \in CancelIds, s \in Sinks :
       \/ notes[c][s] = <<>>
       \/ /\ outcome[c] \in {"completed", "cancelled", "refreshed"}
          /\ notes[c][s] = <<ReportOf(outcome[c])>>
  /\ \A j \in jobs : \A s \in Sinks :
       (j.stage = "owned" \/ s \in j.left) => notes[j.cid][s] = <<>>

IInv == /\ TypeOK
        /\ IssuedOnce
        /\ EntriesArePending
        /\ JobsReportOutcomes
        /\ NotesReportOutcomes
        /\ CompletesItsOwnRead

-----------------------------------------------------------------------------
(* Type correctness. *)

LEMMA TypeOKNext == TypeOK /\ [Next]_vars => TypeOK'
<1> USE AsyncAssumption DEF TypeOK, CancelIds, Kinds, Outcomes, TidPolicies
<1> SUFFICES ASSUME TypeOK, [Next]_vars PROVE TypeOK'
  OBVIOUS
<1>1. ASSUME NEW h \in Items, AddItem(h) \/ RemoveItem(h) PROVE TypeOK'
  BY <1>1 DEF AddItem, RemoveItem
<1>2. ASSUME NEW s \in Sinks, Advise(s) \/ Unadvise(s) PROVE TypeOK'
  BY <1>2 DEF Advise, Unadvise
<1>3. CASE DropGroup
  BY <1>3 DEF DropGroup
<1>4. ASSUME NEW t \in Tids, NEW hs \in SUBSET Items, ReadBegin(t, hs)
      PROVE  TypeOK'
  BY <1>4 DEF ReadBegin, Request
<1>5. ASSUME NEW r \in calls, ReadInsert(r) PROVE TypeOK'
  BY <1>5 DEF ReadInsert, Request, Entry, Thread
<1>6. ASSUME NEW w \in workers, WorkerTake(w) PROVE TypeOK'
  <2> DEFINE e == txns[w.tid]
             j == [kind |-> "OnReadComplete", cid |-> w.cid, tid |-> w.tid,
                   frames |-> e.frames, stage |-> "owned", left |-> {}]
  <2>0. w.tid \in Tids /\ w.cid \in CancelIds
    BY DEF Thread
  <2>1. e \in Entry
    BY <2>0
  <2>1a. NoTxn \in Entry
    BY DEF Entry, NoTxn
  <2>2. j \in Job
    BY <2>0, <2>1 DEF Job, Entry
  <2>3. jobs' = jobs \/ jobs' = jobs \cup {j}
    BY <1>6 DEF WorkerTake
  <2>4. outcome' \in [CancelIds -> Outcomes]
    BY <1>6, <2>0 DEF WorkerTake
  <2> HIDE DEF j
  <2> QED
    BY <1>6, <2>0, <2>1a, <2>2, <2>3, <2>4 DEF WorkerTake
<1>7. ASSUME NEW c \in CancelIds, Cancel2(c) PROVE TypeOK'
  BY <1>7 DEF Cancel2, Entry, NoTxn, Job
<1>8. ASSUME NEW t \in Tids, Refresh2(t) PROVE TypeOK'
  BY <1>8 DEF Refresh2, Job
<1>9. ASSUME NEW j \in jobs, TypedSinks(j) \/ Finish(j) PROVE TypeOK'
  BY <1>9 DEF TypedSinks, Finish, Job
<1>10. ASSUME NEW j \in jobs, NEW s \in Sinks, Notify(j, s) PROVE TypeOK'
  <2>1. [j EXCEPT !.left = @ \ {s}] \in Job /\ j.cid \in CancelIds
        /\ j.kind \in Kinds
    BY DEF Job
  <2>2. Append(notes[j.cid][s], j.kind) \in Seq(Kinds)
    BY <2>1
  <2>3. notes' \in [CancelIds -> [Sinks -> Seq(Kinds)]]
    BY <1>10, <2>1, <2>2 DEF Notify
  <2> QED
    BY <1>10, <2>1, <2>3 DEF Notify
<1>11. CASE UNCHANGED vars
  BY <1>11 DEF vars
<1> QED
  BY <1>1, <1>2, <1>3, <1>4, <1>5, <1>6, <1>7, <1>8, <1>9, <1>10, <1>11
     DEF Next, Client, Server

\* Every variable keeps its type: the cancel ids, the table and the callbacks
\* of group.rs stay within what Read, Cancel2 and Refresh2 create.
THEOREM TypeCorrect == Spec => []TypeOK
<1>1. Init => TypeOK
  BY AsyncAssumption
     DEF Init, TypeOK, CancelIds, Entry, NoTxn, Outcomes, Kinds
<1> QED
  BY <1>1, TypeOKNext, PTL DEF Spec

-----------------------------------------------------------------------------
(* The inductive invariant. *)

LEMMA IInvInit == Init => IInv
  BY AsyncAssumption
     DEF Init, IInv, TypeOK, CancelIds, Entry, NoTxn, Outcomes, Kinds,
         IssuedOnce, EntriesArePending, JobsReportOutcomes,
         NotesReportOutcomes, CompletesItsOwnRead

\* Client steps that change only what is advised or which items there are.
LEMMA IInvQuiet ==
  ASSUME IInv, TypeOK',
         UNCHANGED <<next_cancel_id, txns, calls, jobs, issued, outcome, notes>>
  PROVE  IInv'
BY DEF IInv, IssuedOnce, EntriesArePending, JobsReportOutcomes,
       NotesReportOutcomes, CompletesItsOwnRead

LEMMA IInvReadBegin ==
  ASSUME IInv, TypeOK', NEW t \in Tids, NEW hs \in SUBSET Items,
         ReadBegin(t, hs)
  PROVE  IInv'
<1> DEFINE r == [cid |-> next_cancel_id, tid |-> t, frames |-> hs \cap items]
<1> USE DEF IInv
<1>1. /\ next_cancel_id \in CancelIds
      /\ next_cancel_id' = next_cancel_id + 1
      /\ calls' = calls \cup {r} /\ issued' = issued \cup {r}
      /\ outcome' = [outcome EXCEPT ![next_cancel_id] = "called"]
      /\ UNCHANGED <<txns, jobs, notes>>
      /\ next_cancel_id \in Nat
  BY AsyncAssumption DEF ReadBegin, TypeOK, CancelIds
<1>2. outcome[next_cancel_id] = "unused"
  BY <1>1 DEF IssuedOnce
<1>3. r.cid = next_cancel_id /\ \A x \in issued : x.cid \in Nat
  BY AsyncAssumption DEF TypeOK, Request, CancelIds
<1> HIDE DEF r
<1>4. \A c \in CancelIds : c # next_cancel_id => outcome'[c] = outcome[c]
  BY <1>1 DEF TypeOK
<1>5. IssuedOnce'
  <2>1. \A x \in issued : x.cid < next_cancel_id
    BY DEF IssuedOnce
  <2>2. \A x \in issued' : x.cid < next_cancel_id'
    BY <1>1, <1>3, <2>1
  <2>3. \A x, y \in issued' : x.cid = y.cid => x = y
    BY <1>1, <1>3, <2>1 DEF IssuedOnce
  <2>4. \A c \in CancelIds : c >= next_cancel_id' => outcome'[c] = "unused"
    BY <1>1, <1>4, AsyncAssumption DEF IssuedOnce, CancelIds
  <2>5. \A x \in calls' : outcome'[x.cid] = "called"
    BY <1>1, <1>3, <1>4, <2>1 DEF IssuedOnce, TypeOK, Request
  <2>6. calls' \subseteq issued'
    BY <1>1 DEF IssuedOnce
  <2> QED
    BY <2>2, <2>3, <2>4, <2>5, <2>6 DEF IssuedOnce
<1>6. EntriesArePending'
  BY <1>1, <1>2, <1>4 DEF EntriesArePending, TypeOK, Entry, CancelIds
<1>7. JobsReportOutcomes'
  BY <1>1, <1>2, <1>4 DEF JobsReportOutcomes, TypeOK, Job
<1>8. NotesReportOutcomes'
  <2>1. ASSUME NEW c \in CancelIds, NEW s \in Sinks
        PROVE  \/ notes'[c][s] = <<>>
               \/ /\ outcome'[c] \in {"completed", "cancelled", "refreshed"}
                  /\ notes'[c][s] = <<ReportOf(outcome'[c])>>
    <3>1. \/ notes[c][s] = <<>>
          \/ /\ outcome[c] \in {"completed", "cancelled", "refreshed"}
             /\ notes[c][s] = <<ReportOf(outcome[c])>>
      BY DEF NotesReportOutcomes
    <3>2. CASE c = next_cancel_id
      BY <1>1, <1>2, <3>1, <3>2
    <3>3. CASE c # next_cancel_id
      BY <1>1, <1>4, <3>1, <3>3
    <3> QED
      BY <3>2, <3>3
  <2>2. \A j \in jobs' : \A s \in Sinks :
          (j.stage = "owned" \/ s \in j.left) => notes'[j.cid][s] = <<>>
    BY <1>1 DEF NotesReportOutcomes
  <2> QED
    BY <2>1, <2>2 DEF NotesReportOutcomes
<1>9. CompletesItsOwnRead'
  BY <1>1 DEF CompletesItsOwnRead
<1> QED
  BY <1>5, <1>6, <1>7, <1>8, <1>9

LEMMA IInvReadInsert ==
  ASSUME IInv, TypeOK', NEW r \in calls, ReadInsert(r)
  PROVE  IInv'
<1> DEFINE old == txns[r.tid].cid
<1> USE DEF IInv
<1>1. r \in issued /\ r.cid \in CancelIds /\ r.tid \in Tids
      /\ outcome[r.cid] = "called"
  BY DEF IssuedOnce, TypeOK, Request
<1>2. /\ txns' = [txns EXCEPT ![r.tid] = [cid |-> r.cid, frames |-> r.frames]]
      /\ calls' = calls \ {r}
      /\ UNCHANGED <<next_cancel_id, jobs, issued, notes>>
  BY DEF ReadInsert
<1>3. \A c \in CancelIds : /\ c = r.cid => outcome'[c] = "pending"
                           /\ c # r.cid /\ c = old => outcome'[c] = "superseded"
                           /\ c # r.cid /\ c # old => outcome'[c] = outcome[c]
  BY DEF ReadInsert
<1>4. old # 0 => outcome[old] = "pending" /\ old # r.cid
  BY <1>1 DEF EntriesArePending
<1>5. old \in CancelIds => old # 0
  BY AsyncAssumption DEF CancelIds
<1>6. \A c \in CancelIds : outcome[c] \notin {"called", "pending"} =>
                               outcome'[c] = outcome[c]
  BY <1>1, <1>3, <1>4, <1>5
<1>7. \A c \in CancelIds : c # r.cid /\ outcome[c] = "called" =>
                               outcome'[c] = "called"
  BY <1>3, <1>4, <1>5
<1>8. [cid |-> r.cid, tid |-> r.tid, frames |-> r.frames] = r
  BY DEF TypeOK, Request
<1> HIDE DEF old
<1>9. IssuedOnce'
  <2>1. \A c \in CancelIds : c >= next_cancel_id' => outcome'[c] = "unused"
    BY <1>2, <1>6 DEF IssuedOnce
  <2>2. \A x \in calls' : x \in issued /\ x.cid # r.cid /\ x.cid \in CancelIds
                        /\ outcome[x.cid] = "called"
    BY <1>1, <1>2 DEF IssuedOnce, TypeOK, Request
  <2>3. \A x \in calls' : outcome'[x.cid] = "called"
    BY <1>7, <2>2
  <2> QED
    BY <1>2, <2>1, <2>2, <2>3 DEF IssuedOnce
<1>10. EntriesArePending'
  <2> SUFFICES ASSUME NEW t \in Tids, txns'[t].cid # 0
               PROVE  /\ outcome'[txns'[t].cid] = "pending"
                      /\ [cid |-> txns'[t].cid, tid |-> t,
                          frames |-> txns'[t].frames] \in issued'
    BY DEF EntriesArePending
  <2>1. CASE t = r.tid
    <3>1. txns'[t] = [cid |-> r.cid, frames |-> r.frames]
      BY <1>1, <1>2, <2>1 DEF TypeOK
    <3> QED
      BY <1>1, <1>2, <1>3, <1>8, <2>1, <3>1
  <2>2. CASE t # r.tid
    <3>1. txns'[t] = txns[t]
      BY <1>1, <1>2, <2>2 DEF TypeOK
    <3>2. /\ outcome[txns[t].cid] = "pending"
          /\ [cid |-> txns[t].cid, tid |-> t, frames |-> txns[t].frames] \in issued
      BY <3>1 DEF EntriesArePending
    <3>3. txns[t].cid \in CancelIds
      BY <3>1, AsyncAssumption DEF TypeOK, Entry, CancelIds
    <3>4. txns[t].cid # old
      <4>1. CASE old = 0
        BY <4>1, <3>1
      <4>2. CASE old # 0
        <5>1. [cid |-> old, tid |-> r.tid, frames |-> txns[r.tid].frames] \in issued
          BY <1>1, <4>2 DEF EntriesArePending, old
        <5> QED
          BY <5>1, <3>2, <2>2 DEF IssuedOnce
      <4> QED
        BY <4>1, <4>2
    <3> QED
      BY <1>1, <1>2, <1>3, <3>1, <3>2, <3>3, <3>4
  <2> QED
    BY <2>1, <2>2
<1>11. \A j \in jobs : j.cid \in CancelIds
  BY DEF TypeOK, Job
<1>12. JobsReportOutcomes'
  <2>1. \A j \in jobs : outcome'[j.cid] = outcome[j.cid]
    BY <1>6, <1>11 DEF JobsReportOutcomes
  <2> QED
    BY <1>2, <2>1 DEF JobsReportOutcomes
<1>13. NotesReportOutcomes'
  BY <1>2, <1>6 DEF NotesReportOutcomes
<1>14. CompletesItsOwnRead'
  BY <1>2 DEF CompletesItsOwnRead
<1> QED
  BY <1>9, <1>10, <1>12, <1>13, <1>14

\* What WorkerTake and Cancel2 have in common: the entry of t, of cancel id c,
\* leaves the table and its remover starts the callbacks of kind k.
LEMMA IInvTake ==
  ASSUME IInv, TypeOK', NEW t \in Tids, NEW c \in CancelIds, txns[t].cid = c,
         NEW j \in Job, NEW o \in {"completed", "cancelled"},
         j.cid = c, j.stage = "owned", j.left = {}, j.kind = ReportOf(o),
         j.kind = "OnReadComplete" =>
           [cid |-> j.cid, tid |-> j.tid, frames |-> j.frames] \in issued,
         txns' = [txns EXCEPT ![t] = NoTxn],
         jobs' = jobs \cup {j},
         outcome' = [outcome EXCEPT ![c] = o],
         UNCHANGED <<next_cancel_id, calls, issued, notes>>
  PROVE  IInv'
<1> USE DEF IInv
<1>1. outcome[c] = "pending"
      /\ [cid |-> c, tid |-> t, frames |-> txns[t].frames] \in issued
  BY AsyncAssumption DEF EntriesArePending, CancelIds
<1>2. outcome'[c] = o /\ \A d \in CancelIds : d # c => outcome'[d] = outcome[d]
  BY DEF TypeOK
<1>3. \A x \in jobs : x.cid \in CancelIds /\ x.cid # c
  BY <1>1 DEF TypeOK, Job, JobsReportOutcomes
<1>4. IssuedOnce'
  <2>1. \A x \in calls : x.cid \in CancelIds /\ x.cid # c
    BY <1>1 DEF TypeOK, Request, IssuedOnce
  <2> QED
    BY <1>1, <1>2, <2>1 DEF IssuedOnce
<1>5. EntriesArePending'
  <2> SUFFICES ASSUME NEW u \in Tids, txns'[u].cid # 0
               PROVE  /\ outcome'[txns'[u].cid] = "pending"
                      /\ [cid |-> txns'[u].cid, tid |-> u,
                          frames |-> txns'[u].frames] \in issued'
    BY DEF EntriesArePending
  <2>1. u # t /\ txns'[u] = txns[u]
    BY DEF TypeOK, NoTxn
  <2>2. /\ outcome[txns[u].cid] = "pending"
        /\ [cid |-> txns[u].cid, tid |-> u, frames |-> txns[u].frames] \in issued
    BY <2>1 DEF EntriesArePending
  <2>3. txns[u].cid # c
    BY <1>1, <2>1, <2>2 DEF IssuedOnce
  <2>4. txns[u].cid \in CancelIds
    BY <2>1, AsyncAssumption DEF TypeOK, Entry, CancelIds
  <2> QED
    BY <1>2, <2>1, <2>2, <2>3, <2>4
<1>6. JobsReportOutcomes'
  BY <1>2, <1>3 DEF JobsReportOutcomes
<1>7. \A s \in Sinks : notes[c][s] = <<>>
  BY <1>1 DEF NotesReportOutcomes
<1>8. NotesReportOutcomes'
  BY <1>1, <1>2, <1>7 DEF NotesReportOutcomes
<1>9. CompletesItsOwnRead'
  BY DEF CompletesItsOwnRead
<1> QED
  BY <1>4, <1>5, <1>6, <1>8, <1>9

LEMMA IInvWorkerTake ==
  ASSUME IInv, TypeOK', NEW w \in workers, WorkerTake(w)
  PROVE  IInv'
<1> DEFINE e == txns[w.tid]
           j == [kind |-> "OnReadComplete", cid |-> w.cid, tid |-> w.tid,
                 frames |-> e.frames, stage |-> "owned", left |-> {}]
<1>1. w.tid \in Tids /\ w.cid \in CancelIds
  BY DEF IInv, TypeOK, Thread
<1>2. txns' = [txns EXCEPT ![w.tid] = NoTxn]
      /\ UNCHANGED <<next_cancel_id, calls, issued, notes>>
  BY DEF WorkerTake
<1>3. CASE e.cid = w.cid
  <2>1. jobs' = jobs \cup {j} /\ outcome' = [outcome EXCEPT ![w.cid] = "completed"]
    BY <1>3 DEF WorkerTake
  <2>2. [cid |-> w.cid, tid |-> w.tid, frames |-> e.frames] \in issued
    <3>1. e.cid # 0
      BY <1>1, <1>3, AsyncAssumption DEF CancelIds
    <3>2. [cid |-> e.cid, tid |-> w.tid, frames |-> e.frames] \in issued
      BY <1>1, <3>1 DEF IInv, EntriesArePending
    <3> QED
      BY <1>3, <3>2
  <2>3. j \in Job
    <3>1. j \in jobs'
      BY <2>1
    <3> QED
      BY <3>1 DEF TypeOK
  <2>4. "OnReadComplete" = ReportOf("completed")
    BY DEF ReportOf
  <2>5. /\ j.cid = w.cid /\ j.tid = w.tid /\ j.frames = e.frames
        /\ j.stage = "owned" /\ j.left = {} /\ j.kind = "OnReadComplete"
    OBVIOUS
  <2>6. j.kind = ReportOf("completed")
        /\ [cid |-> j.cid, tid |-> j.tid, frames |-> j.frames] \in issued
    BY <2>2, <2>4, <2>5
  <2> HIDE DEF j
  <2> QED
    BY <1>1, <1>2, <1>3, <2>1, <2>3, <2>5, <2>6, IInvTake
<1>4. CASE e.cid # w.cid
  <2>1. UNCHANGED <<jobs, outcome>>
    BY <1>4 DEF WorkerTake
  <2>2. EntriesArePending'
    BY <1>1, <1>2, <2>1 DEF IInv, EntriesArePending, TypeOK, NoTxn
  <2> QED
    BY <1>2, <2>1, <2>2 DEF IInv, IssuedOnce, JobsReportOutcomes,
       NotesReportOutcomes, CompletesItsOwnRead
<1> QED
  BY <1>3, <1>4

LEMMA IInvCancel2 ==
  ASSUME IInv, TypeOK', NEW c \in CancelIds, Cancel2(c)
  PROVE  IInv'
<1>1. PICK t \in Tids :
        /\ txns[t].cid = c
        /\ txns' = [txns EXCEPT ![t] = NoTxn]
        /\ jobs' = jobs \cup {[kind |-> "OnCancelComplete", cid |-> c, tid |-> t,
                               frames |-> {}, stage |-> "owned", left |-> {}]}
        /\ outcome' = [outcome EXCEPT ![c] = "cancelled"]
        /\ UNCHANGED <<next_cancel_id, calls, issued, notes>>
  BY DEF Cancel2
<1> DEFINE j == [kind |-> "OnCancelComplete", cid |-> c, tid |-> t,
                 frames |-> {}, stage |-> "owned", left |-> {}]
<1>2. j \in Job
  BY <1>1 DEF TypeOK
<1>3. "OnCancelComplete" = ReportOf("cancelled")
  BY DEF ReportOf
<1> QED
  BY <1>1, <1>2, <1>3, IInvTake

LEMMA IInvRefresh2 ==
  ASSUME IInv, TypeOK', NEW t \in Tids, Refresh2(t)
  PROVE  IInv'
<1> DEFINE n == next_cancel_id
           j == [kind |-> "OnDataChange", cid |-> n, tid |-> t,
                 frames |-> items, stage |-> "owned", left |-> {}]
<1> USE DEF IInv
<1>1. /\ n \in CancelIds /\ n \in Nat /\ next_cancel_id' = n + 1
      /\ outcome' = [outcome EXCEPT ![n] = "refreshed"]
      /\ jobs' = jobs \/ jobs' = jobs \cup {j}
      /\ UNCHANGED <<txns, calls, issued, notes>>
  BY AsyncAssumption DEF Refresh2, TypeOK, CancelIds
<1>2. outcome[n] = "unused"
  BY <1>1 DEF IssuedOnce
<1>3. outcome'[n] = "refreshed"
      /\ \A c \in CancelIds : c # n => outcome'[c] = outcome[c]
  BY <1>1 DEF TypeOK
<1>4. j.cid = n /\ j.kind = "OnDataChange" /\ j.left = {}
  OBVIOUS
<1>5. \A x \in jobs : x.cid \in CancelIds /\ x.cid # n
  BY <1>2 DEF TypeOK, Job, JobsReportOutcomes
<1> HIDE DEF j
<1>6. IssuedOnce'
  <2>1. \A x \in issued : x.cid < n /\ x.cid \in CancelIds /\ x.cid \in Nat
    BY AsyncAssumption DEF IssuedOnce, TypeOK, Request, CancelIds
  <2>2. \A x \in issued : x.cid < n + 1 /\ x.cid # n
    BY <1>1, <2>1
  <2>3. \A c \in CancelIds : c >= n + 1 => outcome'[c] = "unused"
    BY <1>1, <1>3, AsyncAssumption DEF IssuedOnce, CancelIds
  <2> QED
    BY <1>1, <1>3, <2>1, <2>2, <2>3 DEF IssuedOnce
<1>7. EntriesArePending'
  BY <1>1, <1>2, <1>3, AsyncAssumption
     DEF EntriesArePending, TypeOK, Entry, CancelIds
<1>8. JobsReportOutcomes'
  BY <1>1, <1>3, <1>4, <1>5 DEF JobsReportOutcomes, ReportOf
<1>9. \A s \in Sinks : notes[n][s] = <<>>
  BY <1>1, <1>2 DEF NotesReportOutcomes
<1>10. NotesReportOutcomes'
  BY <1>1, <1>2, <1>3, <1>4, <1>5, <1>9 DEF NotesReportOutcomes
<1>11. CompletesItsOwnRead'
  BY <1>1, <1>4 DEF CompletesItsOwnRead
<1> QED
  BY <1>6, <1>7, <1>8, <1>10, <1>11

LEMMA IInvTypedSinks ==
  ASSUME IInv, TypeOK', NEW j \in jobs, TypedSinks(j)
  PROVE  IInv'
<1> DEFINE k == [j EXCEPT !.stage = "push", !.left = advised]
<1> USE DEF IInv
<1>1. /\ jobs' = (jobs \ {j}) \cup {k} /\ j.stage = "owned"
      /\ UNCHANGED <<next_cancel_id, txns, calls, issued, outcome, notes>>
  BY DEF TypedSinks
<1>2. k.cid = j.cid /\ k.tid = j.tid /\ k.frames = j.frames /\ k.kind = j.kind
  BY DEF TypeOK, Job
<1> HIDE DEF k
<1>3. JobsReportOutcomes'
  BY <1>1, <1>2 DEF JobsReportOutcomes
<1>4. NotesReportOutcomes'
  BY <1>1, <1>2 DEF NotesReportOutcomes
<1>5. CompletesItsOwnRead'
  BY <1>1, <1>2 DEF CompletesItsOwnRead
<1> QED
  BY <1>1, <1>3, <1>4, <1>5 DEF IssuedOnce, EntriesArePending

LEMMA IInvNotify ==
  ASSUME IInv, TypeOK', NEW j \in jobs, NEW s \in Sinks, Notify(j, s)
  PROVE  IInv'
<1> DEFINE k == [j EXCEPT !.left = @ \ {s}]
<1> USE DEF IInv
<1>1. /\ jobs' = (jobs \ {j}) \cup {k} /\ j.stage = "push" /\ s \in j.left
      /\ notes' = [notes EXCEPT ![j.cid][s] = Append(@, j.kind)]
      /\ UNCHANGED <<next_cancel_id, txns, calls, issued, outcome>>
  BY DEF Notify
<1>2. /\ k.cid = j.cid /\ k.tid = j.tid /\ k.frames = j.frames
      /\ k.kind = j.kind /\ k.stage = "push" /\ k.left = j.left \ {s}
      /\ j.cid \in CancelIds
  BY <1>1 DEF TypeOK, Job
<1> HIDE DEF k
<1>3. notes[j.cid][s] = <<>> /\ Append(<<>>, j.kind) = <<j.kind>>
  BY <1>1 DEF NotesReportOutcomes
<1>4. notes'[j.cid][s] = <<j.kind>>
  BY <1>1, <1>2, <1>3 DEF TypeOK
<1>5. \A c \in CancelIds, x \in Sinks :
        c # j.cid \/ x # s => notes'[c][x] = notes[c][x]
  BY <1>1, <1>2 DEF TypeOK
<1>6. JobsReportOutcomes'
  BY <1>1, <1>2 DEF JobsReportOutcomes
<1>7. NotesReportOutcomes'
  <2>1. \A c \in CancelIds, x \in Sinks :
          \/ notes'[c][x] = <<>>
          \/ /\ outcome[c] \in {"completed", "cancelled", "refreshed"}
             /\ notes'[c][x] = <<ReportOf(outcome[c])>>
    BY <1>2, <1>4, <1>5 DEF NotesReportOutcomes, JobsReportOutcomes
  <2>2. ASSUME NEW i \in jobs', NEW x \in Sinks, i.stage = "owned" \/ x \in i.left
        PROVE  notes'[i.cid][x] = <<>>
    <3>1. CASE i = k
      BY <1>1, <1>2, <1>5, <2>2, <3>1 DEF NotesReportOutcomes
    <3>2. CASE i # k
      <4>1. i \in jobs /\ i # j /\ i.cid # j.cid /\ i.cid \in CancelIds
        BY <1>1, <3>2 DEF JobsReportOutcomes, TypeOK, Job
      <4> QED
        BY <1>5, <2>2, <4>1 DEF NotesReportOutcomes
    <3> QED
      BY <3>1, <3>2
  <2> QED
    BY <1>1, <2>1, <2>2 DEF NotesReportOutcomes
<1>8. CompletesItsOwnRead'
  BY <1>1, <1>2 DEF CompletesItsOwnRead
<1> QED
  BY <1>1, <1>6, <1>7, <1>8 DEF IssuedOnce, EntriesArePending

LEMMA IInvFinish ==
  ASSUME IInv, TypeOK', NEW j \in jobs, Finish(j)
  PROVE  IInv'
BY DEF Finish, IInv, IssuedOnce, EntriesArePending, JobsReportOutcomes,
       NotesReportOutcomes, CompletesItsOwnRead

LEMMA IInvNext == IInv /\ [Next]_vars => IInv'
<1> SUFFICES ASSUME IInv, [Next]_vars PROVE IInv'
  OBVIOUS
<1>1. TypeOK'
  BY TypeOKNext DEF IInv
<1>2. ASSUME NEW h \in Items, AddItem(h) \/ RemoveItem(h) PROVE IInv'
  BY <1>1, <1>2, IInvQuiet DEF AddItem, RemoveItem
<1>3. ASSUME NEW s \in Sinks, Advise(s) \/ Unadvise(s) PROVE IInv'
  BY <1>1, <1>3, IInvQuiet DEF Advise, Unadvise
<1>4. CASE DropGroup
  BY <1>1, <1>4, IInvQuiet DEF DropGroup
<1>5. CASE UNCHANGED vars
  BY <1>1, <1>5, IInvQuiet DEF vars
<1> QED
  BY <1>1, <1>2, <1>3, <1>4, <1>5, IInvReadBegin, IInvReadInsert,
     IInvWorkerTake, IInvCancel2, IInvRefresh2, IInvTypedSinks, IInvNotify,
     IInvFinish
     DEF Next, Client, Server

\* The inductive invariant holds throughout: a cancel id stands in at most one
\* entry of `txns' or one callback in progress, as its outcome says.
THEOREM Invariance == Spec => []IInv
  BY IInvInit, IInvNext, PTL DEF Spec

-----------------------------------------------------------------------------
(* What follows from it. *)

\* No sink is called back twice for a transaction, however async_read_worker,
\* Cancel2 and Refresh2 interleave.
THEOREM OneCallback == Spec => []AtMostOneCallback
<1>1. IInv => AtMostOneCallback
  <2> SUFFICES ASSUME IInv, NEW c \in CancelIds, NEW s \in Sinks
               PROVE  Len(notes[c][s]) <= 1
    BY DEF AtMostOneCallback
  <2>2. notes[c][s] = <<>> \/ notes[c][s] = <<ReportOf(outcome[c])>>
    BY DEF IInv, NotesReportOutcomes
  <2>3. CASE notes[c][s] = <<>>
    BY <2>3
  <2>4. CASE notes[c][s] = <<ReportOf(outcome[c])>>
    BY <2>4
  <2> QED
    BY <2>2, <2>3, <2>4
<1> QED
  BY <1>1, Invariance, PTL

\* After a successful Cancel2 no OnReadComplete is made or on its way.
THEOREM CancelWins == Spec => []CancelIsFinal
<1>1. IInv => CancelIsFinal
  <2> SUFFICES ASSUME IInv, NEW c \in CancelIds, outcome[c] = "cancelled"
               PROVE  /\ \A j \in jobs : j.cid = c => j.kind = "OnCancelComplete"
                      /\ \A s \in Sinks : \A i \in DOMAIN notes[c][s] :
                           notes[c][s][i] = "OnCancelComplete"
    BY DEF CancelIsFinal
  <2>1. ReportOf("cancelled") = "OnCancelComplete"
    BY DEF ReportOf
  <2>2. \A j \in jobs : j.cid = c => j.kind = "OnCancelComplete"
    BY <2>1 DEF IInv, JobsReportOutcomes
  <2>3. \A s \in Sinks : notes[c][s] = <<>> \/ notes[c][s] = <<"OnCancelComplete">>
    BY <2>1 DEF IInv, NotesReportOutcomes
  <2> QED
    BY <2>2, <2>3
<1> QED
  BY <1>1, Invariance, PTL

\* A transaction whose entry was overwritten by a later Read stays silent.
THEOREM SupersededSilent == Spec => []SupersededIsSilent
<1>1. IInv => SupersededIsSilent
  BY DEF IInv, NotesReportOutcomes, JobsReportOutcomes, SupersededIsSilent
<1> QED
  BY <1>1, Invariance, PTL

\* OnReadComplete carries the items and the transaction id of its own Read.
THEOREM OwnReadCompleted == Spec => []CompletesItsOwnRead
<1>1. IInv => CompletesItsOwnRead
  BY DEF IInv
<1> QED
  BY <1>1, Invariance, PTL

\* What the clients of IOPCAsyncIO2 may count on, all at once: a transaction is
\* called back at most once, never after a Cancel2 that answered S_OK, and with
\* the data of its own Read.
THEOREM CallbacksSound == Spec => []CallbacksAreSound
<1> QED
  BY OneCallback, CancelWins, OwnReadCompleted, PTL DEF CallbacksAreSound

-----------------------------------------------------------------------------
(* The refinement. *)

LEMMA RefinementInit == Init => Abstract!Init
  BY DEF Init, Abstract!Init

LEMMA RefinementNext ==
  IInv /\ IInv' /\ [Next]_vars => [Abstract!Next]_Abstract!absVars
<1> DEFINE status == [c \in CancelIds |->
                        IF outcome[c] = "called" THEN "pending" ELSE outcome[c]]
<1> SUFFICES ASSUME IInv, IInv', [Next]_vars
             PROVE  [Abstract!Next]_Abstract!absVars
  OBVIOUS
<1> USE DEF Abstract!absVars
<1>0. /\ 0 \notin CancelIds
      /\ \A t \in Tids : txns[t].cid = 0 \/ txns[t].cid \in CancelIds
  BY AsyncAssumption DEF IInv, TypeOK, Entry, CancelIds
<1>1. ASSUME UNCHANGED <<outcome, notes>> PROVE UNCHANGED Abstract!absVars
  BY <1>1
<1>2. ASSUME NEW t \in Tids, NEW hs \in SUBSET Items, ReadBegin(t, hs)
      PROVE  Abstract!Next
  <2> DEFINE n == next_cancel_id
  <2>1. /\ n \in CancelIds /\ outcome[n] = "unused"
        /\ outcome' = [outcome EXCEPT ![n] = "called"] /\ UNCHANGED notes
    BY <1>2, AsyncAssumption DEF ReadBegin, IInv, TypeOK, IssuedOnce, CancelIds
  <2>2. status' = [status EXCEPT ![n] = "pending"]
    BY <2>1 DEF IInv, TypeOK
  <2>3. Abstract!Start(n, "pending")
    BY <2>1, <2>2 DEF Abstract!Start
  <2> QED
    BY <2>1, <2>3 DEF Abstract!Next
<1>3. ASSUME NEW r \in calls, ReadInsert(r)
      PROVE  Abstract!Next \/ UNCHANGED Abstract!absVars
  <2> DEFINE old == txns[r.tid].cid
  <2>1. r.cid \in CancelIds /\ r.tid \in Tids /\ outcome[r.cid] = "called"
    BY DEF IInv, IssuedOnce, TypeOK, Request
  <2>2. old = 0 \/ (old \in CancelIds /\ outcome[old] = "pending" /\ old # r.cid)
    BY <1>0, <2>1 DEF IInv, EntriesArePending
  <2>3. \A c \in CancelIds : /\ c = r.cid => outcome'[c] = "pending"
                             /\ c # r.cid /\ c = old => outcome'[c] = "superseded"
                             /\ c # r.cid /\ c # old => outcome'[c] = outcome[c]
    BY <1>3 DEF ReadInsert
  <2>4. UNCHANGED notes
    BY <1>3 DEF ReadInsert
  <2> HIDE DEF old
  <2>5. CASE old = 0
    <3>1. status' = status
      BY <1>0, <2>1, <2>3, <2>5
    <3> QED
      BY <2>4, <3>1
  <2>6. CASE old # 0
    <3>1. old \in CancelIds /\ status[old] = "pending"
      BY <2>2, <2>6
    <3>2. status' = [status EXCEPT ![old] = "superseded"]
      BY <2>1, <2>2, <2>3, <2>6
    <3>3. Abstract!End(old, "superseded")
      BY <2>4, <3>1, <3>2 DEF Abstract!End
    <3> QED
      BY <3>1, <3>3 DEF Abstract!Next, Abstract!Ends
  <2> QED
    BY <2>5, <2>6
<1>4. ASSUME NEW t \in Tids, NEW c \in CancelIds, txns[t].cid = c,
             NEW o \in {"completed", "cancelled"},
             outcome' = [outcome EXCEPT ![c] = o], UNCHANGED notes
      PROVE  Abstract!Next
  <2>1. outcome[c] = "pending"
    BY <1>0, <1>4 DEF IInv, EntriesArePending
  <2>2. status[c] = "pending" /\ status' = [status EXCEPT ![c] = o]
    BY <1>4, <2>1 DEF IInv, TypeOK
  <2>3. Abstract!End(c, o)
    BY <1>4, <2>2 DEF Abstract!End
  <2> QED
    BY <2>3 DEF Abstract!Next, Abstract!Ends
<1>5. ASSUME NEW w \in workers, WorkerTake(w)
      PROVE  Abstract!Next \/ UNCHANGED Abstract!absVars
  <2>1. w.tid \in Tids /\ w.cid \in CancelIds
    BY DEF IInv, TypeOK, Thread
  <2>2. CASE txns[w.tid].cid = w.cid
    BY <1>4, <1>5, <2>1, <2>2 DEF WorkerTake
  <2>3. CASE txns[w.tid].cid # w.cid
    BY <1>1, <1>5, <2>3 DEF WorkerTake
  <2> QED
    BY <2>2, <2>3
<1>6. ASSUME NEW c \in CancelIds, Cancel2(c) PROVE Abstract!Next
  BY <1>4, <1>6 DEF Cancel2
<1>7. ASSUME NEW t \in Tids, Refresh2(t) PROVE Abstract!Next
  <2> DEFINE n == next_cancel_id
  <2>1. /\ n \in CancelIds /\ outcome[n] = "unused"
        /\ outcome' = [outcome EXCEPT ![n] = "refreshed"] /\ UNCHANGED notes
    BY <1>7, AsyncAssumption DEF Refresh2, IInv, TypeOK, IssuedOnce, CancelIds
  <2>2. status' = [status EXCEPT ![n] = "refreshed"]
    BY <2>1 DEF IInv, TypeOK
  <2>3. Abstract!Start(n, "refreshed")
    BY <2>1, <2>2 DEF Abstract!Start
  <2> QED
    BY <2>1, <2>3 DEF Abstract!Next
<1>8. ASSUME NEW j \in jobs, NEW s \in Sinks, Notify(j, s) PROVE Abstract!Next
  <2> DEFINE c == j.cid
  <2>1. /\ c \in CancelIds /\ s \in j.left
        /\ notes' = [notes EXCEPT ![c][s] = Append(@, j.kind)]
        /\ UNCHANGED outcome
    BY <1>8 DEF Notify, IInv, TypeOK, Job
  <2>2. /\ notes[c][s] = <<>>
        /\ outcome[c] \in {"completed", "cancelled", "refreshed"}
        /\ j.kind = ReportOf(outcome[c])
    BY <2>1 DEF IInv, NotesReportOutcomes, JobsReportOutcomes
  <2>3. status[c] = outcome[c] /\ status' = status
    BY <2>1, <2>2
  <2>4. /\ outcome[c] \in DOMAIN Abstract!Report
        /\ Abstract!Report[outcome[c]] = j.kind
    BY <2>2 DEF Abstract!Report, ReportOf
  <2>5. notes' = [notes EXCEPT ![c][s] = <<j.kind>>]
    BY <2>1, <2>2
  <2> HIDE DEF c, status
  <2>6. Abstract!Tell(c, s)
    BY <2>2, <2>3, <2>4, <2>5 DEF Abstract!Tell, status
  <2> QED
    BY <2>1, <2>6 DEF Abstract!Next
<1> QED
  BY <1>1, <1>2, <1>3, <1>5, <1>6, <1>7, <1>8
     DEF Next, Client, Server, AddItem, RemoveItem, Advise, Unadvise,
         DropGroup, TypedSinks, Finish, vars

\* The group implements Transactions: whatever the threads do, a client sees a
\* transaction end in one way at most and each sink hear of it once.
THEOREM Refinement == Spec => ImplementsTransactions
  BY RefinementInit, RefinementNext, Invariance, PTL
     DEF Spec, ImplementsTransactions, Abstract!Spec

-----------------------------------------------------------------------------
(* Transactions whose transaction id no other Read uses. *)

\* A worker belongs to a request, and a transaction of that kind that waits
\* for its outcome is in the table.
KeptInv ==
  /\ \A w \in workers : \E r \in issued : r.cid = w.cid /\ r.tid = w.tid
  /\ UnsharedReadKept

LEMMA KeptNext ==
  ASSUME IInv, KeptInv, [Next]_vars
  PROVE  KeptInv'
<1>0. /\ 0 \notin CancelIds
      /\ \A t \in Tids : txns[t].cid = 0 \/ txns[t].cid \in CancelIds
  BY AsyncAssumption DEF IInv, TypeOK, Entry, CancelIds
<1>1. ASSUME UNCHANGED <<issued, workers, outcome, txns>> PROVE KeptInv'
  BY <1>1 DEF KeptInv, UnsharedReadKept, Unshared
<1>2. ASSUME NEW t \in Tids, NEW hs \in SUBSET Items, ReadBegin(t, hs)
      PROVE  KeptInv'
  <2>1. /\ issued \subseteq issued'
        /\ outcome' = [outcome EXCEPT ![next_cancel_id] = "called"]
        /\ UNCHANGED <<workers, txns>>
    BY <1>2 DEF ReadBegin
  <2>2. \A c \in CancelIds : outcome'[c] = "pending" => outcome[c] = "pending"
    BY <2>1 DEF IInv, TypeOK
  <2>3. \A c \in CancelIds : Unshared(c)' => Unshared(c)
    BY <2>1 DEF Unshared
  <2> QED
    BY <2>1, <2>2, <2>3 DEF KeptInv, UnsharedReadKept
<1>3. ASSUME NEW r \in calls, ReadInsert(r) PROVE KeptInv'
  <2> DEFINE old == txns[r.tid].cid
  <2>1. r \in issued /\ r.cid \in CancelIds /\ r.tid \in Tids
    BY DEF IInv, IssuedOnce, TypeOK, Request
  <2>2. /\ txns' = [txns EXCEPT ![r.tid] = [cid |-> r.cid, frames |-> r.frames]]
        /\ workers' = workers \cup {[cid |-> r.cid, tid |-> r.tid]}
        /\ UNCHANGED issued
    BY <1>3 DEF ReadInsert
  <2>3. \A c \in CancelIds : c # r.cid /\ outcome'[c] = "pending" =>
          c # old /\ outcome[c] = "pending"
    BY <1>3 DEF ReadInsert
  <2>4. txns'[r.tid].cid = r.cid /\ \A t \in Tids : t # r.tid => txns'[t] = txns[t]
    BY <2>1, <2>2 DEF IInv, TypeOK
  <2>5. UnsharedReadKept'
    <3> SUFFICES ASSUME NEW c \in CancelIds, outcome'[c] = "pending", Unshared(c)'
                 PROVE  \E t \in Tids : txns'[t].cid = c
      BY DEF UnsharedReadKept
    <3>1. CASE c = r.cid
      BY <2>1, <2>4, <3>1
    <3>2. CASE c # r.cid
      <4>1. Unshared(c)
        BY <2>2 DEF Unshared
      <4>2. PICK t \in Tids : txns[t].cid = c
        BY <2>3, <3>2, <4>1 DEF KeptInv, UnsharedReadKept
      <4> QED
        BY <2>3, <2>4, <3>2, <4>2
    <3> QED
      BY <3>1, <3>2
  <2> QED
    BY <2>1, <2>2, <2>5 DEF KeptInv
<1>4. ASSUME NEW w \in workers, WorkerTake(w) PROVE KeptInv'
  <2> DEFINE e == txns[w.tid]
  <2>1. w.tid \in Tids /\ w.cid \in CancelIds
    BY DEF IInv, TypeOK, Thread
  <2>2. /\ workers' \subseteq workers /\ UNCHANGED issued
        /\ \A t \in Tids : t # w.tid => txns'[t] = txns[t]
    BY <1>4, <2>1 DEF WorkerTake, IInv, TypeOK
  <2>3. \A c \in CancelIds : outcome'[c] = "pending" =>
          outcome[c] = "pending" /\ ~(c = e.cid /\ e.cid = w.cid)
    <3>1. CASE e.cid = w.cid
      BY <1>4, <2>1, <3>1 DEF WorkerTake, IInv, TypeOK
    <3>2. CASE e.cid # w.cid
      BY <1>4, <3>2 DEF WorkerTake
    <3> QED
      BY <3>1, <3>2
  <2>4. UnsharedReadKept'
    <3> SUFFICES ASSUME NEW c \in CancelIds, outcome'[c] = "pending", Unshared(c)'
                 PROVE  \E t \in Tids : txns'[t].cid = c
      BY DEF UnsharedReadKept
    <3>1. Unshared(c)
      BY <2>2 DEF Unshared
    <3>2. PICK t \in Tids : txns[t].cid = c
      BY <2>3, <3>1 DEF KeptInv, UnsharedReadKept
    <3>3. t # w.tid
      <4>1. SUFFICES ASSUME t = w.tid PROVE FALSE
        OBVIOUS
      <4>2. e.cid = c /\ c # 0 /\ c # w.cid
        BY <1>0, <2>3, <3>2, <4>1
      <4>3. [cid |-> c, tid |-> w.tid, frames |-> e.frames] \in issued
        BY <2>1, <4>2 DEF IInv, EntriesArePending
      <4>4. PICK r \in issued : r.cid = w.cid /\ r.tid = w.tid
        BY DEF KeptInv
      <4> QED
        BY <3>1, <4>2, <4>3, <4>4 DEF Unshared
    <3> QED
      BY <2>2, <3>2, <3>3
  <2> QED
    BY <2>2, <2>4 DEF KeptInv
<1>5. ASSUME NEW c \in CancelIds, Cancel2(c) PROVE KeptInv'
  <2>1. PICK t \in Tids : /\ txns[t].cid = c
                         /\ txns' = [txns EXCEPT ![t] = NoTxn]
    BY <1>5 DEF Cancel2
  <2>2. /\ outcome' = [outcome EXCEPT ![c] = "cancelled"]
        /\ UNCHANGED <<issued, workers>>
    BY <1>5 DEF Cancel2
  <2>3. /\ \A u \in Tids : u # t => txns'[u] = txns[u]
        /\ \A d \in CancelIds : outcome'[d] = "pending" =>
             outcome[d] = "pending" /\ d # c
    BY <2>1, <2>2 DEF IInv, TypeOK
  <2>4. \A d \in CancelIds : Unshared(d)' => Unshared(d)
    BY <2>2 DEF Unshared
  <2> QED
    BY <2>1, <2>2, <2>3, <2>4 DEF KeptInv, UnsharedReadKept
<1>6. ASSUME NEW t \in Tids, Refresh2(t) PROVE KeptInv'
  <2>1. /\ outcome' = [outcome EXCEPT ![next_cancel_id] = "refreshed"]
        /\ UNCHANGED <<issued, workers, txns>>
    BY <1>6 DEF Refresh2
  <2>2. \A c \in CancelIds : outcome'[c] = "pending" => outcome[c] = "pending"
    BY <2>1 DEF IInv, TypeOK
  <2>3. \A d \in CancelIds : Unshared(d)' => Unshared(d)
    BY <2>1 DEF Unshared
  <2> QED
    BY <2>1, <2>2, <2>3 DEF KeptInv, UnsharedReadKept
<1> QED
  BY <1>1, <1>2, <1>3, <1>4, <1>5, <1>6
     DEF Next, Client, Server, AddItem, RemoveItem, Advise, Unadvise,
         DropGroup, TypedSinks, Notify, Finish, vars

\* A transaction whose transaction id no other Read uses stays in `txns' until
\* its worker or a Cancel2 takes it, whatever other clients do with theirs.
THEOREM UnsharedKept == Spec => []UnsharedReadKept
<1>1. Init => KeptInv
  BY DEF Init, KeptInv, UnsharedReadKept
<1>2. IInv /\ KeptInv /\ [Next]_vars => KeptInv'
  BY KeptNext
<1>3. KeptInv => UnsharedReadKept
  BY DEF KeptInv
<1> QED
  BY <1>1, <1>2, <1>3, Invariance, PTL DEF Spec
=============================================================================
