------------------------ MODULE PrintJournal_proofs ------------------------
(***************************************************************************)
(* Proofs about PrintJournal, for every set of prints and scopes, every    *)
(* batch size, every set of faults and any number of crashes.              *)
(*                                                                         *)
(* The invariants are proved together.  What links them: a sheet carries   *)
(* the number of its own job, a reservation has a higher number than every *)
(* older job of its scope, and what was read for a push is settled, hence  *)
(* final.                                                                  *)
(***************************************************************************)
EXTENDS PrintJournal, SequenceTheorems, TLAPS

(* A print at each stage has the job, the number and the outcome that      *)
(* stage implies; a job belongs to one print.                              *)
HandlersInv ==
  /\ \A p \in Prints :
       /\ stage[p] \in {"new", "unnumbered"} => job[p] = 0
       /\ stage[p] \in {"reserved", "settled"} => job[p] # 0
       /\ stage[p] \in {"unnumbered", "ended"} /\ job[p] = 0 => copy[p] = 1
       /\ stage[p] = "ended" => outcome[p] # "none"
       /\ job[p] # 0 => /\ copy[p] = jobs[job[p]].no
                        /\ ScopeOf[p] = jobs[job[p]].scope
  /\ \A p, q \in Prints : job[p] = job[q] /\ job[p] # 0 => p = q

(* A reservation is numbered past every older job of its scope, and the    *)
(* numbers of a scope begin at 1.                                          *)
NumbersInv ==
  /\ \A i, j \in Jobs :
       i < j /\ jobs[i].scope = jobs[j].scope /\ jobs[j].reserved => jobs[i].no < jobs[j].no
  /\ \A s \in Scopes : NumbersOf(s) # {} => 1 \in NumbersOf(s)

(* An acknowledged batch is on Cloud. *)
AcknowledgedInv == answer = "ok" => batch \subseteq ledger

IInv == /\ TypeOK /\ HandlersInv /\ NumbersInv
        /\ CloudNeverContradicted /\ SyncedIsOnCloud /\ AcknowledgedInv

-----------------------------------------------------------------------------
(* How print_jobs may change: rows are appended, keep what identifies them *)
(* and the status they settled with, and are stamped when on Cloud.        *)

Grows ==
  /\ jobs' \in Seq(Job)
  /\ Len(jobs') \in {Len(jobs), Len(jobs) + 1}
  /\ \A i \in Jobs :
       /\ jobs'[i].scope = jobs[i].scope
       /\ jobs'[i].no = jobs[i].no
       /\ jobs'[i].reserved = jobs[i].reserved
       /\ jobs[i].status # "queued" => jobs'[i].status = jobs[i].status
       /\ jobs'[i].synced => jobs[i].synced \/ ReportOf(i) \in ledger
  /\ \A i \in Jobs' \ Jobs : ~jobs'[i].synced

LEMMA JobsTyped ==
  ASSUME TypeOK
  PROVE  Len(jobs) \in Nat /\ jobs \in [Jobs -> Job]
  BY LenProperties, SeqDef DEF TypeOK, Jobs

LEMMA JobsUntouched ==
  ASSUME TypeOK, UNCHANGED jobs
  PROVE  Grows
  BY LenProperties DEF TypeOK, Grows, Jobs

LEMMA JobAppended ==
  ASSUME TypeOK, NEW j \in Job, ~j.synced, jobs' = Append(jobs, j)
  PROVE  /\ Grows
         /\ Len(jobs') = Len(jobs) + 1 /\ jobs'[Len(jobs) + 1] = j
         /\ \A i \in Jobs : jobs'[i] = jobs[i]
  <1>1. Len(jobs) \in Nat
    BY LenProperties DEF TypeOK
  <1>2. /\ jobs' \in Seq(Job) /\ Len(jobs') = Len(jobs) + 1
        /\ \A i \in Jobs : jobs'[i] = jobs[i]
        /\ jobs'[Len(jobs) + 1] = j
    BY AppendProperties DEF TypeOK, Jobs
  <1> QED BY <1>1, <1>2 DEF Grows, Jobs

LEMMA JobsRewritten ==
  ASSUME TypeOK, jobs' \in [Jobs -> Job]
  PROVE  jobs' \in Seq(Job) /\ Len(jobs') = Len(jobs)
  <1>1. Len(jobs) \in Nat
    BY LenProperties DEF TypeOK
  <1> QED BY <1>1, SeqDef DEF Jobs

LEMMA AddJobMove ==
  ASSUME TypeOK, NEW p \in Prints, NEW n \in Nat \ {0},
         NEW status \in Final \cup {"queued"}, NEW reserved \in BOOLEAN,
         AddJob(p, n, status, reserved)
  PROVE  /\ Grows
         /\ Len(jobs') = Len(jobs) + 1
         /\ jobs'[Len(jobs) + 1] = [scope |-> ScopeOf[p], no |-> n, status |-> status,
                                    reserved |-> reserved, synced |-> FALSE]
         /\ \A i \in Jobs : jobs'[i] = jobs[i]
  <1> DEFINE j == [scope |-> ScopeOf[p], no |-> n, status |-> status,
                   reserved |-> reserved, synced |-> FALSE]
  <1>1. j \in Job /\ ~j.synced
    BY PrintJournalAssumption DEF Job
  <1>2. jobs' = Append(jobs, j)
    BY DEF AddJob
  <1> HIDE DEF j
  <1>3. /\ Grows /\ Len(jobs') = Len(jobs) + 1 /\ jobs'[Len(jobs) + 1] = j
        /\ \A i \in Jobs : jobs'[i] = jobs[i]
    BY <1>1, <1>2, JobAppended
  <1> QED BY <1>3 DEF j

(* The number a reservation takes lies past all others of the scope. *)
LEMMA NextNumber ==
  ASSUME TypeOK, NEW s \in Scopes, NEW n \in 0..(Len(jobs) + 1), IsNextNumber(n, s)
  PROVE  n \in Nat \ {0} /\ \A i \in Jobs : jobs[i].scope = s => jobs[i].no < n
  <1>1. \A i \in Jobs : jobs[i].no \in Nat \ {0}
    BY JobsTyped DEF Job
  <1>2. Len(jobs) \in Nat
    BY JobsTyped
  <1>3. \A i \in Jobs : jobs[i].scope = s => jobs[i].no \in NumbersOf(s)
    BY DEF NumbersOf
  <1>4. \A m \in NumbersOf(s) : m \in Nat \ {0}
    BY <1>1 DEF NumbersOf
  <1> QED BY <1>1, <1>2, <1>3, <1>4 DEF IsNextNumber

(* What Reserve and Record append, in the terms of AddJobMove. *)
LEMMA ReserveMove ==
  ASSUME IInv, NEW p \in Prints, Reserve(p)
  PROVE  \E n \in Nat \ {0} :
           /\ IsNextNumber(n, ScopeOf[p])
           /\ \A i \in Jobs : jobs[i].scope = ScopeOf[p] => jobs[i].no < n
           /\ AddJob(p, n, "queued", TRUE)
           /\ copy' = [copy EXCEPT ![p] = n]
  <1>1. PICK n \in 0..(Len(jobs) + 1) : /\ IsNextNumber(n, ScopeOf[p])
                                        /\ AddJob(p, n, "queued", TRUE)
                                        /\ copy' = [copy EXCEPT ![p] = n]
    BY DEF Reserve
  <1>2. ScopeOf[p] \in Scopes
    BY PrintJournalAssumption
  <1>3. n \in Nat \ {0} /\ \A i \in Jobs : jobs[i].scope = ScopeOf[p] => jobs[i].no < n
    BY <1>1, <1>2, NextNumber DEF IInv
  <1> QED BY <1>1, <1>3

LEMMA RecordMove ==
  ASSUME IInv, NEW p \in Prints, Record(p)
  PROVE  /\ copy[p] = 1 /\ outcome[p] \in {"printed", "failed"}
         /\ AddJob(p, 1, outcome[p], FALSE)
  BY DEF IInv, HandlersInv, TypeOK, Record

(* Every step leaves print_jobs alone, rewrites it or appends to it. *)
LEMMA JobsGrow ==
  ASSUME IInv, Next
  PROVE  Grows
  <1> USE DEF IInv
  <1>0. Len(jobs) \in Nat /\ jobs \in [Jobs -> Job]
    BY JobsTyped
  <1>1. ASSUME NEW p \in Prints, Reserve(p) PROVE Grows
    <2>1. PICK n \in Nat \ {0} : AddJob(p, n, "queued", TRUE)
      BY <1>1, ReserveMove
    <2> QED BY <2>1, AddJobMove DEF Final
  <1>2. ASSUME NEW p \in Prints, Record(p) PROVE Grows
    <2>1. AddJob(p, 1, outcome[p], FALSE) /\ outcome[p] \in Final \cup {"queued"}
      BY <1>2, RecordMove DEF Final
    <2>2. 1 \in Nat \ {0} /\ FALSE \in BOOLEAN
      OBVIOUS
    <2> QED BY <2>1, <2>2, AddJobMove
  <1>3. ASSUME NEW p \in Prints, Confirm(p) PROVE Grows
    <2>1. CASE jobs[job[p]].status = "queued"
      <3>1. job[p] \in Jobs /\ outcome[p] \in Final
        BY <1>3 DEF Confirm, TypeOK, HandlersInv, Final
      <3>2. jobs' = [jobs EXCEPT ![job[p]].status = outcome[p]]
        BY <1>3, <2>1 DEF Confirm
      <3>3. jobs' \in [Jobs -> Job]
        BY <1>0, <3>1, <3>2 DEF Job
      <3>4. jobs' \in Seq(Job) /\ Len(jobs') = Len(jobs)
        BY <3>3, JobsRewritten
      <3> QED BY <1>0, <2>1, <3>1, <3>2, <3>4 DEF Grows, Jobs
    <2>2. CASE jobs[job[p]].status # "queued"
      BY <1>3, <2>2, JobsUntouched DEF Confirm
    <2> QED BY <2>1, <2>2
  <1>4. CASE MarkSynced
    <2>1. jobs' = [i \in Jobs |-> [jobs[i] EXCEPT !.synced = @ \/ \E r \in batch : r.id = i]]
      BY <1>4 DEF MarkSynced, Stamped
    <2>2. jobs' \in [Jobs -> Job]
      BY <1>0, <2>1 DEF Job
    <2>3. jobs' \in Seq(Job) /\ Len(jobs') = Len(jobs)
      BY <2>2, JobsRewritten
    <2>4. \A i \in Jobs : (\E r \in batch : r.id = i) => ReportOf(i) \in ledger
      BY <1>4 DEF MarkSynced, Stamped, AcknowledgedInv, CloudNeverContradicted, OnTheWay
    <2> QED BY <1>0, <2>1, <2>3, <2>4 DEF Grows, Jobs, Job
  <1>5. CASE SweepStaleReservations
    <2>1. PICK n \in 0..Len(jobs) :
            jobs' = [i \in Jobs |-> IF Stale(i, n) THEN [jobs[i] EXCEPT !.status = "needs_attention"]
                                    ELSE jobs[i]]
      BY <1>5 DEF SweepStaleReservations
    <2>2. jobs' \in [Jobs -> Job]
      BY <1>0, <2>1 DEF Job, Final
    <2>3. jobs' \in Seq(Job) /\ Len(jobs') = Len(jobs)
      BY <2>2, JobsRewritten
    <2> QED BY <1>0, <2>1, <2>3 DEF Grows, Jobs, Job, Stale
  <1>6. CASE UNCHANGED jobs
    BY <1>6, JobsUntouched
  <1> QED
    BY <1>1, <1>2, <1>3, <1>4, <1>5, <1>6
    DEF Next, HandlerStep, DrainStep, Startup, Unnumbered, Attempt, SettleFails, Notify, Drain,
        CloudAccepts, CloudRefuses, PushLost, RetryLater, BurnAttempt, Restart, SweepFails,
        Crash, LatePush, db

(* Only Reserve and Record append. *)
LEMMA JobsGrowByPrints ==
  ASSUME IInv, Next
  PROVE  Len(jobs') = Len(jobs) \/ \E p \in Prints : Reserve(p) \/ Record(p)
  <1>1. jobs \in [Jobs -> Job] /\ Len(jobs) \in Nat
    BY JobsTyped DEF IInv
  <1>2. jobs' \in [Jobs -> Job] => Len(jobs') = Len(jobs)
    BY JobsRewritten DEF IInv
  <1>3. ASSUME NEW p \in Prints, Confirm(p) PROVE jobs' \in [Jobs -> Job]
    <2>1. job[p] \in Jobs /\ outcome[p] \in Final
      BY <1>3 DEF Confirm, IInv, TypeOK, HandlersInv, Final
    <2>2. CASE jobs' = [jobs EXCEPT ![job[p]].status = outcome[p]]
      BY <1>1, <2>1, <2>2 DEF Job
    <2> QED BY <1>1, <1>3, <2>2 DEF Confirm
  <1>4. CASE MarkSynced
    BY <1>1, <1>2, <1>4 DEF MarkSynced, Stamped, Job
  <1>5. CASE SweepStaleReservations
    BY <1>1, <1>2, <1>5 DEF SweepStaleReservations, Job, Final
  <1>6. CASE UNCHANGED jobs
    BY <1>6
  <1> QED
    BY <1>2, <1>3, <1>4, <1>5, <1>6
    DEF Next, HandlerStep, DrainStep, Startup, Unnumbered, Attempt, SettleFails, Notify, Drain,
        CloudAccepts, CloudRefuses, PushLost, RetryLater, BurnAttempt, Restart, SweepFails,
        Crash, LatePush, db

-----------------------------------------------------------------------------
(* What this leaves of a settled report, and of the numbers of a scope.    *)

LEMMA ReportKept ==
  ASSUME TypeOK, Grows, NEW i \in Jobs, jobs[i].status # "queued"
  PROVE  i \in Jobs' /\ ReportOf(i)' = ReportOf(i)
  BY JobsTyped DEF Grows, ReportOf, Jobs

(* What was read for a push is settled. *)
LEMMA ReadIsFinal ==
  ASSUME IInv, NEW r \in OnTheWay
  PROVE  r.id \in Jobs /\ r = ReportOf(r.id) /\ jobs[r.id].status \in Final
  <1>1. r \in Reports
    BY DEF IInv, TypeOK, OnTheWay
  <1>2. r.id \in Jobs /\ r = ReportOf(r.id)
    BY DEF IInv, CloudNeverContradicted
  <1>3. r.status = jobs[r.id].status
    BY <1>2 DEF ReportOf
  <1> QED BY <1>1, <1>2, <1>3 DEF Reports

LEMMA PendingIsFinal ==
  ASSUME TypeOK, NEW r \in UNION Pending
  PROVE  r \in Reports /\ r.id \in Jobs /\ r = ReportOf(r.id)
  <1>1. PICK i \in Jobs : Unsynced(i) /\ r = ReportOf(i)
    BY DEF Pending, Backlog
  <1>2. jobs[i] \in Job /\ i \in Nat
    BY JobsTyped DEF Jobs
  <1> QED BY <1>1, <1>2 DEF ReportOf, Reports, Job, Unsynced

LEMMA NumbersKeptWithout ==
  ASSUME TypeOK, Grows, Len(jobs') = Len(jobs), NEW s \in Scopes
  PROVE  NumbersOf(s)' = NumbersOf(s)
  BY JobsTyped DEF Grows, NumbersOf, Jobs

LEMMA NumbersGrow ==
  ASSUME TypeOK, NEW p \in Prints, NEW n \in Nat \ {0},
         NEW status \in Final \cup {"queued"}, NEW reserved \in BOOLEAN,
         AddJob(p, n, status, reserved), NEW s \in Scopes
  PROVE  NumbersOf(s)' = IF s = ScopeOf[p] THEN NumbersOf(s) \cup {n} ELSE NumbersOf(s)
  <1>1. /\ Len(jobs') = Len(jobs) + 1
        /\ jobs'[Len(jobs) + 1].scope = ScopeOf[p] /\ jobs'[Len(jobs) + 1].no = n
        /\ \A i \in Jobs : jobs'[i] = jobs[i]
    <2>1. jobs'[Len(jobs) + 1] = [scope |-> ScopeOf[p], no |-> n, status |-> status,
                                  reserved |-> reserved, synced |-> FALSE]
      BY AddJobMove
    <2> QED BY <2>1, AddJobMove
  <1>2. Len(jobs) \in Nat
    BY JobsTyped
  <1>3. Jobs' = Jobs \cup {Len(jobs) + 1} /\ Len(jobs) + 1 \notin Jobs
    BY <1>1, <1>2 DEF Jobs
  <1>4. \A m : m \in NumbersOf(s)' <=> m \in NumbersOf(s) \/ (s = ScopeOf[p] /\ m = n)
    BY <1>1, <1>3 DEF NumbersOf
  <1> QED BY <1>4

-----------------------------------------------------------------------------
(* The invariants hold initially and are kept by every step. *)

LEMMA InitEstablishes ==
  ASSUME Init
  PROVE  IInv
  <1>1. jobs \in Seq(Job) /\ Len(jobs) = 0
    BY EmptySeq DEF Init
  <1>2. Jobs = {}
    BY <1>1 DEF Jobs
  <1>3. TypeOK
    BY <1>1, <1>2 DEF Init, TypeOK
  <1>4. HandlersInv /\ NumbersInv
    BY <1>2 DEF Init, HandlersInv, NumbersInv, NumbersOf
  <1>5. CloudNeverContradicted /\ SyncedIsOnCloud /\ AcknowledgedInv
    BY <1>2 DEF Init, CloudNeverContradicted, OnTheWay, SyncedIsOnCloud, AcknowledgedInv
  <1> QED BY <1>3, <1>4, <1>5 DEF IInv

LEMMA TypeKept ==
  ASSUME IInv, Next
  PROVE  TypeOK'
  <1> USE DEF IInv
  <1>0. /\ jobs' \in Seq(Job) /\ Len(jobs) \in Nat
        /\ Len(jobs') \in {Len(jobs), Len(jobs) + 1} /\ Jobs \subseteq Jobs'
    BY JobsGrow, JobsTyped DEF Grows, Jobs
  <1>1. ASSUME NEW p \in Prints, Reserve(p) PROVE TypeOK'
    <2>1. PICK n \in Nat \ {0} : AddJob(p, n, "queued", TRUE) /\ copy' = [copy EXCEPT ![p] = n]
      BY <1>1, ReserveMove
    <2>2. Len(jobs') = Len(jobs) + 1
      BY <2>1, AddJobMove DEF Final
    <2>3. Len(jobs) + 1 \in Jobs'
      BY <1>0, <2>2 DEF Jobs
    <2> QED BY <1>0, <1>1, <2>1, <2>3 DEF TypeOK, Reserve, AddJob, engine, process, remote
  <1>2. ASSUME NEW p \in Prints, Record(p) PROVE TypeOK'
    <2>1. AddJob(p, 1, outcome[p], FALSE) /\ outcome[p] \in Final \cup {"queued"}
      BY <1>2, RecordMove DEF Final
    <2>2. 1 \in Nat \ {0} /\ FALSE \in BOOLEAN
      OBVIOUS
    <2>3. Len(jobs') = Len(jobs) + 1
      BY <2>1, <2>2, AddJobMove
    <2>4. Len(jobs) + 1 \in Jobs'
      BY <1>0, <2>3 DEF Jobs
    <2> QED BY <1>0, <1>2, <2>1, <2>4 DEF TypeOK, Record, AddJob, engine, process, remote
  <1>3. ASSUME NEW p \in Prints, Unnumbered(p) \/ Attempt(p) \/ Confirm(p) \/ SettleFails(p)
        PROVE  TypeOK'
    <2>1. CASE Unnumbered(p)
      BY <1>0, <2>1 DEF TypeOK, Unnumbered, Strikes, db, engine, process, remote
    <2>2. CASE Attempt(p)
      BY <1>0, <2>2 DEF TypeOK, Attempt, db, engine, process, remote
    <2>3. CASE Confirm(p)
      BY <1>0, <2>3 DEF TypeOK, Confirm, engine, process, remote
    <2>4. CASE SettleFails(p)
      BY <1>0, <2>4 DEF TypeOK, SettleFails, Strikes, db, engine, process, remote
    <2> QED BY <1>3, <2>1, <2>2, <2>3, <2>4
  <1>4. ASSUME NEW p \in Prints, Notify(p) PROVE TypeOK'
    <2>1. job[p] \in Jobs
      BY <1>4 DEF Notify, HandlersInv, TypeOK
    <2> QED BY <1>0, <1>4, <2>1 DEF TypeOK, Notify, Strikes, engine, process, remote
  <1>5. ASSUME NEW t \in triggers, Drain(t) PROVE TypeOK'
    <2>1. \A rows \in Pending : rows \subseteq Reports
      BY PendingIsFinal
    <2> QED BY <1>0, <1>5, <2>1 DEF TypeOK, Drain, db, handlers, process, remote
  <1>6. CASE CloudAccepts \/ CloudRefuses \/ PushLost \/ \E reports \in late : LatePush(reports)
    <2>1. CASE CloudAccepts
      BY <1>0, <2>1 DEF TypeOK, CloudAccepts, Ingest, Recorded, db, handlers, process
    <2>2. CASE CloudRefuses
      BY <1>0, <2>2 DEF TypeOK, CloudRefuses, Strikes, db, handlers, process, remote
    <2>3. CASE PushLost
      BY <1>0, <2>3 DEF TypeOK, PushLost, Strikes, db, handlers, process
    <2>4. ASSUME NEW reports \in late, LatePush(reports) PROVE TypeOK'
      BY <1>0, <2>4 DEF TypeOK, LatePush, Ingest, Recorded, db, handlers, engine, process
    <2> QED BY <1>6, <2>1, <2>2, <2>3, <2>4
  <1>7. CASE MarkSynced \/ RetryLater \/ BurnAttempt
    BY <1>0, <1>7 DEF TypeOK, MarkSynced, Stamped, RetryLater, BurnAttempt, DrainEnds,
       Strikes, db, handlers, process, remote
  <1>8. CASE Crash
    BY <1>0, <1>8 DEF TypeOK, Crash, DrainEnds, db
  <1>9. CASE Restart \/ SweepStaleReservations \/ SweepFails
    BY <1>0, <1>9 DEF TypeOK, Restart, SweepStaleReservations, SweepFails, Strikes, db,
       handlers, engine, remote
  <1> QED BY <1>1, <1>2, <1>3, <1>4, <1>5, <1>6, <1>7, <1>8, <1>9
          DEF Next, HandlerStep, DrainStep, Startup

LEMMA CloudKept ==
  ASSUME IInv, Next
  PROVE  CloudNeverContradicted' /\ SyncedIsOnCloud' /\ AcknowledgedInv'
  <1> USE DEF IInv
  <1>0. Grows /\ TypeOK'
    BY JobsGrow, TypeKept
  <1>1. \A r \in OnTheWay : r.id \in Jobs' /\ r = ReportOf(r.id)'
    BY <1>0, ReadIsFinal, ReportKept DEF Final
  <1>2. /\ ledger \subseteq ledger'
        /\ \/ /\ OnTheWay' \subseteq OnTheWay
              /\ answer' = "ok" => \/ answer = "ok" /\ batch' = batch
                                  \/ batch' \subseteq ledger'
           \/ /\ UNCHANGED <<jobs, ledger>> /\ OnTheWay' \subseteq OnTheWay \cup UNION Pending
              /\ answer' = "ok" => batch' = {}
    <2>1. ASSUME NEW p \in Prints, HandlerStep(p) PROVE UNCHANGED <<ledger, late, batch, answer>>
      BY <2>1 DEF HandlerStep, Reserve, Unnumbered, Attempt, Confirm, Record, SettleFails, Notify,
         engine, remote
    <2>2. ASSUME NEW t \in triggers, Drain(t)
          PROVE  /\ UNCHANGED <<jobs, ledger, late>> /\ batch' \in Pending
                 /\ answer' = "ok" => batch' = {}
      BY <2>2 DEF Drain, db, remote
    <2>3. CASE CloudAccepts
      <3>1. ledger' = ledger \cup Recorded(batch) /\ UNCHANGED <<batch, late>>
        BY <2>3 DEF CloudAccepts, Ingest
      <3>2. ASSUME NEW r \in batch PROVE r \in ledger'
        <4>1. CASE \A q \in ledger : q.id # r.id
          BY <3>1, <4>1 DEF Recorded
        <4>2. ASSUME NEW q \in ledger, q.id = r.id PROVE r \in ledger
          BY <4>2, ReadIsFinal DEF OnTheWay
        <4> QED BY <3>1, <4>1, <4>2
      <3> QED BY <3>1, <3>2 DEF OnTheWay, Recorded
    <2>4. CASE CloudRefuses \/ RetryLater \/ BurnAttempt \/ MarkSynced
      BY <2>4 DEF CloudRefuses, RetryLater, BurnAttempt, MarkSynced, Stamped, DrainEnds,
         OnTheWay, remote
    <2>5. CASE PushLost
      BY <2>5 DEF PushLost, OnTheWay
    <2>6. ASSUME NEW reports \in late, LatePush(reports)
          PROVE  /\ ledger \subseteq ledger' /\ OnTheWay' \subseteq OnTheWay
                 /\ UNCHANGED <<batch, answer>>
      BY <2>6 DEF LatePush, Ingest, Recorded, OnTheWay, engine
    <2>7. CASE Crash
      BY <2>7 DEF Crash, DrainEnds, OnTheWay
    <2>8. CASE Startup
      BY <2>8 DEF Startup, Restart, SweepStaleReservations, SweepFails, engine, remote, OnTheWay
    <2> QED BY <2>1, <2>2, <2>3, <2>4, <2>5, <2>6, <2>7, <2>8 DEF Next, DrainStep, OnTheWay
  <1>3. CloudNeverContradicted'
    <2>1. CASE OnTheWay' \subseteq OnTheWay
      BY <1>1, <2>1 DEF CloudNeverContradicted
    <2>2. CASE UNCHANGED jobs /\ OnTheWay' \subseteq OnTheWay \cup UNION Pending
      BY <1>1, <2>2, PendingIsFinal DEF CloudNeverContradicted, ReportOf, Jobs
    <2> QED BY <1>2, <2>1, <2>2
  <1>4. SyncedIsOnCloud'
    <2> SUFFICES ASSUME NEW i \in Jobs', jobs'[i].synced PROVE ReportOf(i)' \in ledger'
      BY DEF SyncedIsOnCloud
    <2>1. i \in Jobs /\ ReportOf(i) \in ledger
      BY <1>0 DEF Grows, SyncedIsOnCloud
    <2>2. jobs[i].status # "queued"
      <3>1. ReportOf(i).id = i
        BY DEF ReportOf
      <3> QED BY <2>1, <3>1, ReadIsFinal DEF OnTheWay, Final
    <2> QED BY <1>0, <1>2, <2>1, <2>2, ReportKept
  <1>5. AcknowledgedInv'
    BY <1>2 DEF AcknowledgedInv
  <1> QED BY <1>3, <1>4, <1>5

(* A print that appends its own job, numbered as the sheet. *)
LEMMA OwnJob ==
  ASSUME IInv, NEW p \in Prints, job[p] = 0, NEW n \in Nat \ {0},
         NEW status \in Final \cup {"queued"}, NEW reserved \in BOOLEAN,
         AddJob(p, n, status, reserved), copy' = [copy EXCEPT ![p] = n],
         NEW to \in {"reserved", "settled"}, stage' = [stage EXCEPT ![p] = to],
         UNCHANGED outcome
  PROVE  HandlersInv'
  <1> USE DEF IInv
  <1>1. /\ Len(jobs') = Len(jobs) + 1 /\ Len(jobs) \in Nat
        /\ \A i \in Jobs : jobs'[i] = jobs[i]
    BY AddJobMove, JobsTyped
  <1>2. jobs'[Len(jobs) + 1] = [scope |-> ScopeOf[p], no |-> n, status |-> status,
                                reserved |-> reserved, synced |-> FALSE]
    BY AddJobMove
  <1>3. jobs'[Len(jobs) + 1].no = n /\ jobs'[Len(jobs) + 1].scope = ScopeOf[p]
    BY <1>2
  <1>4. job' = [job EXCEPT ![p] = Len(jobs) + 1]
    BY DEF AddJob
  <1>5. \A q \in Prints : job[q] # 0 => job[q] \in Jobs /\ job[q] # Len(jobs) + 1
    BY <1>1 DEF TypeOK, Jobs
  <1>6. ASSUME NEW q \in Prints
        PROVE  /\ stage'[q] \in {"new", "unnumbered"} => job'[q] = 0
               /\ stage'[q] \in {"reserved", "settled"} => job'[q] # 0
               /\ stage'[q] \in {"unnumbered", "ended"} /\ job'[q] = 0 => copy'[q] = 1
               /\ stage'[q] = "ended" => outcome'[q] # "none"
               /\ job'[q] # 0 => /\ copy'[q] = jobs'[job'[q]].no
                                 /\ ScopeOf[q] = jobs'[job'[q]].scope
    <2>1. CASE q = p
      <3>1. job'[q] = Len(jobs) + 1 /\ copy'[q] = n /\ stage'[q] = to
        BY <1>4, <2>1 DEF TypeOK
      <3> QED BY <1>1, <1>3, <2>1, <3>1
    <2>2. CASE q # p
      <3>1. job'[q] = job[q] /\ copy'[q] = copy[q] /\ stage'[q] = stage[q]
            /\ outcome'[q] = outcome[q]
        BY <1>4, <2>2 DEF TypeOK
      <3>2. job[q] # 0 => jobs'[job[q]] = jobs[job[q]]
        BY <1>1, <1>5
      <3> QED BY <3>1, <3>2 DEF HandlersInv
    <2> QED BY <2>1, <2>2
  <1>7. \A q, r \in Prints : job'[q] = job'[r] /\ job'[q] # 0 => q = r
    BY <1>4, <1>5 DEF HandlersInv, TypeOK
  <1> QED BY <1>6, <1>7 DEF HandlersInv

LEMMA HandlersKept ==
  ASSUME IInv, Next
  PROVE  HandlersInv'
  <1> USE DEF IInv
  <1>0. \A p \in Prints :
          job[p] # 0 => /\ jobs'[job[p]].no = jobs[job[p]].no
                        /\ jobs'[job[p]].scope = jobs[job[p]].scope
    BY JobsGrow DEF Grows, TypeOK
  <1>1. ASSUME NEW p \in Prints, Reserve(p) PROVE HandlersInv'
    <2>1. PICK n \in Nat \ {0} : AddJob(p, n, "queued", TRUE) /\ copy' = [copy EXCEPT ![p] = n]
      BY <1>1, ReserveMove
    <2>2. /\ job[p] = 0 /\ stage' = [stage EXCEPT ![p] = "reserved"] /\ UNCHANGED outcome
      BY <1>1 DEF Reserve, HandlersInv
    <2>3. "queued" \in Final \cup {"queued"} /\ TRUE \in BOOLEAN
          /\ "reserved" \in {"reserved", "settled"}
      OBVIOUS
    <2> QED BY <2>1, <2>2, <2>3, OwnJob
  <1>2. ASSUME NEW p \in Prints, Record(p) PROVE HandlersInv'
    <2>1. /\ AddJob(p, 1, outcome[p], FALSE) /\ outcome[p] \in Final \cup {"queued"}
          /\ copy[p] = 1
      BY <1>2, RecordMove DEF Final
    <2>2. /\ job[p] = 0 /\ stage' = [stage EXCEPT ![p] = "settled"]
          /\ UNCHANGED <<copy, outcome>>
      BY <1>2 DEF Record
    <2>3. copy' = [copy EXCEPT ![p] = 1]
      BY <2>1, <2>2 DEF TypeOK
    <2>4. 1 \in Nat \ {0} /\ FALSE \in BOOLEAN /\ "settled" \in {"reserved", "settled"}
      OBVIOUS
    <2> QED BY <2>1, <2>2, <2>3, <2>4, OwnJob
  <1>3. ASSUME NEW p \in Prints, Unnumbered(p) PROVE HandlersInv'
    BY <1>0, <1>3 DEF HandlersInv, TypeOK, Unnumbered
  <1>4. ASSUME NEW p \in Prints, Attempt(p) PROVE HandlersInv'
    BY <1>0, <1>4 DEF HandlersInv, TypeOK, Attempt
  <1>5. ASSUME NEW p \in Prints, Confirm(p) PROVE HandlersInv'
    BY <1>0, <1>5 DEF HandlersInv, TypeOK, Confirm
  <1>6. ASSUME NEW p \in Prints, SettleFails(p) \/ Notify(p) PROVE HandlersInv'
    <2>1. stage' = [stage EXCEPT ![p] = "done"] /\ UNCHANGED <<job, copy, outcome>>
      BY <1>6 DEF SettleFails, Notify
    <2> QED BY <1>0, <2>1 DEF HandlersInv, TypeOK
  <1>7. CASE Crash
    BY <1>0, <1>7 DEF HandlersInv, TypeOK, Crash, Live
  <1>8. CASE UNCHANGED handlers
    BY <1>0, <1>8 DEF HandlersInv, handlers
  <1> QED
    BY <1>1, <1>2, <1>3, <1>4, <1>5, <1>6, <1>7, <1>8
    DEF Next, HandlerStep, DrainStep, Startup, Drain, CloudAccepts, CloudRefuses, PushLost,
        MarkSynced, Stamped, RetryLater, BurnAttempt, Restart, SweepStaleReservations,
        SweepFails, LatePush

LEMMA NumbersKept ==
  ASSUME IInv, Next
  PROVE  NumbersInv'
  <1> USE DEF IInv
  <1>0. Grows /\ Len(jobs) \in Nat
    BY JobsGrow, JobsTyped
  <1>1. ASSUME NEW p \in Prints, NEW n \in Nat \ {0}, NEW status \in Final \cup {"queued"},
               NEW reserved \in BOOLEAN, AddJob(p, n, status, reserved),
               reserved => \A i \in Jobs : jobs[i].scope = ScopeOf[p] => jobs[i].no < n,
               n = 1 \/ NumbersOf(ScopeOf[p]) # {}
        PROVE  NumbersInv'
    <2>1. /\ Len(jobs') = Len(jobs) + 1 /\ \A i \in Jobs : jobs'[i] = jobs[i]
      BY <1>1, AddJobMove
    <2>2. jobs'[Len(jobs) + 1] = [scope |-> ScopeOf[p], no |-> n, status |-> status,
                                  reserved |-> reserved, synced |-> FALSE]
      BY <1>1, AddJobMove
    <2>3. /\ jobs'[Len(jobs) + 1].no = n /\ jobs'[Len(jobs) + 1].scope = ScopeOf[p]
          /\ jobs'[Len(jobs) + 1].reserved = reserved
      BY <2>2
    <2>4. \A i, j \in Jobs' : i < j => i \in Jobs /\ (j \in Jobs \/ j = Len(jobs) + 1)
      BY <1>0, <2>1 DEF Jobs
    <2>5. \A i, j \in Jobs' :
            i < j /\ jobs'[i].scope = jobs'[j].scope /\ jobs'[j].reserved
              => jobs'[i].no < jobs'[j].no
      BY <1>1, <2>1, <2>3, <2>4 DEF NumbersInv
    <2>6. ASSUME NEW s \in Scopes, NumbersOf(s)' # {} PROVE 1 \in NumbersOf(s)'
      <3>1. NumbersOf(s)' = IF s = ScopeOf[p] THEN NumbersOf(s) \cup {n} ELSE NumbersOf(s)
        BY <1>1, NumbersGrow
      <3> QED BY <1>1, <2>6, <3>1 DEF NumbersInv
    <2> QED BY <2>5, <2>6 DEF NumbersInv
  <1>2. ASSUME NEW p \in Prints, Reserve(p) PROVE NumbersInv'
    <2>1. PICK n \in Nat \ {0} :
            /\ IsNextNumber(n, ScopeOf[p])
            /\ \A i \in Jobs : jobs[i].scope = ScopeOf[p] => jobs[i].no < n
            /\ AddJob(p, n, "queued", TRUE)
      BY <1>2, ReserveMove
    <2>2. n = 1 \/ NumbersOf(ScopeOf[p]) # {}
      BY <2>1 DEF IsNextNumber
    <2>3. "queued" \in Final \cup {"queued"} /\ TRUE \in BOOLEAN
      OBVIOUS
    <2> QED BY <1>1, <2>1, <2>2, <2>3
  <1>3. ASSUME NEW p \in Prints, Record(p) PROVE NumbersInv'
    <2>1. AddJob(p, 1, outcome[p], FALSE) /\ outcome[p] \in Final \cup {"queued"}
      BY <1>3, RecordMove DEF Final
    <2>2. 1 \in Nat \ {0} /\ FALSE \in BOOLEAN
      OBVIOUS
    <2> QED BY <1>1, <2>1, <2>2
  <1>4. CASE Len(jobs') = Len(jobs)
    <2>1. Jobs' = Jobs
      BY <1>4 DEF Jobs
    <2>2. \A s \in Scopes : NumbersOf(s)' = NumbersOf(s)
      BY <1>0, <1>4, NumbersKeptWithout
    <2> QED BY <1>0, <2>1, <2>2 DEF NumbersInv, Grows
  <1>5. Len(jobs') = Len(jobs) \/ \E p \in Prints : Reserve(p) \/ Record(p)
    BY JobsGrowByPrints
  <1> QED BY <1>2, <1>3, <1>4, <1>5

LEMMA StepKeeps ==
  ASSUME IInv, [Next]_vars
  PROVE  IInv'
  <1>1. CASE Next
    BY <1>1, TypeKept, HandlersKept, NumbersKept, CloudKept DEF IInv
  <1>2. CASE UNCHANGED vars
    <2> USE DEF vars, db, handlers, engine, process, remote
    <2>0. /\ jobs' = jobs /\ triggers' = triggers /\ tries' = tries /\ stage' = stage
          /\ job' = job /\ copy' = copy /\ outcome' = outcome /\ draining' = draining
          /\ batch' = batch /\ answer' = answer /\ phase' = phase /\ crashes' = crashes
          /\ faults' = faults /\ ledger' = ledger /\ late' = late /\ Jobs' = Jobs
      BY <1>2 DEF Jobs
    <2>5. TypeOK
      BY DEF IInv
    <2>1. TypeOK'
      BY ONLY <2>0, <2>5 DEF TypeOK
    <2>4. HandlersInv'
      BY <2>0 DEF IInv, HandlersInv
    <2>6. \A s \in Scopes : NumbersOf(s)' = NumbersOf(s)
      BY <2>0 DEF NumbersOf
    <2>2. NumbersInv'
      BY <2>0, <2>6 DEF IInv, NumbersInv
    <2>3. CloudNeverContradicted' /\ SyncedIsOnCloud' /\ AcknowledgedInv'
      BY <1>2 DEF IInv, CloudNeverContradicted, SyncedIsOnCloud, AcknowledgedInv, OnTheWay,
         ReportOf, Jobs
    <2> QED BY <2>1, <2>2, <2>3, <2>4 DEF IInv
  <1> QED BY <1>1, <1>2

THEOREM Invariance == Spec => []IInv
  BY InitEstablishes, StepKeeps, PTL DEF Spec

(***************************************************************************)
(* The variables of the journal stay in their sets.                        *)
(***************************************************************************)
THEOREM TypeCorrect == Spec => []TypeOK
  <1>1. IInv => TypeOK
    BY DEF IInv
  <1> QED BY <1>1, Invariance, PTL

(***************************************************************************)
(* No two sheets of one scope carry the same copy number, however many     *)
(* handlers print at once, fail or die: a reservation's number lies past   *)
(* every number of its scope before it (reserveTx).                        *)
(***************************************************************************)
THEOREM CopiesNeverRepeat == Spec => []CopiesAreUnique
  <1>1. ASSUME IInv PROVE CopiesAreUnique
    <2> USE DEF IInv
    <2> SUFFICES ASSUME NEW p \in Prints, NEW q \in Prints, p # q, Reserved(p), Reserved(q),
                        ScopeOf[p] = ScopeOf[q]
                 PROVE  copy[p] # copy[q]
      BY <1>1 DEF CopiesAreUnique
    <2>1. /\ job[p] \in Jobs /\ job[q] \in Jobs /\ job[p] # job[q]
          /\ jobs[job[p]].reserved /\ jobs[job[q]].reserved
          /\ copy[p] = jobs[job[p]].no /\ copy[q] = jobs[job[q]].no
          /\ jobs[job[p]].scope = jobs[job[q]].scope
      BY <1>1 DEF Reserved, HandlersInv, TypeOK
    <2>2. /\ job[p] \in Int /\ job[q] \in Int
          /\ jobs[job[p]].no \in Nat /\ jobs[job[q]].no \in Nat
      BY <1>1, <2>1, JobsTyped DEF Jobs, Job
    <2>3. job[p] < job[q] \/ job[q] < job[p]
      BY <2>1, <2>2
    <2>4. jobs[job[p]].no < jobs[job[q]].no \/ jobs[job[q]].no < jobs[job[p]].no
      BY <1>1, <2>1, <2>3 DEF NumbersInv
    <2> QED BY <2>1, <2>2, <2>4
  <1> QED BY <1>1, Invariance, PTL

(***************************************************************************)
(* What Cloud holds of a print, or may still receive, is what the local    *)
(* journal says of it (Pending leaves queued rows out, and a settled row   *)
(* is never settled again).                                                *)
(***************************************************************************)
THEOREM CloudIsNeverContradicted == Spec => []CloudNeverContradicted
  <1>1. IInv => CloudNeverContradicted
    BY DEF IInv
  <1> QED BY <1>1, Invariance, PTL

(***************************************************************************)
(* A row stamped synced is on Cloud (PrintJournalSyncHandler.Handle stamps *)
(* the ids Cloud named, and Cloud named only what it holds).               *)
(***************************************************************************)
THEOREM NothingStampedIsLost == Spec => []SyncedIsOnCloud
  <1>1. IInv => SyncedIsOnCloud
    BY DEF IInv
  <1> QED BY <1>1, Invariance, PTL

-----------------------------------------------------------------------------
(* The refinement of PrintLedger. *)

Issued == [s \in Scopes |-> NumbersOf(s)]

LEMMA PromiseBegins ==
  ASSUME Init
  PROVE  Promise!Init
  BY EmptySeq DEF Init, Promise!Init, NumbersOf, Jobs

(* A job numbered next is an issue. *)
LEMMA IssuesNext ==
  ASSUME TypeOK, NEW p \in Prints, NEW n \in Nat \ {0}, IsNextNumber(n, ScopeOf[p]),
         NEW status \in Final \cup {"queued"}, NEW reserved \in BOOLEAN,
         AddJob(p, n, status, reserved), UNCHANGED ledger
  PROVE  Promise!Issue(ScopeOf[p])
  <1> DEFINE c == ScopeOf[p]
  <1>1. c \in Scopes
    BY PrintJournalAssumption
  <1>2. \A s \in Scopes :
          NumbersOf(s)' = IF s = c THEN NumbersOf(s) \cup {n} ELSE NumbersOf(s)
    BY NumbersGrow
  <1>3. Issued' = [Issued EXCEPT ![c] = @ \cup {n}]
    BY <1>1, <1>2 DEF Issued
  <1>4. Issued[c] = NumbersOf(c)
    BY <1>1 DEF Issued
  <1>5. /\ n \in {1} \cup {m + 1 : m \in NumbersOf(c)}
        /\ Promise!Follows(n, NumbersOf(c))
    <2>1. CASE NumbersOf(c) = {}
      BY <2>1 DEF IsNextNumber, Promise!Follows
    <2>2. CASE NumbersOf(c) # {}
      <3>1. n - 1 \in NumbersOf(c) /\ \A m \in NumbersOf(c) : m < n
        BY <2>2 DEF IsNextNumber
      <3>2. n = (n - 1) + 1
        OBVIOUS
      <3> QED BY <2>2, <3>1, <3>2 DEF Promise!Follows
    <2> QED BY <2>1, <2>2
  <1> QED BY <1>3, <1>4, <1>5 DEF Promise!Issue, Issued

(* What enters the Cloud ledger was on the way: it names a job and its number. *)
LEMMA TellsWhatItKnows ==
  ASSUME IInv, UNCHANGED jobs, ledger \subseteq ledger', ledger' \subseteq OnTheWay
  PROVE  Promise!Tell
  <1>1. ASSUME NEW r \in OnTheWay
        PROVE  r \in Promise!Report /\ r.no \in Issued[r.scope] /\ r = ReportOf(r.id)
    <2>1. r \in Reports
      BY DEF IInv, TypeOK, OnTheWay
    <2>2. r.id \in Jobs /\ r = ReportOf(r.id)
      BY ReadIsFinal
    <2>3. r.scope = jobs[r.id].scope /\ r.no = jobs[r.id].no /\ r.scope \in Scopes
      BY <2>1, <2>2 DEF ReportOf, Reports
    <2>4. r.no \in NumbersOf(r.scope)
      BY <2>2, <2>3 DEF NumbersOf
    <2>5. r \in Promise!Report
      BY <2>1 DEF Reports, Promise!Report, Promise!Outcomes, Final
    <2> QED BY <2>2, <2>3, <2>4, <2>5 DEF Issued
  <1>2. \A r, q \in ledger' : q.id = r.id => q = r
    BY <1>1
  <1>3. Issued' = Issued
    BY DEF Issued, NumbersOf, Jobs
  <1> QED BY <1>1, <1>2, <1>3 DEF Promise!Tell, Issued

(* The other steps are invisible to the promise. *)
LEMMA Stutters ==
  ASSUME TypeOK, Grows, Len(jobs') = Len(jobs), UNCHANGED ledger
  PROVE  UNCHANGED <<Issued, ledger>>
  BY NumbersKeptWithout DEF Issued

LEMMA StepKeepsPromise ==
  ASSUME IInv, Next
  PROVE  [Promise!Next]_<<Issued, ledger>>
  <1>0. TypeOK /\ Grows
    BY JobsGrow DEF IInv
  <1>1. ASSUME NEW p \in Prints, Reserve(p) PROVE Promise!Next
    <2>1. PICK n \in Nat \ {0} : IsNextNumber(n, ScopeOf[p]) /\ AddJob(p, n, "queued", TRUE)
      BY <1>1, ReserveMove
    <2>2. UNCHANGED ledger /\ ScopeOf[p] \in Scopes
      BY <1>1, PrintJournalAssumption DEF Reserve, remote
    <2>3. Promise!Issue(ScopeOf[p])
      BY <1>0, <2>1, <2>2, IssuesNext
    <2> QED BY <2>2, <2>3 DEF Promise!Next
  <1>2. ASSUME NEW p \in Prints, Record(p) PROVE [Promise!Next]_<<Issued, ledger>>
    <2>1. AddJob(p, 1, outcome[p], FALSE) /\ outcome[p] \in Final \cup {"queued"}
      BY <1>2, RecordMove DEF Final
    <2>5. 1 \in Nat \ {0} /\ FALSE \in BOOLEAN
      OBVIOUS
    <2>2. UNCHANGED ledger /\ ScopeOf[p] \in Scopes
      BY <1>2, PrintJournalAssumption DEF Record, remote
    <2>3. CASE NumbersOf(ScopeOf[p]) = {}
      <3>1. IsNextNumber(1, ScopeOf[p])
        BY <2>3 DEF IsNextNumber
      <3>2. Promise!Issue(ScopeOf[p])
        BY <1>0, <2>1, <2>2, <2>5, <3>1, IssuesNext
      <3> QED BY <2>2, <3>2 DEF Promise!Next
    <2>4. CASE NumbersOf(ScopeOf[p]) # {}
      <3>1. 1 \in NumbersOf(ScopeOf[p])
        BY <2>2, <2>4 DEF IInv, NumbersInv
      <3>2. \A s \in Scopes :
              NumbersOf(s)' = IF s = ScopeOf[p] THEN NumbersOf(s) \cup {1} ELSE NumbersOf(s)
        BY <1>0, <2>1, <2>5, NumbersGrow
      <3>3. \A s \in Scopes : NumbersOf(s)' = NumbersOf(s)
        BY <3>1, <3>2
      <3> QED BY <2>2, <3>3 DEF Issued
    <2> QED BY <2>3, <2>4
  <1>3. CASE Len(jobs') = Len(jobs)
    <2>1. CASE UNCHANGED ledger
      BY <1>0, <1>3, <2>1, Stutters
    <2>2. CASE CloudAccepts \/ \E reports \in late : LatePush(reports)
      <3>1. UNCHANGED jobs /\ ledger \subseteq ledger' /\ ledger' \subseteq OnTheWay
        BY <2>2 DEF CloudAccepts, LatePush, Ingest, Recorded, OnTheWay, db
      <3> QED BY <3>1, TellsWhatItKnows DEF Promise!Next
    <2> QED
      BY <2>1, <2>2
      DEF Next, HandlerStep, Reserve, Record, Unnumbered, Attempt, Confirm, SettleFails, Notify,
          DrainStep, Drain, CloudRefuses, PushLost, MarkSynced, Stamped, RetryLater, BurnAttempt,
          Startup, Restart, SweepStaleReservations, SweepFails, Crash, remote
  <1> QED BY <1>1, <1>2, <1>3, JobsGrowByPrints

(***************************************************************************)
(* The journal with its phases, faults, crashes and late pushes implements *)
(* the ledger that hands out each number once, in order, and is told of a  *)
(* print once, with a settled outcome (reserveTx, Pending, ingest).        *)
(***************************************************************************)
THEOREM JournalKeepsPromise == Spec => KeepsPromise
  <1>1. IInv /\ [Next]_vars => [Promise!Next]_<<Issued, ledger>>
    <2>1. CASE UNCHANGED vars
      BY <2>1 DEF vars, db, remote, Issued, NumbersOf, Jobs
    <2> QED BY <2>1, StepKeepsPromise
  <1> QED BY <1>1, Invariance, PromiseBegins, PTL
          DEF Spec, KeepsPromise, Promise!Spec, Issued

=============================================================================
