---------------------------- MODULE PrintJournal ----------------------------
(***************************************************************************)
(* The workstation's print journal (internal/printjob) and its drain to    *)
(* the Cloud ledger (service/sync_print_journal.go).                       *)
(*                                                                         *)
(* A money document takes its copy number before the printer is opened     *)
(* (Reserve), prints, and settles the row afterwards (Confirm).  Kitchen   *)
(* tickets, and a money document whose reservation failed, only write a    *)
(* row afterwards (Record).  A settled row notifies the sync engine, whose *)
(* handler pushes a batch of unsynced rows.  Every statement that commits  *)
(* is a step; the process may die between any two.                         *)
(***************************************************************************)
EXTENDS Integers, Sequences, FiniteSets

CONSTANTS
  Prints,       \* print requests
  Tickets,      \* the kitchen tickets among them
  Scopes,       \* copy-number scopes: a kind, with a payer or an order family
  ScopeOf,      \* the scope of each request
  BatchSize,    \* rows of one push (50 in the code)
  MaxAttempts,  \* max_attempts of a trigger row (5 in the code)
  Faults,       \* what may go wrong
  MaxFaults,    \* bound: how many times something goes wrong
  MaxCrashes    \* bound: how many times the workstation dies

ASSUME PrintJournalAssumption ==
  /\ IsFiniteSet(Prints) /\ Tickets \subseteq Prints
  /\ ScopeOf \in [Prints -> Scopes]
  /\ BatchSize \in Nat \ {0}
  /\ MaxAttempts \in Nat \ {0}
  /\ Faults \subseteq {"busy", "enqueue", "lost", "refused"}
  /\ MaxFaults \in Nat /\ MaxCrashes \in Nat

VARIABLES
  \* The local database.
  jobs,      \* print_jobs, append-only, a job id is an index
  triggers,  \* jobs with an undelivered print_job.journal row in sync_queue
  tries,     \* the attempts these rows have burned
  \* The print handlers.
  stage,     \* how far each print has come
  job,       \* the job it reserved or recorded (0: none)
  copy,      \* the copy number on its sheet
  outcome,   \* how the attempt at the printer ended
  \* The sync engine.
  draining,  \* the trigger being handled (0: none)
  batch,     \* the rows Pending returned
  answer,    \* Cloud's answer to the push
  \* The process.
  phase,     \* down, starting or serving
  crashes, faults,  \* how often it died, how often something went wrong
  \* Cloud and the network.
  ledger,    \* the rows Cloud recorded
  late       \* pushes the engine gave up on that may still arrive

db       == <<jobs, triggers, tries>>
handlers == <<stage, job, copy, outcome>>
engine   == <<draining, batch, answer>>
process  == <<phase, crashes>>
remote   == <<ledger, late>>
vars     == <<db, handlers, engine, process, faults, remote>>

Jobs == 1..Len(jobs)
Final == {"printed", "failed", "needs_attention"}
Job == [scope : Scopes, no : Nat \ {0}, status : Final \cup {"queued"},
        reserved : BOOLEAN, synced : BOOLEAN]
Live == {"reserved", "unnumbered", "ended", "settled"}

Init ==
  /\ jobs = <<>> /\ triggers = {} /\ tries = [i \in 1..Cardinality(Prints) |-> 0]
  /\ stage = [p \in Prints |-> "new"] /\ job = [p \in Prints |-> 0]
  /\ copy = [p \in Prints |-> 0] /\ outcome = [p \in Prints |-> "none"]
  /\ draining = 0 /\ batch = {} /\ answer = "none"
  /\ phase = "starting" /\ crashes = 0 /\ faults = 0
  /\ ledger = {} /\ late = {}

Strikes(fault) == /\ fault \in Faults /\ faults < MaxFaults
                  /\ faults' = faults + 1

-----------------------------------------------------------------------------
(* The handlers: beginMoneyPrint, the printer, finishMoneyPrint.           *)

(* The numbers of a scope, those of reservations in flight included. *)
NumbersOf(s)     == {jobs[i].no : i \in {j \in Jobs : jobs[j].scope = s}}
SettledNumbersOf(s) ==
  {jobs[i].no : i \in {j \in Jobs : jobs[j].scope = s /\ jobs[j].status # "queued"}}

(* Mutations of IsNextNumber: finished prints only, a first number of 0. *)
NextOfSettled(n, s) == IF SettledNumbersOf(s) = {} THEN n = 1
                       ELSE n - 1 \in SettledNumbersOf(s) /\ \A m \in SettledNumbersOf(s) : m < n
NumberFromZero(n, s) == IF NumbersOf(s) = {} THEN n = 0
                        ELSE n - 1 \in NumbersOf(s) /\ \A m \in NumbersOf(s) : m < n

(* MAX(reprint_no) + 1, with MAX of no row taken as 0. *)
IsNextNumber(n, s) == IF NumbersOf(s) = {} THEN n = 1
                      ELSE n - 1 \in NumbersOf(s) /\ \A m \in NumbersOf(s) : m < n

AddJob(p, n, status, reserved) ==
  /\ jobs' = Append(jobs, [scope |-> ScopeOf[p], no |-> n, status |-> status,
                           reserved |-> reserved, synced |-> FALSE])
  /\ job' = [job EXCEPT ![p] = Len(jobs) + 1]

(* The number is read and the row holding it written in one transaction.   *)
Reserve(p) ==
  /\ phase = "serving" /\ stage[p] = "new" /\ p \notin Tickets
  /\ \E n \in 0..(Len(jobs) + 1) :
       /\ IsNextNumber(n, ScopeOf[p])
       /\ AddJob(p, n, "queued", TRUE)
       /\ copy' = [copy EXCEPT ![p] = n]
  /\ stage' = [stage EXCEPT ![p] = "reserved"]
  /\ UNCHANGED <<triggers, tries, outcome, engine, process, faults, remote>>

(* A database busy past the retry ladder: the sheet goes out as number 1,  *)
(* without a reservation.  A ticket never had one.                         *)
Unnumbered(p) ==
  /\ phase = "serving" /\ stage[p] = "new"
  /\ IF p \in Tickets THEN UNCHANGED faults ELSE Strikes("busy")
  /\ copy' = [copy EXCEPT ![p] = 1]
  /\ stage' = [stage EXCEPT ![p] = "unnumbered"]
  /\ UNCHANGED <<db, job, outcome, engine, process, remote>>

(* The attempt at the printer ends; whether a failed one left a sheet is   *)
(* not known.                                                              *)
Attempt(p) ==
  /\ stage[p] \in {"reserved", "unnumbered"}
  /\ \E end \in {"printed", "failed"} : outcome' = [outcome EXCEPT ![p] = end]
  /\ stage' = [stage EXCEPT ![p] = "ended"]
  /\ UNCHANGED <<db, job, copy, engine, process, faults, remote>>

(* Confirm settles the reserved row if it is still queued. *)
Confirm(p) ==
  /\ stage[p] = "ended" /\ job[p] # 0
  /\ IF jobs[job[p]].status = "queued"
     THEN /\ jobs' = [jobs EXCEPT ![job[p]].status = outcome[p]]
          /\ stage' = [stage EXCEPT ![p] = "settled"]
     ELSE stage' = [stage EXCEPT ![p] = "done"] /\ UNCHANGED jobs
  /\ UNCHANGED <<triggers, tries, job, copy, outcome, engine, process, faults, remote>>

(* Record writes the row of a print without a reservation. *)
Record(p) ==
  /\ stage[p] = "ended" /\ job[p] = 0
  /\ AddJob(p, copy[p], outcome[p], FALSE)
  /\ stage' = [stage EXCEPT ![p] = "settled"]
  /\ UNCHANGED <<triggers, tries, copy, outcome, engine, process, faults, remote>>

(* Neither is retried: the error is logged and the print stands. *)
SettleFails(p) ==
  /\ stage[p] = "ended" /\ Strikes("busy")
  /\ stage' = [stage EXCEPT ![p] = "done"]
  /\ UNCHANGED <<db, job, copy, outcome, engine, process, remote>>

(* The notifier enqueues print_job.journal; its error is dropped. *)
Notify(p) ==
  /\ stage[p] = "settled"
  /\ \/ triggers' = triggers \cup {job[p]} /\ UNCHANGED faults
     \/ Strikes("enqueue") /\ UNCHANGED triggers
  /\ stage' = [stage EXCEPT ![p] = "done"]
  /\ UNCHANGED <<jobs, tries, job, copy, outcome, engine, process, remote>>

-----------------------------------------------------------------------------
(* The drain: one trigger pushes a batch of whatever is unsynced.          *)

(* A mutation: Pending without its filter on queued rows. *)
UnsyncedOrQueued(i) == ~jobs[i].synced

Unsynced(i) == ~jobs[i].synced /\ jobs[i].status # "queued"

ReportOf(i) == [id |-> i, scope |-> jobs[i].scope, no |-> jobs[i].no, status |-> jobs[i].status]

(* What Pending may return: all unsynced rows, or a batch of them.  Rows   *)
(* written within one second have no order, so which come first is open.   *)
Backlog == {i \in Jobs : Unsynced(i)}
Pending == {{ReportOf(i) : i \in rows} :
             rows \in {some \in SUBSET Backlog :
                         /\ Cardinality(some) <= BatchSize
                         /\ some = Backlog \/ Cardinality(some) = BatchSize}}

Drain(t) ==
  /\ phase # "down" /\ draining = 0
  /\ t \in triggers /\ tries[t] < MaxAttempts
  /\ draining' = t /\ batch' \in Pending
  /\ answer' = IF batch' = {} THEN "ok" ELSE "none"
  /\ UNCHANGED <<db, handlers, process, faults, remote>>

(* Cloud inserts the rows it does not hold yet; a known id is a duplicate. *)
Recorded(reports) == {r \in reports : \A q \in ledger : q.id # r.id}
Ingest(reports) == ledger' = ledger \cup Recorded(reports)

CloudAccepts ==
  /\ draining # 0 /\ answer = "none"
  /\ Ingest(batch)
  /\ answer' = "ok"
  /\ UNCHANGED <<db, handlers, draining, batch, process, faults, late>>

(* A batch is refused whole. *)
CloudRefuses ==
  /\ draining # 0 /\ answer = "none" /\ Strikes("refused")
  /\ answer' = "refused"
  /\ UNCHANGED <<db, handlers, draining, batch, process, remote>>

(* The push fails or the engine gives up on it; it may still arrive. *)
PushLost ==
  /\ draining # 0 /\ answer = "none" /\ Strikes("lost")
  /\ answer' = "lost"
  /\ \E held \in {{batch}, {}} : late' = late \cup held
  /\ UNCHANGED <<db, handlers, draining, batch, process, ledger>>

LatePush(reports) ==
  /\ reports \in late
  /\ Ingest(reports)
  /\ late' = late \ {reports}
  /\ UNCHANGED <<db, handlers, engine, process, faults>>

DrainEnds == draining' = 0 /\ batch' = {} /\ answer' = "none"

(* MarkSynced stamps every id Cloud named, accepted or duplicate, and the  *)
(* engine stamps the trigger.                                              *)
Stamped(answers) ==
  /\ answer \in answers
  /\ jobs' = [i \in Jobs |-> [jobs[i] EXCEPT !.synced = @ \/ \E r \in batch : r.id = i]]
  /\ triggers' = triggers \ {draining}
  /\ DrainEnds
  /\ UNCHANGED <<tries, handlers, process, faults, remote>>

(* A mutation: a lost answer counts as an acknowledgement. *)
MarkSyncedWhenLost == Stamped({"ok", "lost"})

MarkSynced == Stamped({"ok"})

(* A mutation of RetryLater: the trigger is stamped all the same. *)
DroppedWhenLost ==
  /\ \/ answer = "lost" /\ UNCHANGED faults
     \/ answer = "ok" /\ Strikes("busy")
  /\ triggers' = triggers \ {draining}
  /\ DrainEnds
  /\ UNCHANGED <<jobs, tries, handlers, process, remote>>

(* The push failed in a way that is retried, or MarkSynced did. *)
RetryLater ==
  /\ \/ answer = "lost" /\ UNCHANGED faults
     \/ answer = "ok" /\ Strikes("busy")
  /\ DrainEnds
  /\ UNCHANGED <<db, handlers, process, remote>>

(* A refused push burns an attempt of its trigger; out of attempts, the    *)
(* trigger is dead-lettered.                                               *)
BurnAttempt ==
  /\ answer = "refused"
  /\ tries' = [tries EXCEPT ![draining] = @ + 1]
  /\ DrainEnds
  /\ UNCHANGED <<jobs, triggers, handlers, process, faults, remote>>

-----------------------------------------------------------------------------
(* The process: death, restart, and the sweep at startup.                  *)

Crash ==
  /\ phase # "down" /\ crashes < MaxCrashes
  /\ phase' = "down" /\ crashes' = crashes + 1
  /\ stage' = [p \in Prints |-> IF stage[p] \in Live THEN "dead" ELSE stage[p]]
  /\ late' = IF draining # 0 /\ answer = "none" THEN late \cup {batch} ELSE late
  /\ DrainEnds
  /\ UNCHANGED <<db, job, copy, outcome, faults, ledger>>

Restart ==
  /\ phase = "down"
  /\ phase' = "starting"
  /\ UNCHANGED <<db, handlers, engine, crashes, faults, remote>>

(* A mutation: the sweep without its filter on queued rows. *)
StaleWhatever(i, n) == i <= n

(* Reservations the last run left queued and that are older than five      *)
(* minutes, here the jobs up to n; nobody knows whether those sheets came  *)
(* out.  The notifier is not called.                                       *)
Stale(i, n) == i <= n /\ jobs[i].status = "queued"

SweepStaleReservations ==
  /\ phase = "starting"
  /\ \E n \in 0..Len(jobs) :
       jobs' = [i \in Jobs |-> IF Stale(i, n) THEN [jobs[i] EXCEPT !.status = "needs_attention"]
                               ELSE jobs[i]]
  /\ phase' = "serving"
  /\ UNCHANGED <<triggers, tries, handlers, engine, crashes, faults, remote>>

SweepFails ==
  /\ phase = "starting" /\ Strikes("busy")
  /\ phase' = "serving"
  /\ UNCHANGED <<db, handlers, engine, crashes, remote>>

-----------------------------------------------------------------------------
HandlerStep(p) == \/ Reserve(p) \/ Unnumbered(p) \/ Attempt(p) \/ Confirm(p)
                  \/ Record(p) \/ SettleFails(p) \/ Notify(p)

DrainStep == \/ \E t \in triggers : Drain(t)
             \/ CloudAccepts \/ CloudRefuses \/ PushLost
             \/ MarkSynced \/ RetryLater \/ BurnAttempt

Startup == Restart \/ SweepStaleReservations \/ SweepFails

Next == \/ \E p \in Prints : HandlerStep(p)
        \/ DrainStep \/ Startup \/ Crash
        \/ \E reports \in late : LatePush(reports)

Spec == Init /\ [][Next]_vars

(***************************************************************************)
(* A print that has begun goes on, the engine drains, a push ends within   *)
(* its 15 s, and the supervisor restarts the workstation.  Nothing makes    *)
(* anybody print, or a late push arrive.                                   *)
(***************************************************************************)
Fairness ==
  /\ \A p \in Prints : WF_vars(Attempt(p) \/ Confirm(p) \/ Record(p) \/ SettleFails(p) \/ Notify(p))
  /\ WF_vars(DrainStep) /\ WF_vars(Startup)

FairSpec == Spec /\ Fairness

-----------------------------------------------------------------------------
Reports == [id : Nat, scope : Scopes, no : Nat \ {0}, status : Final]

TypeOK ==
  /\ jobs \in Seq(Job)
  /\ triggers \subseteq Jobs
  /\ tries \in [1..Cardinality(Prints) -> Nat]
  /\ stage \in [Prints -> {"new", "reserved", "unnumbered", "ended", "settled", "done", "dead"}]
  /\ job \in [Prints -> {0} \cup Jobs]
  /\ copy \in [Prints -> Nat]
  /\ outcome \in [Prints -> {"none", "printed", "failed"}]
  /\ draining \in {0} \cup triggers
  /\ batch \subseteq Reports /\ ledger \subseteq Reports /\ late \subseteq SUBSET Reports
  /\ answer \in {"none", "ok", "lost", "refused"}
  /\ phase \in {"down", "starting", "serving"}
  /\ crashes \in Nat /\ faults \in Nat

(***************************************************************************)
(* No two sheets of one scope carry the same copy number, in whatever      *)
(* order the handlers reserved, printed, failed, died or were swept        *)
(* (reserve.go: "Two tablets printing the same slip at the same moment     *)
(* cannot both get #1", "A failed print still burns its number"); only a   *)
(* sheet whose reservation failed may repeat number 1.                     *)
(***************************************************************************)
Reserved(p) == job[p] # 0 /\ jobs[job[p]].reserved

CopiesAreUnique ==
  \A p, q \in Prints :
    p # q /\ Reserved(p) /\ Reserved(q) /\ ScopeOf[p] = ScopeOf[q] => copy[p] # copy[q]

(***************************************************************************)
(* Cloud only inserts what the journal sends, so a row that changed after  *)
(* it was read for a push would stay wrong for ever: what Cloud holds, or  *)
(* may still receive, is what the local journal says now.                  *)
(***************************************************************************)
OnTheWay == ledger \cup batch \cup UNION late

CloudNeverContradicted == \A r \in OnTheWay : r.id \in Jobs /\ r = ReportOf(r.id)

(***************************************************************************)
(* A row is stamped synced only when Cloud holds it; a stamp too early     *)
(* would lose the print for good, for Pending never returns it again.      *)
(***************************************************************************)
SyncedIsOnCloud == \A i \in Jobs : jobs[i].synced => ReportOf(i) \in ledger

(***************************************************************************)
(* A settled print that was queued for the drain reaches Cloud, also when  *)
(* other triggers were lost or died, as long as fewer rows are left        *)
(* without a trigger than a batch holds ("a row whose own trigger was lost *)
(* still goes UP on the next one").                                        *)
(***************************************************************************)
Armed(i) == i \in triggers /\ tries[i] < MaxAttempts
Orphaned == {i \in Jobs : Unsynced(i) /\ ~Armed(i)}

TriggeredIsLedgered ==
  \A i \in 1..Cardinality(Prints) :
    Armed(i) ~> \/ i \in Jobs /\ ReportOf(i) \in ledger
                \/ tries[i] = MaxAttempts
                \/ Cardinality(Orphaned) >= BatchSize

-----------------------------------------------------------------------------
(* The journal keeps the promise of PrintLedger. *)
Promise == INSTANCE PrintLedger WITH issued <- [s \in Scopes |-> NumbersOf(s)], told <- ledger

KeepsPromise == Promise!Spec
=============================================================================
