--------------------------- MODULE WorkPaperJobs ---------------------------
(***************************************************************************)
(* The tax work papers of one company and one period and the queue of      *)
(* calculations behind them (tax-work-papers/tax-work-papers.service.ts,   *)
(* services/work-paper-job.service.ts, services/work-paper-job.processor). *)
(*                                                                         *)
(* HTTP requests create the draft execution of a paper and enqueue its     *)
(* calculation; every API process polls the table of jobs, claims the      *)
(* oldest pending one and runs it, one at a time.  Handlers are cut where  *)
(* they await the database; a transaction that works under FOR UPDATE on   *)
(* the execution is cut in two, where it takes the lock and its snapshot   *)
(* and where it commits.                                                   *)
(***************************************************************************)
EXTENDS Naturals, FiniteSets

CONSTANTS Papers,    \* definitions; each has at most one draft execution
          Callers,   \* concurrent HTTP requests that enqueue
          Workers,   \* API processes with a job processor
          MaxJobs,   \* bound on the rows of tax_work_paper_jobs
          MaxFaults, \* bound on crashes and database failures
          None       \* SQL NULL

(* Jobs are numbered by created_at.                                        *)
Jobs == 1..MaxJobs

ASSUME ConstantsAssumption == MaxJobs \in Nat /\ MaxFaults \in Nat /\ None \notin Nat \cup Papers

VARIABLES
  drafts,   \* papers with an execution; nothing finalizes it
  snapshot, \* the job whose result the execution shows
  inputs,   \* tax_work_paper_inputs (and adjustments), a row per calculation
  jobs,     \* tax_work_paper_jobs
  caller,   \* local state of the requests
  worker,   \* local state of the processors
  faults    \* crashes and database failures so far

vars == <<drafts, snapshot, inputs, jobs, caller, worker, faults>>

-----------------------------------------------------------------------------

JobStatuses == {"none", "pending", "running", "completed", "failed"}

Job == [status : JobStatuses, paper : Papers \cup {None}, attempt : Nat]

NoJob == [status |-> "none", paper |-> None, attempt |-> 0]

InputRow == [paper : Papers, revision : Nat, job : Jobs, draft : BOOLEAN]

Caller == [pc : {"idle", "counting", "saving"}, paper : Papers \cup {None}, attempt : Nat]

IdleCaller == [pc |-> "idle", paper |-> None, attempt |-> 0]

Worker == [pc : {"idle", "claimed", "calculating", "committed", "failing"},
           job : Jobs \cup {None}, last : Nat]

IdleWorker == [pc |-> "idle", job |-> None, last |-> 0]

Busy(w) == worker[w].pc # "idle"

PaperOf(w) == jobs[worker[w].job].paper

IsActive(j) == jobs[j].status \in {"pending", "running"}

RowsOf(p) == {row \in inputs : row.paper = p}

(* The execution row of p is locked by a calculation.                      *)
Locked(p) == \E w \in Workers : worker[w].pc = "calculating" /\ PaperOf(w) = p

Fault == faults < MaxFaults /\ faults' = faults + 1

(* Mutant: the flag `processing` is not reset.                             *)
StayBusy(w) == worker' = [worker EXCEPT ![w].pc = "failing"]

Release(w) == worker' = [worker EXCEPT ![w] = IdleWorker]

(* Mutant: the error is logged and the job is forgotten.                   *)
ForgetJob(w) == worker' = [worker EXCEPT ![w] = IdleWorker]

(* An exception brings processCalculatorRunJob to its catch block.         *)
Catch(w) == worker' = [worker EXCEPT ![w].pc = "failing"]

-----------------------------------------------------------------------------

Init ==
  /\ drafts = {}
  /\ snapshot = [p \in Papers |-> None]
  /\ inputs = {}
  /\ jobs = [j \in Jobs |-> NoJob]
  /\ caller = [c \in Callers |-> IdleCaller]
  /\ worker = [w \in Workers |-> IdleWorker]
  /\ faults = 0

-----------------------------------------------------------------------------
(* Requests                                                                *)

(* createDraft: the latest revision is read FOR UPDATE and the unique key  *)
(* on the revision rejects a second first draft.                           *)
CreateDraft(p) ==
  /\ p \notin drafts
  /\ drafts' = drafts \cup {p}
  /\ UNCHANGED <<snapshot, inputs, jobs, caller, worker, faults>>

(* enqueueCalculation up to the look for an active job, when there is none *)
(* to return.                                                              *)
FindNoActive(c, p) ==
  /\ caller[c].pc = "idle"
  /\ p \in drafts
  /\ \A j \in Jobs : ~(jobs[j].paper = p /\ IsActive(j))
  /\ caller' = [caller EXCEPT ![c] = [IdleCaller EXCEPT !.pc = "counting", !.paper = p]]
  /\ UNCHANGED <<drafts, snapshot, inputs, jobs, worker, faults>>

CountAttempts(c) ==
  /\ caller[c].pc = "counting"
  /\ caller' = [caller EXCEPT
       ![c].pc = "saving",
       ![c].attempt = Cardinality({j \in Jobs : jobs[j].paper = caller[c].paper}) + 1]
  /\ UNCHANGED <<drafts, snapshot, inputs, jobs, worker, faults>>

(* The foreign key of the new row waits for the row of the execution.      *)
SaveJob(c, j) ==
  /\ caller[c].pc = "saving"
  /\ ~Locked(caller[c].paper)
  /\ jobs[j].status = "none"
  /\ \A k \in Jobs : jobs[k].status = "none" => j <= k
  /\ jobs' = [jobs EXCEPT ![j] = [status |-> "pending", paper |-> caller[c].paper,
                                  attempt |-> caller[c].attempt]]
  /\ caller' = [caller EXCEPT ![c] = IdleCaller]
  /\ UNCHANGED <<drafts, snapshot, inputs, worker, faults>>

-----------------------------------------------------------------------------
(* The processor                                                           *)

(* Mutant: the claim reads without a lock a job somebody has claimed.      *)
ClaimActive(w, j) ==
  /\ ~Busy(w)
  /\ IsActive(j)
  /\ \A k \in Jobs : IsActive(k) => j <= k
  /\ jobs' = [jobs EXCEPT ![j].status = "running"]
  /\ worker' = [worker EXCEPT ![w] = [IdleWorker EXCEPT !.pc = "claimed", !.job = j]]
  /\ UNCHANGED <<drafts, snapshot, inputs, caller, faults>>

(* Mutant: the newest pending job is claimed.                              *)
ClaimNewest(w, j) ==
  /\ ~Busy(w)
  /\ jobs[j].status = "pending"
  /\ \A k \in Jobs : jobs[k].status = "pending" => k <= j
  /\ jobs' = [jobs EXCEPT ![j].status = "running"]
  /\ worker' = [worker EXCEPT ![w] = [IdleWorker EXCEPT !.pc = "claimed", !.job = j]]
  /\ UNCHANGED <<drafts, snapshot, inputs, caller, faults>>

(* processNext of an idle process, claimNextPending: the locking read      *)
(* takes every pending row, so that claims follow one another.             *)
ClaimNextPending(w, j) ==
  /\ ~Busy(w)
  /\ jobs[j].status = "pending"
  /\ \A k \in Jobs : jobs[k].status = "pending" => j <= k
  /\ jobs' = [jobs EXCEPT ![j].status = "running"]
  /\ worker' = [worker EXCEPT ![w] = [IdleWorker EXCEPT !.pc = "claimed", !.job = j]]
  /\ UNCHANGED <<drafts, snapshot, inputs, caller, faults>>

(* Mutant: the execution is read without FOR UPDATE.                       *)
BeginUnlocked(w) ==
  /\ worker[w].pc = "claimed"
  /\ \E last \in {row.revision : row \in RowsOf(PaperOf(w))} \cup {0} :
       /\ \A row \in RowsOf(PaperOf(w)) : row.revision <= last
       /\ worker' = [worker EXCEPT ![w].pc = "calculating", ![w].last = last]
  /\ UNCHANGED <<drafts, snapshot, inputs, jobs, caller, faults>>

(* executeA17Calculation takes the row of the execution and its snapshot,  *)
(* and with it the last revision of the inputs.                            *)
BeginCalculation(w) ==
  /\ worker[w].pc = "claimed"
  /\ ~Locked(PaperOf(w))
  /\ \E last \in {row.revision : row \in RowsOf(PaperOf(w))} \cup {0} :
       /\ \A row \in RowsOf(PaperOf(w)) : row.revision <= last
       /\ worker' = [worker EXCEPT ![w].pc = "calculating", ![w].last = last]
  /\ UNCHANGED <<drafts, snapshot, inputs, jobs, caller, faults>>

(* Draft rows are voided, never deleted.                                   *)
Voided(p) == {IF row.paper = p THEN [row EXCEPT !.draft = FALSE] ELSE row : row \in inputs}

CommitCalculation(w) ==
  /\ worker[w].pc = "calculating"
  /\ inputs' = Voided(PaperOf(w)) \cup
                 {[paper |-> PaperOf(w), revision |-> worker[w].last + 1,
                   job |-> worker[w].job, draft |-> TRUE]}
  /\ snapshot' = [snapshot EXCEPT ![PaperOf(w)] = worker[w].job]
  /\ worker' = [worker EXCEPT ![w].pc = "committed"]
  /\ UNCHANGED <<drafts, jobs, caller, faults>>

(* An input is missing or malformed, or the database fails.                *)
RollbackCalculation(w) ==
  /\ worker[w].pc = "calculating"
  /\ Catch(w)
  /\ UNCHANGED <<drafts, snapshot, inputs, jobs, caller, faults>>

MarkCompleted(w) ==
  /\ worker[w].pc = "committed"
  /\ jobs' = [jobs EXCEPT ![worker[w].job].status = "completed"]
  /\ Release(w)
  /\ UNCHANGED <<drafts, snapshot, inputs, caller, faults>>

(* The database fails between the commit and the status.                   *)
MarkCompletedFails(w) ==
  /\ worker[w].pc = "committed"
  /\ Fault
  /\ Catch(w)
  /\ UNCHANGED <<drafts, snapshot, inputs, jobs, caller>>

MarkFailed(w) ==
  /\ worker[w].pc = "failing"
  /\ jobs' = [jobs EXCEPT ![worker[w].job].status = "failed"]
  /\ Release(w)
  /\ UNCHANGED <<drafts, snapshot, inputs, caller, faults>>

(* The catch block itself fails (processNext swallows the exception), or   *)
(* the process dies and starts again: no code looks for RUNNING jobs.      *)
Abandon(w) ==
  /\ Busy(w)
  /\ Fault
  /\ Release(w)
  /\ UNCHANGED <<drafts, snapshot, inputs, jobs, caller>>

-----------------------------------------------------------------------------

Request(c) == \/ \E p \in Papers : FindNoActive(c, p)
              \/ CountAttempts(c)
              \/ \E j \in Jobs : SaveJob(c, j)

Work(w) == \/ \E j \in Jobs : ClaimNextPending(w, j)
           \/ BeginCalculation(w) \/ CommitCalculation(w) \/ RollbackCalculation(w)
           \/ MarkCompleted(w) \/ MarkFailed(w)

Next == \/ \E p \in Papers : CreateDraft(p)
        \/ \E c \in Callers : Request(c)
        \/ \E w \in Workers : Work(w) \/ MarkCompletedFails(w) \/ Abandon(w)

Spec == Init /\ [][Next]_vars

(* Every process polls for ever (setInterval) and finishes what it claims; *)
(* the wait for the lock of an execution ends because MySQL queues it.     *)
FairSpec == Spec /\ \A w \in Workers : SF_vars(Work(w))

-----------------------------------------------------------------------------
(* Properties                                                              *)

(* Tables and local states have the shape the code gives them.             *)
TypeOK ==
  /\ drafts \subseteq Papers
  /\ snapshot \in [Papers -> Jobs \cup {None}]
  /\ inputs \subseteq InputRow
  /\ jobs \in [Jobs -> Job]
  /\ caller \in [Callers -> Caller]
  /\ worker \in [Workers -> Worker]
  /\ faults \in 0..MaxFaults

(* A running job is in the hands of exactly one process, except after a    *)
(* fault, and a process only holds a running job: no job is run twice.     *)
RunningIsHeld ==
  /\ \A v, w \in Workers : Busy(v) /\ worker[v].job = worker[w].job => v = w
  /\ \A w \in Workers : Busy(w) => jobs[worker[w].job].status = "running"
  /\ \A j \in Jobs : jobs[j].status = "running" =>
       faults > 0 \/ \E w \in Workers : Busy(w) /\ worker[w].job = j

(* A job is calculated at most once, and a completed one was.              *)
CalculatedOnce ==
  /\ \A row, other \in inputs : row.job = other.job => row = other
  /\ \A j \in Jobs : jobs[j].status = "completed" => \E row \in inputs : row.job = j

(* The live rows of an execution are those of its last revision, and they  *)
(* belong to the calculation whose result the execution shows, however     *)
(* many calculations of it overlapped.                                     *)
LiveIsLatest ==
  /\ \A row, other \in inputs :
       row.paper = other.paper /\ row.draft => other.revision <= row.revision
  /\ \A row, other \in inputs :
       row.paper = other.paper /\ row.revision = other.revision => row = other
  /\ \A row \in inputs : row.draft <=> snapshot[row.paper] = row.job

(* "crea una nueva revision sin borrar historia" (README.md of the module): *)
(* no step removes a row, changes it or brings a voided one back.          *)
HistoryIsKept ==
  [][\A row \in inputs : \E new \in inputs' :
       /\ new = [row EXCEPT !.draft = new.draft]
       /\ new.draft => row.draft]_vars

(* The jobs are the abstract queue; calculating is what they are for.      *)
Queue == INSTANCE JobQueue WITH phase <- [j \in Jobs |-> jobs[j].status],
                                applied <- {row.job : row \in inputs}

ImplementsQueue == Queue!Spec

(* Every pending job is started, even if processes fail and restart.       *)
PendingIsStarted ==
  \A j \in Jobs : jobs[j].status = "pending" ~> jobs[j].status # "pending"

(* Every job that is enqueued ends, unless a fault leaves it running in    *)
(* the hands of no process.                                                *)
JobsSettle ==
  \A j \in Jobs : IsActive(j) ~>
    \/ jobs[j].status \in {"completed", "failed"}
    \/ /\ jobs[j].status = "running"
       /\ faults > 0 /\ \A w \in Workers : ~(Busy(w) /\ worker[w].job = j)

=============================================================================
