------------------------- MODULE WorkPaperJobsProofs -------------------------
(***************************************************************************)
(* Proofs about WorkPaperJobs for any number of papers, requests,          *)
(* processes, jobs and faults; and, in the last section, about Migrations   *)
(* for any number of changes of data and killed runs.                      *)
(***************************************************************************)
EXTENDS WorkPaperJobs, Migrations, FiniteSetTheorems, WellFoundedInduction, TLAPS

(* The disjuncts of the next-state relation, one per line.                 *)
LEMMA StepCases ==
  ASSUME [Next]_vars
  PROVE  \/ UNCHANGED vars
         \/ \E p \in Papers : CreateDraft(p)
         \/ \E c \in Callers :
              \/ \E p \in Papers : FindNoActive(c, p)
              \/ CountAttempts(c)
              \/ \E j \in Jobs : SaveJob(c, j)
         \/ \E w \in Workers :
              \/ \E j \in Jobs : ClaimNextPending(w, j)
              \/ BeginCalculation(w) \/ CommitCalculation(w) \/ RollbackCalculation(w)
              \/ MarkCompleted(w) \/ MarkFailed(w)
              \/ MarkCompletedFails(w) \/ Abandon(w)
  BY DEF Next, Request, Work

-----------------------------------------------------------------------------
(* Typing                                                                  *)

(* TypeOK needs, besides itself, that a process at work holds a job and    *)
(* that a job and a request past its first step name a paper.              *)
Named ==
  /\ \A w \in Workers : IF Busy(w) THEN worker[w].job \in Jobs ELSE worker[w].job = None
  /\ \A c \in Callers : caller[c].pc # "idle" => caller[c].paper \in Papers
  /\ \A j \in Jobs : jobs[j].status # "none" => jobs[j].paper \in Papers

(* A process only holds a running job, and no other process holds it.      *)
Held ==
  /\ \A w \in Workers : Busy(w) => jobs[worker[w].job].status = "running"
  /\ \A v, w \in Workers : Busy(v) /\ worker[v].job = worker[w].job => v = w

TypeInv == TypeOK /\ Named /\ Held

(* Processes and callers that rest, and absent jobs, are typed.            *)
LEMMA IdleTyped == IdleWorker \in Worker /\ IdleCaller \in Caller /\ NoJob \in Job
  BY DEF IdleWorker, Worker, IdleCaller, Caller, NoJob, Job, JobStatuses

(* Jobs are a finite set of numbers.                                       *)
LEMMA JobsAreNumbers == Jobs \subseteq Nat /\ None \notin Jobs /\ IsFiniteSet(Jobs)
  BY ConstantsAssumption, FS_Interval DEF Jobs

(* The initial states.                                                     *)
LEMMA TypeInit == Init => TypeInv
  BY IdleTyped, ConstantsAssumption
  DEF Init, TypeInv, TypeOK, Named, Held, Busy, IdleWorker, IdleCaller, NoJob

(* The number of jobs of a paper is a natural number.                      *)
LEMMA CountTyped ==
  ASSUME NEW p
  PROVE  Cardinality({j \in Jobs : jobs[j].paper = p}) \in Nat
  <1>1. IsFiniteSet({j \in Jobs : jobs[j].paper = p})
    BY JobsAreNumbers, FS_Subset
  <1> QED BY <1>1, FS_CardinalityType

(* What a step of process w that keeps its job does to the processes.      *)
Keeps(w) == /\ worker'[w].job = worker[w].job /\ worker'[w].pc # "idle" /\ Busy(w)
            /\ worker'[w] \in Worker
            /\ \A v \in Workers : v # w => worker'[v] = worker[v]
            /\ worker' \in [Workers -> Worker]

(* What a step that ends the work of process w does to the processes.      *)
Drops(w) == /\ worker'[w].job = None /\ worker'[w].pc = "idle" /\ Busy(w)
            /\ \A v \in Workers : v # w => worker'[v] = worker[v]
            /\ worker' \in [Workers -> Worker]

(* What the steps of a calculation do to its process.                      *)
LEMMA WorkEffects ==
  ASSUME TypeInv, NEW w \in Workers
  PROVE  /\ BeginCalculation(w) => Keeps(w) /\ worker'[w].pc = "calculating"
         /\ CommitCalculation(w) => Keeps(w) /\ worker'[w].pc = "committed"
         /\ RollbackCalculation(w) \/ MarkCompletedFails(w)
            => Keeps(w) /\ worker'[w].pc = "failing"
         /\ MarkCompleted(w) \/ MarkFailed(w) \/ Abandon(w) => Drops(w)
  <1> USE DEF TypeInv, TypeOK, Busy
  <1>1. ASSUME BeginCalculation(w) PROVE Keeps(w) /\ worker'[w].pc = "calculating"
    <2>1. PICK last \in {row.revision : row \in RowsOf(PaperOf(w))} \cup {0} :
            worker' = [worker EXCEPT ![w].pc = "calculating", ![w].last = last]
      BY <1>1 DEF BeginCalculation
    <2>2. last \in Nat
      BY DEF RowsOf, InputRow
    <2>3. [worker[w] EXCEPT !.pc = "calculating", !.last = last] \in Worker
      BY <2>2 DEF Worker
    <2>4. worker'[w] = [worker[w] EXCEPT !.pc = "calculating", !.last = last]
      BY <2>1
    <2>5. worker'[w].pc = "calculating" /\ worker'[w].job = worker[w].job
      BY <2>4 DEF Worker
    <2> QED BY <1>1, <2>1, <2>3, <2>4, <2>5 DEF BeginCalculation, Keeps
  <1>2. ASSUME NEW pc \in {"committed", "failing"}, Busy(w),
               worker' = [worker EXCEPT ![w].pc = pc]
        PROVE  Keeps(w) /\ worker'[w].pc = pc
    <2>1. [worker[w] EXCEPT !.pc = pc] \in Worker /\ worker'[w] = [worker[w] EXCEPT !.pc = pc]
      BY <1>2 DEF Worker
    <2>2. worker'[w].pc = pc /\ worker'[w].job = worker[w].job
      BY <2>1 DEF Worker
    <2> QED BY <1>2, <2>1, <2>2 DEF Keeps
  <1>3. ASSUME Busy(w), Release(w) PROVE Drops(w)
    BY <1>3, IdleTyped DEF Release, Drops, IdleWorker
  <1>4. CommitCalculation(w) => Keeps(w) /\ worker'[w].pc = "committed"
    BY <1>2 DEF CommitCalculation
  <1>5. RollbackCalculation(w) \/ MarkCompletedFails(w) => Keeps(w) /\ worker'[w].pc = "failing"
    BY <1>2 DEF RollbackCalculation, MarkCompletedFails, Catch
  <1>6. MarkCompleted(w) \/ MarkFailed(w) \/ Abandon(w) => Drops(w)
    BY <1>3 DEF MarkCompleted, MarkFailed, Abandon
  <1> QED BY <1>1, <1>4, <1>5, <1>6

(* The claim puts one pending job in the hands of one idle process.        *)
LEMMA ClaimEffects ==
  ASSUME TypeInv, NEW w \in Workers, NEW j \in Jobs, ClaimNextPending(w, j)
  PROVE  /\ ~Busy(w) /\ jobs[j].status = "pending"
         /\ worker'[w].pc = "claimed" /\ worker'[w].job = j
         /\ \A v \in Workers : v # w => worker'[v] = worker[v] /\ (Busy(v) => worker[v].job # j)
         /\ worker' \in [Workers -> Worker]
         /\ jobs'[j].status = "running" /\ jobs'[j].paper = jobs[j].paper
         /\ \A k \in Jobs : k # j => jobs'[k] = jobs[k]
         /\ jobs' \in [Jobs -> Job]
  <1> USE DEF TypeInv, TypeOK
  <1>1. worker' = [worker EXCEPT ![w] = [IdleWorker EXCEPT !.pc = "claimed", !.job = j]]
    BY DEF ClaimNextPending
  <1>2. [IdleWorker EXCEPT !.pc = "claimed", !.job = j] \in Worker
    BY IdleTyped DEF Worker
  <1>3. worker'[w].pc = "claimed" /\ worker'[w].job = j
    BY <1>1 DEF IdleWorker
  <1>4. [jobs[j] EXCEPT !.status = "running"] \in Job
    BY DEF Job, JobStatuses
  <1>5. jobs' = [jobs EXCEPT ![j] = [jobs[j] EXCEPT !.status = "running"]]
    BY DEF ClaimNextPending
  <1>6. jobs'[j].status = "running" /\ jobs'[j].paper = jobs[j].paper
    BY <1>5 DEF Job
  <1>7. \A v \in Workers : Busy(v) => worker[v].job # j
    BY DEF Held, ClaimNextPending
  <1> QED BY <1>1, <1>2, <1>3, <1>4, <1>5, <1>6, <1>7 DEF ClaimNextPending

(* The end of a job.                                                       *)
LEMMA EndEffects ==
  ASSUME TypeInv, NEW w \in Workers, MarkCompleted(w) \/ MarkFailed(w)
  PROVE  /\ Busy(w) /\ worker[w].job \in Jobs
         /\ jobs'[worker[w].job].status = IF MarkCompleted(w) THEN "completed" ELSE "failed"
         /\ jobs'[worker[w].job].paper = jobs[worker[w].job].paper
         /\ \A k \in Jobs : k # worker[w].job => jobs'[k] = jobs[k]
         /\ jobs' \in [Jobs -> Job]
  <1> USE DEF TypeInv, TypeOK
  <1>1. Busy(w) /\ worker[w].job \in Jobs
    BY DEF Busy, Named, MarkCompleted, MarkFailed
  <1>2. PICK s \in {"completed", "failed"} :
          /\ jobs' = [jobs EXCEPT ![worker[w].job] = [jobs[worker[w].job] EXCEPT !.status = s]]
          /\ s = IF MarkCompleted(w) THEN "completed" ELSE "failed"
    BY DEF MarkCompleted, MarkFailed
  <1>3. [jobs[worker[w].job] EXCEPT !.status = s] \in Job
    BY <1>1 DEF Job, JobStatuses
  <1>4. jobs'[worker[w].job].status = s /\ jobs'[worker[w].job].paper = jobs[worker[w].job].paper
    BY <1>1, <1>2 DEF Job
  <1> QED BY <1>1, <1>2, <1>3, <1>4

(* Every step keeps the types, and every running job in the hands of one process. *)
LEMMA TypeStep == TypeInv /\ [Next]_vars => TypeInv'
  <1> SUFFICES ASSUME TypeInv, [Next]_vars PROVE TypeInv'
    OBVIOUS
  <1> USE DEF TypeInv, TypeOK, Named
  <1>1. CASE UNCHANGED vars
    BY <1>1 DEF vars, Held, Busy
  <1>2. ASSUME NEW p \in Papers, CreateDraft(p) PROVE TypeInv'
    BY <1>2 DEF CreateDraft, Held, Busy
  <1>3. ASSUME NEW c \in Callers, NEW p \in Papers, FindNoActive(c, p) PROVE TypeInv'
    <2>1. [IdleCaller EXCEPT !.pc = "counting", !.paper = p] \in Caller
      BY IdleTyped DEF Caller
    <2>2. caller' \in [Callers -> Caller]
      BY <1>3, <2>1 DEF FindNoActive
    <2>3. \A d \in Callers : caller'[d].pc # "idle" => caller'[d].paper \in Papers
      BY <1>3 DEF FindNoActive, IdleCaller
    <2> QED BY <1>3, <2>2, <2>3 DEF FindNoActive, Held, Busy
  <1>4. ASSUME NEW c \in Callers, CountAttempts(c) PROVE TypeInv'
    <2>1. PICK n \in Nat :
            caller' = [caller EXCEPT ![c] = [caller[c] EXCEPT !.pc = "saving", !.attempt = n]]
      <3> DEFINE m == Cardinality({j \in Jobs : jobs[j].paper = caller[c].paper})
      <3>1. caller' = [caller EXCEPT ![c] = [caller[c] EXCEPT !.pc = "saving", !.attempt = m + 1]]
        BY <1>4 DEF CountAttempts
      <3>2. m \in Nat
        BY CountTyped
      <3>3. m + 1 \in Nat
        <4> HIDE DEF m
        <4> QED BY <3>2
      <3> QED BY <3>1, <3>3
    <2>2. caller' = [caller EXCEPT ![c] = [caller[c] EXCEPT !.pc = "saving", !.attempt = n]]
      BY <2>1
    <2>3. [caller[c] EXCEPT !.pc = "saving", !.attempt = n] \in Caller
      BY DEF Caller
    <2>4. caller'[c].paper = caller[c].paper
      BY <2>2 DEF Caller
    <2>5. caller[c].paper \in Papers
      BY <1>4 DEF CountAttempts
    <2> QED BY <1>4, <2>2, <2>3, <2>4, <2>5 DEF CountAttempts, Held, Busy
  <1>5. ASSUME NEW c \in Callers, NEW j \in Jobs, SaveJob(c, j) PROVE TypeInv'
    <2> DEFINE job == [status |-> "pending", paper |-> caller[c].paper,
                       attempt |-> caller[c].attempt]
    <2>1. caller[c].paper \in Papers /\ caller[c] \in Caller
      BY <1>5 DEF SaveJob
    <2>2. job \in Job
      BY <2>1 DEF Job, JobStatuses, Caller
    <2>3. jobs' = [jobs EXCEPT ![j] = job]
      BY <1>5 DEF SaveJob
    <2>4. jobs' \in [Jobs -> Job] /\ \A k \in Jobs : jobs'[k].status # "none" => jobs'[k].paper \in Papers
      BY <2>1, <2>2, <2>3
    <2>5. \A w \in Workers : Busy(w) => worker[w].job # j
      BY <1>5 DEF SaveJob, Held
    <2>6. caller' \in [Callers -> Caller] /\ \A d \in Callers : caller'[d].pc # "idle" => caller'[d].paper \in Papers
      BY <1>5, IdleTyped DEF SaveJob, IdleCaller
    <2> QED BY <1>5, <2>3, <2>4, <2>5, <2>6 DEF SaveJob, Held, Busy
  <1>6. ASSUME NEW w \in Workers, NEW j \in Jobs, ClaimNextPending(w, j) PROVE TypeInv'
    <2>1. UNCHANGED <<drafts, snapshot, inputs, caller, faults>>
      BY <1>6 DEF ClaimNextPending
    <2>2. Named'
      BY <1>6, <2>1, ClaimEffects DEF Busy
    <2>3. /\ worker'[w].pc = "claimed" /\ worker'[w].job = j
          /\ \A v \in Workers : v # w => worker'[v] = worker[v] /\ (Busy(v) => worker[v].job # j)
          /\ jobs'[j].status = "running"
          /\ \A k \in Jobs : k # j => jobs'[k] = jobs[k]
      BY <1>6, ClaimEffects
    <2>4. ASSUME NEW v \in Workers, Busy(v)' PROVE jobs'[worker'[v].job].status = "running"
      <3>1. CASE v = w
        BY <2>3, <3>1
      <3>2. CASE v # w
        <4>1. worker'[v] = worker[v] /\ Busy(v) /\ worker[v].job # j
          BY <2>3, <2>4, <3>2 DEF Busy
        <4>2. worker[v].job \in Jobs /\ jobs[worker[v].job].status = "running"
          BY <4>1 DEF Held
        <4> QED BY <2>3, <4>1, <4>2
      <3> QED BY <3>1, <3>2
    <2>5. ASSUME NEW u \in Workers, NEW v \in Workers, Busy(u)', worker'[u].job = worker'[v].job
          PROVE  u = v
      BY <2>3, <2>5, JobsAreNumbers DEF Held, Busy
    <2>6. Held'
      BY <2>4, <2>5 DEF Held, Busy
    <2> QED BY <1>6, <2>1, <2>2, <2>6, ClaimEffects
  <1>7. ASSUME NEW w \in Workers, Keeps(w), UNCHANGED <<jobs, caller>> PROVE Named' /\ Held'
    BY <1>7, JobsAreNumbers DEF Keeps, Held, Busy
  <1>8. ASSUME NEW w \in Workers, BeginCalculation(w) PROVE TypeInv'
    BY <1>7, <1>8, WorkEffects DEF BeginCalculation, Keeps
  <1>9. ASSUME NEW w \in Workers, CommitCalculation(w) PROVE TypeInv'
    <2>1. worker[w].job \in Jobs /\ PaperOf(w) \in Papers /\ worker[w] \in Worker
      BY <1>9 DEF CommitCalculation, Busy, Held, PaperOf
    <2>2. [paper |-> PaperOf(w), revision |-> worker[w].last + 1,
           job |-> worker[w].job, draft |-> TRUE] \in InputRow
      BY <2>1 DEF InputRow, Worker
    <2>3. Voided(PaperOf(w)) \subseteq InputRow
      BY DEF Voided, InputRow
    <2>4. inputs' \subseteq InputRow /\ snapshot' \in [Papers -> Jobs \cup {None}]
      BY <1>9, <2>1, <2>2, <2>3 DEF CommitCalculation
    <2>5. Keeps(w) /\ UNCHANGED <<drafts, jobs, caller, faults>>
      BY <1>9, WorkEffects DEF CommitCalculation
    <2> QED BY <1>7, <2>4, <2>5 DEF Keeps
  <1>10. ASSUME NEW w \in Workers, RollbackCalculation(w) PROVE TypeInv'
    BY <1>7, <1>10, WorkEffects DEF RollbackCalculation, Keeps
  <1>11. ASSUME NEW w \in Workers, MarkCompletedFails(w) PROVE TypeInv'
    <2>1. Keeps(w) /\ UNCHANGED <<drafts, snapshot, inputs, jobs, caller>>
      BY <1>11, WorkEffects DEF MarkCompletedFails
    <2>2. faults' \in 0..MaxFaults
      BY <1>11, ConstantsAssumption DEF MarkCompletedFails, Fault
    <2> QED BY <1>7, <2>1, <2>2 DEF Keeps
  <1>12. ASSUME NEW w \in Workers, Drops(w), UNCHANGED <<jobs, caller>> PROVE Named' /\ Held'
    BY <1>12, JobsAreNumbers DEF Drops, Held, Busy
  <1>13. ASSUME NEW w \in Workers, Abandon(w) PROVE TypeInv'
    <2>1. Drops(w) /\ UNCHANGED <<drafts, snapshot, inputs, jobs, caller>>
      BY <1>13, WorkEffects DEF Abandon
    <2>2. faults' \in 0..MaxFaults
      BY <1>13, ConstantsAssumption DEF Abandon, Fault
    <2> QED BY <1>12, <2>1, <2>2 DEF Drops
  <1>14. ASSUME NEW w \in Workers, MarkCompleted(w) \/ MarkFailed(w) PROVE TypeInv'
    <2>1. Drops(w) /\ UNCHANGED <<drafts, snapshot, inputs, caller, faults>>
      BY <1>14, WorkEffects DEF MarkCompleted, MarkFailed
    <2>2. PICK j \in Jobs :
            /\ worker[w].job = j /\ Busy(w)
            /\ jobs'[j].status # "none" /\ jobs'[j].paper = jobs[j].paper
            /\ \A k \in Jobs : k # j => jobs'[k] = jobs[k]
            /\ jobs' \in [Jobs -> Job]
      BY <1>14, EndEffects
    <2>3. jobs[j].status = "running"
      BY <2>2 DEF Held
    <2>4. \A v \in Workers : v # w => worker'[v] = worker[v] /\ worker[v].job # j
      BY <2>1, <2>2 DEF Drops, Held
    <2>5. worker'[w].job = None /\ worker'[w].pc = "idle"
      BY <2>1 DEF Drops
    <2>6. Named'
      <3>1. \A v \in Workers : IF Busy(v)' THEN worker'[v].job \in Jobs ELSE worker'[v].job = None
        BY <2>4, <2>5 DEF Busy
      <3>2. \A k \in Jobs : jobs'[k].status # "none" => jobs'[k].paper \in Papers
        BY <2>2, <2>3
      <3>3. caller' = caller
        BY <2>1
      <3> QED BY <3>1, <3>2, <3>3 DEF Busy
    <2>7. Held'
      <3>1. ASSUME NEW v \in Workers, Busy(v)' PROVE jobs'[worker'[v].job].status = "running"
        <4>1. v # w /\ worker'[v] = worker[v] /\ Busy(v) /\ worker[v].job # j
          BY <2>4, <2>5, <3>1 DEF Busy
        <4>2. worker[v].job \in Jobs /\ jobs[worker[v].job].status = "running"
          BY <4>1 DEF Held
        <4> QED BY <2>2, <4>1, <4>2
      <3>2. ASSUME NEW u \in Workers, NEW v \in Workers, Busy(u)', worker'[u].job = worker'[v].job
            PROVE  u = v
        BY <2>4, <2>5, <3>2, JobsAreNumbers DEF Held, Busy
      <3> QED BY <3>1, <3>2 DEF Held, Busy
    <2> QED BY <2>1, <2>2, <2>6, <2>7 DEF Drops
  <1> QED
    BY <1>1, <1>2, <1>3, <1>4, <1>5, <1>6, <1>8, <1>9, <1>10, <1>11, <1>13, <1>14, StepCases

-----------------------------------------------------------------------------
(* The invariant                                                           *)

(* Without faults every running job is in the hands of a process.          *)
Attended ==
  \A j \in Jobs : jobs[j].status = "running" =>
    faults > 0 \/ \E w \in Workers : Busy(w) /\ worker[w].job = j

(* Rows come from jobs of their paper that were claimed.                   *)
RowsOfJobs ==
  \A row \in inputs : /\ jobs[row.job].paper = row.paper
                      /\ jobs[row.job].status \notin {"none", "pending"}

(* A job is not calculated before its process commits, and then it is.     *)
CalculatedByHolder ==
  \A w \in Workers :
    /\ worker[w].pc \in {"claimed", "calculating"} => \A row \in inputs : row.job # worker[w].job
    /\ worker[w].pc = "committed" => \E row \in inputs : row.job = worker[w].job

(* One calculation of an execution at a time, and none is missed by the    *)
(* revision its process has read.                                          *)
LockedSnapshot ==
  /\ \A v, w \in Workers :
       worker[v].pc = "calculating" /\ worker[w].pc = "calculating" /\ PaperOf(v) = PaperOf(w)
       => v = w
  /\ \A w \in Workers : worker[w].pc = "calculating" =>
       \A row \in inputs : row.paper = PaperOf(w) => row.revision <= worker[w].last

RowInv == RowsOfJobs /\ CalculatedByHolder /\ CalculatedOnce /\ LockedSnapshot /\ LiveIsLatest

IInv == TypeInv /\ Attended /\ RowInv

(* The initial states.                                                     *)
LEMMA RowInit == Init => Attended /\ RowInv
  BY DEF Init, Attended, RowInv, RowsOfJobs, CalculatedByHolder, CalculatedOnce, LockedSnapshot,
     LiveIsLatest, IdleWorker, NoJob

(* A running job is only left without a process by a fault.                *)
LEMMA AttendedStep ==
  ASSUME TypeInv, Attended, [Next]_vars
  PROVE  Attended'
  <1> USE DEF TypeInv, TypeOK, Named
  <1>1. CASE UNCHANGED <<jobs, worker, faults>>
    BY <1>1 DEF Attended, Busy
  <1>2. ASSUME NEW c \in Callers, NEW j \in Jobs, SaveJob(c, j) PROVE Attended'
    BY <1>2 DEF SaveJob, Attended, Busy
  <1>3. ASSUME NEW w \in Workers, NEW j \in Jobs, ClaimNextPending(w, j) PROVE Attended'
    <2>1. faults' = faults
      BY <1>3 DEF ClaimNextPending
    <2>2. ASSUME NEW k \in Jobs, jobs'[k].status = "running", k # j
          PROVE  faults' > 0 \/ \E v \in Workers : Busy(v)' /\ worker'[v].job = k
      BY <1>3, <2>1, <2>2, ClaimEffects DEF Attended, Busy
    <2>3. Busy(w)' /\ worker'[w].job = j
      BY <1>3, ClaimEffects DEF Busy
    <2> QED BY <2>2, <2>3 DEF Attended
  <1>4. ASSUME NEW w \in Workers, Keeps(w), UNCHANGED <<jobs, faults>> PROVE Attended'
    BY <1>4 DEF Keeps, Attended, Busy
  <1>5. ASSUME NEW w \in Workers, Fault PROVE Attended'
    BY <1>5 DEF Fault, Attended
  <1>6. ASSUME NEW w \in Workers, MarkCompleted(w) \/ MarkFailed(w) PROVE Attended'
    <2>1. Drops(w) /\ faults' = faults
      BY <1>6, WorkEffects DEF MarkCompleted, MarkFailed
    <2> QED BY <1>6, <2>1, EndEffects DEF Drops, Attended, Busy
  <1> QED
    BY <1>1, <1>2, <1>3, <1>4, <1>5, <1>6, StepCases, WorkEffects
    DEF vars, CreateDraft, FindNoActive, CountAttempts, BeginCalculation, CommitCalculation,
        RollbackCalculation, MarkCompletedFails, Abandon

-----------------------------------------------------------------------------
(* The rows of the calculations                                            *)

(* Without a commit, and as long as nobody starts to calculate, the rows   *)
(* only depend on which jobs are held, and on their papers.                *)
LEMMA RowFrame ==
  ASSUME TypeInv, TypeInv', RowInv, UNCHANGED <<inputs, snapshot>>,
         \A j \in Jobs : jobs[j].status # "none" => jobs'[j].paper = jobs[j].paper,
         \A j \in Jobs : jobs[j].status \notin {"none", "pending"} =>
                           jobs'[j].status \notin {"none", "pending"},
         \A j \in Jobs : jobs'[j].status = "completed" =>
                           jobs[j].status = "completed" \/ \E row \in inputs : row.job = j,
         \A w \in Workers :
           \/ worker'[w] = worker[w]
           \/ worker'[w].pc \in {"idle", "failing"}
           \/ worker'[w].pc = "claimed" /\ jobs[worker'[w].job].status = "pending"
  PROVE  RowInv'
  <1> USE DEF TypeInv, TypeOK, RowInv
  <1>1. \A row \in inputs : row.job \in Jobs
    BY DEF InputRow
  <1>2. RowsOfJobs'
    BY <1>1 DEF RowsOfJobs
  <1>3. CalculatedByHolder'
    BY <1>1 DEF CalculatedByHolder, RowsOfJobs
  <1>4. CalculatedOnce'
    BY DEF CalculatedOnce
  <1>5. ASSUME NEW w \in Workers, worker'[w].pc = "calculating"
        PROVE  worker[w].pc = "calculating" /\ worker'[w] = worker[w] /\ PaperOf(w)' = PaperOf(w)
    <2>1. worker'[w] = worker[w]
      BY <1>5
    <2>2. worker[w].job \in Jobs /\ jobs[worker[w].job].status = "running"
      BY <1>5, <2>1 DEF Named, Held, Busy
    <2> QED BY <1>5, <2>1, <2>2 DEF PaperOf
  <1>6. LockedSnapshot'
    <2>1. ASSUME NEW v \in Workers, NEW w \in Workers, worker'[v].pc = "calculating",
                 worker'[w].pc = "calculating", PaperOf(v)' = PaperOf(w)'
          PROVE  v = w
      BY <1>5, <2>1 DEF LockedSnapshot
    <2>2. ASSUME NEW w \in Workers, worker'[w].pc = "calculating",
                 NEW row \in inputs, row.paper = PaperOf(w)'
          PROVE  row.revision <= worker'[w].last
      BY <1>5, <2>2 DEF LockedSnapshot
    <2> QED BY <2>1, <2>2 DEF LockedSnapshot
  <1>7. LiveIsLatest'
    BY DEF LiveIsLatest
  <1> QED BY <1>2, <1>3, <1>4, <1>6, <1>7

(* The lock is free and the revision read is that of the last row.         *)
LEMMA RowBegin ==
  ASSUME TypeInv, TypeInv', RowInv, NEW w \in Workers, BeginCalculation(w)
  PROVE  RowInv'
  <1> USE DEF TypeInv, TypeOK, RowInv
  <1>1. UNCHANGED <<snapshot, inputs, jobs>> /\ worker[w].pc = "claimed" /\ ~Locked(PaperOf(w))
    BY DEF BeginCalculation
  <1>2. /\ worker'[w].job = worker[w].job /\ worker'[w].pc = "calculating"
        /\ \A v \in Workers : v # w => worker'[v] = worker[v]
    BY WorkEffects DEF Keeps
  <1>3. \A v \in Workers : PaperOf(v)' = PaperOf(v)
    BY <1>1, <1>2 DEF PaperOf
  <1>4. \A row \in RowsOf(PaperOf(w)) : row.revision <= worker'[w].last
    BY DEF BeginCalculation, Worker
  <1>5. RowsOfJobs' /\ CalculatedOnce' /\ LiveIsLatest'
    BY <1>1 DEF RowsOfJobs, CalculatedOnce, LiveIsLatest
  <1>6. CalculatedByHolder'
    BY <1>1, <1>2 DEF CalculatedByHolder
  <1>7. LockedSnapshot'
    <2>1. ASSUME NEW u \in Workers, NEW v \in Workers, worker'[u].pc = "calculating",
                 worker'[v].pc = "calculating", PaperOf(u)' = PaperOf(v)'
          PROVE  u = v
      BY <1>1, <1>2, <1>3, <2>1 DEF LockedSnapshot, Locked
    <2>2. ASSUME NEW v \in Workers, worker'[v].pc = "calculating",
                 NEW row \in inputs, row.paper = PaperOf(v)'
          PROVE  row.revision <= worker'[v].last
      BY <1>2, <1>3, <1>4, <2>2 DEF LockedSnapshot, RowsOf
    <2> QED BY <1>1, <2>1, <2>2 DEF LockedSnapshot
  <1> QED BY <1>5, <1>6, <1>7

(* The rows after a commit: the old ones, those of the paper voided, and   *)
(* one that is newer than all of them and comes from a new job.            *)
LEMMA RowCommit ==
  ASSUME TypeInv, TypeInv', RowInv, NEW w \in Workers, CommitCalculation(w)
  PROVE  RowInv'
  <1> USE DEF TypeInv, TypeOK, RowInv
  <1>1. PICK V \in [inputs -> InputRow], new \in InputRow :
          /\ \A row \in inputs' : row = new \/ \E old \in inputs : row = V[old]
          /\ \A old \in inputs : V[old] \in inputs'
          /\ new \in inputs'
          /\ \A old \in inputs :
               /\ V[old].paper = old.paper /\ V[old].revision = old.revision
               /\ V[old].job = old.job
               /\ old.paper = PaperOf(w) => V[old].draft = FALSE
               /\ old.paper # PaperOf(w) => V[old].draft = old.draft
          /\ new.paper = PaperOf(w) /\ new.revision = worker[w].last + 1
          /\ new.job = worker[w].job /\ new.draft = TRUE
    <2> DEFINE V == [old \in inputs |->
                       IF old.paper = PaperOf(w) THEN [old EXCEPT !.draft = FALSE] ELSE old]
               new == [paper |-> PaperOf(w), revision |-> worker[w].last + 1,
                       job |-> worker[w].job, draft |-> TRUE]
    <2>1. inputs' = {V[old] : old \in inputs} \cup {new}
      BY DEF CommitCalculation, Voided
    <2>2. V \in [inputs -> InputRow]
      <3>1. \A old \in inputs : old \in InputRow /\ [old EXCEPT !.draft = FALSE] \in InputRow
        BY DEF InputRow
      <3> QED BY <3>1
    <2>3. new \in InputRow
      BY DEF InputRow, CommitCalculation, Named, Held, Busy, PaperOf, Worker
    <2>4. \A old \in inputs :
            /\ V[old].paper = old.paper /\ V[old].revision = old.revision
            /\ V[old].job = old.job
            /\ old.paper = PaperOf(w) => V[old].draft = FALSE
            /\ old.paper # PaperOf(w) => V[old].draft = old.draft
      BY DEF InputRow
    <2>5. /\ new.paper = PaperOf(w) /\ new.revision = worker[w].last + 1
          /\ new.job = worker[w].job /\ new.draft = TRUE
      OBVIOUS
    <2> HIDE DEF V, new
    <2> QED BY <2>1, <2>2, <2>3, <2>4, <2>5
  <1>2. UNCHANGED jobs
    BY DEF CommitCalculation
  <1>4. \A old \in inputs : /\ old.job \in Jobs /\ old.revision \in Nat /\ old.job # worker[w].job
                            /\ old.paper = PaperOf(w) => old.revision <= worker[w].last
    BY DEF InputRow, CommitCalculation, CalculatedByHolder, LockedSnapshot
  <1>5. /\ worker[w].job \in Jobs /\ jobs[worker[w].job].status = "running"
        /\ PaperOf(w) \in Papers /\ worker[w].last \in Nat
    BY DEF CommitCalculation, Named, Held, Busy, PaperOf, Worker
  <1>6. /\ worker'[w].pc = "committed" /\ worker'[w].job = worker[w].job
        /\ \A v \in Workers : v # w => worker'[v] = worker[v]
    BY WorkEffects DEF Keeps
  <1>7. \A v \in Workers : PaperOf(v)' = PaperOf(v)
    BY <1>2, <1>6 DEF PaperOf
  <1>8. snapshot' = [snapshot EXCEPT ![PaperOf(w)] = worker[w].job]
    BY DEF CommitCalculation
  <1>9. RowsOfJobs'
    <2>1. jobs[new.job].paper = new.paper /\ jobs[new.job].status = "running"
      BY <1>1, <1>5 DEF PaperOf
    <2> QED BY <1>1, <1>2, <2>1 DEF RowsOfJobs
  <1>10. CalculatedByHolder'
    <2>1. ASSUME NEW v \in Workers, v # w PROVE Busy(v) => worker[v].job # worker[w].job
      BY <2>1, <1>5, JobsAreNumbers DEF Held, CommitCalculation, Busy
    <2>2. ASSUME NEW v \in Workers, worker'[v].pc \in {"claimed", "calculating"}, NEW row \in inputs'
          PROVE  row.job # worker'[v].job
      BY <1>1, <1>2, <1>6, <2>1, <2>2 DEF CalculatedByHolder, Busy
    <2>3. ASSUME NEW v \in Workers, worker'[v].pc = "committed"
          PROVE  \E row \in inputs' : row.job = worker'[v].job
      BY <1>1, <1>2, <1>6, <2>3 DEF CalculatedByHolder
    <2> QED BY <2>2, <2>3 DEF CalculatedByHolder
  <1>11. CalculatedOnce'
    <2>1. ASSUME NEW row \in inputs', NEW other \in inputs', row.job = other.job
          PROVE  row = other
      BY <1>1, <1>2, <1>4, <2>1 DEF CalculatedOnce
    <2>2. ASSUME NEW j \in Jobs, jobs[j].status = "completed"
          PROVE  \E row \in inputs' : row.job = j
      BY <1>1, <1>2, <2>2 DEF CalculatedOnce
    <2> QED BY <1>2, <2>1, <2>2 DEF CalculatedOnce
  <1>12. LockedSnapshot'
    <2>1. ASSUME NEW v \in Workers, worker'[v].pc = "calculating"
          PROVE  v # w /\ worker[v].pc = "calculating" /\ worker'[v] = worker[v] /\ PaperOf(v) # PaperOf(w)
      BY <1>6, <2>1 DEF LockedSnapshot, CommitCalculation
    <2>2. ASSUME NEW v \in Workers, worker'[v].pc = "calculating",
                 NEW row \in inputs', row.paper = PaperOf(v)'
          PROVE  row.revision <= worker'[v].last
      BY <1>1, <1>2, <1>7, <2>1, <2>2 DEF LockedSnapshot
    <2>3. ASSUME NEW u \in Workers, NEW v \in Workers, worker'[u].pc = "calculating",
                 worker'[v].pc = "calculating", PaperOf(u)' = PaperOf(v)'
          PROVE  u = v
      BY <1>7, <2>1, <2>3 DEF LockedSnapshot
    <2> QED BY <2>2, <2>3 DEF LockedSnapshot
  <1>13. LiveIsLatest'
    <2>1. ASSUME NEW row \in inputs', NEW other \in inputs', row.paper = other.paper, row.draft
          PROVE  other.revision <= row.revision
      BY <1>1, <1>2, <1>4, <1>5, <2>1 DEF LiveIsLatest
    <2>2. ASSUME NEW row \in inputs', NEW other \in inputs', row.paper = other.paper,
                 row.revision = other.revision
          PROVE  row = other
      BY <1>1, <1>2, <1>4, <1>5, <2>2 DEF LiveIsLatest
    <2>3. ASSUME NEW row \in inputs' PROVE row.draft <=> snapshot'[row.paper] = row.job
      <3>1. row.paper \in Papers
        BY DEF InputRow
      <3>2. CASE row = new
        BY <1>1, <1>5, <1>8, <3>2
      <3>3. ASSUME NEW old \in inputs, row = V[old]
            PROVE  row.draft <=> snapshot'[row.paper] = row.job
        <4>1. CASE old.paper = PaperOf(w)
          BY <1>1, <1>4, <1>5, <1>8, <3>3, <4>1
        <4>2. CASE old.paper # PaperOf(w)
          BY <1>1, <1>8, <3>1, <3>3, <4>2 DEF LiveIsLatest
        <4> QED BY <4>1, <4>2
      <3> QED BY <1>1, <3>2, <3>3
    <2> QED BY <2>1, <2>2, <2>3 DEF LiveIsLatest
  <1> QED BY <1>9, <1>10, <1>11, <1>12, <1>13

(* Every step keeps the rows in the order of their calculations.           *)
LEMMA RowStep ==
  ASSUME TypeInv, TypeInv', RowInv, [Next]_vars
  PROVE  RowInv'
  <1> USE DEF TypeInv, TypeOK
  <1>1. CASE UNCHANGED <<inputs, snapshot, jobs, worker>>
    BY <1>1, RowFrame
  <1>2. ASSUME NEW c \in Callers, NEW j \in Jobs, SaveJob(c, j) PROVE RowInv'
    <2>1. UNCHANGED <<inputs, snapshot, worker>> /\ jobs[j].status = "none"
      BY <1>2 DEF SaveJob
    <2>2. jobs'[j].status = "pending" /\ \A k \in Jobs : k # j => jobs'[k] = jobs[k]
      BY <1>2 DEF SaveJob
    <2> QED BY <2>1, <2>2, RowFrame
  <1>3. ASSUME NEW w \in Workers, NEW j \in Jobs, ClaimNextPending(w, j) PROVE RowInv'
    <2>1. UNCHANGED <<inputs, snapshot>>
      BY <1>3 DEF ClaimNextPending
    <2>2. /\ jobs[j].status = "pending" /\ worker'[w].pc = "claimed" /\ worker'[w].job = j
          /\ \A v \in Workers : v # w => worker'[v] = worker[v]
          /\ jobs'[j].status = "running" /\ jobs'[j].paper = jobs[j].paper
          /\ \A k \in Jobs : k # j => jobs'[k] = jobs[k]
      BY <1>3, ClaimEffects
    <2> QED BY <2>1, <2>2, RowFrame
  <1>4. ASSUME NEW w \in Workers, RollbackCalculation(w) \/ MarkCompletedFails(w) PROVE RowInv'
    <2>1. UNCHANGED <<inputs, snapshot, jobs>> /\ worker'[w].pc = "failing"
      BY <1>4, WorkEffects DEF RollbackCalculation, MarkCompletedFails
    <2>2. \A v \in Workers : v # w => worker'[v] = worker[v]
      BY <1>4, WorkEffects DEF Keeps
    <2> QED BY <2>1, <2>2, RowFrame
  <1>5. ASSUME NEW w \in Workers, MarkCompleted(w) \/ MarkFailed(w) PROVE RowInv'
    <2>1. UNCHANGED <<inputs, snapshot>>
      BY <1>5 DEF MarkCompleted, MarkFailed
    <2>2. worker'[w].pc = "idle" /\ \A v \in Workers : v # w => worker'[v] = worker[v]
      BY <1>5, WorkEffects DEF Drops
    <2>3. PICK j \in Jobs :
            /\ worker[w].job = j
            /\ jobs'[j].status = IF MarkCompleted(w) THEN "completed" ELSE "failed"
            /\ jobs'[j].paper = jobs[j].paper
            /\ \A k \in Jobs : k # j => jobs'[k] = jobs[k]
      BY <1>5, EndEffects
    <2>4. MarkCompleted(w) => \E row \in inputs : row.job = j
      BY <2>3 DEF MarkCompleted, RowInv, CalculatedByHolder
    <2>5. jobs'[j].status \in {"completed", "failed"}
      BY <2>3
    <2>6. jobs'[j].status = "completed" => \E row \in inputs : row.job = j
      BY <2>3, <2>4
    <2> QED BY <2>1, <2>2, <2>3, <2>5, <2>6, RowFrame
  <1>6. ASSUME NEW w \in Workers, Abandon(w) PROVE RowInv'
    <2>1. UNCHANGED <<inputs, snapshot, jobs>>
      BY <1>6 DEF Abandon
    <2>2. worker'[w].pc = "idle" /\ \A v \in Workers : v # w => worker'[v] = worker[v]
      BY <1>6, WorkEffects DEF Drops
    <2> QED BY <2>1, <2>2, RowFrame
  <1> QED
    BY <1>1, <1>2, <1>3, <1>4, <1>5, <1>6, RowBegin, RowCommit, StepCases
    DEF vars, CreateDraft, FindNoActive, CountAttempts

(* The inductive invariant holds of every behaviour.                       *)
LEMMA Invariance == Spec => []IInv
  <1>1. Init => IInv
    BY TypeInit, RowInit DEF IInv
  <1>2. IInv /\ [Next]_vars => IInv'
    BY TypeStep, AttendedStep, RowStep DEF IInv
  <1> QED BY <1>1, <1>2, PTL DEF Spec

-----------------------------------------------------------------------------
(* Theorems                                                                *)

(* Tables and local states keep the shape the code gives them.             *)
THEOREM TypeCorrect == Spec => []TypeOK
  <1>1. IInv => TypeOK
    BY DEF IInv, TypeInv
  <1> QED BY <1>1, Invariance, PTL

(* No job is run by two processes, and without faults none is orphaned.    *)
THEOREM ClaimCorrect == Spec => []RunningIsHeld
  <1>1. IInv => RunningIsHeld
    BY DEF IInv, TypeInv, Held, Attended, RunningIsHeld
  <1> QED BY <1>1, Invariance, PTL

(* A job leaves at most one row and a completed job leaves one.            *)
THEOREM OnceCorrect == Spec => []CalculatedOnce
  <1>1. IInv => CalculatedOnce
    BY DEF IInv, RowInv
  <1> QED BY <1>1, Invariance, PTL

(* The live row of an execution is its last and the one it shows.          *)
THEOREM LiveCorrect == Spec => []LiveIsLatest
  <1>1. IInv => LiveIsLatest
    BY DEF IInv, RowInv
  <1> QED BY <1>1, Invariance, PTL

(* Recalculating never loses or revives the record of a calculation.       *)
THEOREM HistoryCorrect == Spec => HistoryIsKept
  <1> DEFINE RowsKept == \A row \in inputs : \E new \in inputs' :
                       /\ new = [row EXCEPT !.draft = new.draft]
                       /\ new.draft => row.draft
  <1>1. ASSUME TypeOK, UNCHANGED inputs PROVE RowsKept
    <2> SUFFICES ASSUME NEW row \in inputs
                 PROVE  row = [row EXCEPT !.draft = row.draft]
      BY <1>1
    <2> QED BY <1>1 DEF TypeOK, InputRow
  <1>2. ASSUME TypeOK, NEW w \in Workers, CommitCalculation(w) PROVE RowsKept
    <2> SUFFICES ASSUME NEW row \in inputs
                 PROVE  \E new \in inputs' : /\ new = [row EXCEPT !.draft = new.draft]
                                             /\ new.draft => row.draft
      OBVIOUS
    <2> DEFINE new == IF row.paper = PaperOf(w) THEN [row EXCEPT !.draft = FALSE] ELSE row
    <2>1. new \in inputs'
      BY <1>2 DEF CommitCalculation, Voided
    <2>2. new = [row EXCEPT !.draft = new.draft] /\ (new.draft => row.draft)
      BY <1>2 DEF TypeOK, InputRow
    <2> QED BY <2>1, <2>2
  <1>3. TypeOK /\ [Next]_vars => [RowsKept]_vars
    BY <1>1, <1>2, StepCases
    DEF vars, CreateDraft, FindNoActive, CountAttempts, SaveJob, ClaimNextPending, BeginCalculation,
        RollbackCalculation, MarkCompleted, MarkFailed, MarkCompletedFails, Abandon
  <1> QED BY <1>3, TypeCorrect, PTL DEF Spec, HistoryIsKept

-----------------------------------------------------------------------------
(* Refinement                                                              *)

(* The initial states map to that of the queue.                            *)
LEMMA QueueInit == Init => Queue!Init
  BY DEF Init, Queue!Init, NoJob

(* The commit applies the job, which nobody had applied.                   *)
LEMMA QueueCommit ==
  ASSUME IInv, NEW w \in Workers, CommitCalculation(w)
  PROVE  Queue!Next
  <1> USE DEF IInv, TypeInv, TypeOK
  <1>1. PICK j \in Jobs : worker[w].job = j /\ jobs[j].status = "running"
    BY DEF CommitCalculation, Named, Held, Busy
  <1>2. \A row \in inputs : row.job # j
    BY <1>1 DEF RowInv, CalculatedByHolder, CommitCalculation
  <1>3. {row.job : row \in inputs}' = {row.job : row \in inputs} \cup {j}
    <2> DEFINE new == [paper |-> PaperOf(w), revision |-> worker[w].last + 1,
                       job |-> worker[w].job, draft |-> TRUE]
    <2>1. inputs' = Voided(PaperOf(w)) \cup {new} /\ new.job = j
      BY <1>1 DEF CommitCalculation
    <2> HIDE DEF new
    <2>2. {row.job : row \in Voided(PaperOf(w))} = {row.job : row \in inputs}
      <3>1. ASSUME NEW row \in inputs
            PROVE  (IF row.paper = PaperOf(w) THEN [row EXCEPT !.draft = FALSE] ELSE row).job = row.job
        BY DEF InputRow
      <3>2. ASSUME NEW row \in Voided(PaperOf(w)) PROVE \E old \in inputs : old.job = row.job
        BY <3>1, <3>2 DEF Voided
      <3>3. ASSUME NEW old \in inputs PROVE \E row \in Voided(PaperOf(w)) : row.job = old.job
        BY <3>1, <3>3 DEF Voided
      <3> QED BY <3>2, <3>3
    <2> QED BY <2>1, <2>2
  <1>4. Queue!Apply(j)
    BY <1>1, <1>2, <1>3 DEF Queue!Apply, CommitCalculation
  <1> QED BY <1>4 DEF Queue!Next

(* Every other step moves one job or none.                                 *)
LEMMA QueueMove ==
  ASSUME TypeOK, NEW j \in Jobs, NEW s, UNCHANGED inputs,
         jobs' \in [Jobs -> Job], jobs'[j].status = s,
         \A k \in Jobs : k # j => jobs'[k] = jobs[k]
  PROVE  Queue!Move(j, jobs[j].status, s) /\ {row.job : row \in inputs}' = {row.job : row \in inputs}
  <1>1. [k \in Jobs |-> jobs[k].status]' = [[k \in Jobs |-> jobs[k].status] EXCEPT ![j] = s]
    BY DEF TypeOK
  <1> QED BY <1>1 DEF Queue!Move

(* Every step maps to a step of the queue or to a stutter.                 *)
LEMMA QueueStep ==
  ASSUME IInv, [Next]_vars
  PROVE  [Queue!Next]_(Queue!vars)
  <1> USE DEF IInv, TypeInv, TypeOK
  <1>1. CASE UNCHANGED <<jobs, inputs>>
    BY <1>1 DEF Queue!vars
  <1>2. ASSUME NEW c \in Callers, NEW j \in Jobs, SaveJob(c, j) PROVE Queue!Next
    <2>1. UNCHANGED inputs /\ jobs' \in [Jobs -> Job] /\ jobs[j].status = "none"
      BY <1>2, TypeStep DEF SaveJob, TypeOK
    <2>2. jobs'[j].status = "pending" /\ \A k \in Jobs : k # j => jobs'[k] = jobs[k]
      BY <1>2 DEF SaveJob, TypeOK
    <2>3. Queue!Move(j, "none", "pending") /\ UNCHANGED {row.job : row \in inputs}
      BY <2>1, <2>2, QueueMove
    <2> QED BY <2>3 DEF Queue!Next, Queue!Submit
  <1>3. ASSUME NEW w \in Workers, NEW j \in Jobs, ClaimNextPending(w, j) PROVE Queue!Next
    <2>1. /\ UNCHANGED inputs /\ jobs[j].status = "pending"
          /\ \A k \in Jobs : jobs[k].status = "pending" => j <= k
      BY <1>3 DEF ClaimNextPending
    <2>2. Queue!Move(j, "pending", "running") /\ UNCHANGED {row.job : row \in inputs}
      BY <1>3, <2>1, ClaimEffects, QueueMove
    <2> QED BY <2>1, <2>2 DEF Queue!Next, Queue!Start
  <1>4. ASSUME NEW w \in Workers, MarkCompleted(w) \/ MarkFailed(w) PROVE Queue!Next
    <2>1. PICK j \in Jobs : worker[w].job = j /\ jobs[j].status = "running"
      BY <1>4, EndEffects DEF Held
    <2>2. UNCHANGED inputs
      BY <1>4 DEF MarkCompleted, MarkFailed
    <2>3. /\ jobs'[j].status = IF MarkCompleted(w) THEN "completed" ELSE "failed"
          /\ \A k \in Jobs : k # j => jobs'[k] = jobs[k]
          /\ jobs' \in [Jobs -> Job]
      BY <1>4, <2>1, EndEffects
    <2>4. CASE MarkCompleted(w)
      <3>1. Queue!Move(j, "running", "completed") /\ UNCHANGED {row.job : row \in inputs}
        BY <2>1, <2>2, <2>3, <2>4, QueueMove
      <3>2. j \in {row.job : row \in inputs}
        BY <2>1, <2>4 DEF MarkCompleted, RowInv, CalculatedByHolder
      <3> QED BY <3>1, <3>2 DEF Queue!Next, Queue!Complete
    <2>5. CASE ~MarkCompleted(w)
      <3>1. Queue!Move(j, "running", "failed") /\ UNCHANGED {row.job : row \in inputs}
        BY <2>1, <2>2, <2>3, <2>5, QueueMove
      <3> QED BY <3>1 DEF Queue!Next, Queue!Fail
    <2> QED BY <2>4, <2>5
  <1> QED
    BY <1>1, <1>2, <1>3, <1>4, QueueCommit, StepCases
    DEF vars, CreateDraft, FindNoActive, CountAttempts, BeginCalculation, RollbackCalculation,
        MarkCompletedFails, Abandon

(* The jobs of the work papers are an instance of the abstract queue.      *)
THEOREM QueueCorrect == Spec => ImplementsQueue
  <1> QED BY QueueInit, QueueStep, Invariance, PTL DEF Spec, ImplementsQueue, Queue!Spec
-----------------------------------------------------------------------------
(* The migrations of the database                                          *)

(* There are 21 timestamps, and every migration of one has a script.       *)
LEMMA BatchesAreNamed ==
  /\ DOMAIN Batches = 1 .. 21
  /\ \A k \in 1 .. 21 : Batches[k] \subseteq Names
<1>1. DOMAIN Batches = 1 .. 21
  BY DEF Batches
<1>2. Names =
       {"CreateInitialDomain", "CreateStoredFiles", "AddCookieAuthentication",
        "AddUserPlatformRole", "CreateSiiAccountPlan", "CreateCompanyAccountPlan",
        "CreateAccountingImportCore", "CreateSiiAccountMatching", "PreserveBalanceSourceValues",
        "CreateAccountMatchingFeedback", "CreateSiiAccountConcepts", "DiscardBalanceVersions",
        "CreateProfessionalAccountInference", "CreateGlobalIndustryLearning",
        "AddExpertMappingEvidence", "AddReviewSuggestionStatus", "AddBalanceRole",
        "ExtendBalanceReportedSummaries", "CreateTaxWorkPapers", "ImplementA17WorkPaper",
        "StabilizeWorkPaperApplicability", "LoadCuratedWorkPaperApplicability",
        "CreateWorkPaperJobs"}
  BY DEF Names, Script
<1>3. \A k \in 1 .. 21 : Batches[k] \subseteq Names
  BY <1>2 DEF Batches
<1> QED BY <1>1, <1>3

(* Of the timestamps with a migration that waits there is a first one.     *)
LEMMA FirstWaiting ==
  ASSUME NEW W \in SUBSET (1 .. 21), W # {}
  PROVE  \E i \in W : \A j \in W : i <= j
<1>1. W \subseteq Nat
  OBVIOUS
<1>2. \E i \in W : \A j \in W : <<j, i>> \notin OpToRel(<, Nat)
  BY <1>1, WFMin, NatLessThanWellFounded
<1>3. \A i, j \in W : <<j, i>> \notin OpToRel(<, Nat) => i <= j
  BY <1>1 DEF OpToRel
<1> QED BY <1>2, <1>3

(* What a run starts next has not been executed, and is of the first       *)
(* timestamp with a migration that waits: those before it have no other.    *)
LEMMA PendingIsNext ==
  ASSUME NEW log, NEW m \in Pending(log)
  PROVE  /\ m \in Names /\ m \notin ToSet(log)
         /\ \E k \in DOMAIN Batches :
              m \in Batches[k] /\ \A j \in 1 .. k - 1 : Batches[j] \subseteq ToSet(log)
<1> DEFINE waiting == {i \in DOMAIN Batches : ~(Batches[i] \subseteq ToSet(log))}
           k == CHOOSE i \in waiting : \A j \in waiting : i <= j
<1>1. waiting # {} /\ m \in Batches[k] \ ToSet(log)
  BY DEF Pending
<1>2. waiting \subseteq 1 .. 21
  BY BatchesAreNamed
<1>3. k \in waiting /\ \A j \in waiting : k <= j
  <2> HIDE DEF waiting
  <2> QED BY <1>1, <1>2, FirstWaiting
<1> HIDE DEF k
<1>4. ASSUME NEW j \in 1 .. k - 1 PROVE Batches[j] \subseteq ToSet(log)
  BY <1>2, <1>3, BatchesAreNamed
<1> QED BY <1>1, <1>3, <1>4, BatchesAreNamed

(* Recording what a run ends keeps the log in the order of timestamps.     *)
LEMMA AppendedInOrder ==
  ASSUME NEW log \in Seq(Names), IsInjective(log), InOrder(log), NEW m \in Pending(log)
  PROVE  /\ Append(log, m) \in Seq(Names) /\ IsInjective(Append(log, m))
         /\ InOrder(Append(log, m))
<1> DEFINE longer == Append(log, m)
<1>1. /\ m \in Names /\ m \notin ToSet(log)
      /\ \E k \in DOMAIN Batches :
           m \in Batches[k] /\ \A j \in 1 .. k - 1 : Batches[j] \subseteq ToSet(log)
  BY PendingIsNext
<1>2. /\ longer \in Seq(Names) /\ Len(longer) = Len(log) + 1
      /\ DOMAIN log = 1 .. Len(log) /\ DOMAIN longer = 1 .. Len(log) + 1
      /\ \A i \in 1 .. Len(log) : longer[i] = log[i]
      /\ longer[Len(log) + 1] = m /\ Len(log) \in Nat
  BY <1>1
<1> HIDE DEF longer
<1>3. IsInjective(longer)
  BY <1>1, <1>2 DEF IsInjective, ToSet
<1>4. InOrder(longer)
  <2> SUFFICES ASSUME NEW n \in 1 .. Len(log) + 1
               PROVE  \E k \in DOMAIN Batches :
                        /\ longer[n] \in Batches[k]
                        /\ \A j \in 1 .. k - 1 : Batches[j] \subseteq {longer[i] : i \in 1 .. n - 1}
    BY <1>2 DEF InOrder
  <2>1. CASE n = Len(log) + 1
    <3>1. ToSet(log) = {longer[i] : i \in 1 .. n - 1}
      BY <1>2, <2>1 DEF ToSet
    <3> QED BY <1>1, <1>2, <2>1, <3>1
  <2>2. CASE n \in 1 .. Len(log)
    <3>1. {log[i] : i \in 1 .. n - 1} = {longer[i] : i \in 1 .. n - 1}
      BY <1>2, <2>2
    <3>2. PICK k \in DOMAIN Batches :
            log[n] \in Batches[k] /\ \A j \in 1 .. k - 1 : Batches[j] \subseteq {log[i] : i \in 1 .. n - 1}
      BY <1>2, <2>2 DEF InOrder
    <3> QED BY <1>2, <2>2, <3>1, <3>2
  <2> QED BY <2>1, <2>2
<1> QED BY <1>2, <1>3, <1>4 DEF longer

(* So does erasing the last record, which is what a revert ends with.      *)
LEMMA FrontInOrder ==
  ASSUME NEW log \in Seq(Names), IsInjective(log), InOrder(log), log # <<>>
  PROVE  /\ Front(log) \in Seq(Names) /\ IsInjective(Front(log)) /\ InOrder(Front(log))
<1> DEFINE shorter == Front(log)
<1>1. /\ shorter \in Seq(Names) /\ Len(log) \in Nat \ {0}
      /\ DOMAIN log = 1 .. Len(log) /\ DOMAIN shorter = 1 .. Len(log) - 1
      /\ \A i \in 1 .. Len(log) - 1 : shorter[i] = log[i]
  BY DEF Front
<1> HIDE DEF shorter
<1>2. IsInjective(shorter)
  BY <1>1 DEF IsInjective
<1>3. InOrder(shorter)
  <2> SUFFICES ASSUME NEW n \in 1 .. Len(log) - 1
               PROVE  \E k \in DOMAIN Batches :
                        /\ shorter[n] \in Batches[k]
                        /\ \A j \in 1 .. k - 1 : Batches[j] \subseteq {shorter[i] : i \in 1 .. n - 1}
    BY <1>1 DEF InOrder
  <2>1. {log[i] : i \in 1 .. n - 1} = {shorter[i] : i \in 1 .. n - 1}
    BY <1>1
  <2>2. PICK k \in DOMAIN Batches :
          log[n] \in Batches[k] /\ \A j \in 1 .. k - 1 : Batches[j] \subseteq {log[i] : i \in 1 .. n - 1}
    BY <1>1 DEF InOrder
  <2> QED BY <1>1, <2>1, <2>2
<1> QED BY <1>1, <1>2, <1>3 DEF shorter
-----------------------------------------------------------------------------
(* A command at work is of a migration that waits, or of the last one.     *)
RunTyped ==
  /\ run \in [migration : Names \cup {"none"}, direction : {"none", "up", "down"},
              step : Nat, whole : BOOLEAN]
  /\ \/ run.migration = "none" /\ run.direction = "none"
     \/ /\ run.migration \in Names /\ run.direction = "up"
        /\ run.step # 0 /\ run.migration \in Pending(executed)
     \/ /\ run.migration \in Names /\ run.direction = "down"
        /\ run.step # 0 /\ executed # <<>> /\ run.migration = Last(executed)

(* A log repeats no migration, and is in the order of timestamps.          *)
Log(log) == log \in Seq(Names) /\ IsInjective(log) /\ InOrder(log)

(* The invariant of the records, those of the last commit included: a      *)
(* failure goes back to them.                                               *)
LogInv ==
  /\ Log(executed) /\ Log(recorded)
  /\ RunTyped
  /\ data \subseteq DOMAIN DataNeeds
  /\ failure.cause \in {"none", "data", "structure", "killed"}
  /\ events \in 0 .. MaxEvents

\* A command that rests, or reverts and has not executed anything, has nothing to lose.
Untouched == Resting \/ (run.direction = "down" /\ run.step = 1)

(* What a command is about to lose, and what the check at the start of a   *)
(* down has already found.                                                  *)
RevertInv ==
  /\ Untouched => saved = schema /\ recorded = executed
  /\ ~Resting => failure = NoFailure
  /\ run.direction = "down" /\ run.step = 1 /\ run.whole => Whole
  /\ run.direction = "down" /\ run.step # 1 =>
       /\ run.migration = "AddBalanceRole" => "collisions" \notin data
       /\ run.migration = "ExtendBalanceReportedSummaries" => "summaries" \notin data
  /\ RefusedRevertsAreWhole

(* A command that rests has no migration.                                  *)
LEMMA NoneIsNoName == "none" \notin Names
  BY DEF Names, Script

(* The initial states.                                                     *)
LEMMA LogInit == SchemaInit => LogInv
<1> SUFFICES ASSUME SchemaInit PROVE LogInv
  OBVIOUS
<1>1. Log(<<>>)
  BY DEF Log, IsInjective, InOrder
<1>2. RunTyped
  BY DEF RunTyped, SchemaInit, NoRun
<1> QED BY <1>1, <1>2, MigrationsAssumption DEF SchemaInit, LogInv, NoFailure

(* What a revert begins with is a migration.                               *)
LEMMA LastIsName ==
  ASSUME NEW log \in Seq(Names), log # <<>>
  PROVE  Last(log) \in Names
  BY DEF Last

(* A command that fails or is killed goes back to a log that was right.    *)
LEMMA LostLog ==
  ASSUME NEW s, NEW log, Log(log), NEW cause \in {"data", "structure", "killed"},
         Lose(s, log, cause), RunTyped
  PROVE  /\ Log(executed') /\ Log(recorded') /\ RunTyped'
         /\ failure'.cause \in {"none", "data", "structure", "killed"}
<1>1. RunTyped'
  BY DEF Lose, NoRun, RunTyped
<1>2. failure'.cause = cause
  BY DEF Lose
<1> QED BY <1>1, <1>2 DEF Lose

(* Every step keeps the records in order.                                  *)
LEMMA LogStep == LogInv /\ [SchemaNext]_schemaVars => LogInv'
<1> SUFFICES ASSUME LogInv, [SchemaNext]_schemaVars PROVE LogInv'
  OBVIOUS
<1>1. Log(executed) /\ Log(recorded) /\ RunTyped /\ data \subseteq DOMAIN DataNeeds
  BY DEF LogInv
<1>2. \A s : Kept(s) \subseteq data
  BY DEF Kept
<1>3. CASE Start
  <2>1. PICK m \in Pending(executed) : Begin(m, "up")
    BY <1>3 DEF Start
  <2>2. RunTyped'
    BY <1>3, <2>1, PendingIsNext DEF Start, Begin, RunTyped, Whole
  <2> QED BY <1>1, <1>3, <2>1, <2>2 DEF Start, Begin, LogInv, Log, NoFailure, InOrder
<1>4. CASE Revert
  <2>1. RunTyped'
    BY <1>1, <1>4, LastIsName DEF Revert, Begin, RunTyped, Log, Whole
  <2>2. UNCHANGED <<executed, recorded, data>> /\ failure' = NoFailure /\ events' = events
    BY <1>4 DEF Revert, Begin
  <2>3. Log(executed') /\ Log(recorded')
    BY <1>1, <2>2
  <2> QED BY <1>1, <2>1, <2>2, <2>3 DEF LogInv, NoFailure
<1>5. CASE Execute
  <2>1. run' = [run EXCEPT !.step = run.step + 1] /\ executed' = executed
    BY <1>5 DEF Execute
  <2>2. RunTyped'
    BY <1>1, <1>5, <2>1, NoneIsNoName DEF Execute, RunTyped, Resting
  <2>3. Log(executed') /\ Log(recorded')
    BY <1>1, <1>5 DEF Execute
  <2>4. data' \subseteq DOMAIN DataNeeds
    BY <1>1, <1>2, <1>5 DEF Execute
  <2> QED BY <1>5, <2>2, <2>3, <2>4 DEF Execute, LogInv, Log, InOrder
<1>6. CASE Fail
  <2>1. PICK cause \in {"data", "structure"} :
          Lose(schema, executed, cause) \/ Lose(saved, recorded, cause)
    BY <1>6 DEF Fail
  <2>2. data' \subseteq DOMAIN DataNeeds
    BY <1>1, <1>2, <2>1 DEF Lose
  <2> QED BY <1>1, <1>6, <2>1, <2>2, LostLog DEF Fail, LogInv, Log, InOrder
<1>7. CASE Kill
  <2>1. Lose(saved, recorded, "killed") /\ Event
    BY <1>7 DEF Kill
  <2>2. data' \subseteq DOMAIN DataNeeds
    BY <1>1, <1>2, <2>1 DEF Lose
  <2>3. events' \in 0 .. MaxEvents
    BY <2>1, MigrationsAssumption DEF Event, LogInv
  <2> QED BY <1>1, <2>1, <2>2, <2>3, LostLog DEF LogInv, Log, InOrder
<1>8. CASE Record
  <2>1. run.migration \in Pending(executed) /\ executed' = Append(executed, run.migration)
    BY <1>1, <1>8 DEF Record, RunTyped
  <2>2. Log(executed')
    BY <1>1, <2>1, AppendedInOrder DEF Log
  <2>3. CASE Pending(executed') = {}
    <3>1. Commit(executed')
      BY <1>8, <2>3 DEF Record
    <3>2. RunTyped'
      BY <1>1, <3>1 DEF Commit, RunTyped, NoRun
    <3>3. Log(recorded')
      BY <2>2, <3>1 DEF Commit
    <3> QED BY <1>1, <1>8, <2>2, <3>2, <3>3 DEF Record, LogInv, Log, InOrder
  <2>4. CASE Pending(executed') # {}
    <3>1. PICK m \in Pending(executed') :
            run' = [run EXCEPT !.migration = m, !.step = 1] /\ UNCHANGED <<saved, recorded>>
      BY <1>8, <2>4 DEF Record
    <3>2. RunTyped'
      <4>1. m \in Names
        BY PendingIsNext
      <4>2. run.direction = "up" /\ run \in [migration : Names \cup {"none"},
              direction : {"none", "up", "down"}, step : Nat, whole : BOOLEAN]
        BY <1>1, <1>8 DEF Record, RunTyped
      <4>3. /\ run'.migration = m /\ run'.direction = "up" /\ run'.step = 1
            /\ run' \in [migration : Names \cup {"none"}, direction : {"none", "up", "down"},
                         step : Nat, whole : BOOLEAN]
        BY <3>1, <4>1, <4>2
      <4> QED BY <4>1, <4>3 DEF RunTyped
    <3>3. Log(recorded')
      BY <1>1, <3>1
    <3> QED BY <1>1, <1>8, <2>2, <3>1, <3>2, <3>3 DEF Record, LogInv, Log, InOrder
  <2> QED BY <2>3, <2>4
<1>9. CASE Erase
  <2>1. executed # <<>> /\ executed' = Front(executed) /\ Commit(executed')
    BY <1>1, <1>9 DEF Erase, RunTyped
  <2>2. Log(executed')
    BY <1>1, <2>1, FrontInOrder DEF Log
  <2>3. RunTyped'
    BY <1>1, <2>1 DEF Commit, RunTyped, NoRun
  <2>4. Log(recorded')
    BY <2>1, <2>2 DEF Commit
  <2> QED BY <1>1, <1>9, <2>2, <2>3, <2>4 DEF Erase, LogInv, Log, InOrder
<1>10. ASSUME NEW d \in DOMAIN DataNeeds, Store(d) PROVE LogInv'
  <2>1. data' \subseteq DOMAIN DataNeeds
    BY <1>1, <1>10 DEF Store
  <2>2. events' \in 0 .. MaxEvents
    BY <1>10, MigrationsAssumption DEF Store, Event, LogInv
  <2> QED BY <1>1, <1>10, <2>1, <2>2 DEF Store, LogInv, Log, InOrder, RunTyped
<1>11. CASE UNCHANGED schemaVars
  BY <1>1, <1>11 DEF schemaVars, LogInv, Log, InOrder, RunTyped
<1> QED BY <1>3, <1>4, <1>5, <1>6, <1>7, <1>8, <1>9, <1>10, <1>11 DEF SchemaNext

(* The invariant holds in every behaviour.                                 *)
LEMMA LogHolds == SchemaSpec => []LogInv
<1>1. LogInv /\ [SchemaNext]_schemaVars => LogInv'
  BY LogStep
<1> QED BY <1>1, LogInit, PTL DEF SchemaSpec

(* Type correctness: a command at work is of a known migration, which    *)
(* waits if it goes up and is the last record if it goes down, and no         *)
(* migration is recorded twice.                                             *)
THEOREM TypesOfMigrations == SchemaSpec => []SchemaTypeOK
<1>1. LogInv => SchemaTypeOK
  BY NoneIsNoName DEF LogInv, Log, RunTyped, SchemaTypeOK
<1> QED BY <1>1, LogHolds, PTL

(* Whatever runs, reverts, failures and killed processes come before, no   *)
(* migration is recorded as executed unless all those of earlier timestamps  *)
(* are, and before it: a revert, which undoes the last record, always undoes *)
(* one of the newest timestamp.                                             *)
THEOREM RecordsAreInOrder == SchemaSpec => []RecordedInOrder
<1>1. LogInv => RecordedInOrder
  BY DEF LogInv, Log, RecordedInOrder
<1> QED BY <1>1, LogHolds, PTL
-----------------------------------------------------------------------------
(* The statements that data blocks in the migration of the balance role.   *)
LEMMA BalanceRoleScript ==
  LET m == Script["AddBalanceRole"] IN
  /\ Len(m.up) = 2 /\ \A i \in 1 .. 2 : m.up[i].blocked = {}
  /\ Len(m.down) = 3
  /\ m.down[1].op = "check" /\ m.down[1].blocked = {"collisions"}
  /\ m.down[2].blocked = {} /\ m.down[3].blocked = {"collisions"}
<1>1. Script["AddBalanceRole"] = AddBalanceRole
  BY DEF Script
<1>2. \A d, t, f, g : /\ Alter(t, f, g).blocked = {}
                     /\ AlterUnless(d, t, f, g).blocked = {d}
                     /\ RefuseIf(d, t).blocked = {d} /\ RefuseIf(d, t).op = "check"
  BY DEF Alter, AlterUnless, RefuseIf, Statement
<1> QED BY <1>1, <1>2 DEF AddBalanceRole

(* And in that of the summaries a balance reports.                         *)
LEMMA SummariesScript ==
  LET m == Script["ExtendBalanceReportedSummaries"] IN
  /\ Len(m.up) = 2 /\ \A i \in 1 .. 2 : m.up[i].blocked = {}
  /\ Len(m.down) = 3
  /\ m.down[1].op = "check" /\ m.down[1].blocked = {"summaries"}
  /\ m.down[2].blocked = {"summaries"} /\ m.down[3].blocked = {"summaries"}
<1>1. Script["ExtendBalanceReportedSummaries"] = ExtendBalanceReportedSummaries
  BY DEF Script
<1>2. \A d, t, f, g : /\ Alter(t, f, g).blocked = {}
                     /\ AlterUnless(d, t, f, g).blocked = {d}
                     /\ RefuseIf(d, t).blocked = {d} /\ RefuseIf(d, t).op = "check"
  BY DEF Alter, AlterUnless, RefuseIf, Statement
<1> QED BY <1>1, <1>2 DEF ExtendBalanceReportedSummaries

\* What data blocks the first statement that such a migration undoes.
Guarded == [AddBalanceRole |-> "collisions", ExtendBalanceReportedSummaries |-> "summaries"]

(* Only the first statement of their down asks, changing nothing, and the  *)
(* rest minds the same data and no other.                                   *)
LEMMA GuardedScripts ==
  ASSUME NEW m \in DOMAIN Guarded
  PROVE  /\ Len(Script[m].up) = 2 /\ Len(Script[m].down) = 3
         /\ \A i \in 1 .. 2 : Script[m].up[i].blocked = {}
         /\ ~DDL(Script[m].down[1]) /\ Script[m].down[1].blocked = {Guarded[m]}
         /\ \A i \in 2 .. 3 : Script[m].down[i].blocked \subseteq {Guarded[m]}
<1>1. m \in {"AddBalanceRole", "ExtendBalanceReportedSummaries"}
  BY DEF Guarded
<1>2. CASE m = "AddBalanceRole"
  BY <1>2, BalanceRoleScript DEF Guarded, DDL
<1>3. CASE m = "ExtendBalanceReportedSummaries"
  BY <1>3, SummariesScript DEF Guarded, DDL
<1> QED BY <1>1, <1>2, <1>3

(* The initial states.                                                     *)
LEMMA RevertInit == SchemaInit => RevertInv
  BY DEF SchemaInit, RevertInv, NoRun, NoFailure, Untouched, Resting, RefusedRevertsAreWhole

(* Data stops such a migration at the check alone, with nothing executed:  *)
(* the later statements need what the check has found absent.               *)
LEMMA FailedRevert ==
  ASSUME LogInv, RevertInv, Fail, failure'.cause = "data", run.whole,
         run.migration \in DOMAIN Guarded
  PROVE  Whole'
<1>1. /\ ~Resting /\ run.step <= Len(Statements)
      /\ Fits(Current, schema) /\ Current.blocked \cap data # {}
      /\ IF DDL(Current) THEN Lose(schema, executed, "data") ELSE Lose(saved, recorded, "data")
  <2>1. \A u, log, cause : Lose(u, log, cause) => failure'.cause = cause
    BY DEF Lose
  <2>2. CASE Fits(Current, schema)
    BY <2>1, <2>2 DEF Fail
  <2>3. CASE ~Fits(Current, schema)
    <3>1. Lose(schema, executed, "structure") \/ Lose(saved, recorded, "structure")
      BY <2>3 DEF Fail
    <3> QED BY <2>1, <3>1
  <2> QED BY <2>2, <2>3
<1>2. run.step \in Nat \ {0} /\ run.direction \in {"up", "down"}
  BY <1>1 DEF LogInv, RunTyped, Resting
<1>3. CASE run.direction = "up"
  <2>1. Statements = Script[run.migration].up
    BY <1>3 DEF Statements
  <2>2. Current.blocked = {}
    BY <1>1, <1>2, <2>1, GuardedScripts DEF Current
  <2> QED BY <1>1, <2>2
<1>4. CASE run.direction = "down"
  <2>1. Statements = Script[run.migration].down
    BY <1>4 DEF Statements
  <2>2. CASE run.step = 1
    <3>1. ~DDL(Current)
      BY <2>1, <2>2, GuardedScripts DEF Current
    <3>2. saved = schema /\ recorded = executed /\ Whole
      BY <1>4, <2>2 DEF RevertInv, Untouched
    <3>3. schema' = schema /\ executed' = executed
      BY <1>1, <3>1, <3>2 DEF Lose
    <3> QED BY <3>2, <3>3 DEF Whole
  <2>3. CASE run.step # 1
    <3>1. run.step \in 2 .. 3
      <4>1. Len(Statements) = 3
        BY <2>1, GuardedScripts
      <4> QED BY <1>1, <1>2, <2>3, <4>1
    <3>2. Current.blocked \subseteq {Guarded[run.migration]}
      BY <2>1, <3>1, GuardedScripts DEF Current
    <3>3. Guarded[run.migration] \notin data
      BY <1>4, <2>3 DEF RevertInv, Guarded
    <3> QED BY <1>1, <3>2, <3>3
  <2> QED BY <2>2, <2>3
<1> QED BY <1>2, <1>3, <1>4

\* A command that has ended without a refusal, or has begun.
LEMMA NoRefusal ==
  ASSUME failure' = NoFailure \/ ~(Resting')
  PROVE  RefusedRevertsAreWhole'
  BY DEF RefusedRevertsAreWhole, NoFailure

(* Every step keeps it.                                                    *)
LEMMA RevertStep == LogInv /\ RevertInv /\ [SchemaNext]_schemaVars => RevertInv'
<1> SUFFICES ASSUME LogInv, RevertInv, [SchemaNext]_schemaVars PROVE RevertInv'
  OBVIOUS
<1>1. RunTyped
  BY DEF LogInv
<1>2. \A s : Kept(s) \subseteq data
  BY DEF Kept
<1>3. CASE Start
  <2>1. PICK m \in Pending(executed) : Begin(m, "up")
    BY <1>3 DEF Start
  <2>2. run'.migration # "none" /\ run'.direction = "up" /\ failure' = NoFailure
    BY <2>1, PendingIsNext, NoneIsNoName DEF Begin
  <2>3. ~Resting' /\ ~Untouched'
    BY <2>2 DEF Resting, Untouched
  <2> QED BY <2>2, <2>3, NoRefusal DEF RevertInv
<1>4. CASE Revert
  <2>1. Begin(Last(executed), "down") /\ Resting
    BY <1>4 DEF Revert
  <2>2. run'.direction = "down" /\ run'.step = 1 /\ run'.whole = Whole /\ failure' = NoFailure
    BY <2>1 DEF Begin
  <2>3. saved' = schema' /\ recorded' = executed' /\ Whole' = Whole
    BY <1>4, <2>1 DEF Revert, RevertInv, Untouched, Whole
  <2> QED BY <2>2, <2>3, NoRefusal DEF RevertInv
<1>5. CASE Execute
  <2>1. /\ run' = [run EXCEPT !.step = run.step + 1] /\ failure' = failure
        /\ ~Resting /\ Current.blocked \cap data = {} /\ data' \subseteq data
        /\ executed' = executed
    BY <1>2, <1>5 DEF Execute
  <2>2. /\ run'.migration = run.migration /\ run'.direction = run.direction
        /\ run'.step = run.step + 1 /\ run.step \in Nat \ {0}
    BY <1>1, <2>1 DEF RunTyped, Resting
  <2>3. ~Resting' /\ ~Untouched' /\ failure' = NoFailure
    BY <2>1, <2>2 DEF Resting, Untouched, RevertInv
  <2>4. ASSUME run.direction = "down", run.migration \in DOMAIN Guarded
        PROVE  Guarded[run.migration] \notin data'
    <3>1. CASE run.step = 1
      <4>1. Current = Script[run.migration].down[1]
        BY <2>4, <3>1 DEF Current, Statements
      <4>2. Current.blocked = {Guarded[run.migration]}
        BY <2>4, <4>1, GuardedScripts
      <4> QED BY <2>1, <4>2
    <3>2. CASE run.step # 1
      BY <2>1, <2>4, <3>2 DEF RevertInv, Guarded
    <3> QED BY <3>1, <3>2
  <2>5. run'.direction = "down" /\ run'.step # 1 =>
       /\ run'.migration = "AddBalanceRole" => "collisions" \notin data'
       /\ run'.migration = "ExtendBalanceReportedSummaries" => "summaries" \notin data'
    BY <2>2, <2>4 DEF Guarded
  <2>6. run'.step # 1
    BY <2>2
  <2> QED BY <2>3, <2>5, <2>6, NoRefusal DEF RevertInv
<1>6. CASE Fail
  <2>1. PICK cause \in {"data", "structure"} :
          Lose(schema, executed, cause) \/ Lose(saved, recorded, cause)
    BY <1>6 DEF Fail
  <2>2. /\ saved' = schema' /\ recorded' = executed'
        /\ run' = NoRun(run.whole) /\ failure'.migration = run.migration
    BY <2>1 DEF Lose
  <2>3. Resting' /\ run'.direction = "none" /\ run'.whole = run.whole
    BY <2>2 DEF NoRun, Resting
  <2>4. RefusedRevertsAreWhole'
    BY <1>6, <2>2, <2>3, FailedRevert DEF RefusedRevertsAreWhole, Guarded
  <2> QED BY <2>2, <2>3, <2>4 DEF RevertInv
<1>7. CASE Kill
  <2>1. /\ saved' = schema' /\ recorded' = executed'
        /\ run' = NoRun(run.whole) /\ failure'.cause = "killed"
    BY <1>7 DEF Kill, Lose
  <2>2. Resting' /\ run'.direction = "none"
    BY <2>1 DEF NoRun, Resting
  <2>3. RefusedRevertsAreWhole'
    BY <2>1 DEF RefusedRevertsAreWhole
  <2> QED BY <2>1, <2>2, <2>3 DEF RevertInv
<1>8. CASE Record
  <2>1. failure' = failure /\ failure = NoFailure /\ run.direction = "up"
    BY <1>1, <1>8, NoneIsNoName DEF Record, RunTyped, RevertInv, Resting
  <2>2. CASE Pending(executed') = {}
    <3>1. /\ saved' = schema' /\ recorded' = executed' /\ run' = NoRun(run.whole)
      BY <1>8, <2>2 DEF Record, Commit
    <3>2. Resting' /\ run'.direction = "none"
      BY <3>1 DEF NoRun, Resting
    <3> QED BY <2>1, <3>1, <3>2, NoRefusal DEF RevertInv
  <2>3. CASE Pending(executed') # {}
    <3>1. PICK m \in Pending(executed') : run' = [run EXCEPT !.migration = m, !.step = 1]
      BY <1>8, <2>3 DEF Record
    <3>2. m \in Names
      BY PendingIsNext
    <3>3. run'.migration = m /\ run'.direction = "up"
      BY <1>1, <2>1, <3>1 DEF RunTyped
    <3>4. ~Resting' /\ ~Untouched'
      BY <3>2, <3>3, NoneIsNoName DEF Resting, Untouched
    <3> QED BY <2>1, <3>3, <3>4, NoRefusal DEF RevertInv
  <2> QED BY <2>2, <2>3
<1>9. CASE Erase
  <2>1. failure' = failure /\ failure = NoFailure
    BY <1>1, <1>9, NoneIsNoName DEF Erase, RunTyped, RevertInv, Resting
  <2>2. /\ saved' = schema' /\ recorded' = executed' /\ run' = NoRun(run.whole)
    BY <1>9 DEF Erase, Commit
  <2>3. Resting' /\ run'.direction = "none"
    BY <2>2 DEF NoRun, Resting
  <2> QED BY <2>1, <2>2, <2>3, NoRefusal DEF RevertInv
<1>10. ASSUME NEW d \in DOMAIN DataNeeds, Store(d) PROVE RevertInv'
  <2>1. Resting /\ UNCHANGED <<schema, saved, executed, recorded, run, failure>>
    BY <1>10 DEF Store
  <2>2. Resting' /\ run'.direction = "none" /\ Whole' = Whole
    BY <1>1, <2>1, NoneIsNoName DEF Resting, RunTyped, Whole
  <2>3. RefusedRevertsAreWhole'
    BY <2>1, <2>2 DEF RevertInv, RefusedRevertsAreWhole
  <2> QED BY <2>1, <2>2, <2>3 DEF RevertInv, Untouched
<1>11. CASE UNCHANGED schemaVars
  BY <1>11 DEF schemaVars, RevertInv, RefusedRevertsAreWhole, Resting, Untouched, Whole
<1> QED BY <1>3, <1>4, <1>5, <1>6, <1>7, <1>8, <1>9, <1>10, <1>11 DEF SchemaNext

(* A revert of AddBalanceRole or of ExtendBalanceReportedSummaries that    *)
(* is refused for the data there is leaves the schema as every recorded       *)
(* migration made it, although MySQL commits before each statement: the      *)
(* question is asked before the first one changes anything.                  *)
THEOREM RefusalsChangeNothing == SchemaSpec => []RefusedRevertsAreWhole
<1>1. LogInv /\ RevertInv /\ [SchemaNext]_schemaVars => RevertInv'
  BY RevertStep
<1>2. RevertInv => RefusedRevertsAreWhole
  BY DEF RevertInv
<1> QED BY <1>1, <1>2, RevertInit, LogHolds, PTL DEF SchemaSpec
=============================================================================
