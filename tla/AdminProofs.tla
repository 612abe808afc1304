---------------------------- MODULE AdminProofs ----------------------------
(***************************************************************************)
(* What administration leaves intact.                                      *)
(*                                                                         *)
(* EnrichmentJobs, for any number of jobs, updates, repairs and failures,  *)
(* as long as one command is run at a time.  A schedule is enabled only    *)
(* while nothing runs, and at most one is: so the jobs that run at a time  *)
(* were started together.  Of those the first that lives is elected,       *)
(* because each has claimed before any is.  And from the moment an update  *)
(* has found everything quiet until it enables a schedule, nothing starts: *)
(* what it hands over stays the last write.                                *)
(*                                                                         *)
(* SpaceConfig, for any accounts, any number of changes and stops and any  *)
(* refreshes: a credential whose removal was acknowledged is never         *)
(* accepted again.  A revoked key could return from four places: the log,  *)
(* the text cache, the file in memory and a change that was computed       *)
(* before the revocation.  The invariant says that none of them holds one. *)
(* It needs that a refresh and a change of the registry exclude each       *)
(* other, so that what a refresh has listed is the registry as it stands.  *)
(***************************************************************************)
EXTENDS EnrichmentJobs, SpaceConfig, SequenceTheorems, FiniteSetTheorems, TLAPS

Pcs == {"start", "claim", "elect", "confirm", "work", "done", "failed"}

UpdateSteps == {"idle", "quiesce", "suspend", "wait", "restore"} \union InTry
DoctorSteps == {"idle", "variables", "repair", "reconcile", "suspend all", "recheck", "create",
                "delete", "canary", "trigger", "await", "approve", "resume", "enable"}
Outcomes == {"none", "done", "failed", "not restored", "not quiet", "interrupted"}

Contracts == [revision : Nat, settings : Nat]
Handoffs == [job : Nat, revision : Nat]
Operators ==
  [step : UpdateSteps \union DoctorSteps, outcome : Outcomes, schedule : Nat, spec : Contracts,
   wasActive : BOOLEAN, wanted : Contracts, kept : Nat, before : SUBSET Nat,
   secrets : BOOLEAN, target : Nat, handoff : Handoffs, runs : Nat]

-----------------------------------------------------------------------------
(* The inductive invariant.                                                *)

Shape ==
  /\ schedules \in [Schedules -> [spec : Contracts, suspend : BOOLEAN]]
  /\ Schedules \subseteq Nat
  /\ jobs \in Seq([schedule : Nat, revision : Nat, created : Nat, pc : Pcs])
  /\ output \in Handoffs
  /\ deployed \in [revision : Nat, settings : Nat, handoff : Handoffs]
  /\ operator \in [Commands -> Operators]
  /\ operator["update"].step \in UpdateSteps /\ operator["doctor"].step \in DoctorSteps
  /\ window \in Nat /\ made \in Nat /\ twins \in Nat /\ updates \in Nat

OneCommand == \A c, d \in Commands : c # d => At(c, "idle") \/ At(d, "idle")

AllSuspended == \A s \in Schedules : ~Active(s)

(* At most one schedule starts jobs, and only its own jobs run. *)
OneActive ==
  /\ \A s, t \in Schedules : Active(s) /\ Active(t) => s = t
  /\ \A s \in Schedules, j \in Running : Active(s) => jobs[j].schedule = s

(* The jobs that run were started together. *)
StartedTogether ==
  \A j, k \in Running :
    /\ jobs[j].schedule = jobs[k].schedule
    /\ jobs[j].revision = jobs[k].revision
    /\ jobs[j].created = jobs[k].created

Claimed == \A j \in DOMAIN jobs : jobs[j].pc \in {"elect", "confirm", "work"} => j \in claims

(* A job that was elected is the first of those that run. *)
ElectedIsFirst ==
  \A j \in DOMAIN jobs : jobs[j].pc \in {"confirm", "work"} => \A k \in Running : j <= k

Verified ==
  \A j \in DOMAIN jobs :
    jobs[j].pc \in {"claim", "elect", "confirm", "work"} => jobs[j].revision = deployed.revision

(* What a command relies on at its step.  A replacement: which schedules   *)
(* are left.  An update, until it enables a schedule: nothing runs and     *)
(* nothing can start; what it hands over is the last write; it enables a   *)
(* schedule only if one was enabled before.  The canary: the only schedule *)
(* is suspended.                                                           *)
Relies(c, op) ==
  /\ op.step \in {"suspend all", "recheck", "create"} => Schedules \subseteq op.before
  /\ op.step = "delete" => Schedules \subseteq op.before \union {op.kept}
  /\ op.step \in {"resume", "enable"} => Schedules \subseteq {op.kept}
  /\ c = "update" /\ op.step \in InTry => Running = {} /\ AllSuspended
  /\ c = "update" /\ op.step \in {"reassert", "upload"} => op.handoff = output
  /\ c = "update" /\ op.step \in {"resume", "enable"} => op.wasActive
  /\ c = "update" /\ op.step = "restore" /\ ~op.wasActive => AllSuspended
  /\ c = "doctor" /\ op.step \in {"trigger", "await", "approve", "resume", "enable"} =>
       Schedules \subseteq {op.kept} /\ AllSuspended
  /\ c = "doctor" /\ op.step = "enable" => Running = {}

CommandsRely == \A c \in Commands : Relies(c, operator[c])

JobsInv ==
  /\ Shape /\ OneCommand /\ OneActive /\ StartedTogether
  /\ Claimed /\ ElectedIsFirst /\ Verified
  /\ HandoffIsCurrent /\ CommandsRely

-----------------------------------------------------------------------------
(* Jobs. *)

JobRecords == [schedule : Nat, revision : Nat, created : Nat, pc : Pcs]

LEMMA JobsAreRecords ==
  ASSUME Shape
  PROVE  /\ DOMAIN jobs = 1 .. Len(jobs) /\ Len(jobs) \in Nat
         /\ \A j \in DOMAIN jobs : j \in Nat /\ jobs[j] \in JobRecords
         /\ Running \subseteq DOMAIN jobs
<1>1. jobs \in Seq(JobRecords)
  BY DEF Shape, JobRecords
<1>2. Running \subseteq DOMAIN jobs
  BY DEF Running
<1> QED
  BY <1>1, <1>2

(* A job goes on: it keeps what it is, and no other job changes. *)
LEMMA OneGoes ==
  ASSUME Shape, NEW j \in DOMAIN jobs, NEW pc \in Pcs, Goes(j, pc)
  PROVE  /\ jobs' \in Seq(JobRecords) /\ DOMAIN jobs' = DOMAIN jobs
         /\ \A k \in DOMAIN jobs :
              /\ jobs'[k].schedule = jobs[k].schedule
              /\ jobs'[k].revision = jobs[k].revision
              /\ jobs'[k].created = jobs[k].created
              /\ jobs'[k].pc = IF k = j THEN pc ELSE jobs[k].pc
<1>1. /\ DOMAIN jobs = 1 .. Len(jobs) /\ Len(jobs) \in Nat
      /\ \A k \in DOMAIN jobs : jobs[k] \in JobRecords
  BY JobsAreRecords
<1>2. jobs' = [k \in 1 .. Len(jobs) |-> IF k = j THEN [jobs[j] EXCEPT !.pc = pc] ELSE jobs[k]]
  BY <1>1 DEF Goes
<1>3. [jobs[j] EXCEPT !.pc = pc] \in JobRecords
  BY <1>1 DEF JobRecords
<1>4. jobs' \in Seq(JobRecords) /\ DOMAIN jobs' = DOMAIN jobs
  BY <1>1, <1>2, <1>3
<1>5. ASSUME NEW k \in DOMAIN jobs
      PROVE  /\ jobs'[k].schedule = jobs[k].schedule
             /\ jobs'[k].revision = jobs[k].revision
             /\ jobs'[k].created = jobs[k].created
             /\ jobs'[k].pc = IF k = j THEN pc ELSE jobs[k].pc
  <2>1. jobs[k] \in JobRecords
    BY <1>1
  <2>2. CASE k = j
    BY <1>1, <1>2, <2>1, <2>2 DEF JobRecords
  <2>3. CASE k # j
    BY <1>1, <1>2, <2>3
  <2> QED
    BY <2>2, <2>3
<1> QED
  BY <1>4, <1>5

(* A job that runs goes on: what the schedules and the commands rely on    *)
(* stays.                                                                  *)
LEMMA GoingKeeps ==
  ASSUME JobsInv, NEW j \in DOMAIN jobs, NEW pc \in Pcs, Goes(j, pc), j \in Running,
         UNCHANGED <<schedules, made, deployed, operator, window, twins, updates>>,
         claims \subseteq claims', pc \in {"elect", "confirm", "work"} => j \in claims',
         pc \in {"claim", "elect", "confirm", "work"} => jobs[j].revision = deployed.revision,
         pc \in {"confirm", "work"} => \A k \in Running : j <= k,
         output' \in Handoffs, output' # output => output'.revision = deployed.revision
  PROVE  JobsInv'
<1> USE DEF JobsInv
<1>1. /\ jobs' \in Seq(JobRecords) /\ DOMAIN jobs' = DOMAIN jobs
      /\ \A k \in DOMAIN jobs :
           /\ jobs'[k].schedule = jobs[k].schedule
           /\ jobs'[k].revision = jobs[k].revision
           /\ jobs'[k].created = jobs[k].created
           /\ jobs'[k].pc = IF k = j THEN pc ELSE jobs[k].pc
  BY OneGoes
<1>2. Running' \subseteq Running
  BY <1>1 DEF Running
<1>3. Shape' /\ OneCommand'
  BY <1>1 DEF Shape, OneCommand, At, JobRecords, Schedules
<1>4. OneActive' /\ StartedTogether'
  BY <1>1, <1>2 DEF OneActive, StartedTogether, Active, Running, Schedules
<1>5. Claimed' /\ Verified'
  BY <1>1 DEF Claimed, Verified
<1>6. ElectedIsFirst'
  BY <1>1, <1>2 DEF ElectedIsFirst
<1>7. HandoffIsCurrent'
  BY DEF HandoffIsCurrent
<1>8. CommandsRely'
  BY <1>2 DEF CommandsRely, Relies, AllSuspended, Active, Schedules, InTry
<1> QED
  BY <1>3, <1>4, <1>5, <1>6, <1>7, <1>8

LEMMA JobStepKeeps ==
  ASSUME JobsInv, NEW j \in DOMAIN jobs, JobStep(j)
  PROVE  JobsInv'
<1>1. UNCHANGED <<schedules, made, deployed, operator, window, twins, updates>>
  BY DEF JobStep, VerifyRevision, Claim, Elect, Work, Die, JobOnly, hub
<1>2. output \in Handoffs /\ jobs[j] \in JobRecords /\ j \in Nat
  BY JobsAreRecords DEF JobsInv, Shape
<1>3. CASE VerifyRevision(j)
  <2>1. PICK pc \in {"claim", "failed"} :
          Goes(j, pc) /\ (pc = "claim" => jobs[j].revision = deployed.revision)
    BY <1>3 DEF VerifyRevision
  <2>2. j \in Running /\ UNCHANGED <<claims, output>>
    BY <1>3 DEF VerifyRevision, Running
  <2> QED
    BY <1>1, <1>2, <2>1, <2>2, GoingKeeps DEF Pcs
<1>4. CASE Claim(j)
  <2>1. /\ Goes(j, "elect") /\ j \in Running /\ claims' = claims \union {j} /\ UNCHANGED output
        /\ jobs[j].revision = deployed.revision
    BY <1>4 DEF Claim, Running, JobsInv, Verified
  <2> QED
    BY <1>1, <1>2, <2>1, GoingKeeps DEF Pcs
<1>5. CASE Elect(j)
  <2>1. PICK pc \in {"confirm", "work", "failed"} :
          /\ Goes(j, pc)
          /\ pc = "confirm" => RequireElectedWriter(j) /\ Settled(j)
          /\ pc = "work" => jobs[j].pc = "confirm"
    BY <1>5 DEF Elect
  <2>2. /\ j \in Running /\ UNCHANGED <<claims, output>> /\ j \in claims
        /\ jobs[j].revision = deployed.revision
    BY <1>5 DEF Elect, Running, JobsInv, Verified, Claimed
  <2>3. ASSUME NEW k \in Running, RequireElectedWriter(j), Settled(j) PROVE j <= k
    <3>1. /\ jobs[k].schedule = jobs[j].schedule /\ jobs[k].revision = jobs[j].revision
          /\ jobs[k].created = jobs[j].created
      BY <2>2 DEF JobsInv, StartedTogether
    <3>2. jobs[k].pc \notin {"start", "claim"}
      BY <2>3, <3>1 DEF Settled
    <3>3. k \in DOMAIN jobs /\ jobs[k].pc \in {"elect", "confirm", "work"}
      BY <3>2, JobsAreRecords DEF Running, JobRecords, Pcs, JobsInv
    <3>4. k \in Contenders(j)
      BY <3>1, <3>3 DEF Contenders, Near, JobsInv, Claimed
    <3> QED
      BY <2>3, <3>4 DEF RequireElectedWriter
  <2>4. pc \in {"confirm", "work"} => \A k \in Running : j <= k
    BY <2>1, <2>3 DEF JobsInv, ElectedIsFirst
  <2> QED
    BY <1>1, <1>2, <2>1, <2>2, <2>4, GoingKeeps DEF Pcs
<1>6. CASE Work(j)
  <2>1. /\ Goes(j, "done") /\ j \in Running /\ UNCHANGED claims
        /\ output' = [job |-> j, revision |-> jobs[j].revision]
        /\ jobs[j].revision = deployed.revision
    BY <1>6 DEF Work, Running, JobsInv, Verified
  <2>2. output' \in Handoffs /\ output'.revision = deployed.revision
    BY <1>2, <2>1 DEF Handoffs, JobRecords
  <2> QED
    BY <1>1, <2>1, <2>2, GoingKeeps DEF Pcs
<1>7. CASE Die(j)
  <2>1. Goes(j, "failed") /\ j \in Running /\ UNCHANGED <<claims, output>>
    BY <1>7 DEF Die
  <2> QED
    BY <1>1, <1>2, <2>1, GoingKeeps DEF Pcs
<1> QED
  BY <1>3, <1>4, <1>5, <1>6, <1>7 DEF JobStep

(* Jobs start together, and only when nothing runs. *)
LEMMA StartsTogether ==
  ASSUME JobsInv, NEW s \in Schedules, NEW count \in {1, 2}, Starts(s, count), Running = {},
         UNCHANGED <<claims, deployed>>
  PROVE  /\ jobs' \in Seq(JobRecords) /\ twins' \in Nat
         /\ \A j \in Running' : jobs'[j].schedule = s
         /\ StartedTogether' /\ Claimed' /\ ElectedIsFirst' /\ Verified'
<1> DEFINE job == Job(s, schedules[s].spec.revision)
           new == [i \in 1 .. count |-> job]
<1>1. job \in JobRecords /\ job.pc = "start" /\ job.schedule = s
  BY DEF JobsInv, Shape, Job, JobRecords, Contracts, Pcs
<1> HIDE DEF job
<1>2. jobs \in Seq(JobRecords) /\ new \in Seq(JobRecords) /\ Len(new) = count
  BY <1>1 DEF JobsInv, Shape, JobRecords
<1>3. jobs' = jobs \o new /\ twins' \in Nat
  BY DEF Starts, JobsInv, Shape, job
<1>4. /\ jobs' \in Seq(JobRecords) /\ Len(jobs') = Len(jobs) + count
      /\ \A i \in 1 .. Len(jobs') : jobs'[i] = IF i <= Len(jobs) THEN jobs[i] ELSE new[i - Len(jobs)]
  BY <1>2, <1>3, ConcatProperties
<1>5. /\ DOMAIN jobs = 1 .. Len(jobs) /\ DOMAIN jobs' = 1 .. Len(jobs') /\ Len(jobs) \in Nat
  BY <1>2, <1>4
<1>6. \A i \in DOMAIN jobs' : IF i \in DOMAIN jobs THEN jobs'[i] = jobs[i] ELSE jobs'[i] = job
  BY <1>4, <1>5
<1>7. \A i \in DOMAIN jobs : jobs[i].pc \in {"done", "failed"}
  BY DEF Running
<1>8. \A i \in Running' : jobs'[i] = job
  BY <1>6, <1>7 DEF Running
<1>9. Claimed' /\ ElectedIsFirst' /\ Verified'
  BY <1>1, <1>6, <1>7 DEF Claimed, ElectedIsFirst, Verified
<1> QED
  BY <1>1, <1>3, <1>4, <1>8, <1>9 DEF StartedTogether

LEMMA FireKeeps ==
  ASSUME JobsInv, NEW s \in Schedules, Fire(s)
  PROVE  JobsInv'
<1> USE DEF JobsInv
<1>1. PICK count \in {1, 2} : Starts(s, count)
  BY DEF Fire, Twins
<1>2. Active(s) /\ UNCHANGED <<schedules, made, claims, output, deployed, operator, window, updates>>
  BY DEF Fire, hub
<1>3. Running = {}
  BY <1>1, <1>2 DEF OneActive, Starts
<1>4. /\ jobs' \in Seq(JobRecords) /\ twins' \in Nat
      /\ \A j \in Running' : jobs'[j].schedule = s
      /\ StartedTogether' /\ Claimed' /\ ElectedIsFirst' /\ Verified'
  BY <1>1, <1>2, <1>3, StartsTogether
<1>5. Shape' /\ OneCommand' /\ HandoffIsCurrent'
  BY <1>2, <1>4 DEF Shape, OneCommand, At, JobRecords, HandoffIsCurrent, Schedules
<1>6. OneActive'
  BY <1>2, <1>4 DEF OneActive, Active, Schedules
<1>7. CommandsRely'
  <2> SUFFICES ASSUME NEW c \in Commands PROVE Relies(c, operator[c])'
    BY <1>2 DEF CommandsRely
  <2>1. Relies(c, operator[c]) /\ ~AllSuspended
    BY <1>2 DEF CommandsRely, AllSuspended
  <2> QED
    BY <1>2, <2>1 DEF Relies, Schedules, AllSuspended, Active, InTry
<1> QED
  BY <1>4, <1>5, <1>6, <1>7

LEMMA LaterKeeps ==
  ASSUME JobsInv, Later
  PROVE  JobsInv'
<1> USE DEF JobsInv
<1>1. /\ UNCHANGED <<schedules, made, jobs, claims, output, deployed, operator, twins, updates>>
      /\ window' = window + 1
  BY DEF Later, hub
<1>2. Shape' /\ OneCommand' /\ HandoffIsCurrent'
  BY <1>1 DEF Shape, OneCommand, At, HandoffIsCurrent, Schedules
<1>3. OneActive' /\ StartedTogether' /\ Claimed' /\ ElectedIsFirst' /\ Verified'
  BY <1>1 DEF OneActive, StartedTogether, Claimed, ElectedIsFirst, Verified, Active, Schedules, Running
<1>4. CommandsRely'
  BY <1>1 DEF CommandsRely, Relies, AllSuspended, Active, Schedules, Running
<1> QED
  BY <1>2, <1>3, <1>4

-----------------------------------------------------------------------------
(* Commands.  The command that moves finds the other one idle. *)

Steps(c) == IF c = "update" THEN UpdateSteps ELSE DoctorSteps
ScheduleRecords == [spec : Contracts, suspend : BOOLEAN]

(* What the Hub holds is well typed, and only jobs of the one schedule     *)
(* that is active run.                                                     *)
HubIsRight ==
  /\ schedules \in [Schedules -> ScheduleRecords] /\ Schedules \subseteq Nat /\ made \in Nat
  /\ OneActive

LEMMA CommandKeeps ==
  ASSUME JobsInv, NEW c \in Commands, ~At(c, "idle"),
         NEW op \in Operators, op.step \in Steps(c), Becomes(c, op),
         UNCHANGED <<platform, updates>>,
         deployed' \in [revision : Nat, settings : Nat, handoff : Handoffs],
         HubIsRight', Verified', HandoffIsCurrent', Relies(c, operator[c])'
  PROVE  JobsInv'
<1> USE DEF JobsInv
<1>1. UNCHANGED <<jobs, claims, output, twins, window, updates>>
  BY DEF platform
<1>2. /\ operator' \in [Commands -> Operators] /\ operator'[c] = op
      /\ \A d \in Commands : d # c => operator'[d] = operator[d] /\ operator[d].step = "idle"
  BY DEF Becomes, Shape, OneCommand, At
<1>3. operator'["update"].step \in UpdateSteps /\ operator'["doctor"].step \in DoctorSteps
  BY <1>2 DEF Steps, Commands, UpdateSteps, DoctorSteps
<1>4. Shape'
  BY <1>1, <1>2, <1>3 DEF Shape, HubIsRight, ScheduleRecords
<1>5. OneCommand'
  BY <1>2 DEF OneCommand, At
<1>6. StartedTogether' /\ Claimed' /\ ElectedIsFirst'
  BY <1>1 DEF StartedTogether, Claimed, ElectedIsFirst, Running
<1>7. ASSUME NEW d \in Commands PROVE Relies(d, operator[d])'
  <2>1. CASE d = c
    BY <2>1
  <2>2. CASE d # c
    BY <1>2, <2>2 DEF Relies, InTry
  <2> QED
    BY <2>1, <2>2
<1> QED
  BY <1>4, <1>5, <1>6, <1>7 DEF CommandsRely, HubIsRight

(* A step that only reads. *)
LEMMA ReadKeeps ==
  ASSUME JobsInv, NEW c \in Commands, ~At(c, "idle"),
         NEW op \in Operators, op.step \in Steps(c), Becomes(c, op),
         UNCHANGED <<platform, updates, hub, deployed>>,
         Relies(c, op)
  PROVE  JobsInv'
<1> USE DEF JobsInv
<1>1. UNCHANGED <<jobs, claims, output, twins, window, updates, schedules, made, deployed>>
  BY DEF platform, hub
<1>2. operator'[c] = op
  BY DEF Becomes, Shape
<1>3. Relies(c, operator[c])'
  BY <1>1, <1>2 DEF Relies, Schedules, AllSuspended, Active, Running
<1>4. HubIsRight' /\ Verified' /\ HandoffIsCurrent'
  BY <1>1 DEF Shape, HubIsRight, OneActive, Active, Schedules, Running, Verified, HandoffIsCurrent,
              ScheduleRecords
<1>5. deployed' \in [revision : Nat, settings : Nat, handoff : Handoffs]
  BY <1>1 DEF Shape
<1> QED
  BY <1>3, <1>4, <1>5, CommandKeeps

LEMMA OperatorIsRecord ==
  ASSUME Shape, NEW c \in Commands
  PROVE  operator[c] \in Operators /\ operator[c].step \in Steps(c)
BY DEF Shape, Steps, Commands

(* A command that ends relies on nothing. *)
LEMMA IdleRelies ==
  ASSUME NEW c \in Commands, NEW outcome \in Outcomes
  PROVE  /\ Idle(outcome) \in Operators /\ Idle(outcome).step = "idle"
         /\ Idle(outcome).step \in Steps(c) /\ Relies(c, Idle(outcome))
<1>1. Idle(outcome) \in Operators
  BY DEF Idle, Operators, UpdateSteps, Contract, Contracts, Handoffs
<1>2. Idle(outcome).step = "idle"
  BY DEF Idle
<1> QED
  BY <1>1, <1>2 DEF Relies, InTry, Steps, UpdateSteps, DoctorSteps

LEMMA MovesIsRecord ==
  ASSUME Shape, NEW c \in Commands, NEW step \in Steps(c)
  PROVE  LET op == [operator[c] EXCEPT !.step = step] IN
         /\ op \in Operators /\ op.step = step /\ op.before = operator[c].before
         /\ op.kept = operator[c].kept /\ op.wasActive = operator[c].wasActive
         /\ op.handoff = operator[c].handoff
BY OperatorIsRecord DEF Operators, Steps

(* An error: the schedule of an update that had none enabled stays         *)
(* suspended.                                                              *)
LEMMA ThrowsKeeps ==
  ASSUME JobsInv, NEW c \in Commands, ~At(c, "idle"), Throws(c),
         UNCHANGED <<platform, updates, deployed>>, HubIsRight',
         c = "update" /\ ~operator[c].wasActive /\ AllSuspended => AllSuspended'
  PROVE  JobsInv'
<1> USE DEF JobsInv
<1>1. UNCHANGED <<jobs, output>>
  BY DEF platform
<1>2. /\ deployed' \in [revision : Nat, settings : Nat, handoff : Handoffs]
      /\ Verified' /\ HandoffIsCurrent'
  BY <1>1 DEF Shape, Verified, HandoffIsCurrent
<1>3. CASE c = "update" /\ operator[c].step \in InTry
  <2> DEFINE op == [operator[c] EXCEPT !.step = "restore"]
  <2>1. Becomes(c, op)
    BY <1>3 DEF Throws, Moves
  <2>2. "restore" \in Steps(c)
    BY <1>3 DEF Steps, UpdateSteps
  <2>3. op \in Operators /\ op.step = "restore" /\ op.wasActive = operator[c].wasActive
    BY <2>2, MovesIsRecord
  <2> HIDE DEF op
  <2>4. operator'[c] = op
    BY <2>1 DEF Becomes, Shape
  <2>5. AllSuspended
    BY <1>3 DEF CommandsRely, Relies
  <2>6. Relies(c, operator[c])'
    BY <1>3, <2>3, <2>4, <2>5 DEF Relies, InTry
  <2> QED
    BY <1>2, <2>1, <2>2, <2>3, <2>6, CommandKeeps
<1>4. CASE ~(c = "update" /\ operator[c].step \in InTry)
  <2>1. PICK outcome \in Outcomes : Becomes(c, Idle(outcome))
    BY <1>4 DEF Throws, Ends, Outcomes
  <2>2. /\ Idle(outcome) \in Operators /\ Idle(outcome).step \in Steps(c)
        /\ Idle(outcome).step = "idle"
    BY IdleRelies
  <2>3. operator'[c] = Idle(outcome)
    BY <2>1 DEF Becomes, Shape
  <2>4. Relies(c, operator[c])'
    BY <2>2, <2>3 DEF Relies, InTry
  <2> QED
    BY <1>2, <2>1, <2>2, <2>4, CommandKeeps
<1> QED
  BY <1>3, <1>4

-----------------------------------------------------------------------------
(* Requests to the Hub. *)

(* No schedule starts to run and none that runs is touched. *)
LEMMA QuieterKeeps ==
  ASSUME JobsInv, UNCHANGED jobs,
         schedules' \in [Schedules' -> ScheduleRecords], Schedules' \subseteq Nat, made' \in Nat,
         \A s \in Schedules' : Active(s)' => s \in Schedules /\ Active(s)
  PROVE  HubIsRight' /\ (AllSuspended => AllSuspended')
BY DEF JobsInv, HubIsRight, OneActive, AllSuspended, Running

(* A schedule is enabled while nothing runs and nothing can start. *)
LEMMA ResumeKeeps ==
  ASSUME JobsInv, UNCHANGED jobs, Running = {}, NEW s, Schedules \subseteq {s}, Resume(s)
  PROVE  HubIsRight' /\ Schedules' = Schedules /\ ~schedules'[s].suspend /\ Schedules' = {s}
<1> USE DEF JobsInv, Shape
<1>1. /\ s \in Schedules /\ made' = made
      /\ schedules' = [schedules EXCEPT ![s] = [schedules[s] EXCEPT !.suspend = FALSE]]
  BY DEF Resume, ScheduleRecords
<1>2. [schedules[s] EXCEPT !.suspend = FALSE] \in ScheduleRecords
  BY <1>1 DEF ScheduleRecords
<1>3. /\ schedules' \in [Schedules -> ScheduleRecords] /\ Schedules' = Schedules
      /\ schedules'[s].suspend = FALSE
  BY <1>1, <1>2 DEF Schedules, ScheduleRecords
<1>4. Schedules' = {s} /\ Running' = {}
  BY <1>1, <1>3 DEF Running
<1>5. OneActive'
  BY <1>4 DEF OneActive
<1> QED
  BY <1>1, <1>3, <1>4, <1>5 DEF HubIsRight, Active

(* What a request changes, by the step of the command. *)
LEMMA RequestKeeps ==
  ASSUME JobsInv, NEW c \in Commands, Request(c), UNCHANGED jobs
  PROVE  /\ HubIsRight'
         /\ At(c, "create") => Schedules' = Schedules \union {made'}
         /\ ~At(c, "create") => Schedules' \subseteq Schedules
         /\ operator[c].step \notin {"enable", "restore"} => (AllSuspended => AllSuspended')
         /\ At(c, "enable") => /\ Schedules' = {operator[c].kept}
                               /\ ~schedules'[operator[c].kept].suspend
         /\ At(c, "restore") => /\ operator[c].wasActive
                                /\ Schedules' = {operator[c].schedule}
                                /\ ~schedules'[operator[c].schedule].suspend
<1> USE DEF JobsInv
<1> DEFINE op == operator[c]
<1>1. ASSUME NEW s \in Schedules, Suspend(s)
      PROVE  HubIsRight' /\ (AllSuspended => AllSuspended') /\ Schedules' = Schedules
  <2>1. /\ schedules' = [schedules EXCEPT ![s] = [schedules[s] EXCEPT !.suspend = TRUE]]
        /\ made' = made
    BY <1>1 DEF Suspend
  <2>2. [schedules[s] EXCEPT !.suspend = TRUE] \in ScheduleRecords
        /\ [schedules[s] EXCEPT !.suspend = TRUE].suspend = TRUE
    BY DEF ScheduleRecords, Shape
  <2>3. /\ schedules' \in [Schedules -> ScheduleRecords] /\ Schedules' = Schedules
        /\ \A t \in Schedules : t # s => schedules'[t] = schedules[t]
        /\ schedules'[s].suspend = TRUE
    BY <2>1, <2>2 DEF Schedules, ScheduleRecords, Shape
  <2>4. \A t \in Schedules' : Active(t)' => t \in Schedules /\ Active(t)
    BY <2>3 DEF Active
  <2> QED
    BY <2>1, <2>3, <2>4, QuieterKeeps DEF Shape
<1>2. ASSUME NEW s \in Schedules, Delete(s)
      PROVE  HubIsRight' /\ (AllSuspended => AllSuspended') /\ Schedules' \subseteq Schedules
  <2>1. /\ schedules' = [t \in Schedules \ {s} |-> schedules[t]] /\ made' = made
        /\ Schedules' = Schedules \ {s}
    BY <1>2 DEF Delete, Schedules
  <2>2. schedules' \in [Schedules' -> ScheduleRecords]
    BY <2>1 DEF Shape, ScheduleRecords
  <2>3. \A t \in Schedules' : Active(t)' => t \in Schedules /\ Active(t)
    BY <2>1 DEF Active
  <2> QED
    BY <2>1, <2>2, <2>3, QuieterKeeps DEF Shape
<1>3. ASSUME Create(op.wanted)
      PROVE  HubIsRight' /\ (AllSuspended => AllSuspended') /\ Schedules' = Schedules \union {made'}
  <2>1. /\ made' = made + 1
        /\ schedules' = [t \in Schedules \union {made'} |->
                           IF t = made' THEN [spec |-> op.wanted, suspend |-> TRUE] ELSE schedules[t]]
    BY <1>3 DEF Create
  <2>2. Schedules' = Schedules \union {made'} /\ made' \in Nat
    BY <2>1 DEF Schedules, Shape
  <2>3. [spec |-> op.wanted, suspend |-> TRUE] \in ScheduleRecords
    BY OperatorIsRecord DEF ScheduleRecords, Operators
  <2>4. schedules' \in [Schedules' -> ScheduleRecords]
    BY <2>1, <2>2, <2>3 DEF Shape, ScheduleRecords
  <2>5. \A t \in Schedules' : Active(t)' => t \in Schedules /\ Active(t)
    BY <2>1, <2>2 DEF Active
  <2> QED
    BY <2>2, <2>4, <2>5, QuieterKeeps DEF Shape
<1>4. CASE At(c, "suspend") /\ op.schedule \in Schedules /\ Suspend(op.schedule)
  BY <1>1, <1>4 DEF At
<1>5. CASE At(c, "suspend all") /\ \E s \in op.before \cap Schedules : Active(s) /\ Suspend(s)
  BY <1>1, <1>5 DEF At
<1>6. CASE At(c, "create") /\ Create(op.wanted)
  BY <1>3, <1>6 DEF At
<1>7. CASE /\ At(c, "delete")
           /\ \E s \in op.before \cap Schedules : IF Active(s) THEN Suspend(s) ELSE Delete(s)
  BY <1>1, <1>2, <1>7 DEF At
<1>8. CASE At(c, "enable") /\ Resume(op.kept)
  <2>1. Running = {} /\ Schedules \subseteq {op.kept}
    BY <1>8 DEF CommandsRely, Relies, At, Commands, InTry
  <2> QED
    BY <1>8, <2>1, ResumeKeeps DEF At
<1>9. CASE At(c, "restore") /\ op.wasActive /\ AssertWritersQuiescent(op) /\ Resume(op.schedule)
  <2>1. Running = {} /\ Schedules = {op.schedule}
    BY <1>9 DEF AssertWritersQuiescent, ActiveJobs, TheOnly
  <2> QED
    BY <1>9, <2>1, ResumeKeeps DEF At
<1> QED
  BY <1>4, <1>5, <1>6, <1>7, <1>8, <1>9 DEF Request

(* A request fails, only its answer is lost, or the command is stopped. *)
LEMMA HubFailsKeeps ==
  ASSUME JobsInv, NEW c \in Commands, HubFails(c), UNCHANGED <<platform, updates>>
  PROVE  JobsInv'
<1> USE DEF JobsInv
<1>1. ~At(c, "idle") /\ UNCHANGED jobs
  BY DEF HubFails, platform
<1>2. CASE Throws(c) /\ Reads
  <2>1. UNCHANGED <<schedules, made, deployed>>
    BY <1>2 DEF Reads, hub
  <2>2. HubIsRight' /\ (AllSuspended => AllSuspended')
    BY <1>1, <2>1, QuieterKeeps DEF Shape, ScheduleRecords, Schedules, Active
  <2> QED
    BY <1>1, <1>2, <2>1, <2>2, ThrowsKeeps
<1>3. CASE Request(c) /\ Throws(c) /\ Requests
  <2>1. UNCHANGED deployed
    BY <1>3 DEF Requests
  <2>2. HubIsRight' /\ (c = "update" /\ ~operator[c].wasActive /\ AllSuspended => AllSuspended')
    <3>1. HubIsRight' /\ (At(c, "restore") => operator[c].wasActive)
          /\ (operator[c].step \notin {"enable", "restore"} => (AllSuspended => AllSuspended'))
      BY <1>1, <1>3, RequestKeeps
    <3>2. c = "update" /\ At(c, "enable") => operator[c].wasActive
      BY DEF CommandsRely, Relies, At
    <3> QED
      BY <3>1, <3>2 DEF At
  <2> QED
    BY <1>1, <1>3, <2>1, <2>2, ThrowsKeeps
<1>4. CASE Ends(c, "interrupted") /\ Reads
  <2>1. /\ Idle("interrupted") \in Operators /\ Idle("interrupted").step \in Steps(c)
        /\ Relies(c, Idle("interrupted"))
    BY IdleRelies DEF Outcomes
  <2> QED
    BY <1>1, <1>4, <2>1, ReadKeeps DEF Reads, Ends
<1> QED
  BY <1>2, <1>3, <1>4 DEF HubFails

-----------------------------------------------------------------------------
(* The steps of update. *)

(* A step that only reads and goes on. *)
LEMMA MoveKeeps ==
  ASSUME JobsInv, NEW c \in Commands, ~At(c, "idle"), NEW step \in Steps(c), Moves(c, step),
         UNCHANGED <<platform, updates, hub, deployed>>,
         Relies(c, [operator[c] EXCEPT !.step = step])
  PROVE  JobsInv'
BY MovesIsRecord, ReadKeeps DEF Moves, JobsInv

(* A step that reads what it requires. *)
LEMMA RequiresKeeps ==
  ASSUME JobsInv, NEW c \in Commands, ~At(c, "idle"), NEW step \in Steps(c),
         NEW condition, Requires(c, condition, step), UNCHANGED <<platform, updates>>,
         condition => Relies(c, [operator[c] EXCEPT !.step = step])
  PROVE  JobsInv'
<1>1. UNCHANGED <<hub, deployed, jobs, schedules, made>>
  BY DEF Requires, Reads, hub, platform
<1>2. CASE condition
  BY <1>1, <1>2, MoveKeeps DEF Requires
<1>3. CASE ~condition
  <2>1. HubIsRight' /\ (AllSuspended => AllSuspended')
    BY <1>1, QuieterKeeps DEF JobsInv, Shape, ScheduleRecords, Schedules, Active
  <2> QED
    BY <1>1, <1>3, <2>1, ThrowsKeeps DEF Requires
<1> QED
  BY <1>2, <1>3

(* An error while reading. *)
LEMMA ThrowsReading ==
  ASSUME JobsInv, NEW c \in Commands, ~At(c, "idle"), Throws(c),
         UNCHANGED <<platform, updates, hub, deployed>>
  PROVE  JobsInv'
<1>1. UNCHANGED <<jobs, schedules, made>>
  BY DEF hub, platform
<1>2. HubIsRight' /\ (AllSuspended => AllSuspended')
  BY <1>1, QuieterKeeps DEF JobsInv, Shape, ScheduleRecords, Schedules, Active
<1> QED
  BY <1>2, ThrowsKeeps

(* A request that succeeds, and the step after it. *)
LEMMA RequestMoves ==
  ASSUME JobsInv, NEW c \in Commands, ~At(c, "idle"), Request(c),
         NEW op \in Operators, op.step \in Steps(c), Becomes(c, op),
         UNCHANGED <<platform, updates, deployed>>,
         Relies(c, operator[c])'
  PROVE  JobsInv'
<1>1. UNCHANGED <<jobs, output>>
  BY DEF platform
<1>2. HubIsRight'
  BY <1>1, RequestKeeps
<1>3. /\ deployed' \in [revision : Nat, settings : Nat, handoff : Handoffs]
      /\ Verified' /\ HandoffIsCurrent'
  BY <1>1 DEF JobsInv, Shape, Verified, HandoffIsCurrent
<1> QED
  BY <1>2, <1>3, CommandKeeps

LEMMA QuiesceKeeps ==
  ASSUME JobsInv, QuiesceCanonicalSchedule, UNCHANGED <<platform, updates>>
  PROVE  JobsInv'
<1> USE DEF JobsInv
<1> DEFINE c == "update"
<1>1. /\ c \in Commands /\ ~At(c, "idle") /\ operator[c] \in Operators
      /\ {"suspend", "wait", "assert"} \subseteq Steps(c)
  BY OperatorIsRecord DEF QuiesceCanonicalSchedule, Commands, At, Steps, UpdateSteps, InTry
<1>2. ASSUME NEW s \in Schedules, Reads,
             Becomes("update", [operator["update"] EXCEPT
               !.step = IF Active(s) THEN "suspend" ELSE "wait",
               !.schedule = s, !.spec = schedules[s].spec, !.wasActive = Active(s)])
      PROVE  JobsInv'
  <2> DEFINE op == [operator["update"] EXCEPT
               !.step = IF Active(s) THEN "suspend" ELSE "wait",
               !.schedule = s, !.spec = schedules[s].spec, !.wasActive = Active(s)]
  <2>1. op \in Operators /\ op.step \in {"suspend", "wait"}
    BY <1>1 DEF Operators, Shape, UpdateSteps, Active
  <2>2. Becomes(c, op)
    BY <1>2
  <2> HIDE DEF op
  <2>3. Relies(c, op)
    BY <2>1 DEF Relies, InTry
  <2> QED
    BY <1>1, <1>2, <2>1, <2>2, <2>3, ReadKeeps DEF Reads
<1>3. CASE At("update", "quiesce") /\ Cardinality(Schedules) # 1 /\ Throws("update") /\ Reads
  BY <1>1, <1>3, ThrowsReading DEF Reads
<1>4. CASE At("update", "suspend") /\ Request("update") /\ Moves("update", "wait") /\ Requests
  <2> DEFINE op == [operator[c] EXCEPT !.step = "wait"]
  <2>1. op \in Operators /\ op.step = "wait" /\ Becomes(c, op)
    BY <1>1, <1>4, MovesIsRecord DEF Moves
  <2> HIDE DEF op
  <2>2. operator'[c] = op
    BY <1>1, <2>1 DEF Becomes, Shape
  <2>3. Relies(c, operator[c])'
    BY <2>1, <2>2 DEF Relies, InTry
  <2> QED
    BY <1>1, <1>4, <2>1, <2>3, RequestMoves DEF Requests
<1>5. CASE At("update", "wait") /\ AssertWritersQuiescent(operator["update"])
             /\ Moves("update", "assert") /\ Reads
  <2>1. Running = {} /\ AllSuspended
    BY <1>5 DEF AssertWritersQuiescent, ActiveJobs, TheOnly, AllSuspended
  <2>2. [operator[c] EXCEPT !.step = "assert"].step = "assert"
    BY <1>1, MovesIsRecord
  <2>3. Relies(c, [operator[c] EXCEPT !.step = "assert"])
    BY <2>1, <2>2 DEF Relies
  <2> QED
    BY <1>1, <1>5, <2>3, MoveKeeps DEF Reads
<1> QED
  BY <1>2, <1>3, <1>4, <1>5 DEF QuiesceCanonicalSchedule

LEMMA PrepareKeeps ==
  ASSUME JobsInv, PrepareHandoff, UNCHANGED <<platform, updates>>
  PROVE  JobsInv'
<1> USE DEF JobsInv
<1> DEFINE c == "update"
<1>1. /\ c \in Commands /\ ~At(c, "idle") /\ operator[c] \in Operators
      /\ {"prepare", "reassert", "upload"} \subseteq Steps(c)
      /\ Running = {} /\ AllSuspended
  BY OperatorIsRecord
  DEF PrepareHandoff, Commands, At, Steps, UpdateSteps, InTry, CommandsRely, Relies
<1>2. CASE /\ At("update", "assert")
           /\ Requires("update", AssertWritersQuiescent(operator["update"]), "prepare")
  <2>1. [operator[c] EXCEPT !.step = "prepare"].step = "prepare"
    BY <1>1, MovesIsRecord
  <2>2. Relies(c, [operator[c] EXCEPT !.step = "prepare"])
    BY <1>1, <2>1 DEF Relies
  <2> QED
    BY <1>1, <1>2, <2>2, RequiresKeeps
<1>3. CASE /\ At("update", "prepare")
           /\ Becomes("update", [operator["update"] EXCEPT !.step = "reassert", !.handoff = output])
           /\ Reads
  <2> DEFINE op == [operator["update"] EXCEPT !.step = "reassert", !.handoff = output]
  <2>1. op \in Operators /\ op.step = "reassert" /\ op.handoff = output
    BY <1>1 DEF Operators, Shape, UpdateSteps, InTry
  <2>2. Becomes(c, op)
    BY <1>3
  <2> HIDE DEF op
  <2>3. Relies(c, op)
    BY <1>1, <2>1 DEF Relies
  <2> QED
    BY <1>1, <1>3, <2>1, <2>2, <2>3, ReadKeeps DEF Reads
<1>4. CASE /\ At("update", "reassert")
           /\ Requires("update", AssertWritersQuiescent(operator["update"]), "upload")
  <2>1. /\ [operator[c] EXCEPT !.step = "upload"].step = "upload"
        /\ [operator[c] EXCEPT !.step = "upload"].handoff = operator[c].handoff
    BY <1>1, MovesIsRecord
  <2>2. operator[c].handoff = output
    BY <1>1, <1>4 DEF CommandsRely, Relies, At
  <2>3. Relies(c, [operator[c] EXCEPT !.step = "upload"])
    BY <1>1, <2>1, <2>2 DEF Relies
  <2> QED
    BY <1>1, <1>4, <2>3, RequiresKeeps
<1> QED
  BY <1>2, <1>3, <1>4 DEF PrepareHandoff

(* Nothing runs when the new revision and its hand-off are deployed. *)
LEMMA DeployKeeps ==
  ASSUME JobsInv, UpdateExistingPool, UNCHANGED <<platform, updates>>
  PROVE  JobsInv'
<1> USE DEF JobsInv
<1> DEFINE c == "update"
<1>1. /\ c \in Commands /\ ~At(c, "idle") /\ operator[c] \in Operators
      /\ {"configure", "inspect"} \subseteq Steps(c)
      /\ Running = {} /\ AllSuspended
  BY OperatorIsRecord
  DEF UpdateExistingPool, Commands, At, Steps, UpdateSteps, InTry, CommandsRely, Relies
<1>2. UNCHANGED <<jobs, output, schedules, made>>
  BY DEF UpdateExistingPool, platform, hub
<1>3. HubIsRight'
  BY <1>2, QuieterKeeps DEF Shape, ScheduleRecords, Schedules, Active
<1>4. PICK step \in {"configure", "inspect"} : Moves(c, step)
  BY DEF UpdateExistingPool
<1> DEFINE op == [operator[c] EXCEPT !.step = step]
<1>5. op \in Operators /\ op.step = step
  BY <1>1, MovesIsRecord
<1>6. Becomes(c, op)
  BY <1>4 DEF Moves
<1> HIDE DEF op
<1>7. operator'[c] = op
  BY <1>1, <1>6 DEF Becomes, Shape
<1>8. Relies(c, operator[c])'
  BY <1>1, <1>2, <1>5, <1>7 DEF Relies, Running, AllSuspended, Active, Schedules
<1>9. Verified'
  <2>1. \A j \in DOMAIN jobs : jobs[j].pc \in {"done", "failed"}
    BY <1>1 DEF Running
  <2> QED
    BY <1>2, <2>1 DEF Verified
<1>10. deployed' \in [revision : Nat, settings : Nat, handoff : Handoffs] /\ HandoffIsCurrent'
  <2>1. CASE /\ At("update", "upload")
             /\ deployed' = [deployed EXCEPT !.revision = operator["update"].target,
                                             !.handoff = operator["update"].handoff]
    <3>1. operator[c].handoff = output
      BY <1>1, <2>1 DEF CommandsRely, Relies, At
    <3> QED
      BY <1>1, <1>2, <2>1, <3>1 DEF Shape, Operators, HandoffIsCurrent
  <2>2. CASE \E settings \in {deployed.settings, 1} :
               deployed' = [deployed EXCEPT !.settings = settings]
    <3>1. deployed \in [revision : Nat, settings : Nat, handoff : Handoffs] /\ HandoffIsCurrent
      BY DEF Shape
    <3>2. PICK settings \in Nat : deployed' = [deployed EXCEPT !.settings = settings]
      BY <2>2, <3>1
    <3>3. deployed'.revision = deployed.revision /\ deployed'.handoff = deployed.handoff
      BY <3>1, <3>2
    <3>4. HandoffIsCurrent'
      BY <1>2, <3>1, <3>3 DEF HandoffIsCurrent
    <3>5. deployed' \in [revision : Nat, settings : Nat, handoff : Handoffs]
      BY <3>1, <3>2
    <3> QED
      BY <3>4, <3>5
  <2> QED
    BY <2>1, <2>2 DEF UpdateExistingPool
<1> QED
  BY <1>1, <1>3, <1>5, <1>6, <1>8, <1>9, <1>10, CommandKeeps

LEMMA DesiredIsContract ==
  ASSUME Shape
  PROVE  Desired \in Contracts
BY DEF Shape, Desired, Contract, Contracts

LEMMA FinalizeKeeps ==
  ASSUME JobsInv, FinalizeUpdate, UNCHANGED <<platform, updates>>
  PROVE  JobsInv'
<1> USE DEF JobsInv
<1> DEFINE c == "update"
           op == [operator["update"] EXCEPT
                    !.step = "reconcile", !.wanted = Desired, !.secrets = Exact(Desired) = {}]
<1>1. /\ c \in Commands /\ ~At(c, "idle") /\ operator[c] \in Operators
      /\ "reconcile" \in Steps(c) /\ Running = {} /\ AllSuspended
  BY OperatorIsRecord
  DEF FinalizeUpdate, Commands, At, Steps, UpdateSteps, InTry, CommandsRely, Relies
<1>2. op \in Operators /\ op.step = "reconcile"
  BY <1>1, DesiredIsContract DEF Operators, UpdateSteps, InTry
<1>3. Becomes(c, op) /\ Reads
  BY DEF FinalizeUpdate
<1> HIDE DEF op
<1>4. Relies(c, op)
  BY <1>1, <1>2 DEF Relies
<1> QED
  BY <1>1, <1>2, <1>3, <1>4, ReadKeeps DEF Reads

LEMMA RestoreKeeps ==
  ASSUME JobsInv, RestoreCanonical, UNCHANGED <<platform, updates>>
  PROVE  JobsInv'
<1> USE DEF JobsInv
<1> DEFINE c == "update"
<1>1. c \in Commands /\ ~At(c, "idle")
  BY DEF RestoreCanonical, Commands, At
<1>2. /\ Idle("failed") \in Operators /\ Idle("failed").step \in Steps(c)
      /\ Idle("failed").step = "idle" /\ Relies(c, Idle("failed"))
  BY <1>1, IdleRelies DEF Outcomes
<1>3. CASE ~operator["update"].wasActive /\ Ends("update", "failed") /\ Reads
  BY <1>1, <1>2, <1>3, ReadKeeps DEF Reads, Ends
<1>4. CASE Request("update") /\ Ends("update", "failed") /\ Requests
  <2>1. Becomes(c, Idle("failed"))
    BY <1>4 DEF Ends
  <2>2. operator'[c] = Idle("failed")
    BY <1>1, <2>1 DEF Becomes, Shape
  <2>3. Relies(c, operator[c])'
    BY <1>2, <2>2 DEF Relies, InTry
  <2> QED
    BY <1>1, <1>2, <1>4, <2>1, <2>3, RequestMoves DEF Requests
<1>5. CASE Throws("update") /\ Reads
  BY <1>1, <1>5, ThrowsReading DEF Reads
<1> QED
  BY <1>3, <1>4, <1>5 DEF RestoreCanonical

-----------------------------------------------------------------------------
(* The replacement of the schedule. *)

LEMMA ReconcileKeeps ==
  ASSUME JobsInv, NEW c \in Commands, At(c, "reconcile"), Inspects(c), Reads,
         UNCHANGED <<platform, updates>>
  PROVE  JobsInv'
<1> USE DEF JobsInv
<1>1. /\ ~At(c, "idle") /\ operator[c] \in Operators
      /\ {"suspend all", "delete"} \subseteq Steps(c)
      /\ c = "update" => Running = {} /\ AllSuspended
  BY OperatorIsRecord DEF At, Steps, UpdateSteps, DoctorSteps, InTry, CommandsRely, Relies
<1>2. CASE Throws(c)
  BY <1>1, <1>2, ThrowsReading DEF Reads
<1>3. CASE Becomes(c, [operator[c] EXCEPT !.step = "suspend all", !.before = Schedules])
  <2> DEFINE op == [operator[c] EXCEPT !.step = "suspend all", !.before = Schedules]
  <2>1. op \in Operators /\ op.step = "suspend all" /\ op.before = Schedules
    BY <1>1 DEF Operators, UpdateSteps, DoctorSteps, Shape
  <2>2. Becomes(c, op)
    BY <1>3
  <2> HIDE DEF op
  <2>3. Relies(c, op)
    BY <1>1, <2>1 DEF Relies
  <2> QED
    BY <1>1, <2>1, <2>2, <2>3, ReadKeeps DEF Reads
<1>4. ASSUME NEW s \in Schedules,
             Becomes(c, [operator[c] EXCEPT !.step = "delete", !.kept = s, !.before = Schedules \ {s}])
      PROVE  JobsInv'
  <2> DEFINE op == [operator[c] EXCEPT !.step = "delete", !.kept = s, !.before = Schedules \ {s}]
  <2>1. op \in Operators /\ op.step = "delete" /\ op.before = Schedules \ {s} /\ op.kept = s
    BY <1>1 DEF Operators, UpdateSteps, DoctorSteps, Shape
  <2>2. Becomes(c, op)
    BY <1>4
  <2> HIDE DEF op
  <2>3. Relies(c, op)
    BY <1>1, <2>1 DEF Relies
  <2> QED
    BY <1>1, <2>1, <2>2, <2>3, ReadKeeps DEF Reads
<1>5. \/ Throws(c)
      \/ Becomes(c, [operator[c] EXCEPT !.step = "suspend all", !.before = Schedules])
      \/ \E s \in Schedules :
           Becomes(c, [operator[c] EXCEPT !.step = "delete", !.kept = s, !.before = Schedules \ {s}])
  BY DEF Inspects, Exact
<1> QED
  BY <1>2, <1>3, <1>4, <1>5

(* A request of a replacement that has more to do. *)
LEMMA ReplacingKeeps ==
  ASSUME JobsInv, NEW c \in Commands, operator[c].step \in {"suspend all", "delete"}, Request(c),
         UNCHANGED operator, Requests, UNCHANGED <<platform, updates>>
  PROVE  JobsInv'
<1> USE DEF JobsInv
<1>1. /\ ~At(c, "idle") /\ operator[c] \in Operators /\ operator[c].step \in Steps(c)
      /\ Becomes(c, operator[c]) /\ UNCHANGED <<jobs, output, deployed>>
      /\ ~At(c, "create") /\ operator[c].step \notin {"enable", "restore"}
  BY OperatorIsRecord DEF At, Becomes, Shape, platform, Requests
<1>2. Schedules' \subseteq Schedules /\ (AllSuspended => AllSuspended')
  BY <1>1, RequestKeeps
<1>3. Relies(c, operator[c])
  BY DEF CommandsRely
<1>4. Relies(c, operator[c])'
  BY <1>1, <1>2, <1>3 DEF Relies, Running
<1> QED
  BY <1>1, <1>4, RequestMoves

LEMMA ReconcileScheduleKeeps ==
  ASSUME JobsInv, NEW c \in Commands, ReconcileSchedule(c), UNCHANGED <<platform, updates>>
  PROVE  JobsInv'
<1> USE DEF JobsInv
<1>1. /\ ~At(c, "idle") /\ operator[c] \in Operators /\ Relies(c, operator[c])
      /\ {"recheck", "create", "delete"} \subseteq Steps(c)
      /\ UNCHANGED <<jobs, output>>
  BY OperatorIsRecord
  DEF ReconcileSchedule, At, Steps, UpdateSteps, DoctorSteps, InTry, CommandsRely, platform
<1>2. CASE At(c, "reconcile") /\ Inspects(c) /\ Reads
  BY <1>2, ReconcileKeeps
<1>3. CASE \/ At(c, "suspend all") /\ Request(c) /\ UNCHANGED operator /\ Requests
           \/ At(c, "delete") /\ Request(c) /\ UNCHANGED operator /\ Requests
  BY <1>3, ReplacingKeeps DEF At
<1>4. CASE At(c, "suspend all") /\ Moves(c, "recheck") /\ Reads
  <2>1. /\ [operator[c] EXCEPT !.step = "recheck"].step = "recheck"
        /\ [operator[c] EXCEPT !.step = "recheck"].before = operator[c].before
    BY <1>1, MovesIsRecord
  <2>2. Relies(c, [operator[c] EXCEPT !.step = "recheck"])
    BY <1>1, <1>4, <2>1 DEF Relies, At, InTry
  <2> QED
    BY <1>1, <1>4, <2>2, MoveKeeps DEF Reads
<1>5. CASE At(c, "recheck") /\ Requires(c, ActiveJobs = {}, "create")
  <2>1. /\ [operator[c] EXCEPT !.step = "create"].step = "create"
        /\ [operator[c] EXCEPT !.step = "create"].before = operator[c].before
    BY <1>1, MovesIsRecord
  <2>2. Relies(c, [operator[c] EXCEPT !.step = "create"])
    BY <1>1, <1>5, <2>1 DEF Relies, At, InTry
  <2> QED
    BY <1>1, <1>5, <2>2, RequiresKeeps
<1>6. CASE /\ At(c, "create") /\ Request(c)
           /\ Becomes(c, [operator[c] EXCEPT !.step = "delete", !.kept = made']) /\ Requests
  <2>1. PICK kept \in Nat : kept = made' /\ Schedules' = Schedules \union {kept}
    BY <1>1, <1>6, RequestKeeps DEF HubIsRight
  <2> DEFINE op == [operator[c] EXCEPT !.step = "delete", !.kept = kept]
  <2>2. /\ op \in Operators /\ op.step = "delete" /\ op.kept = kept
        /\ op.before = operator[c].before
    BY <1>1 DEF Operators, UpdateSteps, DoctorSteps
  <2>3. Becomes(c, op)
    BY <1>6, <2>1
  <2> HIDE DEF op
  <2>4. operator'[c] = op
    BY <2>3 DEF Becomes, Shape
  <2>5. AllSuspended => AllSuspended'
    BY <1>1, <1>6, RequestKeeps DEF At
  <2>6. Relies(c, operator[c])'
    BY <1>1, <1>6, <2>1, <2>2, <2>4, <2>5 DEF Relies, At, InTry, Running
  <2> QED
    BY <1>1, <1>6, <2>2, <2>3, <2>6, RequestMoves DEF Requests
<1>7. CASE /\ At(c, "delete") /\ operator[c].before \cap Schedules = {}
           /\ Continues(c, AfterReconcile(c)) /\ Reads
  <2>1. CASE AfterReconcile(c) = "done"
    <3>1. /\ Idle("done") \in Operators /\ Idle("done").step \in Steps(c)
          /\ Relies(c, Idle("done"))
      BY IdleRelies DEF Outcomes
    <3> QED
      BY <1>1, <1>7, <2>1, <3>1, ReadKeeps DEF Continues, Ends, Reads
  <2>2. CASE AfterReconcile(c) # "done"
    <3>1. c = "update" /\ operator[c].wasActive /\ Moves(c, "resume") /\ "resume" \in Steps(c)
      <4>1. operator[c].wasActive \in BOOLEAN
        BY <1>1 DEF Operators
      <4>2. c = "update" /\ operator[c].wasActive /\ AfterReconcile(c) = "resume"
        BY <2>2 DEF AfterReconcile
      <4>3. Moves(c, "resume")
        BY <1>7, <4>2 DEF Continues
      <4> QED
        BY <4>2, <4>3 DEF Steps, UpdateSteps, InTry
    <3>2. /\ [operator[c] EXCEPT !.step = "resume"].step = "resume"
          /\ [operator[c] EXCEPT !.step = "resume"].kept = operator[c].kept
          /\ [operator[c] EXCEPT !.step = "resume"].wasActive = operator[c].wasActive
      BY <3>1, MovesIsRecord
    <3>3. Relies(c, [operator[c] EXCEPT !.step = "resume"])
      BY <1>1, <1>7, <3>1, <3>2 DEF Relies, At, InTry
    <3> QED
      BY <1>1, <1>7, <3>1, <3>3, MoveKeeps DEF Reads
  <2> QED
    BY <2>1, <2>2
<1> QED
  BY <1>2, <1>3, <1>4, <1>5, <1>6, <1>7 DEF ReconcileSchedule

LEMMA ResumeScheduleKeeps ==
  ASSUME JobsInv, NEW c \in Commands, ResumeSchedule(c), UNCHANGED <<platform, updates>>
  PROVE  JobsInv'
<1> USE DEF JobsInv
<1>1. /\ ~At(c, "idle") /\ operator[c] \in Operators /\ Relies(c, operator[c])
      /\ "enable" \in Steps(c)
  BY OperatorIsRecord
  DEF ResumeSchedule, At, Steps, UpdateSteps, DoctorSteps, InTry, CommandsRely
<1>2. CASE At(c, "resume") /\ Requires(c, ActiveJobs = {}, "enable")
  <2>1. /\ [operator[c] EXCEPT !.step = "enable"].step = "enable"
        /\ [operator[c] EXCEPT !.step = "enable"].kept = operator[c].kept
        /\ [operator[c] EXCEPT !.step = "enable"].wasActive = operator[c].wasActive
    BY <1>1, MovesIsRecord
  <2>2. ActiveJobs = {} => Relies(c, [operator[c] EXCEPT !.step = "enable"])
    BY <1>1, <1>2, <2>1 DEF Relies, At, InTry, ActiveJobs
  <2> QED
    BY <1>1, <1>2, <2>2, RequiresKeeps
<1>3. CASE At(c, "enable") /\ Request(c) /\ Ends(c, "done") /\ Requests
  <2>1. /\ Idle("done") \in Operators /\ Idle("done").step \in Steps(c)
        /\ Idle("done").step = "idle" /\ Becomes(c, Idle("done"))
    BY <1>3, IdleRelies DEF Outcomes, Ends
  <2>2. operator'[c] = Idle("done")
    BY <2>1 DEF Becomes, Shape
  <2>3. Relies(c, operator[c])'
    BY <2>1, <2>2 DEF Relies, InTry
  <2> QED
    BY <1>1, <1>3, <2>1, <2>3, RequestMoves DEF Requests
<1> QED
  BY <1>2, <1>3 DEF ResumeSchedule

-----------------------------------------------------------------------------
(* The steps of doctor. *)

LEMMA RepairKeeps ==
  ASSUME JobsInv, RepairVariables \/ RepairJob, UNCHANGED <<platform, updates>>
  PROVE  JobsInv'
<1> USE DEF JobsInv
<1> DEFINE c == "doctor"
<1>1. /\ c \in Commands /\ ~At(c, "idle") /\ operator[c] \in Operators
      /\ {"repair", "reconcile"} \subseteq Steps(c)
  BY OperatorIsRecord DEF RepairVariables, RepairJob, Commands, At, Steps, DoctorSteps
<1>2. CASE RepairVariables
  <2>1. UNCHANGED <<jobs, output, schedules, made>>
    BY <1>2 DEF RepairVariables, platform, hub
  <2>2. HubIsRight'
    BY <2>1, QuieterKeeps DEF Shape, ScheduleRecords, Schedules, Active
  <2>3. PICK settings \in Nat : deployed' = [deployed EXCEPT !.settings = settings]
    BY <1>2 DEF RepairVariables, Shape
  <2>4. /\ deployed' \in [revision : Nat, settings : Nat, handoff : Handoffs]
        /\ Verified' /\ HandoffIsCurrent'
    BY <2>1, <2>3 DEF Shape, Verified, HandoffIsCurrent
  <2> DEFINE op == [operator[c] EXCEPT !.step = "repair"]
  <2>5. op \in Operators /\ op.step = "repair"
    BY <1>1, MovesIsRecord
  <2>6. Becomes(c, op)
    BY <1>2 DEF RepairVariables, Moves
  <2> HIDE DEF op
  <2>7. operator'[c] = op
    BY <1>1, <2>6 DEF Becomes, Shape
  <2>8. Relies(c, operator[c])'
    BY <2>5, <2>7 DEF Relies, InTry
  <2> QED
    BY <1>1, <2>2, <2>4, <2>5, <2>6, <2>8, CommandKeeps
<1>3. CASE RepairJob /\ ActiveJobs # {}
  BY <1>1, <1>3, ThrowsReading DEF RepairJob, Reads
<1>4. CASE RepairJob /\ ActiveJobs = {}
  <2>1. PICK rotated \in BOOLEAN :
          Becomes("doctor", [operator["doctor"] EXCEPT
            !.step = "reconcile", !.wanted = Desired, !.secrets = rotated \/ Exact(Desired) = {}])
    BY <1>4 DEF RepairJob
  <2> DEFINE op == [operator["doctor"] EXCEPT
            !.step = "reconcile", !.wanted = Desired, !.secrets = rotated \/ Exact(Desired) = {}]
  <2>2. op \in Operators /\ op.step = "reconcile"
    BY <1>1, DesiredIsContract DEF Operators, DoctorSteps
  <2>3. Becomes(c, op)
    BY <2>1
  <2> HIDE DEF op
  <2>4. Relies(c, op)
    BY <2>2 DEF Relies
  <2> QED
    BY <1>1, <1>4, <2>2, <2>3, <2>4, ReadKeeps DEF RepairJob, Reads
<1> QED
  BY <1>2, <1>3, <1>4

LEMMA CanaryKeeps ==
  ASSUME JobsInv, RunCanary, UNCHANGED <<platform, updates>>
  PROVE  JobsInv'
<1> USE DEF JobsInv
<1> DEFINE c == "doctor"
           only == CHOOSE s \in Schedules : TRUE
           start == [operator["doctor"] EXCEPT !.wanted = Desired]
           op == [start EXCEPT !.step = "trigger", !.kept = only]
<1>1. /\ c \in Commands /\ ~At(c, "idle") /\ operator[c] \in Operators
      /\ "trigger" \in Steps(c) /\ Reads
  BY OperatorIsRecord DEF RunCanary, Commands, At, Steps, DoctorSteps
<1>2. CASE Throws("doctor")
  BY <1>1, <1>2, ThrowsReading DEF Reads
<1>3. CASE ~Throws("doctor")
  <2>1. OneExactSchedule(start) /\ (\A s \in Schedules : ~Active(s)) /\ Becomes("doctor", op)
    BY <1>3 DEF RunCanary
  <2>2. PICK s \in Schedules : Schedules = {s}
    BY <2>1 DEF OneExactSchedule, TheOnly, Exact
  <2>3. only \in Schedules /\ Schedules = {only} /\ only \in Nat
    BY <2>2 DEF Shape
  <2> HIDE DEF only
  <2>4. op \in Operators /\ op.step = "trigger" /\ op.kept = only
    BY <1>1, <2>3, DesiredIsContract DEF Operators, DoctorSteps
  <2>5. Becomes(c, op)
    BY <2>1
  <2> HIDE DEF op
  <2>6. Relies(c, op)
    BY <2>1, <2>3, <2>4 DEF Relies, AllSuspended
  <2> QED
    BY <1>1, <2>4, <2>5, <2>6, ReadKeeps DEF Reads
<1> QED
  BY <1>2, <1>3

(* The canary starts a job of its own while nothing runs. *)
LEMMA TriggerKeeps ==
  ASSUME JobsInv, TriggerJob, UNCHANGED updates
  PROVE  JobsInv'
<1> USE DEF JobsInv
<1> DEFINE c == "doctor"
<1>1. /\ c \in Commands /\ ~At(c, "idle") /\ operator[c] \in Operators
      /\ "await" \in Steps(c)
      /\ UNCHANGED <<schedules, made, deployed, claims, output, window>>
      /\ Schedules \subseteq {operator[c].kept} /\ AllSuspended
  BY OperatorIsRecord
  DEF TriggerJob, Commands, At, Steps, DoctorSteps, Reads, hub, CommandsRely, Relies
<1>2. CASE Throws("doctor") /\ UNCHANGED <<jobs, twins>>
  BY <1>1, <1>2, ThrowsReading DEF hub, platform
<1>3. CASE /\ ActiveJobs = {} /\ operator["doctor"].kept \in Schedules
           /\ Starts(operator["doctor"].kept, 1)
           /\ Moves("doctor", "await")
  <2> DEFINE op == [operator[c] EXCEPT !.step = "await"]
  <2>1. op \in Operators /\ op.step = "await" /\ op.kept = operator[c].kept
    BY <1>1, MovesIsRecord
  <2>2. Becomes(c, op)
    BY <1>3 DEF Moves
  <2> HIDE DEF op
  <2>3. /\ operator' \in [Commands -> Operators] /\ operator'[c] = op
        /\ operator'["update"] = operator["update"] /\ operator["update"].step = "idle"
    BY <1>1, <2>1, <2>2 DEF Becomes, Shape, OneCommand, At, Commands
  <2>4. /\ jobs' \in Seq(JobRecords) /\ twins' \in Nat
        /\ StartedTogether' /\ Claimed' /\ ElectedIsFirst' /\ Verified'
    BY <1>1, <1>3, StartsTogether DEF ActiveJobs
  <2>5. Shape'
    BY <1>1, <2>1, <2>3, <2>4 DEF Shape, JobRecords, Schedules, Steps, DoctorSteps
  <2>6. OneCommand' /\ HandoffIsCurrent'
    BY <1>1, <2>3 DEF OneCommand, At, Commands, HandoffIsCurrent
  <2>7. OneActive' /\ AllSuspended'
    BY <1>1 DEF OneActive, AllSuspended, Active, Schedules
  <2>8. Relies("update", operator["update"])' /\ Relies("doctor", operator["doctor"])'
    BY <1>1, <2>1, <2>3, <2>7 DEF Relies, InTry, Schedules
  <2> QED
    BY <2>4, <2>5, <2>6, <2>7, <2>8 DEF CommandsRely, Commands
<1> QED
  BY <1>2, <1>3 DEF TriggerJob

LEMMA AwaitKeeps ==
  ASSUME JobsInv, AwaitJob, UNCHANGED <<platform, updates>>
  PROVE  JobsInv'
<1> USE DEF JobsInv
<1> DEFINE c == "doctor"
<1>1. /\ c \in Commands /\ ~At(c, "idle") /\ operator[c] \in Operators
      /\ {"trigger", "approve"} \subseteq Steps(c) /\ Reads
      /\ Schedules \subseteq {operator[c].kept} /\ AllSuspended
  BY OperatorIsRecord DEF AwaitJob, Commands, At, Steps, DoctorSteps, CommandsRely, Relies
<1>2. CASE Throws("doctor")
  BY <1>1, <1>2, ThrowsReading DEF Reads
<1>3. CASE Becomes("doctor", [operator["doctor"] EXCEPT
                    !.step = IF operator["doctor"].runs = 0 THEN "trigger" ELSE "approve",
                    !.runs = operator["doctor"].runs + 1])
  <2>a. PICK next \in {"trigger", "approve"}, runs \in Nat :
          Becomes(c, [operator[c] EXCEPT !.step = next, !.runs = runs])
    <3>1. operator[c].runs + 1 \in Nat
      BY <1>1 DEF Operators
    <3>2. (IF operator[c].runs = 0 THEN "trigger" ELSE "approve") \in {"trigger", "approve"}
      OBVIOUS
    <3> QED
      BY <1>3, <3>1, <3>2
  <2> DEFINE op == [operator[c] EXCEPT !.step = next, !.runs = runs]
  <2>1. op \in Operators /\ op.step \in {"trigger", "approve"} /\ op.kept = operator[c].kept
    BY <1>1 DEF Operators, DoctorSteps
  <2>2. Becomes(c, op)
    BY <2>a
  <2> HIDE DEF op
  <2>3. Relies(c, op)
    BY <1>1, <2>1 DEF Relies, InTry
  <2> QED
    BY <1>1, <2>1, <2>2, <2>3, ReadKeeps DEF Reads
<1> QED
  BY <1>2, <1>3 DEF AwaitJob

LEMMA ApproveKeeps ==
  ASSUME JobsInv, ApproveSchedule, UNCHANGED <<platform, updates>>
  PROVE  JobsInv'
<1> USE DEF JobsInv
<1> DEFINE c == "doctor"
<1>1. /\ c \in Commands /\ ~At(c, "idle") /\ operator[c] \in Operators
      /\ "resume" \in Steps(c)
      /\ Schedules \subseteq {operator[c].kept} /\ AllSuspended
  BY OperatorIsRecord DEF ApproveSchedule, Commands, At, Steps, DoctorSteps, CommandsRely, Relies
<1>2. CASE Requires("doctor", OneExactSchedule(operator["doctor"]), "resume")
  <2>1. /\ [operator[c] EXCEPT !.step = "resume"].step = "resume"
        /\ [operator[c] EXCEPT !.step = "resume"].kept = operator[c].kept
    BY <1>1, MovesIsRecord
  <2>2. Relies(c, [operator[c] EXCEPT !.step = "resume"])
    BY <1>1, <2>1 DEF Relies
  <2> QED
    BY <1>1, <1>2, <2>2, RequiresKeeps
<1>3. CASE Ends("doctor", "done") /\ Reads
  <2>1. /\ Idle("done") \in Operators /\ Idle("done").step \in Steps(c)
        /\ Relies(c, Idle("done"))
    BY <1>1, IdleRelies DEF Outcomes
  <2> QED
    BY <1>1, <1>3, <2>1, ReadKeeps DEF Ends, Reads
<1> QED
  BY <1>2, <1>3 DEF ApproveSchedule

-----------------------------------------------------------------------------
(* A command begins only when the other one has ended. *)
LEMMA BeginKeeps ==
  ASSUME JobsInv, OneOperator, RunUpdate \/ RunDoctor
  PROVE  JobsInv'
<1> USE DEF JobsInv
<1>1. PICK c \in Commands, op \in Operators :
        /\ Becomes(c, op) /\ \A d \in Commands : At(d, "idle")
        /\ op.step \in {"quiesce", "variables", "canary"} /\ op.step \in Steps(c)
        /\ updates' \in Nat
        /\ UNCHANGED <<jobs, claims, output, twins, window, schedules, made, deployed>>
  <2>1. ASSUME NEW target \in Nat, NEW step \in {"quiesce", "variables", "canary"}
        PROVE  /\ [Idle("none") EXCEPT !.step = step, !.target = target] \in Operators
               /\ [Idle("none") EXCEPT !.step = step, !.target = target].step = step
               /\ [Idle("none") EXCEPT !.step = step] \in Operators
               /\ [Idle("none") EXCEPT !.step = step].step = step
    <3>1. Idle("none") \in Operators
      BY IdleRelies DEF Outcomes, Commands
    <3>2. step \in UpdateSteps \union DoctorSteps
      BY DEF UpdateSteps, DoctorSteps
    <3> DEFINE idle == Idle("none")
    <3> HIDE DEF idle
    <3>3. idle \in Operators
      BY <3>1 DEF idle
    <3>4. [idle EXCEPT !.step = step, !.target = target] \in Operators
          /\ [idle EXCEPT !.step = step, !.target = target].step = step
      BY <3>2, <3>3 DEF Operators
    <3>5. [idle EXCEPT !.step = step] \in Operators /\ [idle EXCEPT !.step = step].step = step
      BY <3>2, <3>3 DEF Operators
    <3> QED
      BY <3>4, <3>5 DEF idle
  <2>2. CASE RunUpdate
    <3>1. PICK target \in {deployed.revision, updates'} :
            Becomes("update", [Idle("none") EXCEPT !.step = "quiesce", !.target = target])
      BY <2>2 DEF RunUpdate
    <3>2. /\ target \in Nat /\ updates' \in Nat
          /\ UNCHANGED <<jobs, claims, output, twins, window, schedules, made, deployed>>
          /\ \A d \in Commands : At(d, "idle")
      BY <2>2 DEF RunUpdate, Shape, MayBegin, platform, Reads, hub
    <3>3. "quiesce" \in Steps("update") /\ "update" \in Commands
      BY DEF Steps, UpdateSteps, Commands
    <3> QED
      BY <2>1, <3>1, <3>2, <3>3
  <2>3. CASE RunDoctor
    <3>1. PICK step \in {"variables", "canary"} :
            Becomes("doctor", [Idle("none") EXCEPT !.step = step])
      BY <2>3 DEF RunDoctor
    <3>2. /\ updates' \in Nat
          /\ UNCHANGED <<jobs, claims, output, twins, window, schedules, made, deployed>>
          /\ \A d \in Commands : At(d, "idle")
      BY <2>3 DEF RunDoctor, Shape, MayBegin, platform, Reads, hub
    <3>3. step \in Steps("doctor") /\ "doctor" \in Commands
      BY DEF Steps, DoctorSteps, Commands
    <3> DEFINE op == [Idle("none") EXCEPT !.step = step]
    <3>4. op \in Operators /\ op.step = step
      BY <2>1, 0 \in Nat
    <3>5. Becomes("doctor", op)
      BY <3>1
    <3> HIDE DEF op
    <3> QED
      BY <3>2, <3>3, <3>4, <3>5
  <2> QED
    BY <2>2, <2>3
<1>2. /\ operator' \in [Commands -> Operators] /\ operator'[c] = op
      /\ \A d \in Commands : d # c => operator'[d] = operator[d] /\ operator[d].step = "idle"
  BY <1>1 DEF Becomes, Shape, At
<1>3. operator'["update"].step \in UpdateSteps /\ operator'["doctor"].step \in DoctorSteps
  BY <1>1, <1>2 DEF Steps, Commands, UpdateSteps, DoctorSteps
<1>4. Shape' /\ OneCommand'
  BY <1>1, <1>2, <1>3 DEF Shape, OneCommand, At, Schedules
<1>5. /\ OneActive' /\ StartedTogether' /\ Claimed' /\ ElectedIsFirst' /\ Verified'
      /\ HandoffIsCurrent'
  BY <1>1 DEF OneActive, StartedTogether, Claimed, ElectedIsFirst, Verified, HandoffIsCurrent,
              Running, Active, Schedules
<1>6. CommandsRely'
  <2> SUFFICES ASSUME NEW d \in Commands PROVE Relies(d, operator[d])'
    BY DEF CommandsRely
  <2>1. operator'[d].step \in {"idle", "quiesce", "variables", "canary"}
    BY <1>1, <1>2
  <2> QED
    BY <2>1 DEF Relies, InTry
<1> QED
  BY <1>4, <1>5, <1>6

LEMMA CommandStepKeeps ==
  ASSUME JobsInv, NEW c \in Commands, CommandStep(c)
  PROVE  JobsInv'
<1>1. CASE Command(c) /\ UNCHANGED <<platform, updates, doctors, failures>>
  BY <1>1, QuiesceKeeps, PrepareKeeps, DeployKeeps, FinalizeKeeps, RestoreKeeps, RepairKeeps,
     CanaryKeeps, AwaitKeeps, ApproveKeeps, ReconcileScheduleKeeps, ResumeScheduleKeeps
  DEF Command
<1>2. CASE c = "doctor" /\ TriggerJob /\ UNCHANGED <<updates, doctors, failures>>
  BY <1>2, TriggerKeeps
<1>3. CASE HubFails(c) /\ UNCHANGED <<platform, updates, doctors>>
  BY <1>3, HubFailsKeeps
<1> QED
  BY <1>1, <1>2, <1>3 DEF CommandStep

LEMMA JobsStart == Init => JobsInv
<1> SUFFICES ASSUME Init PROVE JobsInv
  OBVIOUS
<1>1. PICK suspend \in BOOLEAN :
        schedules = [s \in {1} |-> [spec |-> Contract(0, 0), suspend |-> suspend]]
  BY DEF Init
<1>2. Schedules = {1} /\ Running = {} /\ DOMAIN jobs = {}
  BY <1>1 DEF Schedules, Running, Init
<1>3. /\ \A c \in Commands : operator[c] = Idle("none") /\ operator[c] \in Operators
                             /\ operator[c].step = "idle"
      /\ operator \in [Commands -> Operators]
  <2>1. Idle("none") \in Operators /\ Idle("none").step = "idle"
    BY IdleRelies DEF Outcomes, Commands
  <2> QED
    BY <2>1 DEF Init
<1>4. Shape
  <2>1. schedules \in [Schedules -> [spec : Contracts, suspend : BOOLEAN]]
    BY <1>1, <1>2 DEF Contract, Contracts
  <2>2. operator["update"].step \in UpdateSteps /\ operator["doctor"].step \in DoctorSteps
    BY <1>3 DEF Commands, UpdateSteps, DoctorSteps
  <2> QED
    BY <1>2, <1>3, <2>1, <2>2 DEF Init, Shape, Handoffs
<1>5. OneCommand /\ CommandsRely
  BY <1>3 DEF OneCommand, At, CommandsRely, Relies, InTry
<1>6. OneActive /\ StartedTogether /\ Claimed /\ ElectedIsFirst /\ Verified /\ HandoffIsCurrent
  BY <1>2 DEF Init, OneActive, StartedTogether, Claimed, ElectedIsFirst, Verified, HandoffIsCurrent
<1> QED
  BY <1>4, <1>5, <1>6 DEF JobsInv

LEMMA JobsStutter == JobsInv /\ UNCHANGED vars => JobsInv'
<1> SUFFICES ASSUME JobsInv, UNCHANGED vars PROVE JobsInv'
  OBVIOUS
<1> USE DEF vars, JobsInv
<1>1. Shape' /\ OneCommand' /\ HandoffIsCurrent'
  BY DEF Shape, OneCommand, At, HandoffIsCurrent, Schedules
<1>2. OneActive' /\ StartedTogether' /\ Claimed' /\ ElectedIsFirst' /\ Verified'
  BY DEF OneActive, StartedTogether, Claimed, ElectedIsFirst, Verified, Active, Schedules, Running
<1>3. CommandsRely'
  BY DEF CommandsRely, Relies, AllSuspended, Active, Schedules, Running
<1> QED
  BY <1>1, <1>2, <1>3

(* The inductive invariant holds while one command is run at a time. *)
THEOREM JobsInvariant == OneOperator => (Spec => []JobsInv)
<1> SUFFICES ASSUME OneOperator PROVE Spec => []JobsInv
  OBVIOUS
<1>1. JobsInv /\ [Next]_vars => JobsInv'
  BY JobsStutter, FireKeeps, LaterKeeps, JobStepKeeps, BeginKeeps, CommandStepKeeps DEF Next
<1> QED
  BY <1>1, JobsStart, PTL DEF Spec

(* At most one job is past its admission (require_elected_writer of the    *)
(* runner, the start and the canary of the setup): for any number of jobs  *)
(* the Hub starts twice, any updates, repairs, failures and interruptions, *)
(* as long as two commands are not run at the same time.                   *)
THEOREM OneWriterAtATime == OneOperator => (Spec => []OneWriter)
<1> SUFFICES ASSUME OneOperator PROVE Spec => []OneWriter
  OBVIOUS
<1>1. JobsInv => OneWriter
  <2> SUFFICES ASSUME JobsInv PROVE OneWriter
    OBVIOUS
  <2> DEFINE W == {j \in DOMAIN jobs : jobs[j].pc = "work"}
  <2>1. \A j, k \in W : j = k
    <3> SUFFICES ASSUME NEW j \in W, NEW k \in W PROVE j = k
      OBVIOUS
    <3>1. j \in Running /\ k \in Running /\ j \in Nat /\ k \in Nat
      BY JobsAreRecords DEF JobsInv, Running
    <3>2. j <= k /\ k <= j
      BY <3>1 DEF JobsInv, ElectedIsFirst
    <3> QED
      BY <3>1, <3>2
  <2>2. CASE W = {}
    BY <2>2, FS_EmptySet DEF OneWriter
  <2>3. CASE W # {}
    <3>1. PICK j \in W : W = {j}
      BY <2>1, <2>3
    <3>2. Cardinality(W) = 1
      BY <3>1, FS_Singleton
    <3> QED
      BY <3>2 DEF OneWriter
  <2> QED
    BY <2>2, <2>3
<1> QED
  BY <1>1, JobsInvariant, PTL

(* The hand-off that was deployed describes the last write until a job of  *)
(* the new revision has written.                                           *)
THEOREM HandoffStaysCurrent == OneOperator => (Spec => []HandoffIsCurrent)
<1>1. JobsInv => HandoffIsCurrent
  BY DEF JobsInv
<1> QED
  BY <1>1, JobsInvariant, PTL

-----------------------------------------------------------------------------
(* How an update ends. *)

EndsByItself == Ended("update") /\ operator'["update"].outcome \in {"done", "failed"}

LEMMA UpdateBecomes ==
  ASSUME Shape, NEW op, Becomes("update", op)
  PROVE  operator'["update"] = op
BY DEF Becomes, Shape, Commands

(* While the command goes on to another step, it does not end. *)
LEMMA UpdateMoves ==
  ASSUME Shape, NEW step \in Steps("update"), step # "idle", Moves("update", step)
  PROVE  operator'["update"].step # "idle"
<1>1. [operator["update"] EXCEPT !.step = step].step = step
  BY MovesIsRecord DEF Commands
<1> QED
  BY <1>1, UpdateBecomes DEF Moves

(* An error ends it only with a report of its own. *)
LEMMA UpdateThrows ==
  ASSUME Shape, ~At("update", "idle"), Throws("update"), operator'["update"].step = "idle"
  PROVE  operator'["update"].outcome \in {"not restored", "not quiet"}
<1>1. operator["update"].step \notin InTry
  <2> SUFFICES ASSUME operator["update"].step \in InTry PROVE FALSE
    OBVIOUS
  <2>1. Moves("update", "restore")
    BY DEF Throws
  <2>2. "restore" \in Steps("update") /\ "restore" # "idle"
    BY DEF Steps, UpdateSteps
  <2> QED
    BY <2>1, <2>2, UpdateMoves
<1>2. operator["update"].step \in {"quiesce", "suspend", "wait", "restore"}
  BY <1>1 DEF Shape, UpdateSteps, At
<1>3. PICK outcome \in {"not restored", "not quiet"} : Becomes("update", Idle(outcome))
  BY <1>1, <1>2 DEF Throws, Ends, At
<1>4. operator'["update"] = Idle(outcome)
  BY <1>3, UpdateBecomes
<1>5. Idle(outcome).outcome = outcome
  BY DEF Idle, Contract
<1> QED
  BY <1>4, <1>5

ActivityKept ==
  Cardinality({s \in DOMAIN schedules' : ~schedules'[s].suspend})
    = IF operator["update"].wasActive THEN 1 ELSE 0

LEMMA NothingStarted ==
  ASSUME ~operator["update"].wasActive, \A s \in DOMAIN schedules' : schedules'[s].suspend
  PROVE  ActivityKept
<1>1. {s \in DOMAIN schedules' : ~schedules'[s].suspend} = {}
  OBVIOUS
<1> QED
  BY <1>1, FS_EmptySet DEF ActivityKept

LEMMA OneStarted ==
  ASSUME operator["update"].wasActive, NEW s, DOMAIN schedules' = {s}, ~schedules'[s].suspend
  PROVE  ActivityKept
<1>1. {t \in DOMAIN schedules' : ~schedules'[t].suspend} = {s}
  OBVIOUS
<1> QED
  BY <1>1, FS_Singleton DEF ActivityKept

(* The steps of an update before its end, and its errors. *)
LEMMA GoesOnOrReports ==
  ASSUME JobsInv, ~At("update", "idle"),
         \/ Throws("update")
         \/ \E step \in Steps("update") \ {"idle"} : Moves("update", step)
         \/ \E op \in Operators : op.step # "idle" /\ Becomes("update", op)
         \/ UNCHANGED operator
  PROVE  ~EndsByItself
<1> SUFFICES ASSUME EndsByItself PROVE FALSE
  OBVIOUS
<1>1. operator'["update"].step = "idle" /\ operator'["update"].outcome \in {"done", "failed"}
  BY DEF EndsByItself, Ended
<1>2. Shape
  BY DEF JobsInv
<1> QED
  BY <1>1, <1>2, UpdateThrows, UpdateMoves, UpdateBecomes DEF At

LEMMA UpdateEnds ==
  ASSUME JobsInv, Command("update"), EndsByItself, UNCHANGED jobs
  PROVE  ActivityKept
<1> USE DEF JobsInv
<1> DEFINE op == operator["update"]
<1>1. /\ ~At("update", "idle") /\ op \in Operators /\ "update" \in Commands
      /\ Relies("update", op)
      /\ operator'["update"].step = "idle" /\ operator'["update"].outcome \in {"done", "failed"}
  BY OperatorIsRecord DEF EndsByItself, Ended, Commands, CommandsRely
<1>2. \A step \in UpdateSteps \ {"idle"} : step \in Steps("update") \ {"idle"}
  BY DEF Steps
<1>3. \A step \in UpdateSteps \ {"idle"} : ~Moves("update", step)
  BY <1>1, <1>2, GoesOnOrReports
<1>4. ~Throws("update") /\ ~UNCHANGED operator
  BY <1>1, GoesOnOrReports
<1>5. \A o \in Operators : o.step # "idle" => ~Becomes("update", o)
  BY <1>1, GoesOnOrReports
<1>6. ASSUME NEW condition, NEW step \in UpdateSteps \ {"idle"}
      PROVE  ~Requires("update", condition, step)
  BY <1>3, <1>4 DEF Requires
<1>7. ~QuiesceCanonicalSchedule
  <2> SUFFICES ASSUME QuiesceCanonicalSchedule PROVE FALSE
    OBVIOUS
  <2>1. \A step \in {"wait", "assert"} : ~Moves("update", step)
    BY <1>3 DEF UpdateSteps, InTry
  <2>2. PICK s \in Schedules :
          Becomes("update", [op EXCEPT !.step = IF Active(s) THEN "suspend" ELSE "wait",
               !.schedule = s, !.spec = schedules[s].spec, !.wasActive = Active(s)])
    BY <1>4, <2>1 DEF QuiesceCanonicalSchedule
  <2>3. PICK step \in {"suspend", "wait"} : step = IF Active(s) THEN "suspend" ELSE "wait"
    OBVIOUS
  <2>4. s \in Nat /\ schedules[s].spec \in Contracts
    BY DEF Shape
  <2>5. Active(s) \in BOOLEAN
    BY DEF Active
  <2>6. ASSUME NEW spec \in Contracts, NEW active \in BOOLEAN
        PROVE  LET o == [op EXCEPT !.step = step, !.schedule = s, !.spec = spec, !.wasActive = active]
               IN  o \in Operators /\ o.step = step
    <3>1. step \in UpdateSteps \union DoctorSteps /\ op \in Operators /\ s \in Nat
      BY <1>1, <2>3, <2>4 DEF UpdateSteps
    <3> HIDE DEF op
    <3> QED
      BY <3>1 DEF Operators
  <2> DEFINE o == [op EXCEPT !.step = IF Active(s) THEN "suspend" ELSE "wait",
               !.schedule = s, !.spec = schedules[s].spec, !.wasActive = Active(s)]
  <2>7. o \in Operators /\ o.step # "idle"
    BY <2>3, <2>4, <2>5, <2>6
  <2> HIDE DEF o
  <2> QED
    BY <1>5, <2>2, <2>7 DEF o
<1>8. ~PrepareHandoff
  <2> SUFFICES ASSUME PrepareHandoff PROVE FALSE
    OBVIOUS
  <2>1. \A step \in {"prepare", "upload"} : step \in UpdateSteps \ {"idle"}
    BY DEF UpdateSteps, InTry
  <2>2. Becomes("update", [op EXCEPT !.step = "reassert", !.handoff = output])
    BY <1>6, <2>1 DEF PrepareHandoff
  <2>3. /\ [op EXCEPT !.step = "reassert", !.handoff = output] \in Operators
        /\ [op EXCEPT !.step = "reassert", !.handoff = output].step = "reassert"
    BY <1>1 DEF Operators, UpdateSteps, InTry, Shape
  <2> QED
    BY <1>5, <2>2, <2>3
<1>9. ~UpdateExistingPool
  BY <1>3 DEF UpdateExistingPool, UpdateSteps, InTry
<1>10. ~FinalizeUpdate
  <2> SUFFICES ASSUME FinalizeUpdate PROVE FALSE
    OBVIOUS
  <2>1. PICK secrets \in BOOLEAN :
          Becomes("update", [op EXCEPT !.step = "reconcile", !.wanted = Desired, !.secrets = secrets])
    BY DEF FinalizeUpdate
  <2>2. Desired \in Contracts
    BY DEF Desired, Contract, Contracts, Shape
  <2>3. LET o == [op EXCEPT !.step = "reconcile", !.wanted = Desired, !.secrets = secrets]
        IN  o \in Operators /\ o.step = "reconcile"
    BY <1>1, <2>2 DEF Operators, UpdateSteps, InTry
  <2> QED
    BY <1>5, <2>1, <2>3
<1>11. CASE RestoreCanonical
  <2>1. CASE ~op.wasActive /\ Reads
    <3>1. AllSuspended
      BY <1>1, <1>11, <2>1 DEF Relies, RestoreCanonical, At
    <3> QED
      BY <2>1, <3>1, NothingStarted DEF AllSuspended, Schedules, Active, Reads, hub
  <2>2. CASE Request("update")
    <3>1. /\ op.wasActive /\ Schedules' = {op.schedule} /\ ~schedules'[op.schedule].suspend
      BY <1>1, <1>11, <2>2, RequestKeeps DEF RestoreCanonical
    <3> QED
      BY <3>1, OneStarted DEF Schedules
  <2> QED
    BY <1>4, <1>11, <2>1, <2>2 DEF RestoreCanonical
<1>12. CASE ReconcileSchedule("update")
  <2>1. \A step \in {"recheck", "create", "resume"} : step \in UpdateSteps \ {"idle"}
    BY DEF UpdateSteps, InTry
  <2>2. ~Inspects("update")
    <3> SUFFICES ASSUME Inspects("update") PROVE FALSE
      OBVIOUS
    <3>1. Schedules \subseteq Nat
      BY DEF Shape
    <3>2. /\ [op EXCEPT !.step = "suspend all", !.before = Schedules] \in Operators
          /\ [op EXCEPT !.step = "suspend all", !.before = Schedules].step = "suspend all"
      BY <1>1, <3>1 DEF Operators, UpdateSteps, InTry
    <3>3. ASSUME NEW s \in Schedules
          PROVE  LET o == [op EXCEPT !.step = "delete", !.kept = s, !.before = Schedules \ {s}]
                 IN  o \in Operators /\ o.step = "delete"
      BY <1>1, <3>1 DEF Operators, UpdateSteps, InTry
    <3>4. \A s \in Exact(op.wanted) : s \in Schedules
      BY DEF Exact
    <3> QED
      BY <1>4, <1>5, <3>2, <3>3, <3>4 DEF Inspects
  <2>3. ~(At("update", "create") /\ Request("update")
          /\ Becomes("update", [op EXCEPT !.step = "delete", !.kept = made']))
    <3> SUFFICES ASSUME At("update", "create"), Request("update"),
                        Becomes("update", [op EXCEPT !.step = "delete", !.kept = made'])
                 PROVE  FALSE
      OBVIOUS
    <3>1. made' \in Nat
      BY <1>1, RequestKeeps DEF HubIsRight
    <3>2. PICK kept \in Nat : kept = made'
      BY <3>1
    <3>3. LET o == [op EXCEPT !.step = "delete", !.kept = kept]
          IN  o \in Operators /\ o.step = "delete"
      BY <1>1 DEF Operators, UpdateSteps, InTry
    <3> QED
      BY <1>5, <3>2, <3>3
  <2>4. /\ At("update", "delete") /\ Reads /\ Continues("update", AfterReconcile("update"))
    BY <1>3, <1>4, <1>6, <1>12, <2>1, <2>2, <2>3 DEF ReconcileSchedule
  <2>5. ~op.wasActive
    BY <1>3, <2>1, <2>4 DEF Continues, AfterReconcile
  <2>6. AllSuspended
    BY <1>1, <2>4 DEF Relies, At, InTry
  <2> QED
    BY <2>4, <2>5, <2>6, NothingStarted DEF AllSuspended, Schedules, Active, Reads, hub
<1>13. CASE ResumeSchedule("update")
  <2>1. At("update", "enable") /\ Request("update")
    BY <1>6, <1>13 DEF ResumeSchedule, UpdateSteps, InTry
  <2>2. op.wasActive /\ Schedules' = {op.kept} /\ ~schedules'[op.kept].suspend
    BY <1>1, <2>1, RequestKeeps DEF Relies, At
  <2> QED
    BY <2>2, OneStarted DEF Schedules
<1> QED
  BY <1>7, <1>8, <1>9, <1>10, <1>11, <1>12, <1>13 DEF Command

(* No step of the doctor is taken while an update runs. *)
LEMMA OnlyWhatRunsMoves ==
  ASSUME NEW c \in Commands, CommandStep(c)
  PROVE  ~At(c, "idle")
<1>1. CASE HubFails(c)
  BY <1>1 DEF HubFails
<1>2. CASE c = "doctor" /\ TriggerJob
  BY <1>2 DEF TriggerJob, At
<1>3. CASE ReconcileSchedule(c) \/ ResumeSchedule(c)
  BY <1>3 DEF ReconcileSchedule, ResumeSchedule, At
<1>4. CASE c = "update" /\ (\/ QuiesceCanonicalSchedule \/ PrepareHandoff \/ UpdateExistingPool
                            \/ FinalizeUpdate \/ RestoreCanonical)
  BY <1>4 DEF QuiesceCanonicalSchedule, PrepareHandoff, UpdateExistingPool, FinalizeUpdate,
              RestoreCanonical, At
<1>5. CASE c = "doctor" /\ (RepairVariables \/ RepairJob \/ RunCanary \/ AwaitJob \/ ApproveSchedule)
  BY <1>5 DEF RepairVariables, RepairJob, RunCanary, AwaitJob, ApproveSchedule, At
<1> QED
  BY <1>1, <1>2, <1>3, <1>4, <1>5 DEF CommandStep, Command

(* An update that ends by itself leaves one schedule running if one ran    *)
(* when it began and none otherwise, or reports that it could not          *)
(* (quiesceCanonicalSchedule, restore and finalizeUpdate of the setup):    *)
(* whatever request to the Hub fails, and whatever the jobs do meanwhile.  *)
THEOREM UpdateKeepsActivity == OneOperator => (Spec => ActivityIsKept)
<1> SUFFICES ASSUME OneOperator PROVE Spec => ActivityIsKept
  OBVIOUS
<1>1. ASSUME JobsInv, [Next]_vars, EndsByItself PROVE ActivityKept
  <2> USE <1>1
  <2>1. ~At("update", "idle") /\ operator'["update"] # operator["update"] /\ Shape /\ OneCommand
    BY DEF EndsByItself, Ended, At, JobsInv
  <2>2. At("doctor", "idle")
    BY <2>1 DEF OneCommand, Commands
  <2>3. ~UNCHANGED vars
    BY <2>1 DEF vars
  <2>4. ASSUME NEW s, Fire(s) PROVE FALSE
    BY <2>1, <2>4 DEF Fire
  <2>5. ~Later
    BY <2>1 DEF Later
  <2>6. ASSUME NEW j, JobStep(j) PROVE FALSE
    BY <2>1, <2>6 DEF JobStep, VerifyRevision, Claim, Elect, Work, Die, JobOnly
  <2>7. ~RunUpdate /\ ~RunDoctor
    BY <2>1 DEF RunUpdate, RunDoctor, MayBegin, Commands
  <2>8. ~CommandStep("doctor")
    BY <2>2, OnlyWhatRunsMoves DEF Commands
  <2>9. CommandStep("update")
    BY <2>3, <2>4, <2>5, <2>6, <2>7, <2>8 DEF Next, Commands
  <2>10. ~HubFails("update")
    <3> SUFFICES ASSUME HubFails("update") PROVE FALSE
      OBVIOUS
    <3>1. Ends("update", "interrupted")
      BY <2>1, GoesOnOrReports DEF HubFails
    <3>2. operator'["update"] = Idle("interrupted")
      BY <2>1, <3>1, UpdateBecomes DEF Ends
    <3> QED
      BY <3>2 DEF EndsByItself, Idle
  <2>11. Command("update") /\ UNCHANGED jobs
    BY <2>9, <2>10 DEF CommandStep, platform
  <2> QED
    BY <2>11, UpdateEnds
<1>2. JobsInv /\ [Next]_vars => (EndsByItself => ActivityKept)
  BY <1>1
<1>3. JobsInv /\ [Next]_vars =>
        [Ended("update") /\ operator'["update"].outcome \in {"done", "failed"}
           => Cardinality({s \in DOMAIN schedules' : ~schedules'[s].suspend})
                = IF operator["update"].wasActive THEN 1 ELSE 0]_vars
  BY <1>2 DEF EndsByItself, ActivityKept
<1>4. Spec => []JobsInv
  BY JobsInvariant
<1> QED
  BY <1>3, <1>4, PTL DEF ActivityIsKept, Spec

-----------------------------------------------------------------------------
(* SpaceConfig. *)


AccountFiles ==
  [known : SUBSET Accounts, active : SUBSET Accounts, keys : SUBSET (Accounts \X Nat)]

(* No key of the file was revoked, and no key still to be issued is in it. *)
Clean(file) ==
  file \in AccountFiles /\ \A key \in file.keys : key \notin revoked /\ key[2] <= changes

CleanText(value) == value = Malformed \/ Clean(value)

AccountWrites(writesSeen) == WritesOf("accounts", writesSeen)
HasRegistry(prefix) == \E i \in AccountWrites(prefix) : \A j \in AccountWrites(prefix) : j <= i

Entries(s) == {s[i] : i \in DOMAIN s}

ConfigShape ==
  /\ log \in Seq(Entries(log))
  /\ text = [path \in Paths |-> text[path]]
  /\ served = [path \in Files |-> served[path]]
  /\ writes = [path \in Files |-> writes[path]]
  /\ \A path \in Files :
       \/ writes[path] = NoWrite
       \/ /\ writes[path].stage \in {"writing", "landed"}
          /\ writes[path] = [stage |-> writes[path].stage, value |-> writes[path].value]
  /\ mutex \in {"free", "change", "refresh"}
  /\ changes \in Nat /\ indexed \in Nat
  /\ revoked \in SUBSET (Accounts \X (0 .. changes))

(* Who holds the mutex: a refresh, a change of the registry, or the repair *)
(* of the pool file; other changes of the pool take no mutex.              *)
Exclusion ==
  /\ refresh # NoRefresh <=> mutex = "refresh"
  /\ writes["accounts"] # NoWrite => mutex = "change"
  /\ writes["pool"] # NoWrite /\ HasConfigError("pool") =>
       mutex = "change" /\ writes["accounts"] = NoWrite
  /\ ~up => \A path \in Files : writes[path] = NoWrite

(* What a refresh has listed holds every write of the registry. *)
RefreshSeesRegistry ==
  refresh # NoRefresh =>
    /\ refresh = [step |-> refresh.step, seen |-> refresh.seen]
    /\ refresh.step \in {"discovered", "primed", "advanced"}
    /\ refresh.seen \in 0 .. Len(log)
    /\ \A i \in AccountWrites(log) : i <= refresh.seen

NothingRevoked ==
  /\ HasRegistry(log) /\ CleanText(LatestWrite("accounts", log))
  /\ CleanText(text["accounts"])
  /\ Clean(served["accounts"].file)
  /\ writes["accounts"] # NoWrite => Clean(writes["accounts"].value)
  /\ writes["accounts"].stage = "landed" =>
       LatestWrite("accounts", log) = writes["accounts"].value

ConfigInv == ConfigShape /\ Exclusion /\ RefreshSeesRegistry /\ NothingRevoked

-----------------------------------------------------------------------------
(* The latest write of a path.                                             *)
LEMMA LatestIs ==
  ASSUME NEW path, NEW s, NEW T, s \in Seq(T), NEW i \in WritesOf(path, s),
         \A j \in WritesOf(path, s) : j <= i
  PROVE  LatestWrite(path, s) = s[i].value
<1>1. WritesOf(path, s) \subseteq Nat
  BY DEF WritesOf
<1>2. \A k \in WritesOf(path, s) : (\A j \in WritesOf(path, s) : j <= k) => k = i
  BY <1>1
<1> QED
  BY <1>2 DEF LatestWrite

(* One more write at the end of the log. *)
LEMMA LogAppends ==
  ASSUME log \in Seq(Entries(log)), NEW path, NEW value,
         log' = Append(log, [path |-> path, value |-> value])
  PROVE  /\ log' \in Seq(Entries(log'))
         /\ Len(log) \in Nat /\ Len(log') = Len(log) + 1
         /\ HasRegistry(log) /\ path # "accounts" =>
              /\ HasRegistry(log') /\ AccountWrites(log') = AccountWrites(log)
              /\ LatestWrite("accounts", log') = LatestWrite("accounts", log)
         /\ path = "accounts" =>
              HasRegistry(log') /\ LatestWrite("accounts", log') = value
<1> DEFINE w == [path |-> path, value |-> value]
           T == Entries(log) \union {w}
<1>1. log \in Seq(T) /\ log' \in Seq(T) /\ Len(log) \in Nat /\ Len(log') = Len(log) + 1
  BY DEF w, Entries
<1>2. /\ DOMAIN log = 1 .. Len(log) /\ DOMAIN log' = 1 .. Len(log) + 1
      /\ \A i \in 1 .. Len(log) : log'[i] = log[i]
      /\ log'[Len(log) + 1] = w
  BY <1>1
<1> HIDE DEF T
<1>3. log' \in Seq(Entries(log'))
  BY <1>1, <1>2 DEF Entries
<1>4. w.path = path /\ w.value = value
  OBVIOUS
<1> HIDE DEF w
<1>5. ASSUME HasRegistry(log), path # "accounts"
      PROVE  /\ HasRegistry(log') /\ AccountWrites(log') = AccountWrites(log)
             /\ LatestWrite("accounts", log') = LatestWrite("accounts", log)
  <2>1. AccountWrites(log') = AccountWrites(log)
    BY <1>1, <1>2, <1>4, <1>5 DEF AccountWrites, WritesOf
  <2>2. PICK i \in AccountWrites(log) : \A j \in AccountWrites(log) : j <= i
    BY <1>5 DEF HasRegistry
  <2>3. i \in 1 .. Len(log) /\ log'[i] = log[i]
    BY <1>2, <2>2 DEF AccountWrites, WritesOf
  <2>4. LatestWrite("accounts", log) = log[i].value
    BY <1>1, <2>2, LatestIs DEF AccountWrites
  <2>5. LatestWrite("accounts", log') = log'[i].value
    <3>1. /\ i \in WritesOf("accounts", log')
          /\ \A j \in WritesOf("accounts", log') : j <= i
      BY <2>1, <2>2 DEF AccountWrites
    <3> QED
      BY <1>1, <3>1, LatestIs
  <2> QED
    BY <2>1, <2>2, <2>3, <2>4, <2>5 DEF HasRegistry
<1>6. ASSUME path = "accounts"
      PROVE  HasRegistry(log') /\ LatestWrite("accounts", log') = value
  <2>1. Len(log) + 1 \in AccountWrites(log') /\ \A j \in AccountWrites(log') : j <= Len(log) + 1
    BY <1>1, <1>2, <1>4, <1>6 DEF AccountWrites, WritesOf
  <2>2. LatestWrite("accounts", log') = log'[Len(log) + 1].value
    BY <1>1, <2>1, LatestIs DEF AccountWrites
  <2> QED
    BY <1>2, <1>4, <2>1, <2>2 DEF HasRegistry
<1> QED
  BY <1>1, <1>3, <1>5, <1>6

(* A prefix that holds every write of the registry has the same latest     *)
(* one, and so has a part of it that holds any.                            *)
LEMMA ListedRegistry ==
  ASSUME log \in Seq(Entries(log)), HasRegistry(log), NEW seen \in 0 .. Len(log),
         \A i \in AccountWrites(log) : i <= seen, NEW from \in Nat
  PROVE  /\ LatestWrite("accounts", SubSeq(log, 1, seen)) = LatestWrite("accounts", log)
         /\ AccountWrites(SubSeq(log, from + 1, seen)) # {} =>
              LatestWrite("accounts", SubSeq(log, from + 1, seen)) = LatestWrite("accounts", log)
<1> DEFINE T == Entries(log)
<1>1. /\ Len(log) \in Nat /\ DOMAIN log = 1 .. Len(log) /\ log \in Seq(T) /\ seen \in Nat
      /\ seen <= Len(log)
  OBVIOUS
<1>2. PICK last \in AccountWrites(log) : \A j \in AccountWrites(log) : j <= last
  BY DEF HasRegistry
<1> HIDE DEF T
<1>3. last \in 1 .. seen /\ log[last].path = "accounts"
  BY <1>1, <1>2 DEF AccountWrites, WritesOf
<1>4. LatestWrite("accounts", log) = log[last].value
  BY <1>1, <1>2, LatestIs DEF AccountWrites
<1>5. ASSUME NEW a \in Nat, a < last
      PROVE  LatestWrite("accounts", SubSeq(log, a + 1, seen)) = log[last].value
  <2> DEFINE part == SubSeq(log, a + 1, seen)
  <2>1. /\ part \in Seq(T) /\ DOMAIN part = 1 .. seen - a
        /\ \A i \in 1 .. seen - a : part[i] = log[a + i]
    BY <1>1, <1>3, <1>5
  <2> HIDE DEF part
  <2>2. last - a \in 1 .. seen - a /\ a + (last - a) = last
    BY <1>1, <1>3, <1>5
  <2>3. part[last - a] = log[last]
    BY <2>1, <2>2
  <2>4. last - a \in WritesOf("accounts", part)
    BY <1>3, <2>1, <2>2, <2>3 DEF WritesOf
  <2>5. ASSUME NEW j \in WritesOf("accounts", part)
        PROVE  j <= last - a
    <3>1. j \in 1 .. seen - a /\ part[j].path = "accounts" /\ part[j] = log[a + j]
      BY <2>1 DEF WritesOf
    <3>2. a + j \in 1 .. Len(log)
      BY <1>1, <3>1
    <3>3. a + j <= last
      BY <1>1, <1>2, <3>1, <3>2 DEF AccountWrites, WritesOf
    <3> QED
      BY <1>1, <1>3, <3>1, <3>3
  <2>6. LatestWrite("accounts", part) = part[last - a].value
    BY <2>1, <2>4, <2>5, LatestIs
  <2> QED
    BY <2>3, <2>6 DEF part
<1>6. LatestWrite("accounts", SubSeq(log, 1, seen)) = log[last].value
  <2>1. 0 < last /\ 0 + 1 = 1
    BY <1>3
  <2> QED
    BY <1>5, <2>1
<1>7. ASSUME AccountWrites(SubSeq(log, from + 1, seen)) # {}
      PROVE  from < last
  <2> DEFINE part == SubSeq(log, from + 1, seen)
  <2>1. PICK j \in DOMAIN part : part[j].path = "accounts"
    BY <1>7 DEF AccountWrites, WritesOf
  <2>2. from + 1 <= seen
    <3>1. CASE from + 1 > seen
      <4>1. DOMAIN part = 1 .. 0
        BY <1>1, <3>1
      <4> QED
        BY <2>1, <4>1
    <3> QED
      BY <1>1, <3>1
  <2>3. j \in 1 .. seen - from /\ part[j] = log[from + j]
    BY <1>1, <2>1, <2>2
  <2>4. from + j \in AccountWrites(log)
    BY <1>1, <2>1, <2>3 DEF AccountWrites, WritesOf
  <2> QED
    BY <1>2, <1>3, <2>3, <2>4
<1> QED
  BY <1>4, <1>5, <1>6, <1>7

-----------------------------------------------------------------------------
(* What was clean stays clean while nothing is revoked. *)
CleanNext(file) ==
  file \in AccountFiles /\ \A key \in file.keys : key \notin revoked' /\ key[2] <= changes'

LEMMA CleanStays ==
  ASSUME ConfigInv, UNCHANGED revoked, changes' \in Nat, changes <= changes'
  PROVE  /\ \A file : Clean(file) => CleanNext(file)
         /\ revoked' \in SUBSET (Accounts \X (0 .. changes'))
<1>1. changes \in Nat /\ revoked \in SUBSET (Accounts \X (0 .. changes))
  BY DEF ConfigInv, ConfigShape
<1>2. \A n \in Nat : n <= changes => n <= changes'
  BY <1>1
<1>3. ASSUME NEW file, Clean(file)
      PROVE  CleanNext(file)
  <2>1. \A key \in file.keys : key[2] \in Nat
    BY <1>3 DEF Clean, AccountFiles
  <2> QED
    BY <1>2, <1>3, <2>1 DEF Clean, CleanNext
<1>4. 0 .. changes \subseteq 0 .. changes'
  BY <1>1
<1> QED
  BY <1>1, <1>3, <1>4

LEMMA LoadIsClean ==
  ASSUME NEW value
  PROVE  /\ CleanText(value) => Clean(Load("accounts", value).file)
         /\ Clean(EmptyFile)
<1>1. EmptyFile \in AccountFiles /\ EmptyFile.keys = {}
  BY DEF EmptyFile, AccountFiles
<1>2. Clean(EmptyFile)
  BY <1>1 DEF Clean
<1>3. Load("accounts", value).file = IF value = Malformed THEN EmptyFile ELSE value
  BY DEF Load, Fallback, Files
<1> QED
  BY <1>2, <1>3 DEF CleanText

(* Steps that change neither the log nor the keys, and take the registry   *)
(* in memory and in the cache from what is clean.                          *)
LEMMA MemoryKeeps ==
  ASSUME ConfigInv, UNCHANGED <<log, changes, revoked>>,
         indexed' \in Nat, mutex' \in {"free", "change", "refresh"},
         text' = [path \in Paths |-> text'[path]],
         served' = [path \in Files |-> served'[path]],
         writes' = [path \in Files |-> writes'[path]],
         \A path \in Files : writes'[path] \in {writes[path], NoWrite},
         Exclusion', RefreshSeesRegistry',
         CleanText(text'["accounts"]), Clean(served'["accounts"].file)
  PROVE  ConfigInv'
<1>1. ConfigShape'
  <2>1. \A path \in Files :
          \/ writes'[path] = NoWrite
          \/ /\ writes'[path].stage \in {"writing", "landed"}
             /\ writes'[path] = [stage |-> writes'[path].stage, value |-> writes'[path].value]
    BY DEF ConfigInv, ConfigShape
  <2> QED
    BY <2>1 DEF ConfigInv, ConfigShape
<1>2. NothingRevoked'
  <2>1. "accounts" \in Files
    BY DEF Files
  <2>2. /\ HasRegistry(log') /\ CleanText(LatestWrite("accounts", log'))
        /\ writes'["accounts"] # NoWrite => Clean(writes'["accounts"].value)
        /\ writes'["accounts"].stage = "landed" =>
             LatestWrite("accounts", log') = writes'["accounts"].value
    <3>1. CASE writes'["accounts"] = NoWrite
      <4>1. NoWrite.stage # "landed"
        BY DEF NoWrite
      <4> QED
        BY <3>1, <4>1 DEF ConfigInv, NothingRevoked
    <3>2. CASE writes'["accounts"] = writes["accounts"]
      BY <3>2 DEF ConfigInv, NothingRevoked
    <3> QED
      BY <2>1, <3>1, <3>2
  <2> QED
    BY <2>2 DEF NothingRevoked, CleanText, Clean
<1> QED
  BY <1>1, <1>2 DEF ConfigInv

LEMMA StartUpKeeps ==
  ASSUME ConfigInv, StartUp
  PROVE  ConfigInv'
<1> DEFINE latest == PrimeTextCacheFromLatestWrites(log)
<1>1. /\ ~up /\ up' /\ indexed' = Len(log) /\ text' = latest /\ served' = LoadAll(text')
      /\ UNCHANGED <<log, writes, mutex, refresh, changes, revoked>>
  BY DEF StartUp
<1>2. latest = [path \in Paths |-> LatestWrite(path, log)]
  BY DEF PrimeTextCacheFromLatestWrites
<1>3. text'["accounts"] = LatestWrite("accounts", log)
  BY <1>1, <1>2 DEF Paths, Files
<1>4. served'["accounts"] = Load("accounts", text'["accounts"])
  BY <1>1 DEF LoadAll, Files
<1>5. text' = [path \in Paths |-> text'[path]] /\ served' = [path \in Files |-> served'[path]]
  BY <1>1, <1>2 DEF LoadAll
<1>6. CleanText(text'["accounts"]) /\ Clean(served'["accounts"].file)
  BY <1>3, <1>4, LoadIsClean DEF ConfigInv, NothingRevoked
<1>7. Exclusion' /\ RefreshSeesRegistry'
  BY <1>1 DEF ConfigInv, Exclusion, RefreshSeesRegistry, Files
<1>8. indexed' \in Nat
  BY <1>1 DEF ConfigInv, ConfigShape
<1> QED
  BY <1>1, <1>5, <1>6, <1>7, <1>8, MemoryKeeps DEF ConfigInv, ConfigShape

LEMMA StopKeeps ==
  ASSUME ConfigInv, Stop
  PROVE  ConfigInv'
<1>1. /\ text' = [path \in Paths |-> Malformed]
      /\ served' = [path \in Files |-> [file |-> Fallback[path], error |-> TRUE]]
      /\ writes' = [path \in Files |-> NoWrite] /\ mutex' = "free" /\ refresh' = NoRefresh
      /\ ~up' /\ UNCHANGED <<log, indexed, changes, revoked>>
  BY DEF Stop
<1>2. "accounts" \in Files /\ "accounts" \in Paths /\ "pool" \in Files
  BY DEF Files, Paths
<1>3. CleanText(text'["accounts"])
  BY <1>1, <1>2 DEF CleanText
<1>4. served'["accounts"].file = EmptyFile
  BY <1>1, <1>2 DEF Fallback
<1>5. Clean(served'["accounts"].file)
  BY <1>4, LoadIsClean
<1>6. Exclusion' /\ RefreshSeesRegistry'
  BY <1>1, <1>2 DEF Exclusion, RefreshSeesRegistry
<1>7. \A path \in Files : writes'[path] = NoWrite
  BY <1>1
<1> QED
  BY <1>1, <1>3, <1>5, <1>6, <1>7, MemoryKeeps DEF ConfigInv, ConfigShape

LEMMA OperatorKeeps ==
  ASSUME ConfigInv, (\E labels \in {1, 2} : WriteLabels(labels)) \/ PublishReplacement
  PROVE  ConfigInv'
<1>1. ASSUME NEW labels, WriteLabels(labels)
      PROVE  ConfigInv'
  <2>1. /\ log' = Append(log, [path |-> "labels", value |-> labels]) /\ changes' = changes + 1
        /\ UNCHANGED <<indexed, text, served, writes, mutex, refresh, up, revoked>>
    BY <1>1 DEF WriteLabels
  <2>2. /\ log' \in Seq(Entries(log')) /\ Len(log) \in Nat
        /\ Len(log') = Len(log) + 1 /\ HasRegistry(log')
        /\ AccountWrites(log') = AccountWrites(log)
        /\ LatestWrite("accounts", log') = LatestWrite("accounts", log)
    <3>1. log \in Seq(Entries(log)) /\ HasRegistry(log)
      BY DEF ConfigInv, ConfigShape, NothingRevoked
    <3>2. "labels" # "accounts"
      OBVIOUS
    <3>3. log' = Append(log, [path |-> "labels", value |-> labels])
      BY <2>1
    <3> QED
      BY <3>1, <3>2, <3>3, LogAppends
  <2>3. changes' \in Nat /\ changes <= changes'
    BY <2>1 DEF ConfigInv, ConfigShape
  <2>4. /\ \A file : Clean(file) => CleanNext(file)
        /\ revoked' \in SUBSET (Accounts \X (0 .. changes'))
    BY <2>1, <2>3, CleanStays
  <2>5. ConfigShape'
    BY <2>1, <2>2, <2>3, <2>4 DEF ConfigInv, ConfigShape
  <2>6. Exclusion'
    BY <2>1 DEF ConfigInv, Exclusion, HasConfigError
  <2>7. RefreshSeesRegistry'
    BY <2>1, <2>2 DEF ConfigInv, RefreshSeesRegistry
  <2>8. NothingRevoked'
    BY <2>1, <2>2, <2>4 DEF ConfigInv, NothingRevoked, CleanText, Clean, CleanNext
  <2> QED
    BY <2>5, <2>6, <2>7, <2>8 DEF ConfigInv
<1>2. ASSUME PublishReplacement
      PROVE  ConfigInv'
  <2>1. UNCHANGED <<log, indexed, text, served, writes, mutex, refresh, up, changes, revoked>>
    BY <1>2 DEF PublishReplacement
  <2>2. Exclusion' /\ RefreshSeesRegistry'
    BY <2>1 DEF ConfigInv, Exclusion, RefreshSeesRegistry, HasConfigError
  <2> QED
    BY <2>1, <2>2, MemoryKeeps DEF ConfigInv, ConfigShape, NothingRevoked
<1> QED
  BY <1>1, <1>2

-----------------------------------------------------------------------------
(* A change is computed from memory and enters its queue. *)
LEMMA ConfigBeginKeeps ==
  ASSUME ConfigInv, NEW path \in Files, NEW value, Begin(path, value),
         path = "accounts" => CleanNext(value),
         mutex' \in {"free", "change", "refresh"},
         \/ path = "pool" /\ ~HasConfigError("pool") /\ UNCHANGED mutex
         \/ Locked
  PROVE  ConfigInv'
<1>1. /\ up /\ writes[path] = NoWrite /\ changes' = changes + 1
      /\ writes' = [writes EXCEPT ![path] = [stage |-> "writing", value |-> value]]
      /\ UNCHANGED <<log, indexed, text, served, refresh, up, revoked>>
  BY DEF Begin
<1>2. changes' \in Nat /\ changes <= changes'
  BY <1>1 DEF ConfigInv, ConfigShape
<1>3. /\ \A file : Clean(file) => CleanNext(file)
      /\ revoked' \in SUBSET (Accounts \X (0 .. changes'))
  BY <1>1, <1>2, CleanStays
<1>4. /\ writes'[path] = [stage |-> "writing", value |-> value]
      /\ \A other \in Files \ {path} : writes'[other] = writes[other]
      /\ writes' = [other \in Files |-> writes'[other]]
  BY <1>1 DEF ConfigInv, ConfigShape
<1>5. /\ writes'[path] # NoWrite /\ writes'[path].stage = "writing"
      /\ writes'[path].value = value
  BY <1>4 DEF NoWrite
<1>6. ConfigShape'
  <2>1. \A other \in Files :
          \/ writes'[other] = NoWrite
          \/ /\ writes'[other].stage \in {"writing", "landed"}
             /\ writes'[other] = [stage |-> writes'[other].stage, value |-> writes'[other].value]
    BY <1>4 DEF ConfigInv, ConfigShape
  <2> QED
    BY <1>1, <1>2, <1>3, <1>4, <2>1 DEF ConfigInv, ConfigShape
<1>7. Exclusion'
  <2>1. CASE path = "pool" /\ ~HasConfigError("pool") /\ UNCHANGED mutex
    BY <1>1, <1>4, <2>1 DEF ConfigInv, Exclusion, HasConfigError, Files
  <2>2. CASE Locked
    <3>1. mutex = "free" /\ mutex' = "change"
      BY <2>2 DEF Locked
    <3>2. refresh' = NoRefresh /\ writes["accounts"] = NoWrite
          /\ (writes["pool"] # NoWrite => ~HasConfigError("pool"))
      BY <1>1, <3>1 DEF ConfigInv, Exclusion
    <3> QED
      BY <1>1, <1>4, <3>1, <3>2 DEF Exclusion, HasConfigError, Files
  <2> QED
    BY <2>1, <2>2
<1>8. RefreshSeesRegistry'
  BY <1>1 DEF ConfigInv, RefreshSeesRegistry
<1>9. NothingRevoked'
  <2>1. writes'["accounts"] # NoWrite => CleanNext(writes'["accounts"].value)
    BY <1>3, <1>4, <1>5 DEF ConfigInv, NothingRevoked, Files
  <2>2. writes'["accounts"].stage = "landed" => writes'["accounts"] = writes["accounts"]
    BY <1>4, <1>5 DEF Files
  <2> QED
    BY <1>1, <1>3, <2>1, <2>2 DEF ConfigInv, NothingRevoked, CleanText, Clean, CleanNext
<1> QED
  BY <1>6, <1>7, <1>8, <1>9 DEF ConfigInv

LEMMA ChangePoolKeeps ==
  ASSUME ConfigInv, ChangePool
  PROVE  ConfigInv'
<1>1. PICK value : Begin("pool", value)
  BY DEF ChangePool, AddMember, RemoveMember, AddAdmin, RemoveAdmin, SetMemberOrg
<1>2. ~HasConfigError("pool") /\ UNCHANGED mutex /\ "pool" \in Files
  BY DEF ChangePool, PoolReady, Files
<1> QED
  BY <1>1, <1>2, ConfigBeginKeeps DEF ConfigInv, ConfigShape

(* A new key has a number no key had before; every other change of the     *)
(* registry takes keys away.                                               *)
LEMMA ChangedRegistry ==
  ASSUME ConfigInv, ChangeAccounts
  PROVE  \E value : Begin("accounts", value) /\ CleanNext(value)
<1> DEFINE file == served["accounts"].file
<1>1. Clean(file) /\ file \in AccountFiles
  BY DEF ConfigInv, NothingRevoked, Clean
<1>2. changes' = changes + 1 /\ UNCHANGED revoked
  BY DEF ChangeAccounts, Issue, Rotate, Revoke, RevokeKey, Begin
<1>3. changes \in Nat /\ changes' \in Nat /\ changes <= changes'
  BY <1>2 DEF ConfigInv, ConfigShape
<1>4. CleanNext(file) /\ revoked \in SUBSET (Accounts \X (0 .. changes))
  BY <1>1, <1>2, <1>3, CleanStays DEF ConfigInv, ConfigShape
<1> HIDE DEF file
<1>5. ASSUME NEW account \in Accounts
      PROVE  /\ IssueKey(account) \in Accounts \X Nat
             /\ IssueKey(account) \notin revoked' /\ IssueKey(account)[2] <= changes'
  <2>1. IssueKey(account) = <<account, changes + 1>>
    BY DEF IssueKey
  <2>2. changes + 1 \notin 0 .. changes
    BY <1>3
  <2>3. <<account, changes + 1>> \notin revoked
    BY <1>4, <2>2
  <2> QED
    BY <1>2, <1>3, <2>1, <2>3
<1>6. ASSUME NEW value \in AccountFiles, NEW account \in Accounts,
             value.keys \subseteq file.keys \union {IssueKey(account)}
      PROVE  CleanNext(value)
  BY <1>4, <1>5, <1>6 DEF CleanNext
<1>7. ASSUME NEW account \in Accounts, Issue(file, account)
      PROVE  \E value : Begin("accounts", value) /\ CleanNext(value)
  <2> DEFINE value == [known |-> file.known \cup {account}, active |-> file.active \cup {account},
                       keys |-> file.keys \cup {IssueKey(account)}]
  <2>1. Begin("accounts", value)
    BY <1>7 DEF Issue
  <2>2. value \in AccountFiles /\ value.keys = file.keys \cup {IssueKey(account)}
    BY <1>1, <1>5 DEF AccountFiles
  <2> HIDE DEF value
  <2> QED
    BY <1>6, <2>1, <2>2
<1>8. ASSUME NEW account \in Accounts, Rotate(file, account)
      PROVE  \E value : Begin("accounts", value) /\ CleanNext(value)
  <2> DEFINE value == [file EXCEPT !.keys = @ \cup {IssueKey(account)}]
  <2>1. Begin("accounts", value)
    BY <1>8 DEF Rotate
  <2>2. value \in AccountFiles /\ value.keys = file.keys \cup {IssueKey(account)}
    BY <1>1, <1>5 DEF AccountFiles
  <2> HIDE DEF value
  <2> QED
    BY <1>6, <2>1, <2>2
<1>9. ASSUME NEW account \in Accounts, Revoke(file, account)
      PROVE  \E value : Begin("accounts", value) /\ CleanNext(value)
  <2> DEFINE value == [file EXCEPT !.active = @ \ {account},
                                   !.keys = {key \in @ : key[1] # account}]
  <2>1. Begin("accounts", value)
    BY <1>9 DEF Revoke
  <2>2. value \in AccountFiles /\ value.keys \subseteq file.keys
    BY <1>1 DEF AccountFiles
  <2> HIDE DEF value
  <2> QED
    BY <1>6, <2>1, <2>2
<1>10. ASSUME NEW key \in file.keys, RevokeKey(file, key)
       PROVE  \E value : Begin("accounts", value) /\ CleanNext(value)
  <2> DEFINE value == [file EXCEPT !.keys = @ \ {key}]
  <2>1. Begin("accounts", value)
    BY <1>10 DEF RevokeKey
  <2>2. value \in AccountFiles /\ value.keys \subseteq file.keys /\ key[1] \in Accounts
    BY <1>1, <1>10 DEF AccountFiles
  <2> HIDE DEF value
  <2> QED
    BY <1>6, <2>1, <2>2
<1> QED
  BY <1>7, <1>8, <1>9, <1>10 DEF ChangeAccounts, file

LEMMA ChangeAccountsKeeps ==
  ASSUME ConfigInv, ChangeAccounts
  PROVE  ConfigInv'
<1>1. PICK value : Begin("accounts", value) /\ CleanNext(value)
  BY ChangedRegistry
<1>2. Locked /\ mutex' = "change" /\ "accounts" \in Files
  BY DEF ChangeAccounts, Locked, Files
<1> QED
  BY <1>1, <1>2, ConfigBeginKeeps

LEMMA ConfigRepairKeeps ==
  ASSUME ConfigInv, RepairConfig \/ RepairAccounts
  PROVE  ConfigInv'
<1>1. Locked /\ mutex' = "change" /\ "accounts" \in Files /\ "pool" \in Files
  BY DEF RepairConfig, RepairAccounts, Locked, Files
<1>2. CASE RepairConfig
  BY <1>1, <1>2, ConfigBeginKeeps DEF RepairConfig
<1>3. CASE RepairAccounts
  <2>1. Begin("accounts", EmptyFile)
    BY <1>3 DEF RepairAccounts
  <2>2. CleanNext(EmptyFile)
    BY DEF CleanNext, EmptyFile, AccountFiles
  <2> QED
    BY <1>1, <2>1, <2>2, ConfigBeginKeeps
<1> QED
  BY <1>2, <1>3

-----------------------------------------------------------------------------
(* The write of a change: it lands, is acknowledged or fails. *)
LEMMA LandsKeeps ==
  ASSUME ConfigInv, NEW path \in Files, Lands(path)
  PROVE  ConfigInv'
<1> DEFINE value == writes[path].value
<1>1. /\ writes[path].stage = "writing"
      /\ log' = Append(log, [path |-> path, value |-> value])
      /\ writes' = [writes EXCEPT ![path].stage = "landed"]
      /\ UNCHANGED <<indexed, text, served, mutex, refresh, up, changes, revoked>>
  BY DEF Lands
<1>2. /\ writes[path] # NoWrite
      /\ writes[path] = [stage |-> "writing", value |-> value]
  BY <1>1 DEF ConfigInv, ConfigShape, NoWrite
<1>3. /\ writes'[path] = [stage |-> "landed", value |-> value]
      /\ \A other \in Files \ {path} : writes'[other] = writes[other]
      /\ writes' = [other \in Files |-> writes'[other]]
  BY <1>1, <1>2 DEF ConfigInv, ConfigShape
<1>4. /\ writes'[path] # NoWrite /\ writes'[path].stage = "landed" /\ writes'[path].value = value
  BY <1>3 DEF NoWrite
<1> HIDE DEF value
<1>5. log \in Seq(Entries(log)) /\ HasRegistry(log)
  BY DEF ConfigInv, ConfigShape, NothingRevoked
<1>6. /\ log' \in Seq(Entries(log')) /\ Len(log) \in Nat /\ Len(log') = Len(log) + 1
      /\ path # "accounts" =>
           /\ HasRegistry(log') /\ AccountWrites(log') = AccountWrites(log)
           /\ LatestWrite("accounts", log') = LatestWrite("accounts", log)
      /\ path = "accounts" =>
           HasRegistry(log') /\ LatestWrite("accounts", log') = value
  BY <1>1, <1>5, LogAppends
<1>7. ConfigShape'
  <2>1. \A other \in Files :
          \/ writes'[other] = NoWrite
          \/ /\ writes'[other].stage \in {"writing", "landed"}
             /\ writes'[other] = [stage |-> writes'[other].stage, value |-> writes'[other].value]
    BY <1>3 DEF ConfigInv, ConfigShape
  <2> QED
    BY <1>1, <1>3, <1>6, <2>1 DEF ConfigInv, ConfigShape
<1>8. Exclusion'
  <2>1. \A other \in Files : writes'[other] = NoWrite <=> writes[other] = NoWrite
    BY <1>2, <1>3, <1>4
  <2> QED
    BY <1>1, <2>1 DEF ConfigInv, Exclusion, HasConfigError, Files
<1>9. RefreshSeesRegistry'
  <2>1. path = "accounts" => refresh = NoRefresh
    BY <1>2 DEF ConfigInv, Exclusion
  <2> QED
    BY <1>1, <1>6, <2>1 DEF ConfigInv, RefreshSeesRegistry
<1>10. NothingRevoked'
  <2>1. CASE path = "accounts"
    <3>1. Clean(value)
      BY <1>2, <2>1 DEF ConfigInv, NothingRevoked, value
    <3> QED
      BY <1>1, <1>4, <1>6, <2>1, <3>1 DEF ConfigInv, NothingRevoked, CleanText, Clean
  <2>2. CASE path # "accounts"
    <3>1. writes'["accounts"] = writes["accounts"]
      BY <1>3, <2>2 DEF Files
    <3> QED
      BY <1>1, <1>6, <2>2, <3>1 DEF ConfigInv, NothingRevoked, CleanText, Clean
  <2> QED
    BY <2>1, <2>2
<1> QED
  BY <1>7, <1>8, <1>9, <1>10 DEF ConfigInv

(* A change that leaves frees the mutex if it ran under it. *)
LEMMA LeavesKeeps ==
  ASSUME ConfigInv, NEW path \in Files, writes[path] # NoWrite, Leaves(path),
         UNCHANGED <<refresh, up>>,
         path # "pool" => UNCHANGED HasConfigError("pool")
  PROVE  /\ Exclusion' /\ mutex' \in {"free", "change", "refresh"}
         /\ writes' = [other \in Files |-> writes'[other]] /\ writes'[path] = NoWrite
         /\ \A other \in Files : writes'[other] \in {writes[other], NoWrite}
<1>1. /\ writes' = [writes EXCEPT ![path] = NoWrite]
      /\ mutex' = IF mutex = "change" /\ (path = "accounts" \/ HasConfigError(path)) THEN "free"
                  ELSE mutex
  BY DEF Leaves
<1>2. /\ writes' = [other \in Files |-> writes'[other]] /\ writes'[path] = NoWrite
      /\ \A other \in Files \ {path} : writes'[other] = writes[other]
  BY <1>1 DEF ConfigInv, ConfigShape
<1>3. mutex' \in {"free", "change", "refresh"} /\ (mutex' = "refresh" <=> mutex = "refresh")
  BY <1>1 DEF ConfigInv, ConfigShape
<1>4. \A other \in Files : writes'[other] \in {writes[other], NoWrite}
  BY <1>2
<1>5. Exclusion'
  <2>1. CASE path = "accounts"
    <3>1. writes["pool"] # NoWrite => ~HasConfigError("pool")
      BY <2>1 DEF ConfigInv, Exclusion
    <3>2. writes'["pool"] = writes["pool"] /\ (HasConfigError("pool")' <=> HasConfigError("pool"))
      BY <1>2, <2>1 DEF Files
    <3> QED
      BY <1>2, <1>3, <1>4, <2>1, <3>1, <3>2 DEF ConfigInv, Exclusion, Files
  <2>2. CASE path = "pool"
    <3>1. writes'["accounts"] = writes["accounts"]
      BY <1>2, <2>2 DEF Files
    <3>2. writes["accounts"] # NoWrite => mutex' = "change"
      BY <1>1, <2>2 DEF ConfigInv, Exclusion
    <3> QED
      BY <1>2, <1>3, <1>4, <2>2, <3>1, <3>2 DEF ConfigInv, Exclusion, Files
  <2> QED
    BY <2>1, <2>2 DEF Files
<1> QED
  BY <1>2, <1>3, <1>4, <1>5

LEMMA FailsKeeps ==
  ASSUME ConfigInv, NEW path \in Files, Fails(path)
  PROVE  ConfigInv'
<1>1. /\ writes[path] # NoWrite /\ Leaves(path)
      /\ UNCHANGED <<log, indexed, text, served, refresh, up, changes, revoked>>
  BY DEF Fails
<1>2. /\ Exclusion' /\ mutex' \in {"free", "change", "refresh"}
      /\ writes' = [other \in Files |-> writes'[other]]
      /\ \A other \in Files : writes'[other] \in {writes[other], NoWrite}
  BY <1>1, LeavesKeeps DEF HasConfigError
<1>3. RefreshSeesRegistry'
  BY <1>1 DEF ConfigInv, RefreshSeesRegistry
<1> QED
  BY <1>1, <1>2, <1>3, MemoryKeeps DEF ConfigInv, ConfigShape, NothingRevoked

(* The registry that is acknowledged is the latest in the log, and with it *)
(* memory and cache hold no key that it removed.                           *)
LEMMA RegistryAcknowledged ==
  ASSUME ConfigInv, Acknowledged("accounts")
  PROVE  ConfigInv'
<1> DEFINE value == writes["accounts"].value
           old == served["accounts"].file.keys
<1>1. "accounts" \in Files /\ "pool" \in Files /\ "accounts" \in Paths
  BY DEF Files, Paths
<1>2. /\ writes["accounts"].stage = "landed" /\ Leaves("accounts")
      /\ text' = [text EXCEPT !["accounts"] = value]
      /\ served' = [served EXCEPT !["accounts"] = Load("accounts", value)]
      /\ revoked' = revoked \cup (old \ value.keys)
      /\ UNCHANGED <<log, indexed, refresh, up, changes>>
  BY DEF Acknowledged, RememberText
<1>3. writes["accounts"] # NoWrite
  BY <1>2 DEF NoWrite
<1>4. /\ Clean(value) /\ LatestWrite("accounts", log) = value
      /\ Clean(served["accounts"].file) /\ HasRegistry(log)
  BY <1>2, <1>3 DEF ConfigInv, NothingRevoked
<1> HIDE DEF value
<1>5. CleanNext(value) /\ CleanNext(EmptyFile)
  BY <1>2, <1>4 DEF Clean, CleanNext, EmptyFile, AccountFiles
<1>6. revoked' \in SUBSET (Accounts \X (0 .. changes))
  <2>1. old \subseteq Accounts \X (0 .. changes)
    <3>1. changes \in Nat /\ served["accounts"].file \in AccountFiles
      BY <1>4 DEF Clean, ConfigInv, ConfigShape
    <3>2. \A key \in old : key \in Accounts \X Nat /\ key[2] <= changes
      BY <1>4, <3>1 DEF Clean, AccountFiles
    <3> QED
      BY <3>1, <3>2
  <2> QED
    BY <1>2, <2>1 DEF ConfigInv, ConfigShape
<1>7. /\ text' = [path \in Paths |-> text'[path]] /\ text'["accounts"] = value
      /\ served' = [path \in Files |-> served'[path]]
      /\ served'["accounts"] = Load("accounts", value)
      /\ served'["pool"] = served["pool"]
  BY <1>1, <1>2 DEF ConfigInv, ConfigShape
<1>8. served'["accounts"].file \in {EmptyFile, value}
  BY <1>7 DEF Load, Fallback
<1>9. /\ Exclusion' /\ mutex' \in {"free", "change", "refresh"}
      /\ writes' = [other \in Files |-> writes'[other]] /\ writes'["accounts"] = NoWrite
      /\ \A other \in Files : writes'[other] \in {writes[other], NoWrite}
  BY <1>1, <1>2, <1>3, <1>7, LeavesKeeps DEF HasConfigError
<1>10. RefreshSeesRegistry'
  BY <1>2 DEF ConfigInv, RefreshSeesRegistry
<1>11. ConfigShape'
  <2>1. \A path \in Files :
          \/ writes'[path] = NoWrite
          \/ /\ writes'[path].stage \in {"writing", "landed"}
             /\ writes'[path] = [stage |-> writes'[path].stage, value |-> writes'[path].value]
    BY <1>9 DEF ConfigInv, ConfigShape
  <2> QED
    BY <1>2, <1>6, <1>7, <1>9, <2>1 DEF ConfigInv, ConfigShape
<1>12. NothingRevoked'
  <2>1. NoWrite.stage # "landed"
    BY DEF NoWrite
  <2> QED
    BY <1>2, <1>4, <1>5, <1>7, <1>8, <1>9, <2>1
       DEF NothingRevoked, CleanText, Clean, CleanNext
<1> QED
  BY <1>9, <1>10, <1>11, <1>12 DEF ConfigInv

LEMMA AcknowledgedKeeps ==
  ASSUME ConfigInv, NEW path \in Files, Acknowledged(path)
  PROVE  ConfigInv'
<1>1. CASE path = "accounts"
  BY <1>1, RegistryAcknowledged
<1>2. CASE path = "pool"
  <2>1. "accounts" \in Files /\ "pool" \in Files /\ "accounts" \in Paths /\ "pool" # "accounts"
    BY DEF Files, Paths
  <2>2. /\ writes["pool"].stage = "landed" /\ Leaves("pool")
        /\ text' = [text EXCEPT !["pool"] = writes["pool"].value]
        /\ served' = [served EXCEPT !["pool"] = Load("pool", writes["pool"].value)]
        /\ UNCHANGED <<log, indexed, refresh, up, changes, revoked>>
    BY <1>2, <2>1 DEF Acknowledged, RememberText
  <2>3. writes["pool"] # NoWrite
    BY <2>2 DEF NoWrite
  <2>4. /\ text' = [other \in Paths |-> text'[other]] /\ text'["accounts"] = text["accounts"]
        /\ served' = [other \in Files |-> served'[other]]
        /\ served'["accounts"] = served["accounts"]
    BY <2>1, <2>2 DEF ConfigInv, ConfigShape
  <2>5. /\ Exclusion' /\ mutex' \in {"free", "change", "refresh"}
        /\ writes' = [other \in Files |-> writes'[other]]
        /\ \A other \in Files : writes'[other] \in {writes[other], NoWrite}
    BY <2>1, <2>2, <2>3, LeavesKeeps
  <2>6. RefreshSeesRegistry'
    BY <2>2 DEF ConfigInv, RefreshSeesRegistry
  <2> QED
    BY <2>2, <2>4, <2>5, <2>6, MemoryKeeps DEF ConfigInv, ConfigShape, NothingRevoked
<1> QED
  BY <1>1, <1>2 DEF Files

-----------------------------------------------------------------------------
(* The refresh. *)
LEMMA DiscoverKeeps ==
  ASSUME ConfigInv, Discover
  PROVE  ConfigInv'
<1>1. /\ up /\ mutex = "free" /\ mutex' = "refresh"
      /\ refresh' = [step |-> "discovered", seen |-> Len(log)]
      /\ UNCHANGED <<log, indexed, text, served, writes, up, changes, revoked>>
  BY DEF Discover
<1>2. refresh' # NoRefresh
  BY <1>1 DEF NoRefresh
<1>3. Exclusion'
  BY <1>1, <1>2 DEF ConfigInv, Exclusion, HasConfigError
<1>4. RefreshSeesRegistry'
  <2>1. log \in Seq(Entries(log))
    BY DEF ConfigInv, ConfigShape
  <2>2. Len(log) \in Nat /\ DOMAIN log = 1 .. Len(log)
    BY <2>1
  <2>3. \A i \in AccountWrites(log) : i <= Len(log)
    BY <2>2 DEF AccountWrites, WritesOf
  <2>4. Len(log) \in 0 .. Len(log)
    BY <2>2
  <2> QED
    BY <1>1, <2>3, <2>4 DEF RefreshSeesRegistry
<1> QED
  BY <1>1, <1>3, <1>4, MemoryKeeps DEF ConfigInv, ConfigShape, NothingRevoked

LEMMA RefreshEnds ==
  ASSUME ConfigInv, refresh # NoRefresh, refresh' = NoRefresh, mutex' = "free",
         UNCHANGED <<log, text, writes, up, changes, revoked>>, indexed' \in Nat,
         served' = [path \in Files |-> served'[path]], Clean(served'["accounts"].file),
         UNCHANGED HasConfigError("pool") \/ writes["pool"] = NoWrite
  PROVE  ConfigInv'
<1>1. mutex = "refresh" /\ writes["accounts"] = NoWrite
  BY DEF ConfigInv, Exclusion
<1>2. Exclusion'
  BY <1>1 DEF ConfigInv, Exclusion
<1>3. RefreshSeesRegistry'
  BY DEF RefreshSeesRegistry
<1> QED
  BY <1>2, <1>3, MemoryKeeps DEF ConfigInv, ConfigShape, NothingRevoked

LEMMA RefreshFailsKeeps ==
  ASSUME ConfigInv, RefreshFails \/ NothingChanged
  PROVE  ConfigInv'
<1>1. /\ refresh # NoRefresh /\ refresh' = NoRefresh /\ mutex' = "free"
      /\ UNCHANGED <<log, indexed, text, served, writes, up, changes, revoked>>
  BY DEF RefreshFails, NothingChanged, NoRefresh
<1> QED
  BY <1>1, RefreshEnds DEF ConfigInv, ConfigShape, NothingRevoked, HasConfigError

LEMMA ReloadKeeps ==
  ASSUME ConfigInv, Reload
  PROVE  ConfigInv'
<1>1. /\ refresh # NoRefresh /\ refresh' = NoRefresh /\ mutex' = "free"
      /\ writes["pool"] = NoWrite /\ served' = LoadAll(text)
      /\ UNCHANGED <<log, indexed, text, writes, up, changes, revoked>>
  BY DEF Reload, NoRefresh
<1>2. served' = [path \in Files |-> served'[path]]
      /\ served'["accounts"] = Load("accounts", text["accounts"])
  BY <1>1 DEF LoadAll, Files
<1>3. Clean(served'["accounts"].file)
  BY <1>2, LoadIsClean DEF ConfigInv, NothingRevoked
<1> QED
  BY <1>1, <1>2, <1>3, RefreshEnds DEF ConfigInv, ConfigShape

(* Priming reads the latest write of each path in what was listed: of the  *)
(* registry, the latest there is.                                          *)
LEMMA PrimeKeeps ==
  ASSUME ConfigInv, Prime
  PROVE  ConfigInv'
<1>1. /\ refresh.step = "discovered"
      /\ text' = PrimeTextCacheFromLatestWrites(SubSeq(log, 1, refresh.seen))
      /\ refresh' = [refresh EXCEPT !.step = "primed"]
      /\ UNCHANGED <<log, indexed, served, writes, mutex, up, changes, revoked>>
  BY DEF Prime
<1>2. refresh # NoRefresh
  BY <1>1 DEF NoRefresh
<1>3. /\ refresh = [step |-> "discovered", seen |-> refresh.seen]
      /\ refresh.seen \in 0 .. Len(log) /\ \A i \in AccountWrites(log) : i <= refresh.seen
  BY <1>1, <1>2 DEF ConfigInv, RefreshSeesRegistry
<1>4. refresh' = [step |-> "primed", seen |-> refresh.seen]
  BY <1>1, <1>3
<1>5. LatestWrite("accounts", SubSeq(log, 1, refresh.seen)) = LatestWrite("accounts", log)
  BY <1>3, ListedRegistry DEF ConfigInv, ConfigShape, NothingRevoked
<1>6. /\ text' = [path \in Paths |-> text'[path]]
      /\ text'["accounts"] = LatestWrite("accounts", log)
  BY <1>1, <1>5 DEF PrimeTextCacheFromLatestWrites, Paths, Files
<1>7. Exclusion'
  BY <1>1, <1>2, <1>4 DEF ConfigInv, Exclusion, HasConfigError, NoRefresh
<1>8. RefreshSeesRegistry'
  BY <1>1, <1>3, <1>4 DEF RefreshSeesRegistry
<1> QED
  BY <1>1, <1>6, <1>7, <1>8, MemoryKeeps DEF ConfigInv, ConfigShape, NothingRevoked

LEMMA AdvanceKeeps ==
  ASSUME ConfigInv, AdvanceToDiscovered
  PROVE  ConfigInv'
<1> DEFINE tail == SubSeq(log, indexed + 1, refresh.seen)
<1>1. /\ refresh.step = "primed" /\ text' = ApplySegments(text, tail)
      /\ indexed' = refresh.seen /\ refresh' = [refresh EXCEPT !.step = "advanced"]
      /\ UNCHANGED <<log, served, writes, mutex, up, changes, revoked>>
  BY DEF AdvanceToDiscovered
<1>2. refresh # NoRefresh
  BY <1>1 DEF NoRefresh
<1>3. /\ refresh = [step |-> "primed", seen |-> refresh.seen]
      /\ refresh.seen \in 0 .. Len(log) /\ \A i \in AccountWrites(log) : i <= refresh.seen
      /\ refresh.seen \in Nat
  BY <1>1, <1>2 DEF ConfigInv, RefreshSeesRegistry
<1>4. refresh' = [step |-> "advanced", seen |-> refresh.seen]
  BY <1>1, <1>3
<1>5. AccountWrites(tail) # {} => LatestWrite("accounts", tail) = LatestWrite("accounts", log)
  BY <1>3, ListedRegistry DEF ConfigInv, ConfigShape, NothingRevoked
<1> HIDE DEF tail
<1>6. /\ text' = [path \in Paths |-> text'[path]]
      /\ text'["accounts"] \in {text["accounts"], LatestWrite("accounts", log)}
  BY <1>1, <1>5 DEF ApplySegments, Paths, Files, AccountWrites
<1>7. Exclusion'
  BY <1>1, <1>2, <1>4 DEF ConfigInv, Exclusion, HasConfigError, NoRefresh
<1>8. RefreshSeesRegistry'
  BY <1>1, <1>3, <1>4 DEF RefreshSeesRegistry
<1>9. CleanText(text'["accounts"])
  BY <1>6 DEF ConfigInv, NothingRevoked
<1> QED
  BY <1>1, <1>3, <1>6, <1>7, <1>8, <1>9, MemoryKeeps DEF ConfigInv, ConfigShape, NothingRevoked

-----------------------------------------------------------------------------
LEMMA InitConfig == ConfigInit => ConfigInv
<1> SUFFICES ASSUME ConfigInit
             PROVE  ConfigInv
  OBVIOUS
<1>1. PICK files \in FirstFiles :
        log = <<[path |-> "pool", value |-> files.pool],
                [path |-> "accounts", value |-> files.accounts],
                [path |-> "labels", value |-> 1]>>
  BY DEF ConfigInit
<1>2. /\ indexed = 0 /\ text = [path \in Paths |-> Malformed]
      /\ served = [path \in Files |-> [file |-> Fallback[path], error |-> TRUE]]
      /\ writes = [path \in Files |-> NoWrite]
      /\ mutex = "free" /\ refresh = NoRefresh /\ up = FALSE
      /\ changes = 0 /\ revoked = {}
  BY DEF ConfigInit
<1>3. "accounts" \in Files /\ "pool" \in Files /\ "accounts" \in Paths
  BY DEF Files, Paths
<1>4. /\ log \in Seq(Entries(log)) /\ DOMAIN log = 1 .. 3
      /\ log[1].path = "pool" /\ log[2].path = "accounts" /\ log[3].path = "labels"
      /\ log[2].value = files.accounts
  BY <1>1 DEF Entries
<1>5. AccountWrites(log) = {2}
  BY <1>4 DEF AccountWrites, WritesOf
<1>6. HasRegistry(log) /\ LatestWrite("accounts", log) = files.accounts
  <2>1. 2 \in WritesOf("accounts", log) /\ \A j \in WritesOf("accounts", log) : j <= 2
    BY <1>5 DEF AccountWrites
  <2> QED
    BY <1>4, <2>1, LatestIs DEF HasRegistry, AccountWrites
<1>7. CleanText(files.accounts)
  <2>1. CASE files.accounts = [malformed |-> TRUE]
    BY <2>1 DEF CleanText, Malformed
  <2>2. CASE files.accounts \in [known : SUBSET Accounts, active : SUBSET Accounts,
                                 keys : SUBSET (Accounts \X {0})]
    <3>1. files.accounts \in AccountFiles /\ \A key \in files.accounts.keys : key[2] = 0
      BY <2>2 DEF AccountFiles
    <3> QED
      BY <1>2, <3>1 DEF CleanText, Clean
  <2> QED
    BY <2>1, <2>2, FirstFilesAssumption DEF FirstFilesAssumption
<1>8. Clean(served["accounts"].file)
  <2>1. served["accounts"].file = EmptyFile
    BY <1>2, <1>3 DEF Fallback
  <2> QED
    BY <2>1, LoadIsClean
<1>9. ConfigShape
  BY <1>2, <1>4 DEF ConfigShape
<1>10. Exclusion /\ RefreshSeesRegistry
  BY <1>2, <1>3 DEF Exclusion, RefreshSeesRegistry
<1>11. NothingRevoked
  <2>1. writes["accounts"] = NoWrite /\ NoWrite.stage # "landed" /\ text["accounts"] = Malformed
    BY <1>2, <1>3 DEF NoWrite
  <2> QED
    BY <1>6, <1>7, <1>8, <2>1 DEF NothingRevoked, CleanText
<1> QED
  BY <1>9, <1>10, <1>11 DEF ConfigInv

LEMMA StutterKeeps ==
  ASSUME ConfigInv, UNCHANGED configVars
  PROVE  ConfigInv'
<1>1. UNCHANGED <<log, indexed, text, served, writes, mutex, refresh, up, changes, revoked>>
  BY DEF configVars
<1>2. Exclusion' /\ RefreshSeesRegistry'
  BY <1>1 DEF ConfigInv, Exclusion, RefreshSeesRegistry, HasConfigError
<1> QED
  BY <1>1, <1>2, MemoryKeeps DEF ConfigInv, ConfigShape, NothingRevoked

(* The inductive invariant holds in every behaviour. *)
THEOREM ConfigInvariant == ConfigSpec => []ConfigInv
<1>1. ConfigInit => ConfigInv
  BY InitConfig
<1>2. ConfigInv /\ [ConfigNext]_configVars => ConfigInv'
  <2>1. ASSUME ConfigInv, Write
        PROVE  ConfigInv'
    BY <2>1, LandsKeeps, AcknowledgedKeeps, FailsKeeps DEF Write
  <2>2. ASSUME ConfigInv, Refresh
        PROVE  ConfigInv'
    BY <2>2, DiscoverKeeps, RefreshFailsKeeps, PrimeKeeps, AdvanceKeeps, ReloadKeeps DEF Refresh
  <2> QED
    BY <2>1, <2>2, StartUpKeeps, StopKeeps, OperatorKeeps, ChangePoolKeeps, ChangeAccountsKeeps,
       ConfigRepairKeeps, StutterKeeps DEF ConfigNext
<1> QED
  BY <1>1, <1>2, PTL DEF ConfigSpec

(* A credential whose removal was acknowledged is never accepted again.    *)
THEOREM RevocationHolds == ConfigSpec => []RevokedIsRefused
<1>1. ConfigInv => RevokedIsRefused
  BY DEF ConfigInv, NothingRevoked, Clean, RevokedIsRefused, Authenticates
<1> QED
  BY <1>1, ConfigInvariant, PTL
=============================================================================
