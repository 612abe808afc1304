--------------------------- MODULE EnrichmentJobs ---------------------------
(***************************************************************************)
(* The schedule that starts enrichment jobs, the jobs, and the two commands *)
(* of an administrator that work on them: `update`, which deploys a new    *)
(* revision while nothing may write, and `doctor`, which repairs the       *)
(* schedule, runs two paid jobs as a canary and enables it.  The Hub holds *)
(* schedules and jobs; every request to it is a step of its own, may fail, *)
(* and may find what another party has done in between.                    *)
(*                                                                         *)
(* Two jobs are created in the same window of the admission, or more than  *)
(* five minutes apart.                                                     *)
(***************************************************************************)
EXTENDS Naturals, FiniteSets, Sequences

CONSTANTS OneOperator,  \* the two commands are not run at the same time
          MaxTwins,     \* times the Hub starts two jobs for one firing
          MaxJobs, MaxUpdates, MaxDoctors, MaxFailures, MaxWindows \* bounds

VARIABLES schedules, \* id -> [spec, suspend], the schedules of this Space
          jobs,      \* the physical jobs in the order of their ids
          claims,    \* jobs that have written their admission claim
          output,    \* the last job that wrote, and its revision
          deployed,  \* revision and settings of the Space, its hand-off
          operator,  \* command -> what it is doing
          window, made, twins, updates, doctors, failures \* clock and counters

vars == <<schedules, jobs, claims, output, deployed, operator, window, made,
          twins, updates, doctors, failures>>

hub == <<schedules, made>>
platform == <<jobs, claims, output, twins, window>>

Commands == {"update", "doctor"}

\* What a schedule is compared by: its source revision and its settings.
Contract(revision, settings) == [revision |-> revision, settings |-> settings]
Desired == Contract(deployed.revision, deployed.settings)

\* `schedule` and `spec` are the schedule as it was found, to be restored; `kept` is
\* the one that matches `wanted`.
Idle(outcome) ==
  [step |-> "idle", outcome |-> outcome, schedule |-> 0, spec |-> Contract(0, 0),
   wasActive |-> FALSE, wanted |-> Contract(0, 0), kept |-> 0, before |-> {}, secrets |-> FALSE,
   target |-> 0, handoff |-> [job |-> 0, revision |-> 0], runs |-> 0]

-----------------------------------------------------------------------------
(* What a command reads of the Hub. *)

Schedules == DOMAIN schedules
Exact(spec) == {s \in Schedules : schedules[s].spec = spec}
Active(s) == ~schedules[s].suspend
Running == {j \in DOMAIN jobs : jobs[j].pc \notin {"done", "failed"}}

(* Mutant: a job counts only while its schedule may start another.         *)
ScheduledJobs == {j \in Running : jobs[j].schedule \in Schedules /\ Active(jobs[j].schedule)}

ActiveJobs == Running

TheOnly(s) == Schedules = {s}

AssertWritersQuiescent(op) ==
  /\ ActiveJobs = {}
  /\ TheOnly(op.schedule) /\ schedules[op.schedule].spec = op.spec
  /\ ~Active(op.schedule)

-----------------------------------------------------------------------------
(* The platform. *)

Job(s, revision) == [schedule |-> s, revision |-> revision, created |-> window, pc |-> "start"]
Twins(s) == 1 .. (IF twins < MaxTwins THEN 2 ELSE 1)

\* A non-concurrent schedule starts nothing while a job of its own runs.
Starts(s, count) ==
  /\ \A j \in Running : jobs[j].schedule # s
  /\ Len(jobs) + count <= MaxJobs
  /\ jobs' = jobs \o [i \in 1 .. count |-> Job(s, schedules[s].spec.revision)]
  /\ twins' = twins + count - 1

Fire(s) ==
  /\ Active(s)
  /\ \E count \in Twins(s) : Starts(s, count)
  /\ UNCHANGED <<hub, claims, output, deployed, operator, window, updates, doctors, failures>>

Later ==
  /\ jobs # <<>> /\ window < MaxWindows /\ window' = window + 1
  /\ UNCHANGED <<hub, jobs, claims, output, deployed, operator, twins, updates, doctors, failures>>

-----------------------------------------------------------------------------
(* A job: is it the deployed revision, is it alone, and then its work. *)

Goes(j, pc) == jobs' = [jobs EXCEPT ![j].pc = pc]
JobOnly == UNCHANGED <<hub, deployed, operator, window, twins, updates, doctors, failures>>

VerifyRevision(j) ==
  /\ jobs[j].pc = "start"
  /\ Goes(j, IF jobs[j].revision = deployed.revision THEN "claim" ELSE "failed")
  /\ UNCHANGED <<claims, output>> /\ JobOnly

Claim(j) ==
  /\ jobs[j].pc = "claim" /\ Goes(j, "elect")
  /\ claims' = claims \cup {j}
  /\ UNCHANGED output /\ JobOnly

Near(j, k) == jobs[k].created = jobs[j].created
Contenders(j) == {k \in claims : jobs[k].revision = jobs[j].revision /\ Near(j, k)}

(* Mutant: a job is admitted when its own claim is there.                  *)
Listed(j) == j \in Contenders(j)

RequireElectedWriter(j) == j \in Contenders(j) /\ \A k \in Contenders(j) : j <= k

\* The wait before the first look outlasts the start of jobs started with this one.
Settled(j) == \A k \in Running : jobs[k].schedule = jobs[j].schedule => jobs[k].pc \notin {"start", "claim"}

Elect(j) ==
  /\ \/ jobs[j].pc = "elect" /\ Settled(j) /\ Goes(j, IF RequireElectedWriter(j) THEN "confirm" ELSE "failed")
     \/ jobs[j].pc = "confirm" /\ Goes(j, IF RequireElectedWriter(j) THEN "work" ELSE "failed")
  /\ UNCHANGED <<claims, output>> /\ JobOnly

Work(j) ==
  /\ jobs[j].pc = "work" /\ Goes(j, "done")
  /\ output' = [job |-> j, revision |-> jobs[j].revision]
  /\ UNCHANGED claims /\ JobOnly

Die(j) ==
  /\ j \in Running /\ Goes(j, "failed")
  /\ UNCHANGED <<claims, output>> /\ JobOnly

JobStep(j) == VerifyRevision(j) \/ Claim(j) \/ Elect(j) \/ Work(j) \/ Die(j)

-----------------------------------------------------------------------------
(* Steps of a command. *)

At(c, step) == operator[c].step = step
Becomes(c, op) == operator' = [operator EXCEPT ![c] = op]
Moves(c, step) == Becomes(c, [operator[c] EXCEPT !.step = step])
Ends(c, outcome) == Becomes(c, Idle(outcome))
Continues(c, step) == IF step = "done" THEN Ends(c, "done") ELSE Moves(c, step)

Reads == UNCHANGED <<hub, deployed>>
Requests == UNCHANGED deployed

(* Mutant: the new schedule is put in place after the try.                 *)
InTryToUpload == {"assert", "prepare", "reassert", "upload", "configure"}

\* `update` restores the schedule after an error in these steps.  An error before
\* them, and an error in `doctor`, just ends the command.
InTry == {"assert", "prepare", "reassert", "upload", "configure", "inspect",
          "reconcile", "suspend all", "recheck", "create", "delete", "resume", "enable"}

Throws(c) ==
  IF c = "update" /\ operator[c].step \in InTry THEN Moves(c, "restore")
  ELSE Ends(c, CASE At(c, "restore") -> "not restored"
                 [] operator[c].step \in {"quiesce", "suspend", "wait"} -> "not quiet"
                 [] OTHER -> "failed")

\* Goes on when what it reads is as required, and throws otherwise.
Requires(c, condition, next) ==
  /\ IF condition THEN Moves(c, next) ELSE Throws(c)
  /\ Reads

Suspend(s) == schedules' = [schedules EXCEPT ![s].suspend = TRUE] /\ UNCHANGED made
Resume(s) ==
  /\ s \in Schedules
  /\ schedules' = [schedules EXCEPT ![s].suspend = FALSE] /\ UNCHANGED made
Delete(s) == schedules' = [t \in Schedules \ {s} |-> schedules[t]] /\ UNCHANGED made
Create(spec) ==
  /\ made' = made + 1
  /\ schedules' = [t \in Schedules \cup {made'} |->
                     IF t = made' THEN [spec |-> spec, suspend |-> TRUE] ELSE schedules[t]]

\* What the request of this step changes at the Hub.
Request(c) ==
  LET op == operator[c] IN
  \/ At(c, "suspend") /\ op.schedule \in Schedules /\ Suspend(op.schedule)
  \/ At(c, "suspend all") /\ \E s \in op.before \cap Schedules : Active(s) /\ Suspend(s)
  \/ At(c, "create") /\ Create(op.wanted)
  \/ /\ At(c, "delete")
     /\ \E s \in op.before \cap Schedules : IF Active(s) THEN Suspend(s) ELSE Delete(s)
  \/ At(c, "enable") /\ Resume(op.kept)
  \/ At(c, "restore") /\ op.wasActive /\ AssertWritersQuiescent(op) /\ Resume(op.schedule)

-----------------------------------------------------------------------------
(* update *)

QuiesceCanonicalSchedule ==
  \/ /\ At("update", "quiesce")
     /\ \E s \in Schedules :
          /\ TheOnly(s)
          /\ Becomes("update", [operator["update"] EXCEPT
               !.step = IF Active(s) THEN "suspend" ELSE "wait",
               !.schedule = s, !.spec = schedules[s].spec, !.wasActive = Active(s)])
     /\ Reads
  \/ At("update", "quiesce") /\ Cardinality(Schedules) # 1 /\ Throws("update") /\ Reads
  \/ At("update", "suspend") /\ Request("update") /\ Moves("update", "wait") /\ Requests
  \/ At("update", "wait") /\ AssertWritersQuiescent(operator["update"])
     /\ Moves("update", "assert") /\ Reads

PrepareHandoff ==
  \/ /\ At("update", "assert")
     /\ Requires("update", AssertWritersQuiescent(operator["update"]), "prepare")
  \/ /\ At("update", "prepare")
     /\ Becomes("update", [operator["update"] EXCEPT !.step = "reassert", !.handoff = output])
     /\ Reads
  \/ /\ At("update", "reassert")
     /\ Requires("update", AssertWritersQuiescent(operator["update"]), "upload")

UpdateExistingPool ==
  \/ /\ At("update", "upload")
     /\ deployed' = [deployed EXCEPT !.revision = operator["update"].target,
                                     !.handoff = operator["update"].handoff]
     /\ Moves("update", "configure")
     /\ UNCHANGED hub
  \/ /\ At("update", "configure")
     /\ \E settings \in {deployed.settings, 1} : deployed' = [deployed EXCEPT !.settings = settings]
     /\ Moves("update", "inspect")
     /\ UNCHANGED hub

FinalizeUpdate ==
  /\ At("update", "inspect")
  /\ Becomes("update", [operator["update"] EXCEPT
       !.step = "reconcile", !.wanted = Desired, !.secrets = Exact(Desired) = {}])
  /\ Reads

RestoreCanonical ==
  /\ At("update", "restore")
  /\ \/ ~operator["update"].wasActive /\ Ends("update", "failed") /\ Reads
     \/ Request("update") /\ Ends("update", "failed") /\ Requests
     \/ /\ operator["update"].wasActive
        /\ ~AssertWritersQuiescent(operator["update"])
        /\ Throws("update") /\ Reads

-----------------------------------------------------------------------------
(* The schedule is replaced: nothing runs, the old ones are suspended, the *)
(* new one is created suspended and verified, the old ones are deleted.    *)

Inspects(c) ==
  LET op == operator[c] exact == Exact(op.wanted) IN
  IF ActiveJobs # {} \/ (exact = {} /\ ~op.secrets) THEN Throws(c)
  ELSE IF op.secrets THEN Becomes(c, [op EXCEPT !.step = "suspend all", !.before = Schedules])
  ELSE \E s \in exact :
         Becomes(c, [op EXCEPT !.step = "delete", !.kept = s, !.before = Schedules \ {s}])

AfterReconcile(c) == IF c = "update" /\ operator[c].wasActive THEN "resume" ELSE "done"

ReconcileSchedule(c) ==
  \/ At(c, "reconcile") /\ Inspects(c) /\ Reads
  \/ At(c, "suspend all") /\ Request(c) /\ UNCHANGED operator /\ Requests
  \/ /\ At(c, "suspend all")
     /\ \A s \in operator[c].before \cap Schedules : ~Active(s)
     /\ Moves(c, "recheck") /\ Reads
  \/ At(c, "recheck") /\ Requires(c, ActiveJobs = {}, "create")
  \/ /\ At(c, "create") /\ Request(c)
     /\ Becomes(c, [operator[c] EXCEPT !.step = "delete", !.kept = made']) /\ Requests
  \/ At(c, "delete") /\ Request(c) /\ UNCHANGED operator /\ Requests
  \/ /\ At(c, "delete") /\ operator[c].before \cap Schedules = {}
     /\ Continues(c, AfterReconcile(c)) /\ Reads

ResumeSchedule(c) ==
  \/ At(c, "resume") /\ Requires(c, ActiveJobs = {}, "enable")
  \/ At(c, "enable") /\ Request(c) /\ Ends(c, "done") /\ Requests

-----------------------------------------------------------------------------
(* doctor *)

OneExactSchedule(op) == \E s \in Exact(op.wanted) : TheOnly(s)

RepairVariables ==
  /\ At("doctor", "variables")
  /\ \E settings \in {deployed.settings, 1} : deployed' = [deployed EXCEPT !.settings = settings]
  /\ Moves("doctor", "repair")
  /\ UNCHANGED hub

\* The storage credential may have been replaced as well.
RepairJob ==
  /\ At("doctor", "repair")
  /\ IF ActiveJobs # {} THEN Throws("doctor")
     ELSE \E rotated \in BOOLEAN :
            Becomes("doctor", [operator["doctor"] EXCEPT
              !.step = "reconcile", !.wanted = Desired, !.secrets = rotated \/ Exact(Desired) = {}])
  /\ Reads

RunCanary ==
  /\ At("doctor", "canary")
  /\ LET op == [operator["doctor"] EXCEPT !.wanted = Desired] IN
       IF OneExactSchedule(op) /\ \A s \in Schedules : ~Active(s)
       THEN Becomes("doctor", [op EXCEPT !.step = "trigger", !.kept = CHOOSE s \in Schedules : TRUE])
       ELSE Throws("doctor")
  /\ Reads

TriggerJob ==
  /\ At("doctor", "trigger")
  /\ \/ ActiveJobs # {} /\ Throws("doctor") /\ UNCHANGED <<jobs, twins>>
     \/ /\ ActiveJobs = {} /\ operator["doctor"].kept \in Schedules
        /\ Starts(operator["doctor"].kept, 1)
        /\ Moves("doctor", "await")
  /\ Reads /\ UNCHANGED <<claims, output, window>>

\* The receipts of two runs, one after the other, are what the operator approves.
AwaitJob ==
  /\ At("doctor", "await")
  /\ LET op == operator["doctor"] last == jobs[Len(jobs)] IN
       \/ /\ last.pc = "done"
          /\ Becomes("doctor", [op EXCEPT !.step = IF op.runs = 0 THEN "trigger" ELSE "approve",
                                          !.runs = op.runs + 1])
       \/ last.pc = "failed" /\ Throws("doctor")
  /\ Reads

ApproveSchedule ==
  /\ At("doctor", "approve")
  /\ \/ Requires("doctor", OneExactSchedule(operator["doctor"]), "resume")
     \/ Ends("doctor", "done") /\ Reads

-----------------------------------------------------------------------------

Command(c) ==
  \/ /\ c = "update"
     /\ \/ QuiesceCanonicalSchedule \/ PrepareHandoff \/ UpdateExistingPool
        \/ FinalizeUpdate \/ RestoreCanonical
  \/ c = "doctor" /\ (RepairVariables \/ RepairJob \/ RunCanary \/ AwaitJob \/ ApproveSchedule)
  \/ ReconcileSchedule(c) \/ ResumeSchedule(c)

\* A request to the Hub fails, or only its answer is lost; or the command is stopped.
HubFails(c) ==
  /\ ~At(c, "idle") /\ failures < MaxFailures /\ failures' = failures + 1
  /\ \/ Throws(c) /\ Reads
     \/ Request(c) /\ Throws(c) /\ Requests
     \/ Ends(c, "interrupted") /\ Reads

MayBegin(c) == At(c, "idle") /\ (OneOperator => \A d \in Commands : At(d, "idle"))

RunUpdate ==
  /\ MayBegin("update") /\ updates < MaxUpdates /\ updates' = updates + 1
  /\ \E target \in {deployed.revision, updates'} :
       Becomes("update", [Idle("none") EXCEPT !.step = "quiesce", !.target = target])
  /\ UNCHANGED <<platform, doctors, failures>> /\ Reads

RunDoctor ==
  /\ MayBegin("doctor") /\ doctors < MaxDoctors /\ doctors' = doctors + 1
  /\ \E step \in {"variables", "canary"} : Becomes("doctor", [Idle("none") EXCEPT !.step = step])
  /\ UNCHANGED <<platform, updates, failures>> /\ Reads

CommandStep(c) ==
  \/ Command(c) /\ UNCHANGED <<platform, updates, doctors, failures>>
  \/ c = "doctor" /\ TriggerJob /\ UNCHANGED <<updates, doctors, failures>>
  \/ HubFails(c) /\ UNCHANGED <<platform, updates, doctors>>

Init ==
  /\ \E suspend \in BOOLEAN :
       schedules = [s \in {1} |-> [spec |-> Contract(0, 0), suspend |-> suspend]]
  /\ jobs = <<>> /\ claims = {} /\ made = 1
  /\ output = [job |-> 0, revision |-> 0]
  /\ deployed = [revision |-> 0, settings |-> 0, handoff |-> [job |-> 0, revision |-> 0]]
  /\ operator = [c \in Commands |-> Idle("none")]
  /\ window = 0 /\ twins = 0 /\ updates = 0 /\ doctors = 0 /\ failures = 0

Next ==
  \/ \E s \in Schedules : Fire(s)
  \/ Later
  \/ \E j \in DOMAIN jobs : JobStep(j)
  \/ RunUpdate \/ RunDoctor
  \/ \E c \in Commands : CommandStep(c)

Spec == Init /\ [][Next]_vars

-----------------------------------------------------------------------------
(* Properties. *)

Ended(c) == ~At(c, "idle") /\ operator'[c].step = "idle"

\* The hand-off that was deployed describes the last write: until a job of the
\* deployed revision has written, no job of an earlier one writes after the
\* hand-off was prepared.  Otherwise every job of the new revision refuses it.
HandoffIsCurrent == output.revision = deployed.revision \/ output = deployed.handoff

\* At most one job is past its admission, though one firing may start two, the
\* canary starts jobs of its own, and schedules are replaced meanwhile.
OneWriter == Cardinality({j \in DOMAIN jobs : jobs[j].pc = "work"}) <= 1

\* An update that found the writers quiet and ends by itself, done or with an error,
\* leaves exactly one schedule running if one ran when it began and none otherwise,
\* unless it reports that the schedule could not be restored: no failure, at any
\* request, loses the schedule silently or starts paid jobs.
ActivityIsKept ==
  [][Ended("update") /\ operator'["update"].outcome \in {"done", "failed"}
       => Cardinality({s \in DOMAIN schedules' : ~schedules'[s].suspend})
            = IF operator["update"].wasActive THEN 1 ELSE 0]_vars
=============================================================================
