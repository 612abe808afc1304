--------------------------- MODULE EnrichmentRun ---------------------------
(***************************************************************************)
(* The planned enrichment runs of the Space.  A run freezes a queue of     *)
(* units and a list of label names at a prefix of the raw log.  Scheduled  *)
(* jobs work on the active run, one job at a time: every output is a raw   *)
(* segment, then an immutable result that claims the segment for the run,  *)
(* then a checkpoint.  A complete run publishes an index, plans its        *)
(* successor and hands the activation over.  A job may be killed between   *)
(* any two of these writes; the next job restores the checkpoint, adopts   *)
(* the segments nobody claimed and goes on.                                *)
(*                                                                         *)
(* A job's pc names the write it is about to make.  The chain hashes of    *)
(* results and checkpoints are left out: both are numbered and immutable.  *)
(***************************************************************************)
EXTENDS Integers, Sequences, FiniteSets, FiniteSetsExt, Functions, SequencesExt

CONSTANTS Units,            \* the units posts are grouped into
          FirstUnits,       \* those captured before the first plan
          FirstNames,       \* how many label names the first plan reviews
          MaxAttempts,      \* attempts after which a unit is blocked
          MaxRuns,          \* runs that are executed
          MaxDeploys,       \* deployments of a new worker revision
          MaxKills,         \* jobs that are killed
          MaxStops,         \* jobs that end before the run's work does
          HandoffFaults     \* what may go wrong around a deployment: "kill"
                            \* inside an output of a run it handed over,
                            \* "deploy" before a chosen successor is active

ASSUME EnrichmentAssumption ==
  /\ FirstUnits \subseteq Units /\ IsFiniteSet(FirstUnits)
  /\ FirstNames \in Nat
  /\ {MaxDeploys, MaxKills, MaxStops} \subseteq Nat
  /\ {MaxAttempts, MaxRuns} \subseteq Nat \ {0}
  /\ HandoffFaults \subseteq {"kill", "deploy"}

VARIABLES raw,          \* the raw log: segments in key order
          plans,        \* the plans ever bootstrapped
          results,      \* per plan and kind: the raw segments it claims
          checkpoints,  \* per plan: the newest checkpoint
          successors,   \* per plan: its successor.json, 0 if none
          active,       \* the activation claims, by generation
          current,      \* the published index
          deployed,     \* the deployment manifest: the worker revision and
                        \* the activation it hands over, 0 if none
          job,          \* the running job
          kills, stops  \* faults and early ends so far

vars == <<raw, plans, results, checkpoints, successors, active, current,
          deployed, job, kills, stops>>

Kinds == {"queue", "attempt", "registry", "receipt"}

Entry(status, attempts) == [status |-> status, attempts |-> attempts]

(* A segment: the posts of a capture or one output of a job.               *)
Segment(kind, entries, names) ==
  [kind |-> kind, entries |-> entries, names |-> names]
NoEntries == [u \in {} |-> Entry("pending", 0)]
Capture(u) == Segment("posts", [v \in {u} |-> Entry("pending", 0)], {})

-----------------------------------------------------------------------------
(* The work copy of the log's first n segments.  A unit stands for one     *)
(* exact membership: a post that joins it later makes another unit.        *)

Mentions(n, u, kind) ==
  {i \in 1..n : raw[i].kind = kind /\ u \in DOMAIN raw[i].entries}
Captured(n) == {u \in Units : Mentions(n, u, "posts") # {}}
Enriched(n) == {u \in Units : Mentions(n, u, "queue") # {}}

(* A unit without a result keeps the state its last attempt left it in.    *)
LastAttempt(n, u) ==
  IF Mentions(n, u, "attempt") = {} THEN Entry("pending", 0)
  ELSE raw[Max(Mentions(n, u, "attempt"))].entries[u]

QueueAt(n) ==
  [u \in Captured(n) |->
     IF u \in Enriched(n) THEN Entry("done", 0) ELSE LastAttempt(n, u)]

-----------------------------------------------------------------------------
(* The checkpoint state.                                                   *)

EmptyState(queue, names) ==
  [queue |-> queue, next |-> 0, names |-> names,
   outputs |-> [k \in Kinds |-> 0], publication |-> "pending", database |-> {}]

With(state, status) == {u \in DOMAIN state.queue : state.queue[u].status = status}

(* recordQueueAttempt refuses an attempt of a completed ordinal.           *)
Applies(state, segment) ==
  segment.kind = "attempt" => DOMAIN segment.entries \cap With(state, "done") = {}

Remaining(state, segment) == {n \in segment.names : n > state.next}

(* A completed unit leaves the retries, an attempt replaces the last one.  *)
RecordEntries(state, entries) ==
  [state EXCEPT !.queue =
     [u \in DOMAIN @ |-> IF u \in DOMAIN entries THEN entries[u] ELSE @[u]]]

AdvanceRegistryCursor(state, decisions) == [state EXCEPT !.next = @ + Cardinality(decisions)]
AdvanceOutputFrontier(state, kind) == [state EXCEPT !.outputs[kind] = @ + 1]
SetPublicationState(state, publication) == [state EXCEPT !.publication = publication]

ApplyDurableOutput(state, segment) ==
  LET recorded == RecordEntries(state, segment.entries)
      decided == AdvanceRegistryCursor(recorded, Remaining(state, segment))
  IN  AdvanceOutputFrontier(decided, segment.kind)

(* Mutant: a unit that waits for its retry does not hold the run up.       *)
CompleteWithRetries(state) ==
  With(state, "pending") = {} /\ state.next = state.names

RunIsComplete(state) ==
  /\ With(state, "pending") \union With(state, "retrying") = {}
  /\ state.next = state.names

-----------------------------------------------------------------------------
(* What a job finds when it starts.                                        *)

(* Mutant: the first claim is taken for the newest.                        *)
FirstActivation == active[1]

ActiveRun == active[Len(active)]

Frontier(r, k) == SubSeq(results[r][k], 1, checkpoints[r].outputs[k])
ClaimedKeys(r) == UNION {Range(Frontier(r, k)) : k \in Kinds}

(* The results up to the frontier exist and complete exactly the ordinals  *)
(* the checkpoint calls done, each of them once.                           *)
ReadRunOutputKeys(r) ==
  LET claimed == Frontier(r, "queue")
      UnitsOf(n) == DOMAIN raw[claimed[n]].entries
      baseline == {u \in DOMAIN plans[r].queue : plans[r].queue[u].status = "done"}
  IN  /\ \A k \in Kinds : Len(results[r][k]) >= checkpoints[r].outputs[k]
      /\ \A n \in DOMAIN claimed :
           /\ UnitsOf(n) \subseteq With(checkpoints[r], "done") \ baseline
           /\ \A m \in 1..n - 1 : UnitsOf(m) \cap UnitsOf(n) = {}
      /\ UNION {UnitsOf(n) : n \in DOMAIN claimed}
           = With(checkpoints[r], "done") \ baseline

(* Segments after the plan's source that hold output of the run.           *)
OutputsFromSegment(r, state, segment) ==
  CASE segment.kind \in {"queue", "attempt"} ->
         DOMAIN segment.entries \cap DOMAIN plans[r].queue # {}
    [] segment.kind = "registry" -> Remaining(state, segment) # {}
    [] OTHER -> segment.kind = "receipt"

Orphans(r, state) ==
  {i \in (plans[r].source + 1)..Len(raw) :
     i \notin ClaimedKeys(r) /\ OutputsFromSegment(r, state, raw[i])}

UncheckpointedResults(r) ==
  \E k \in Kinds : Len(results[r][k]) > checkpoints[r].outputs[k]

(* A run planned by an earlier revision is resumed from its exact frontier *)
RequireExactOutputFrontier(r) == plans[r].revision # deployed.revision

(* The manifest hands over the active generation, or an earlier one whose  *)
(* successors the deployed revision planned.                               *)
VerifiesManifest(r) ==
  IF RequireExactOutputFrontier(r) THEN deployed.handoff = Len(active)
  ELSE deployed.handoff < Len(active)

HandOver(target) ==
  [revision |-> target,
   handoff |-> IF plans[ActiveRun].revision = target THEN 0 ELSE Len(active)]

ExactFrontier(r) == ~UncheckpointedResults(r) /\ Orphans(r, checkpoints[r]) = {}

BaseIndexIsCurrent(r) ==
  checkpoints[r].publication \in {"pending", "building"}
    => current.run = plans[r].base

JobAccepts(r) ==
  /\ VerifiesManifest(r)
  /\ ReadRunOutputKeys(r)
  /\ RequireExactOutputFrontier(r) => ExactFrontier(r)
  /\ BaseIndexIsCurrent(r)

-----------------------------------------------------------------------------
NoJob == [pc |-> "idle", run |-> 0, state |-> EmptyState(NoEntries, 0),
          wave |-> {}, settled |-> {}, out |-> 0, back |-> "idle"]

Plan(source, queue, names, base) ==
  [source |-> source, queue |-> queue, names |-> names, base |-> base,
   revision |-> deployed.revision]

NoResults == [k \in Kinds |-> <<>>]

Init ==
  /\ raw = SetToSeq({Capture(u) : u \in FirstUnits})
  /\ deployed = [revision |-> 0, handoff |-> 0]
  /\ plans = <<[source |-> Len(raw), queue |-> QueueAt(Len(raw)),
                names |-> FirstNames, base |-> 0, revision |-> 0]>>
  /\ results = <<NoResults>>
  /\ checkpoints = <<EmptyState(plans[1].queue, FirstNames)>>
  /\ successors = <<0>>
  /\ active = <<1>>
  /\ current = [run |-> 0, segments |-> 1..Len(raw)]
  /\ job = NoJob
  /\ kills = 0
  /\ stops = 0

Goto(pc) == job' = [job EXCEPT !.pc = pc]
EndJob == job' = NoJob
StopsEarly == stops < MaxStops /\ stops' = stops + 1

Durable == <<raw, plans, results, checkpoints, successors, active, current>>
Published == <<plans, successors, active, current, deployed, kills>>

(* A capture reaches the raw log.                                          *)
Arrive ==
  /\ \E u \in Units \ Captured(Len(raw)) : raw' = Append(raw, Capture(u))
  /\ UNCHANGED <<plans, results, checkpoints, successors, active, current,
                 deployed, job, kills, stops>>

(* The newest checkpoint is the one whose evidence the preflight verified: *)
(* one job runs at a time.                                                 *)
Restored(r) == checkpoints[r]

(* The scheduler starts a job; one that is not accepted changes nothing.   *)
Start ==
  /\ job.pc = "idle" /\ Len(active) <= MaxRuns
  /\ JobAccepts(ActiveRun)
  /\ job' = [NoJob EXCEPT !.pc = "reconcile", !.run = ActiveRun,
                          !.state = Restored(ActiveRun)]
  /\ UNCHANGED <<Durable, deployed, kills, stops>>

(* Every output takes the same path: raw segment, result, checkpoint.      *)
Output(segment, back) ==
  /\ raw' = Append(raw, segment)
  /\ job' = [job EXCEPT !.pc = "claim", !.out = Len(raw'), !.back = back]

(* The result is immutable: one that names another segment stops the job,  *)
(* and so does an output the checkpoint state cannot take.                 *)
ClaimResult ==
  LET kind == raw[job.out].kind
      n == job.state.outputs[kind] + 1
      claims == results[job.run][kind]
      written == Len(claims) < n
  IN  /\ job.pc = "claim"
      /\ results' = IF written
                    THEN [results EXCEPT ![job.run][kind] = Append(@, job.out)]
                    ELSE results
      /\ IF (written \/ claims[n] = job.out) /\ Applies(job.state, raw[job.out])
         THEN job' = [job EXCEPT !.pc = "commit",
                                 !.state = ApplyDurableOutput(@, raw[job.out])]
         ELSE EndJob
      /\ UNCHANGED <<raw, checkpoints, stops, Published>>

CommitCheckpoint(state, pc) ==
  /\ checkpoints' = [checkpoints EXCEPT ![job.run] = state]
  /\ job' = [job EXCEPT !.state = state, !.pc = pc]

CommitOutput ==
  /\ job.pc = "commit"
  /\ CommitCheckpoint(job.state, job.back)
  /\ UNCHANGED <<raw, results, stops, Published>>

(* Mutant: the segments nobody claimed are passed over.                    *)
ReconcileNothing ==
  /\ job.pc = "reconcile"
  /\ Goto(IF job.state.publication \in {"pending", "building"}
          THEN "tick" ELSE job.state.publication)
  /\ UNCHANGED <<Durable, deployed, kills, stops>>

(* The first segment nobody claimed is adopted; then the run resumes where *)
(* its publication stands.                                                 *)
Reconcile ==
  LET orphans == Orphans(job.run, job.state)
  IN  /\ job.pc = "reconcile"
      /\ IF orphans # {}
         THEN job' = [job EXCEPT !.pc = "claim", !.out = Min(orphans),
                                 !.back = "reconcile"]
         ELSE Goto(IF job.state.publication \in {"pending", "building"}
                   THEN "tick" ELSE job.state.publication)
      /\ UNCHANGED <<Durable, deployed, kills, stops>>

-----------------------------------------------------------------------------
(* One worker tick: the queue, the registry, a receipt.                    *)

(* Blocked units are restored without a retry time: each job may try them  *)
(* once more.  A retry is due or not.                                      *)
Owed == With(job.state, "pending")
          \union (With(job.state, "blocked") \ job.settled)
Claimable == Owed \union With(job.state, "retrying")

LeastOf(m, n) == IF m < n THEN m ELSE n

(* A wave's attempts are durable before its requests are sent.             *)
Reservation(wave) ==
  LET attempt(u) == LeastOf(job.state.queue[u].attempts + 1, MaxAttempts)
  IN  Segment("attempt", [u \in wave |-> Entry("retrying", attempt(u))], {})

DispatchWave ==
  /\ job.pc = "tick"
  /\ \E wave \in (SUBSET Claimable) \ {{}} :
       /\ raw' = Append(raw, Reservation(wave))
       /\ job' = [job EXCEPT !.pc = "claim", !.out = Len(raw'),
                             !.back = "wave", !.wave = wave]
  /\ UNCHANGED <<results, checkpoints, stops, Published>>

Settle(units, back) ==
  job' = [job EXCEPT !.pc = "claim", !.out = Len(raw'), !.back = back,
                     !.wave = @ \ units, !.settled = @ \union units]

AfterSettling(units) == IF job.wave \subseteq units THEN "tick" ELSE "wave"

(* The attempt was counted when it was dispatched.                         *)
AttemptError(attempts) ==
  Entry(IF attempts >= MaxAttempts THEN "blocked" ELSE "retrying", attempts)

FailedAttempt(u) ==
  Segment("attempt", [v \in {u} |-> AttemptError(job.state.queue[u].attempts)], {})

(* The answers of one call, stored in one segment.                         *)
ResultsOf(units) == Segment("queue", [u \in units |-> Entry("done", 0)], {})

PersistAndApply ==
  /\ job.pc = "wave"
  /\ \E units \in (SUBSET job.wave) \ {{}} :
       /\ raw' = Append(raw, ResultsOf(units))
       /\ Settle(units, AfterSettling(units))
  /\ UNCHANGED <<results, checkpoints, stops, Published>>

(* The call failed, or its answer leaves the unit out.                     *)
FailAttempt ==
  /\ job.pc = "wave"
  /\ \E u \in job.wave :
       /\ raw' = Append(raw, FailedAttempt(u))
       /\ Settle({u}, AfterSettling({u}))
  /\ UNCHANGED <<results, checkpoints, stops, Published>>

(* The segment with the results is stored and its read-back fails: the     *)
(* worker takes the commit for failed and records a failed attempt.        *)
CommitFailed ==
  /\ job.pc = "wave"
  /\ \E u \in job.wave :
       /\ raw' = raw \o <<ResultsOf({u}), FailedAttempt(u)>>
       /\ Settle({u}, AfterSettling({u}))
  /\ UNCHANGED <<results, checkpoints, stops, Published>>

(* Nothing more is due: retries may have to wait for a later job.          *)
EndQueue ==
  /\ job.pc = "tick" /\ Owed = {}
  /\ IF With(job.state, "retrying") = {} THEN UNCHANGED stops ELSE StopsEarly
  /\ Goto("registry")
  /\ UNCHANGED <<Durable, deployed, kills>>

(* A ceiling on time, cost, errors or quality; one more call may cost too  *)
(* much while the registry can still go on.                                *)
CeilingHit ==
  /\ StopsEarly
  /\ \/ job.pc = "tick" /\ (Goto("receipt") \/ Goto("registry"))
     \/ job.pc = "registry" /\ job.state.next < job.state.names /\ Goto("receipt")
  /\ UNCHANGED <<Durable, deployed, kills>>

PersistRegistryDecisions ==
  /\ job.pc = "registry"
  /\ \E last \in (job.state.next + 1)..job.state.names :
       Output(Segment("registry", NoEntries, (job.state.next + 1)..last), "registry")
  /\ UNCHANGED <<results, checkpoints, stops, Published>>

EndRegistry ==
  /\ job.pc = "registry" /\ job.state.next = job.state.names
  /\ Goto("receipt")
  /\ UNCHANGED <<Durable, deployed, kills, stops>>

WriteReceipt ==
  /\ job.pc = "receipt"
  /\ Output(Segment("receipt", NoEntries, {}), "ticked")
  /\ UNCHANGED <<results, checkpoints, stops, Published>>

-----------------------------------------------------------------------------
(* Publication of a complete run.                                          *)

EndTick ==
  /\ job.pc = "ticked" /\ ~RunIsComplete(job.state)
  /\ EndJob
  /\ UNCHANGED <<Durable, deployed, kills, stops>>

(* Too little of the job's time is left: a later job publishes.            *)
DeferPublication ==
  /\ job.pc = "ticked" /\ RunIsComplete(job.state)
  /\ job.state.publication = "pending"
  /\ StopsEarly /\ EndJob
  /\ UNCHANGED <<Durable, deployed, kills>>

BeginPublication ==
  /\ job.pc = "ticked" /\ RunIsComplete(job.state)
  /\ CommitCheckpoint(SetPublicationState(job.state, "building"), "building")
  /\ UNCHANGED <<raw, results, stops, Published>>

(* Mutant: only the segments with results are applied.                     *)
UploadResultsOnly ==
  /\ job.pc = "building"
  /\ CommitCheckpoint(
       [SetPublicationState(job.state, "uploaded") EXCEPT
          !.database = current.segments \union (1..plans[job.run].source)
                         \union Range(Frontier(job.run, "queue"))], "uploaded")
  /\ UNCHANGED <<raw, results, stops, Published>>

(* The database is the base with the plan's source and the run's outputs.  *)
UploadDatabase ==
  /\ job.pc = "building"
  /\ IF ReadRunOutputKeys(job.run) /\ current.run = plans[job.run].base
     THEN CommitCheckpoint(
            [SetPublicationState(job.state, "uploaded") EXCEPT
               !.database = current.segments \union (1..plans[job.run].source)
                              \union ClaimedKeys(job.run)], "uploaded")
     ELSE EndJob /\ UNCHANGED checkpoints
  /\ UNCHANGED <<raw, results, stops, Published>>

VerifyDatabase ==
  /\ job.pc = "uploaded"
  /\ CommitCheckpoint(SetPublicationState(job.state, "verified"), "verified")
  /\ UNCHANGED <<raw, results, stops, Published>>

(* Mutant: a manifest an earlier job published is taken for another's.     *)
SwapOnlyFromBase ==
  /\ job.pc = "verified"
  /\ IF current.run = plans[job.run].base
     THEN /\ current' = [run |-> job.run, segments |-> job.state.database]
          /\ Goto("swapped")
     ELSE UNCHANGED current /\ EndJob
  /\ UNCHANGED <<raw, plans, results, checkpoints, successors, active,
                 deployed, kills, stops>>

(* The manifest is replaced unless an earlier job did so.                  *)
SwapManifest ==
  LET manifest == [run |-> job.run, segments |-> job.state.database]
  IN  /\ job.pc = "verified"
      /\ IF current.run = plans[job.run].base
         THEN current' = manifest /\ Goto("swapped")
         ELSE UNCHANGED current /\ (IF current = manifest THEN Goto("swapped") ELSE EndJob)
      /\ UNCHANGED <<raw, plans, results, checkpoints, successors, active,
                     deployed, kills, stops>>

CommitPublished ==
  /\ job.pc = "swapped"
  /\ CommitCheckpoint(SetPublicationState(job.state, "published"), "published")
  /\ UNCHANGED <<raw, results, stops, Published>>

-----------------------------------------------------------------------------
(* The successor.                                                          *)

(* Its plan starts from the whole log, and reviews the labels the run's    *)
(* results proposed.                                                       *)
BootstrapSuccessor ==
  LET source == Len(raw)
      queue == QueueAt(source)
      names == Cardinality(Enriched(source) \ Enriched(plans[job.run].source))
  IN  /\ job.pc = "published" /\ successors[job.run] = 0
      /\ plans' = Append(plans, Plan(source, queue, names, current.run))
      /\ results' = Append(results, NoResults)
      /\ checkpoints' = Append(checkpoints, EmptyState(queue, names))
      /\ successors' = Append(successors, 0)
      /\ job' = [job EXCEPT !.pc = "bootstrapped", !.out = Len(plans')]
      /\ UNCHANGED <<raw, active, current, deployed, kills, stops>>

WriteSuccessor ==
  /\ job.pc = "bootstrapped"
  /\ successors' = [successors EXCEPT ![job.run] = job.out]
  /\ Goto("published")
  /\ UNCHANGED <<raw, plans, results, checkpoints, active, current, deployed,
                 kills, stops>>

ActivateSuccessor ==
  /\ job.pc = "published" /\ successors[job.run] # 0
  /\ IF ActiveRun = job.run
     THEN active' = Append(active, successors[job.run]) /\ Goto("activated")
     ELSE UNCHANGED active /\ EndJob
  /\ UNCHANGED <<raw, plans, results, checkpoints, successors, current, deployed,
                 kills, stops>>

(* finishPlannedRun marks the run complete, unless the successor was       *)
(* planned by another revision; either way nothing reads the run again.    *)
FinishRun ==
  /\ job.pc = "activated"
  /\ EndJob
  /\ UNCHANGED <<Durable, deployed, kills, stops>>

-----------------------------------------------------------------------------
(* A job is killed, by its time limit or by the platform.                  *)
Kill ==
  /\ job.pc # "idle" /\ kills < MaxKills
  /\ job.pc \in {"claim", "commit"} /\ RequireExactOutputFrontier(job.run)
       => "kill" \in HandoffFaults
  /\ kills' = kills + 1
  /\ EndJob
  /\ UNCHANGED <<Durable, deployed, stops>>

(* Mutant: the outputs of the active run are not verified.                 *)
DeployUnverified ==
  /\ job.pc = "idle" /\ deployed.revision < MaxDeploys
  /\ ReadRunOutputKeys(ActiveRun)
  /\ deployed' = HandOver(deployed.revision + 1)
  /\ UNCHANGED <<Durable, job, kills, stops>>

(* A deployment waits for the jobs to end and verifies the active run.     *)
Deploy ==
  /\ job.pc = "idle" /\ deployed.revision < MaxDeploys
  /\ ReadRunOutputKeys(ActiveRun) /\ ExactFrontier(ActiveRun)
  /\ successors[ActiveRun] # 0 => "deploy" \in HandoffFaults
  /\ deployed' = HandOver(deployed.revision + 1)
  /\ UNCHANGED <<Durable, job, kills, stops>>

JobStep ==
  \/ ClaimResult \/ CommitOutput \/ Reconcile \/ DispatchWave
  \/ PersistAndApply \/ FailAttempt \/ EndQueue \/ CeilingHit
  \/ PersistRegistryDecisions \/ EndRegistry \/ WriteReceipt \/ EndTick
  \/ DeferPublication \/ BeginPublication \/ UploadDatabase \/ VerifyDatabase
  \/ SwapManifest \/ CommitPublished \/ BootstrapSuccessor \/ WriteSuccessor
  \/ ActivateSuccessor \/ FinishRun

Next == Arrive \/ Start \/ JobStep \/ Kill \/ Deploy

(* The schedule starts a job again and again, and a job runs until it ends *)
(* or is killed.                                                           *)
Spec == Init /\ [][Next]_vars /\ WF_vars(Start) /\ WF_vars(JobStep)

(* The same with read-backs that fail after the segment was stored.        *)
ReadBackSpec == Init /\ [][Next \/ CommitFailed]_vars

-----------------------------------------------------------------------------
(* The kinds of values the durable state and the running job hold: a       *)
(* checkpoint's frontier never passes the results written, a database is   *)
(* recorded exactly from the upload on, every claim names a raw segment of *)
(* its kind.                                                               *)
TypeOK ==
  LET Runs == DOMAIN plans
  IN  /\ DOMAIN results = Runs /\ DOMAIN checkpoints = Runs
      /\ DOMAIN successors = Runs
      /\ \A r \in Runs, k \in Kinds :
           /\ checkpoints[r].outputs[k] <= Len(results[r][k])
           /\ \A i \in Range(results[r][k]) : raw[i].kind = k
      /\ \A r \in Runs :
           /\ checkpoints[r].next <= plans[r].names
           /\ DOMAIN checkpoints[r].queue = DOMAIN plans[r].queue
           /\ (checkpoints[r].database # {})
                <=> checkpoints[r].publication \in {"uploaded", "verified", "published"}
      /\ Range(active) \subseteq Runs
      /\ job.pc # "idle" => job.run \in Range(active)
      /\ job.wave \intersect With(job.state, "done") = {}

(* Whatever job was killed, and wherever, the next job can restore the     *)
(* active run: no checkpoint contradicts the results, no output is left    *)
(* that an exact frontier refuses, the base is still the published index.  *)
ActiveRunRestores == job.pc = "idle" => JobAccepts(ActiveRun)

(* A unit whose results are in the raw log is never sent to the provider   *)
(* again, whether or not its result or checkpoint was written.             *)
ResultsArePaidOnce ==
  \A i, j \in DOMAIN raw :
    /\ i < j /\ raw[i].kind = "queue" /\ raw[j].kind = "attempt"
    /\ \E u \in DOMAIN raw[j].entries : raw[j].entries[u].status = "retrying"
    => DOMAIN raw[i].entries \cap DOMAIN raw[j].entries = {}

(* The published index only grows, and at its publication it holds every   *)
(* output the worker ever stored.                                          *)
PublishedIsComplete ==
  [][current' # current =>
       /\ current.segments \subseteq current'.segments
       /\ {i \in DOMAIN raw : raw[i].kind # "posts"} \subseteq current'.segments]_vars

(* Every unit whose posts a published index holds has its results in it,   *)
(* or the run ended with the unit blocked.                                 *)
PublishedUnitsAreSettled ==
  current.run # 0 =>
    \A i \in current.segments, u \in Units :
      raw[i].kind = "posts" /\ u \in DOMAIN raw[i].entries =>
        \/ u \in With(checkpoints[current.run], "blocked")
        \/ \E j \in current.segments :
             raw[j].kind = "queue" /\ u \in DOMAIN raw[j].entries

(* The activations form one chain of published runs, each followed by the  *)
(* successor it named; the active run starts from the published index.     *)
ActivationsFormOneChain ==
  /\ \A g \in 2..Len(active) :
       /\ active[g] = successors[active[g - 1]]
       /\ checkpoints[active[g - 1]].publication = "published"
       /\ plans[active[g]].base = active[g - 1]
  /\ \A g, h \in DOMAIN active : active[g] = active[h] => g = h
  /\ current.run \in {plans[ActiveRun].base, ActiveRun}

(* In spite of kills, early ends and failing calls, every run is completed *)
(* and published, and its successor becomes the active run.                *)
RunsEnd == <>(Len(active) = MaxRuns + 1)
=============================================================================
