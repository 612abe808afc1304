----------------------------- MODULE RunProofs -----------------------------
(***************************************************************************)
(* Proofs about EnrichmentRun, for any units, any number of runs, kills,   *)
(* early ends and deployments.                                             *)
(*                                                                         *)
(* The first invariant, RunInv, holds whatever goes wrong around a         *)
(* deployment.  A job that is at work knows every result in the log: a     *)
(* plan starts with those before it, a checkpoint has done what its claims *)
(* hold, and reconciliation ends only when no result is left unclaimed.    *)
(* So nothing it sends to the provider has a result, wherever an earlier   *)
(* job was killed.  Only the active run has a job, so only its checkpoint  *)
(* changes, and a successor, planned on what its run published, comes      *)
(* later than every run that was active before.                            *)
(*                                                                         *)
(* The second, OutputInv, says what the active run has put into the log:   *)
(* one output at most that its checkpoint does not count, results that are *)
(* exactly the units it has done, later runs that have written nothing.    *)
(* From it follow what a published database holds and what a deployment    *)
(* hands over.                                                             *)
(***************************************************************************)
EXTENDS EnrichmentRun, FiniteSetTheorems, SequenceTheorems, WellFoundedInduction, TLAPS

IsList(s) == s \in Seq({s[i] : i \in DOMAIN s})

-----------------------------------------------------------------------------
(* The inductive invariant: the durable state.                             *)

(* A queue is a function of units; what it holds of a unit matters only as *)
(* far as it is done.                                                      *)
IsQueue(queue) == DOMAIN queue \subseteq Units /\ queue = [u \in DOMAIN queue |-> queue[u]]

Publications == {"pending", "building", "uploaded", "verified", "published"}

IsState(s) ==
  /\ s = [queue |-> s.queue, next |-> s.next, names |-> s.names, outputs |-> s.outputs,
          publication |-> s.publication, database |-> s.database]
  /\ IsQueue(s.queue)
  /\ s.outputs \in [Kinds -> Nat]
  /\ s.publication \in Publications

IsSegment(s) ==
  /\ s = [kind |-> s.kind, entries |-> s.entries, names |-> s.names]
  /\ s.kind \in Kinds \union {"posts"}
  /\ IsQueue(s.entries)
  /\ s.kind = "attempt" => \A u \in DOMAIN s.entries : s.entries[u].status # "done"
  /\ s.kind = "queue" => \A u \in DOMAIN s.entries : s.entries[u].status = "done"
  /\ s.kind \in {"registry", "receipt"} => DOMAIN s.entries = {}

IsPlan(p) ==
  /\ p = [source |-> p.source, queue |-> p.queue, names |-> p.names, base |-> p.base,
          revision |-> p.revision]
  /\ IsQueue(p.queue)
  /\ p.source \in Nat

Runs == DOMAIN plans

(* The units whose results a segment holds. *)
ResultUnits(i) == {u \in DOMAIN raw[i].entries : raw[i].kind = "queue"}

Shape ==
  /\ IsList(raw) /\ IsList(plans) /\ IsList(checkpoints)
  /\ results \in Seq([Kinds -> Seq(Nat)])
  /\ Len(checkpoints) = Len(plans) /\ Len(results) = Len(plans)
  /\ successors \in Seq(Nat) /\ Len(successors) = Len(plans)
  /\ active \in Seq(Nat) /\ active # <<>>
  /\ \A i \in DOMAIN raw : IsSegment(raw[i])
  /\ \A r \in Runs : IsPlan(plans[r]) /\ plans[r].source <= Len(raw)
  /\ \A r \in Runs : IsState(checkpoints[r])
  /\ \A g \in DOMAIN active : active[g] \in Runs

(* A plan starts with the results that were there.                         *)
PlansKnowResults ==
  \A r \in Runs : \A i \in 1 .. plans[r].source :
    ResultUnits(i) \intersect DOMAIN plans[r].queue \subseteq With(plans[r], "done")

(* A result claims a segment of its kind.                                  *)
ClaimsFit ==
  \A r \in Runs, k \in Kinds : \A n \in DOMAIN results[r][k] :
    results[r][k][n] \in DOMAIN raw /\ raw[results[r][k][n]].kind = k

(* A state of a run has done what the plan and the claims it counts hold.  *)
Follows(r, s) ==
  /\ DOMAIN s.queue = DOMAIN plans[r].queue
  /\ \A k \in Kinds : s.outputs[k] <= Len(results[r][k])
  /\ With(plans[r], "done") \subseteq With(s, "done")
  /\ \A n \in 1 .. s.outputs["queue"] :
       ResultUnits(results[r]["queue"][n]) \intersect DOMAIN s.queue \subseteq With(s, "done")

CheckpointsFollow == \A r \in Runs : Follows(r, checkpoints[r])

(* A successor is planned on what its run published.                       *)
SuccessorsFollow ==
  \A r \in Runs : successors[r] # 0 =>
    successors[r] \in Runs /\ r < successors[r] /\ plans[successors[r]].base = r

ActivationsAscend == \A g, h \in DOMAIN active : g < h => active[g] < active[h]
LaterRunsArePending ==
  \A r \in Runs : ActiveRun < r => checkpoints[r].publication = "pending"

Chained ==
  \A g \in 2 .. Len(active) :
    /\ active[g] = successors[active[g - 1]]
    /\ checkpoints[active[g - 1]].publication = "published"
    /\ plans[active[g]].base = active[g - 1]

IndexIsCurrent ==
  /\ current.run \in {plans[ActiveRun].base, ActiveRun}
  /\ checkpoints[ActiveRun].publication = "published" => current.run = ActiveRun

LogInv == Shape /\ PlansKnowResults /\ ClaimsFit /\ CheckpointsFollow /\ ResultsArePaidOnce
ChainInv ==
  SuccessorsFollow /\ ActivationsAscend /\ LaterRunsArePending /\ Chained /\ IndexIsCurrent

-----------------------------------------------------------------------------
(* The inductive invariant: the job.                                       *)

Working == {"tick", "wave", "registry", "receipt", "ticked"}
Writing == {"claim", "commit"}
Publishing == {"building", "uploaded", "verified", "published"}
Pcs == Working \union Writing \union Publishing
         \union {"idle", "reconcile", "swapped", "bootstrapped", "activated"}

(* The state knows each result in the log but that of one segment.         *)
KnowsResults(s, but) ==
  \A i \in DOMAIN raw : i # but =>
    ResultUnits(i) \intersect DOMAIN s.queue \subseteq With(s, "done")

(* What a job relies on: the checkpoint is its state but for an output it  *)
(* has claimed; a result it has stored is the only one it may not know;    *)
(* no unit of its wave has a result.                                       *)
JobFollows(j) ==
  /\ j.run \in Runs
  /\ IsState(j.state) /\ Follows(j.run, j.state)
  /\ j.pc # "commit" => j.state = checkpoints[j.run]
  /\ j.state.publication = checkpoints[j.run].publication
  /\ j.pc # "activated" => j.run = ActiveRun

JobWrites(j) ==
  j.pc \in Writing =>
    /\ j.out \in DOMAIN raw /\ raw[j.out].kind \in Kinds
    /\ j.back \in Working \union {"reconcile"}

JobWorks(j) ==
  j.pc \in Working \/ (j.pc \in Writing /\ j.back # "reconcile") =>
    /\ j.state.publication \in {"pending", "building"}
    /\ KnowsResults(j.state, IF j.pc = "claim" THEN j.out ELSE 0)

WaveIsOpen(j) ==
  j.pc = "wave" \/ (j.pc \in Writing /\ j.back = "wave") =>
    /\ j.wave \subseteq DOMAIN j.state.queue
    /\ j.wave \intersect With(j.state, "done") = {}
    /\ j.pc = "claim" => ResultUnits(j.out) \intersect j.wave = {}

JobPublishes(j) ==
  /\ j.pc \in Publishing => j.state.publication = j.pc
  /\ j.pc = "swapped" => current.run = j.run
  /\ j.pc = "bootstrapped" =>
       /\ j.state.publication = "published"
       /\ j.out \in Runs /\ j.run < j.out /\ plans[j.out].base = j.run

IsJob(j) ==
  /\ j = [pc |-> j.pc, run |-> j.run, state |-> j.state, wave |-> j.wave,
          settled |-> j.settled, out |-> j.out, back |-> j.back]
  /\ j.pc \in Pcs

Relies(j) == JobFollows(j) /\ JobWrites(j) /\ JobWorks(j) /\ WaveIsOpen(j) /\ JobPublishes(j)

JobInv == IsJob(job) /\ (job.pc # "idle" => Relies(job))

RunInv == LogInv /\ ChainInv /\ JobInv


-----------------------------------------------------------------------------
(* Lists, minima and the definitions of the model.                         *)

LEMMA ListFacts ==
  ASSUME NEW s, IsList(s)
  PROVE  Len(s) \in Nat /\ DOMAIN s = 1 .. Len(s)
BY LenProperties DEF IsList

LEMMA SameLength ==
  ASSUME NEW s, IsList(s), NEW t, IsList(t), DOMAIN s = DOMAIN t
  PROVE  Len(s) = Len(t)
<1>1. PICK m, n : m = Len(s) /\ n = Len(t)
  OBVIOUS
<1>2. m \in Nat /\ n \in Nat /\ 1 .. m = 1 .. n
  BY <1>1, ListFacts
<1>3. (m > 0 => m \in 1 .. n) /\ (n > 0 => n \in 1 .. m)
  BY <1>2
<1> QED
  BY <1>1, <1>2, <1>3

LEMMA ListIf ==
  ASSUME NEW t, NEW n \in Nat, NEW S, t \in [1 .. n -> S]
  PROVE  IsList(t)
<1>1. t \in [1 .. n -> {t[i] : i \in DOMAIN t}]
  OBVIOUS
<1> QED
  BY <1>1, SeqDef DEF IsList

LEMMA Appended ==
  ASSUME NEW s, IsList(s), NEW e
  PROVE  /\ IsList(Append(s, e))
         /\ Len(Append(s, e)) = Len(s) + 1
         /\ DOMAIN Append(s, e) = 1 .. Len(s) + 1
         /\ \A i \in DOMAIN s : Append(s, e)[i] = s[i]
         /\ Append(s, e)[Len(s) + 1] = e
<1> DEFINE S == {s[i] : i \in DOMAIN s} \union {e}
           t == Append(s, e)
<1>1. s \in Seq(S)
  BY SeqMonotonic DEF IsList
<1>2. e \in S
  OBVIOUS
<1> HIDE DEF S
<1>3. /\ t \in Seq(S)
      /\ Len(t) = Len(s) + 1
      /\ \A i \in 1 .. Len(s) : t[i] = s[i]
      /\ t[Len(s) + 1] = e
  BY <1>1, <1>2, AppendProperties
<1> HIDE DEF t
<1>4. DOMAIN t = 1 .. Len(s) + 1 /\ t \in [1 .. Len(s) + 1 -> S]
  BY <1>3, LenProperties
<1>5. Len(s) + 1 \in Nat
  BY ListFacts
<1>7. IsList(t)
  BY <1>4, <1>5, ListIf
<1> QED
  BY <1>3, <1>4, <1>7, ListFacts DEF t

LEMMA Replaced ==
  ASSUME NEW s, IsList(s), NEW n \in DOMAIN s, NEW e, NEW t, t = [s EXCEPT ![n] = e]
  PROVE  /\ IsList(t) /\ Len(t) = Len(s) /\ DOMAIN t = DOMAIN s
         /\ t[n] = e
         /\ \A i \in DOMAIN s : i # n => t[i] = s[i]
<1> DEFINE S == {s[i] : i \in DOMAIN s} \union {e}
<1>1. s \in Seq(S)
  BY SeqMonotonic DEF IsList
<1>2. e \in S
  OBVIOUS
<1>3. DOMAIN s = 1 .. Len(s) /\ Len(s) \in Nat
  BY ListFacts
<1>4. /\ DOMAIN t = DOMAIN s /\ t[n] = e
      /\ \A i \in DOMAIN s : i # n => t[i] = s[i]
  OBVIOUS
<1> HIDE DEF S
<1>5. t \in Seq(S) /\ Len(t) = Len(s)
  BY <1>1, <1>2, <1>3, ExceptSeq
<1>6. t \in [1 .. Len(s) -> S]
  BY <1>5, LenProperties
<1>7. IsList(t)
  BY <1>3, <1>6, ListIf
<1> QED
  BY <1>4, <1>5, <1>7

LEMMA LeastExists ==
  ASSUME NEW S \in SUBSET Nat, S # {}
  PROVE  Min(S) \in S /\ \A n \in S : Min(S) <= n
<1> DEFINE Below(m) == 1 .. m
           T == {Below(m) : m \in S}
<1>1. T \subseteq FiniteSubsetsOf(Nat) /\ T # {}
  <2>1. \A m \in S : IsFiniteSet(1 .. m) /\ 1 .. m \subseteq Nat
    BY FS_Interval
  <2> QED
    BY <2>1 DEF FiniteSubsetsOf
<1> HIDE DEF T
<1>2. PICK x \in T : \A y \in T : ~ (<<y, x>> \in StrictSubsetOrdering(Nat))
  BY <1>1, FS_StrictSubsetOrderingWellFounded, WFMin
<1>3. PICK m \in S : x = 1 .. m
  BY <1>2 DEF T
<1>4. \A n \in S : m <= n
  <2> SUFFICES ASSUME NEW n \in S, n < m
               PROVE  FALSE
    OBVIOUS
  <2>1. 1 .. n \in T
    BY DEF T
  <2>2. /\ 1 .. n \subseteq 1 .. m
        /\ m \in 1 .. m /\ m \notin 1 .. n
    OBVIOUS
  <2>3. <<1 .. n, 1 .. m>> \in StrictSubsetOrdering(Nat)
    BY <2>2 DEF StrictSubsetOrdering
  <2> QED
    BY <1>2, <1>3, <2>1, <2>3
<1> QED
  BY <1>4 DEF Min

(* A finite set is enumerated by a list. *)
LEMMA Enumerated ==
  ASSUME NEW S, IsFiniteSet(S)
  PROVE  IsList(SetToSeq(S)) /\ \A i \in DOMAIN SetToSeq(S) : SetToSeq(S)[i] \in S
<1>1. PICK n \in Nat : ExistsBijection(1 .. n, S)
  BY FS_NatBijection
<1>2. Cardinality(S) = n
  BY <1>1, FS_CountingElements
<1>3. \E f \in [1 .. n -> S] : IsInjective(f)
  BY <1>1 DEF ExistsBijection, Bijection, Injection, IsInjective
<1>4. SetToSeq(S) \in [1 .. n -> S]
  BY <1>2, <1>3 DEF SetToSeq
<1> QED
  BY <1>4, ListIf

-----------------------------------------------------------------------------
(* Steps that write nothing durable, or append one segment.                *)

LEMMA LogStays ==
  ASSUME LogInv, UNCHANGED <<raw, plans, results, checkpoints>>,
         successors' \in Seq(Nat), Len(successors') = Len(successors),
         active' \in Seq(Nat), active' # <<>>, \A g \in DOMAIN active' : active'[g] \in Runs
  PROVE  LogInv'
<1>1. Shape'
  <2>1. /\ (\A i \in DOMAIN raw : IsSegment(raw[i]))'
        /\ (\A r \in Runs : IsPlan(plans[r]) /\ plans[r].source <= Len(raw))'
        /\ (\A r \in Runs : IsState(checkpoints[r]))'
        /\ IsList(raw)' /\ IsList(plans)' /\ IsList(checkpoints)'
    BY DEF LogInv, Shape, Runs
  <2> QED
    BY <2>1 DEF LogInv, Shape, Runs
<1>2. PlansKnowResults'
  BY DEF LogInv, PlansKnowResults, Runs, ResultUnits
<1>3. ClaimsFit'
  BY DEF LogInv, ClaimsFit, Runs
<1>4. CheckpointsFollow'
  BY DEF LogInv, CheckpointsFollow, Follows, Runs, ResultUnits
<1>5. ResultsArePaidOnce'
  BY DEF LogInv, ResultsArePaidOnce
<1> QED
  BY <1>1, <1>2, <1>3, <1>4, <1>5 DEF LogInv

LEMMA DurableStays ==
  ASSUME LogInv, ChainInv, UNCHANGED Durable
  PROVE  LogInv' /\ ChainInv'
<1> USE DEF Durable
<1>1. LogInv'
  BY LogStays DEF LogInv, Shape
<1>2. ChainInv'
  BY DEF ChainInv, SuccessorsFollow, ActivationsAscend, LaterRunsArePending, Chained,
         IndexIsCurrent, ActiveRun, Runs
<1> QED
  BY <1>1, <1>2

LEMMA ReliesStays ==
  ASSUME NEW j, Relies(j), UNCHANGED Durable
  PROVE  Relies(j)'
<1> USE DEF Durable, Relies
<1>1. JobFollows(j)'
  BY DEF JobFollows, Follows, Runs, ResultUnits, ActiveRun
<1>2. JobWrites(j)'
  BY DEF JobWrites
<1>3. JobWorks(j)'
  BY DEF JobWorks, KnowsResults, ResultUnits
<1>4. WaveIsOpen(j)'
  BY DEF WaveIsOpen, ResultUnits
<1>5. JobPublishes(j)'
  BY DEF JobPublishes, Runs
<1> QED
  BY <1>1, <1>2, <1>3, <1>4, <1>5

(* The job moves on and writes nothing. *)
LEMMA Moves ==
  ASSUME RunInv, UNCHANGED Durable, NEW j, job' = j, IsJob(j), Relies(j)
  PROVE  RunInv'
<1>1. Relies(j)'
  BY ReliesStays
<1>2. IsJob(j)'
  BY DEF IsJob
<1> QED
  BY <1>1, <1>2, DurableStays DEF RunInv, JobInv

(* A job that has ended relies on nothing. *)
LEMMA JobEnds ==
  ASSUME EndJob
  PROVE  JobInv'
<1>1. job' = [pc |-> "idle", run |-> 0, state |-> EmptyState(NoEntries, 0),
              wave |-> {}, settled |-> {}, out |-> 0, back |-> "idle"]
  BY DEF EndJob, NoJob
<1> HIDE DEF EmptyState
<1>2. IsJob(job)' /\ job'.pc = "idle"
  BY <1>1 DEF IsJob, Pcs
<1> QED
  BY <1>2 DEF JobInv

LEMMA JobGoesOn ==
  ASSUME IsJob(job), NEW pc \in Pcs, NEW j, j = [job EXCEPT !.pc = pc]
  PROVE  /\ IsJob(j) /\ j.pc = pc
         /\ j.run = job.run /\ j.state = job.state /\ j.wave = job.wave
         /\ j.out = job.out /\ j.back = job.back
BY DEF IsJob

-----------------------------------------------------------------------------
(* A segment is appended.                                                  *)

(* The claims a state counts are results of the run, of the right kind. *)
LEMMA CountedClaims ==
  ASSUME Shape, ClaimsFit, NEW r \in Runs, NEW s, IsState(s), Follows(r, s), NEW k \in Kinds
  PROVE  \A n \in 1 .. s.outputs[k] :
           /\ n \in DOMAIN results[r][k]
           /\ results[r][k][n] \in DOMAIN raw /\ raw[results[r][k][n]].kind = k
<1>1. results[r][k] \in Seq(Nat) /\ s.outputs[k] \in Nat
  BY ListFacts DEF Shape, IsState, Runs
<1>2. s.outputs[k] <= Len(results[r][k])
  BY DEF Follows
<1>3. 1 .. s.outputs[k] \subseteq DOMAIN results[r][k]
  BY <1>1, <1>2, LenProperties
<1> QED
  BY <1>3 DEF ClaimsFit

(* The log grows and the results stay. *)
LEMMA FollowsStays ==
  ASSUME Shape, ClaimsFit, NEW r \in Runs, NEW s, IsState(s), Follows(r, s),
         UNCHANGED <<plans, results>>,
         \A i \in DOMAIN raw : ResultUnits(i)' = ResultUnits(i)
  PROVE  Follows(r, s)'
<1>1. \A n \in 1 .. s.outputs["queue"] : results[r]["queue"][n] \in DOMAIN raw
  BY CountedClaims DEF Kinds
<1> QED
  BY <1>1 DEF Follows

LEMMA LogGrows ==
  ASSUME LogInv, NEW seg, IsSegment(seg), raw' = Append(raw, seg),
         UNCHANGED <<plans, results, checkpoints, successors, active>>,
         seg.kind = "attempt" =>
           \A i \in DOMAIN raw : ResultUnits(i) \intersect DOMAIN seg.entries = {}
  PROVE  /\ LogInv'
         /\ Len(raw') = Len(raw) + 1
         /\ DOMAIN raw' = 1 .. Len(raw) + 1
         /\ \A i \in DOMAIN raw : raw'[i] = raw[i] /\ ResultUnits(i)' = ResultUnits(i)
         /\ raw'[Len(raw) + 1] = seg
<1>1. /\ IsList(raw)' /\ Len(raw') = Len(raw) + 1
      /\ DOMAIN raw' = 1 .. Len(raw) + 1 /\ DOMAIN raw = 1 .. Len(raw)
      /\ Len(raw) \in Nat
      /\ \A i \in DOMAIN raw : raw'[i] = raw[i]
      /\ raw'[Len(raw) + 1] = seg
  <2>1. PICK s : s = Append(raw, seg)
    OBVIOUS
  <2>2. /\ IsList(s) /\ Len(s) = Len(raw) + 1
        /\ DOMAIN s = 1 .. Len(raw) + 1 /\ DOMAIN raw = 1 .. Len(raw)
        /\ Len(raw) \in Nat
        /\ \A i \in DOMAIN raw : s[i] = raw[i]
        /\ s[Len(raw) + 1] = seg
    BY <2>1, Appended, ListFacts DEF LogInv, Shape
  <2>3. raw' = s
    BY <2>1
  <2>4. IsList(raw)'
    BY <2>2, <2>3 DEF IsList
  <2> QED
    BY <2>2, <2>3, <2>4
<1>2. \A i \in DOMAIN raw : ResultUnits(i)' = ResultUnits(i)
  BY <1>1 DEF ResultUnits
<1>3. \A r \in Runs : plans[r].source \in Nat /\ plans[r].source <= Len(raw)
  BY DEF LogInv, Shape, IsPlan
<1>4. Shape'
  <2>1. ASSUME NEW i \in DOMAIN raw'
        PROVE  IsSegment(raw[i])'
    <3>1. PICK x : x = raw'[i]
      OBVIOUS
    <3>2. IsSegment(x)
      BY <1>1, <3>1 DEF LogInv, Shape
    <3> QED
      BY <3>1, <3>2 DEF IsSegment, IsQueue
  <2>2. \A r \in Runs : plans[r].source <= Len(raw')
    BY <1>1, <1>3
  <2>3. \A i \in DOMAIN raw' : IsSegment(raw[i])'
    BY <2>1
  <2>4. /\ (\A r \in Runs : IsPlan(plans[r]) /\ IsState(checkpoints[r]))'
        /\ IsList(plans)' /\ IsList(checkpoints)' /\ results' = results
    BY DEF LogInv, Shape, Runs
  <2> QED
    BY <1>1, <2>2, <2>3, <2>4 DEF LogInv, Shape, Runs
<1>5. PlansKnowResults'
  <2>1. \A r \in Runs : 1 .. plans[r].source \subseteq DOMAIN raw
    BY <1>1, <1>3
  <2> QED
    BY <1>2, <2>1 DEF LogInv, PlansKnowResults, Runs
<1>6. ClaimsFit'
  <2>1. DOMAIN raw \subseteq DOMAIN raw'
    BY <1>1
  <2> QED
    BY <1>1, <2>1 DEF LogInv, ClaimsFit, Runs
<1>7. CheckpointsFollow'
  <2> SUFFICES ASSUME NEW r \in Runs
               PROVE  Follows(r, checkpoints[r])'
    BY DEF CheckpointsFollow, Runs
  <2>1. PICK s : s = checkpoints[r]
    OBVIOUS
  <2>2. IsState(s) /\ Follows(r, s)
    BY <2>1 DEF LogInv, Shape, CheckpointsFollow
  <2>3. Follows(r, s)'
    BY <1>2, <2>2, FollowsStays DEF LogInv
  <2> QED
    BY <2>1, <2>3 DEF Follows
<1>8. ResultsArePaidOnce'
  <2> SUFFICES ASSUME NEW i \in DOMAIN raw', NEW j \in DOMAIN raw', i < j,
                      raw'[i].kind = "queue", raw'[j].kind = "attempt",
                      \E u \in DOMAIN raw'[j].entries : raw'[j].entries[u].status = "retrying"
               PROVE  DOMAIN raw'[i].entries \intersect DOMAIN raw'[j].entries = {}
    BY DEF ResultsArePaidOnce
  <2>1. i \in DOMAIN raw
    BY <1>1
  <2>2. CASE j \in DOMAIN raw
    BY <1>1, <2>1, <2>2 DEF LogInv, ResultsArePaidOnce
  <2>3. CASE j = Len(raw) + 1
    <3>1. ResultUnits(i) \intersect DOMAIN seg.entries = {}
      BY <1>1, <2>1, <2>3
    <3> QED
      BY <1>1, <2>1, <2>3, <3>1 DEF ResultUnits
  <2> QED
    BY <1>1, <2>2, <2>3
<1> QED
  BY <1>1, <1>2, <1>4, <1>5, <1>6, <1>7, <1>8 DEF LogInv

(* The job's own output: it is about to claim it. *)
LEMMA OutputStarts ==
  ASSUME RunInv, NEW seg, IsSegment(seg), seg.kind \in Kinds, raw' = Append(raw, seg),
         UNCHANGED <<plans, results, checkpoints, successors, active, current>>,
         job.pc \in Working, seg.kind = "attempt" =>
           DOMAIN seg.entries \subseteq DOMAIN job.state.queue \ With(job.state, "done"),
         NEW j, job' = j, IsJob(j), j.pc = "claim", j.out = Len(raw'), j.back \in Working,
         j.run = job.run, j.state = job.state,
         j.back = "wave" =>
           /\ j.wave \subseteq DOMAIN job.state.queue \ With(job.state, "done")
           /\ seg.kind = "queue" => DOMAIN seg.entries \intersect j.wave = {}
  PROVE  RunInv'
<1>1. /\ IsJob(job) /\ Relies(job) /\ job.pc \notin Writing
      /\ job.pc \notin {"commit", "claim", "activated", "idle"}
  BY DEF RunInv, JobInv, Working, Writing
<1>2. KnowsResults(job.state, 0)
  BY <1>1 DEF Relies, JobWorks
<1>3. Len(raw) \in Nat /\ DOMAIN raw = 1 .. Len(raw)
  BY ListFacts DEF RunInv, LogInv, Shape
<1>4. \A i \in DOMAIN raw :
        ResultUnits(i) \intersect DOMAIN job.state.queue \subseteq With(job.state, "done")
  BY <1>2, <1>3 DEF KnowsResults
<1>5. /\ LogInv'
      /\ Len(raw') = Len(raw) + 1
      /\ DOMAIN raw' = 1 .. Len(raw) + 1
      /\ \A i \in DOMAIN raw : raw'[i] = raw[i] /\ ResultUnits(i)' = ResultUnits(i)
      /\ raw'[Len(raw) + 1] = seg
  <2>1. seg.kind = "attempt" =>
          \A i \in DOMAIN raw : ResultUnits(i) \intersect DOMAIN seg.entries = {}
    BY <1>4
  <2> QED
    BY <2>1, LogGrows DEF RunInv
<1>6. ChainInv'
  BY DEF RunInv, ChainInv, SuccessorsFollow, ActivationsAscend, LaterRunsArePending, Chained,
         IndexIsCurrent, ActiveRun, Runs
<1>7. j.out = Len(raw) + 1
  BY <1>5
<1>8. JobFollows(j)'
  <2>1. JobFollows(job)
    BY <1>1 DEF Relies
  <2>2. Follows(j.run, j.state)'
    <3>1. Follows(j.run, j.state) /\ IsState(j.state) /\ j.run \in Runs
      BY <2>1 DEF JobFollows
    <3> QED
      BY <1>5, <3>1, FollowsStays DEF RunInv, LogInv
  <2> QED
    BY <1>1, <1>7, <2>1, <2>2 DEF JobFollows, Runs, IsState, IsQueue, ActiveRun
<1>9. JobWrites(j)'
  BY <1>3, <1>5, <1>7 DEF JobWrites, Working
<1>10. JobWorks(j)'
  <2>1. job.state.publication \in {"pending", "building"}
    BY <1>1 DEF Relies, JobWorks
  <2>2. \A i \in DOMAIN raw' : i # j.out =>
          ResultUnits(i)' \intersect DOMAIN j.state.queue \subseteq With(j.state, "done")
    BY <1>3, <1>4, <1>5, <1>7
  <2> QED
    BY <1>3, <1>5, <1>7, <2>1, <2>2 DEF JobWorks, KnowsResults, Working
<1>11. WaveIsOpen(j)'
  <2> SUFFICES ASSUME j.back = "wave"
               PROVE  /\ j.wave \subseteq DOMAIN j.state.queue
                      /\ j.wave \intersect With(j.state, "done") = {}
                      /\ ResultUnits(j.out)' \intersect j.wave = {}
    BY DEF WaveIsOpen
  <2> QED
    BY <1>5, <1>7 DEF ResultUnits
<1>12. JobPublishes(j)'
  BY <1>7 DEF JobPublishes, Publishing
<1> QED
  BY <1>5, <1>6, <1>8, <1>9, <1>10, <1>11, <1>12
     DEF RunInv, JobInv, Relies, IsJob

-----------------------------------------------------------------------------
(* Checkpoints.                                                            *)

(* The job writes the checkpoint of its run, the active one. *)
LEMMA IsTheList ==
  ASSUME NEW c, IsList(c), checkpoints' = c
  PROVE  IsList(checkpoints)'
BY DEF IsList

LEMMA CheckpointsReplaced ==
  ASSUME IsList(checkpoints), NEW n \in DOMAIN checkpoints, NEW s,
         checkpoints' = [checkpoints EXCEPT ![n] = s]
  PROVE  /\ IsList(checkpoints)' /\ Len(checkpoints') = Len(checkpoints)
         /\ checkpoints'[n] = s
         /\ \A r \in DOMAIN checkpoints : r # n => checkpoints'[r] = checkpoints[r]
<1>1. PICK c : c = [checkpoints EXCEPT ![n] = s]
  OBVIOUS
<1>2. /\ IsList(c) /\ Len(c) = Len(checkpoints) /\ c[n] = s
      /\ \A i \in DOMAIN checkpoints : i # n => c[i] = checkpoints[i]
  <2>1. IsList(c)
    BY <1>1, Replaced, Zenon
  <2>2. Len(c) = Len(checkpoints)
    <3>3. DOMAIN c = DOMAIN checkpoints
      BY <1>1
    <3> QED
      BY <2>1, <3>3, SameLength
  <2>3. c[n] = s
    BY <1>1
  <2>4. \A i \in DOMAIN checkpoints : i # n => c[i] = checkpoints[i]
    BY <1>1
  <2> QED
    BY <2>1, <2>2, <2>3, <2>4
<1>3. checkpoints' = c
  BY <1>1
<1>4. IsList(checkpoints)'
  BY <1>2, <1>3, IsTheList
<1> QED
  BY <1>2, <1>3, <1>4

LEMMA CheckpointWritten ==
  ASSUME RunInv, job.pc \notin {"idle", "activated"}, NEW s, IsState(s), Follows(job.run, s),
         s.publication = "published" => current.run = job.run,
         checkpoints' = [checkpoints EXCEPT ![job.run] = s],
         UNCHANGED <<raw, plans, results, successors, active, current>>
  PROVE  LogInv' /\ ChainInv' /\ checkpoints'[job.run] = s
<1>1. job.run \in Runs /\ job.run = ActiveRun
  BY DEF RunInv, JobInv, Relies, JobFollows
<1>2. Shape /\ IsList(checkpoints) /\ DOMAIN checkpoints = Runs
  BY ListFacts DEF RunInv, LogInv, Shape, Runs
<1>3. /\ IsList(checkpoints)' /\ Len(checkpoints') = Len(checkpoints)
      /\ checkpoints'[job.run] = s
      /\ \A r \in Runs : r # job.run => checkpoints'[r] = checkpoints[r]
  <2>1. PICK n : n = job.run
    OBVIOUS
  <2>2. n \in DOMAIN checkpoints /\ checkpoints' = [checkpoints EXCEPT ![n] = s]
    BY <1>1, <1>2, <2>1
  <2>3. /\ IsList(checkpoints)' /\ Len(checkpoints') = Len(checkpoints)
        /\ checkpoints'[n] = s
        /\ \A r \in DOMAIN checkpoints : r # n => checkpoints'[r] = checkpoints[r]
    BY <1>2, <2>2, CheckpointsReplaced, Zenon
  <2> QED
    BY <1>2, <2>1, <2>3
<1>4. Shape'
  <2>1. ASSUME NEW r \in Runs
        PROVE  IsState(checkpoints[r])'
    <3>1. PICK x : x = checkpoints'[r]
      OBVIOUS
    <3>2. IsState(x)
      BY <1>2, <1>3, <3>1 DEF Shape
    <3> QED
      BY <3>1, <3>2 DEF IsState, IsQueue
  <2>2. /\ (\A i \in DOMAIN raw : IsSegment(raw[i]))'
        /\ (\A r \in Runs : IsPlan(plans[r]) /\ plans[r].source <= Len(raw))'
        /\ IsList(raw)' /\ IsList(plans)' /\ results' = results
    BY <1>2 DEF Shape, Runs
  <2>3. \A r \in Runs : IsState(checkpoints[r])'
    BY <2>1
  <2> QED
    BY <1>2, <1>3, <2>2, <2>3 DEF Shape, Runs
<1>5. PlansKnowResults' /\ ClaimsFit' /\ ResultsArePaidOnce'
  BY DEF RunInv, LogInv, PlansKnowResults, ClaimsFit, ResultsArePaidOnce, Runs, ResultUnits
<1>6. CheckpointsFollow'
  <2>1. SUFFICES ASSUME NEW r \in Runs
                 PROVE  Follows(r, checkpoints[r])'
    BY DEF CheckpointsFollow, Runs
  <2>2. PICK x : x = checkpoints'[r]
    OBVIOUS
  <2>3. Follows(r, x)
    BY <1>3, <2>2 DEF RunInv, LogInv, CheckpointsFollow
  <2>4. Follows(r, x)'
    BY <2>3 DEF Follows, ResultUnits
  <2> QED
    BY <2>2, <2>4 DEF Follows
<1>7. \A g \in DOMAIN active : g < Len(active) => active[g] # job.run
  <2>1. Len(active) \in DOMAIN active /\ \A g \in DOMAIN active : active[g] \in Nat
    BY <1>2 DEF Shape
  <2> QED
    BY <1>1, <2>1 DEF RunInv, ChainInv, ActivationsAscend, ActiveRun
<1>8. Chained'
  <2> SUFFICES ASSUME NEW g \in 2 .. Len(active)
               PROVE  checkpoints'[active[g - 1]].publication = "published"
    BY DEF RunInv, ChainInv, Chained
  <2>1. g - 1 \in DOMAIN active /\ g - 1 < Len(active)
    BY <1>2 DEF Shape
  <2>2. active[g - 1] \in Runs /\ active[g - 1] # job.run
    BY <1>2, <1>7, <2>1 DEF Shape
  <2>3. checkpoints[active[g - 1]].publication = "published"
    BY DEF RunInv, ChainInv, Chained
  <2> QED
    BY <1>3, <2>2, <2>3
<1>9. LaterRunsArePending'
  <2>1. \A r \in Runs : ActiveRun < r => r # job.run
    <3>1. Runs \subseteq Nat
      BY <1>2, ListFacts DEF Shape, Runs
    <3> QED
      BY <1>1, <3>1
  <2> QED
    BY <1>3, <2>1 DEF RunInv, ChainInv, LaterRunsArePending, Runs, ActiveRun
<1>10. IndexIsCurrent'
  BY <1>1, <1>3 DEF RunInv, ChainInv, IndexIsCurrent, ActiveRun
<1>11. SuccessorsFollow' /\ ActivationsAscend'
  BY DEF RunInv, ChainInv, SuccessorsFollow, ActivationsAscend, Runs
<1> QED
  BY <1>3, <1>4, <1>5, <1>6, <1>8, <1>9, <1>10, <1>11 DEF LogInv, ChainInv

LEMMA CheckpointCommitted ==
  ASSUME RunInv, job.pc \notin {"idle", "activated"}, NEW s, IsState(s), Follows(job.run, s),
         s.publication = "published" => current.run = job.run,
         NEW pc \in Working \union Publishing \union {"reconcile"},
         CommitCheckpoint(s, pc),
         UNCHANGED <<raw, plans, results, successors, active, current>>,
         pc \in Working =>
           s.publication \in {"pending", "building"} /\ KnowsResults(s, 0),
         pc = "wave" =>
           job.wave \subseteq DOMAIN s.queue /\ job.wave \intersect With(s, "done") = {},
         pc \in Publishing => s.publication = pc
  PROVE  RunInv'
<1>1. /\ IsJob(job) /\ job.run \in Runs /\ job.run = ActiveRun
  BY DEF RunInv, JobInv, Relies, JobFollows
<1>2. LogInv' /\ ChainInv' /\ checkpoints'[job.run] = s
  BY CheckpointWritten DEF CommitCheckpoint
<1>3. PICK j : j = [job EXCEPT !.state = s, !.pc = pc]
  OBVIOUS
<1>4. /\ IsJob(j) /\ j.pc = pc /\ j.run = job.run /\ j.state = s /\ j.wave = job.wave
  BY <1>1, <1>3 DEF IsJob, Pcs
<1>5. pc \notin Writing /\ pc \notin {"idle", "activated", "swapped", "bootstrapped"}
  BY DEF Working, Publishing, Writing
<1>6. Follows(j.run, j.state)' /\ IsState(j.state)'
  BY <1>4 DEF Follows, IsState, IsQueue, ResultUnits
<1>7. JobFollows(j)'
  BY <1>1, <1>2, <1>4, <1>5, <1>6 DEF JobFollows, Runs, ActiveRun
<1>8. JobWrites(j)' /\ WaveIsOpen(j)' /\ JobPublishes(j)'
  BY <1>4, <1>5 DEF JobWrites, WaveIsOpen, JobPublishes, Writing
<1>9. JobWorks(j)'
  BY <1>4, <1>5 DEF JobWorks, KnowsResults, ResultUnits, Writing
<1>10. job' = j
  BY <1>3 DEF CommitCheckpoint
<1> QED
  BY <1>2, <1>4, <1>7, <1>8, <1>9, <1>10 DEF RunInv, JobInv, Relies, IsJob

(* A run's publication and its database change nothing the run has done. *)
LEMMA PublicationSet ==
  ASSUME NEW s, IsState(s), NEW p \in Publications, NEW d, NEW t,
         t = [queue |-> s.queue, next |-> s.next, names |-> s.names, outputs |-> s.outputs,
              publication |-> p, database |-> d],
         NEW r, Follows(r, s)
  PROVE  IsState(t) /\ t.publication = p /\ Follows(r, t)
<1>1. With(t, "done") = With(s, "done")
  BY DEF With
<1>2. /\ t.queue = s.queue /\ t.outputs = s.outputs /\ t.publication = p
      /\ t = [queue |-> t.queue, next |-> t.next, names |-> t.names, outputs |-> t.outputs,
              publication |-> t.publication, database |-> t.database]
  <2>1. /\ t.queue = s.queue /\ t.outputs = s.outputs /\ t.publication = p
        /\ t.next = s.next /\ t.names = s.names /\ t.database = d
    OBVIOUS
  <2> QED
    BY <2>1
<1>3. IsState(t)
  BY <1>2 DEF IsState
<1> QED
  BY <1>1, <1>2, <1>3 DEF Follows

LEMMA OutputApplied ==
  ASSUME NEW s, IsState(s), NEW seg, IsSegment(seg), seg.kind \in Kinds, Applies(s, seg),
         NEW t, t = ApplyDurableOutput(s, seg)
  PROVE  /\ IsState(t) /\ DOMAIN t.queue = DOMAIN s.queue /\ t.publication = s.publication
         /\ \A k \in Kinds :
              t.outputs[k] = IF k = seg.kind THEN s.outputs[k] + 1 ELSE s.outputs[k]
         /\ With(s, "done") \subseteq With(t, "done")
         /\ seg.kind = "queue" =>
              DOMAIN seg.entries \intersect DOMAIN s.queue \subseteq With(t, "done")
         /\ With(t, "done") \subseteq
              With(s, "done") \union {u \in DOMAIN seg.entries : seg.kind = "queue"}
         /\ t.next = s.next + Cardinality(Remaining(s, seg)) /\ t.names = s.names
         /\ \A u \in DOMAIN s.queue :
              t.queue[u] = IF u \in DOMAIN seg.entries THEN seg.entries[u] ELSE s.queue[u]
<1> DEFINE queue == [u \in DOMAIN s.queue |->
                       IF u \in DOMAIN seg.entries THEN seg.entries[u] ELSE s.queue[u]]
           next == s.next + Cardinality(Remaining(RecordEntries(s, seg.entries), seg))
           outputs == [s.outputs EXCEPT ![seg.kind] = s.outputs[seg.kind] + 1]
<1>1. RecordEntries(s, seg.entries) =
        [queue |-> queue, next |-> s.next, names |-> s.names, outputs |-> s.outputs,
         publication |-> s.publication, database |-> s.database]
  BY DEF RecordEntries, IsState
<1>2. t = [queue |-> queue, next |-> next, names |-> s.names, outputs |-> outputs,
           publication |-> s.publication, database |-> s.database]
  <2>1. Remaining(s, seg) = Remaining(RecordEntries(s, seg.entries), seg)
    BY <1>1 DEF Remaining
  <2>2. next = s.next + Cardinality(Remaining(s, seg))
    BY <2>1
  <2> HIDE DEF queue, next
  <2>3. PICK e : e = RecordEntries(s, seg.entries)
    OBVIOUS
  <2>4. PICK d : d = AdvanceRegistryCursor(e, Remaining(s, seg))
    OBVIOUS
  <2>5. e = [queue |-> queue, next |-> s.next, names |-> s.names, outputs |-> s.outputs,
             publication |-> s.publication, database |-> s.database]
    BY <1>1, <2>3
  <2>6. d = [queue |-> queue, next |-> next, names |-> s.names, outputs |-> s.outputs,
             publication |-> s.publication, database |-> s.database]
    BY <2>2, <2>4, <2>5 DEF AdvanceRegistryCursor
  <2>7. t = AdvanceOutputFrontier(d, seg.kind)
    BY <1>1, <2>1, <2>3, <2>4 DEF ApplyDurableOutput
  <2> QED
    BY <2>6, <2>7 DEF AdvanceOutputFrontier
<1>3. IsQueue(queue) /\ DOMAIN queue = DOMAIN s.queue
  BY DEF IsState, IsQueue
<1>4. /\ outputs \in [Kinds -> Nat]
      /\ \A k \in Kinds : outputs[k] = IF k = seg.kind THEN s.outputs[k] + 1 ELSE s.outputs[k]
  BY DEF IsState
<1>5. With(t, "done") = {u \in DOMAIN s.queue : queue[u].status = "done"}
  BY <1>2 DEF With
<1>11. t.next = s.next + Cardinality(Remaining(s, seg)) /\ t.names = s.names
  <2>1. Remaining(s, seg) = Remaining(RecordEntries(s, seg.entries), seg)
    BY <1>1 DEF Remaining
  <2> QED
    BY <1>2, <2>1
<1>12. \A u \in DOMAIN s.queue :
         queue[u] = IF u \in DOMAIN seg.entries THEN seg.entries[u] ELSE s.queue[u]
  OBVIOUS
<1> HIDE DEF next, outputs
<1>6. IsState(t)
  <2> HIDE DEF queue
  <2> QED
    BY <1>2, <1>3, <1>4 DEF IsState
<1>7. \A u \in With(s, "done") : queue[u].status = "done"
  <2> SUFFICES ASSUME NEW u \in With(s, "done"), u \in DOMAIN seg.entries
               PROVE  seg.entries[u].status = "done"
    BY DEF With
  <2>1. seg.kind # "attempt"
    BY DEF Applies
  <2> QED
    BY <2>1 DEF IsSegment, Kinds
<1>8. \A u \in DOMAIN s.queue \intersect DOMAIN seg.entries :
        queue[u].status = "done" <=> seg.kind = "queue"
  BY DEF IsSegment, Kinds
<1>9. With(s, "done") \subseteq DOMAIN s.queue
  BY DEF With
<1>10. \A u \in DOMAIN s.queue \ DOMAIN seg.entries :
         queue[u].status = "done" => u \in With(s, "done")
  BY DEF With
<1> QED
  <2> HIDE DEF queue
  <2> QED
    BY <1>2, <1>3, <1>4, <1>5, <1>6, <1>7, <1>8, <1>9, <1>10, <1>11, <1>12

-----------------------------------------------------------------------------
(* Results.                                                                *)

(* A result is appended to those of one kind. *)
LEMMA ResultAppended ==
  ASSUME LogInv, NEW q \in Runs, NEW kind \in Kinds, NEW out \in DOMAIN raw,
         raw[out].kind = kind, results' = [results EXCEPT ![q][kind] = Append(@, out)],
         UNCHANGED <<raw, plans, checkpoints, successors, active>>
  PROVE  /\ LogInv'
         /\ results'[q][kind] = Append(results[q][kind], out)
         /\ \A r \in Runs, k \in Kinds :
              /\ Len(results[r][k]) <= Len(results'[r][k])
              /\ \A n \in 1 .. Len(results[r][k]) : results'[r][k][n] = results[r][k][n]
<1>1. /\ results \in Seq([Kinds -> Seq(Nat)]) /\ DOMAIN results = Runs
      /\ DOMAIN raw = 1 .. Len(raw) /\ Len(raw) \in Nat
      /\ DOMAIN results = 1 .. Len(results)
  BY ListFacts, LenProperties DEF LogInv, Shape, Runs
<1>2. \A r \in Runs : results[r] \in [Kinds -> Seq(Nat)]
  BY <1>1
<1>3. PICK claims : claims = Append(results[q][kind], out)
  OBVIOUS
<1>4. /\ claims \in Seq(Nat) /\ Len(claims) = Len(results[q][kind]) + 1
      /\ \A n \in 1 .. Len(results[q][kind]) : claims[n] = results[q][kind][n]
      /\ claims[Len(results[q][kind]) + 1] = out
  BY <1>1, <1>2, <1>3, AppendProperties
<1>5. \A r \in Runs, k \in Kinds :
        results'[r][k] = IF r = q /\ k = kind THEN claims ELSE results[r][k]
  BY <1>1, <1>2, <1>3
<1>6. results' \in Seq([Kinds -> Seq(Nat)]) /\ Len(results') = Len(results)
  <2>1. PICK entry : entry = [results[q] EXCEPT ![kind] = claims]
    OBVIOUS
  <2>2. entry \in [Kinds -> Seq(Nat)]
    BY <1>2, <1>4, <2>1
  <2>3. results' = [results EXCEPT ![q] = entry]
    BY <1>1, <1>2, <1>3, <2>1
  <2> QED
    BY <1>1, <2>2, <2>3, ExceptSeq
<1>7. \A r \in Runs, k \in Kinds :
        /\ Len(results[r][k]) \in Nat /\ Len(results[r][k]) <= Len(results'[r][k])
        /\ \A n \in 1 .. Len(results[r][k]) : results'[r][k][n] = results[r][k][n]
  BY <1>2, <1>4, <1>5
<1>8. Shape'
  <2>1. /\ (\A i \in DOMAIN raw : IsSegment(raw[i]))'
        /\ (\A r \in Runs : IsPlan(plans[r]) /\ plans[r].source <= Len(raw))'
        /\ (\A r \in Runs : IsState(checkpoints[r]))'
        /\ IsList(raw)' /\ IsList(plans)' /\ IsList(checkpoints)'
    BY DEF LogInv, Shape, Runs
  <2>2. Len(results') = Len(plans)
    BY <1>6 DEF LogInv, Shape
  <2> QED
    BY <1>6, <2>1, <2>2 DEF LogInv, Shape, Runs
<1>9. PlansKnowResults' /\ ResultsArePaidOnce'
  BY DEF LogInv, PlansKnowResults, ResultsArePaidOnce, Runs, ResultUnits
<1>10. ClaimsFit'
  <2> SUFFICES ASSUME NEW r \in Runs, NEW k \in Kinds, NEW n \in DOMAIN results'[r][k]
               PROVE  results'[r][k][n] \in DOMAIN raw /\ raw[results'[r][k][n]].kind = k
    BY DEF ClaimsFit, Runs
  <2>1. CASE r = q /\ k = kind
    <3>1. /\ results'[r][k] = claims /\ n \in 1 .. Len(results[r][k]) + 1
          /\ DOMAIN results[r][k] = 1 .. Len(results[r][k]) /\ Len(results[r][k]) \in Nat
      BY <1>2, <1>4, <1>5, <2>1
    <3>2. CASE n = Len(results[r][k]) + 1
      BY <1>4, <2>1, <3>1, <3>2
    <3>3. CASE n \in DOMAIN results[r][k]
      BY <1>4, <2>1, <3>1, <3>3 DEF LogInv, ClaimsFit
    <3> QED
      BY <3>1, <3>2, <3>3
  <2>2. CASE ~ (r = q /\ k = kind)
    BY <1>5, <2>2 DEF LogInv, ClaimsFit
  <2> QED
    BY <2>1, <2>2
<1>11. CheckpointsFollow'
  <2> SUFFICES ASSUME NEW r \in Runs
               PROVE  Follows(r, checkpoints[r])'
    BY DEF CheckpointsFollow, Runs
  <2>1. Follows(r, checkpoints[r]) /\ IsState(checkpoints[r])
    BY DEF LogInv, CheckpointsFollow, Shape
  <2>2. \A k \in Kinds : checkpoints[r].outputs[k] <= Len(results'[r][k])
    <3>1. \A k \in Kinds : /\ checkpoints[r].outputs[k] \in Nat
                           /\ checkpoints[r].outputs[k] <= Len(results[r][k])
                           /\ Len(results'[r][k]) \in Nat
      BY <1>2, <1>4, <1>5, <2>1 DEF Follows, IsState
    <3> QED
      BY <1>7, <3>1
  <2>3. \A n \in 1 .. checkpoints[r].outputs["queue"] :
          results'[r]["queue"][n] = results[r]["queue"][n]
    BY <1>2, <1>7, <2>1, CountedClaims DEF LogInv, Kinds
  <2>4. ASSUME NEW n \in 1 .. checkpoints[r].outputs["queue"]
        PROVE  (ResultUnits(results[r]["queue"][n]) \intersect DOMAIN checkpoints[r].queue
                  \subseteq With(checkpoints[r], "done"))'
    <3>1. ResultUnits(results[r]["queue"][n]) \intersect DOMAIN checkpoints[r].queue
            \subseteq With(checkpoints[r], "done")
      BY <2>1 DEF Follows
    <3> QED
      BY <2>3, <3>1 DEF ResultUnits
  <2>5. /\ (DOMAIN checkpoints[r].queue = DOMAIN plans[r].queue)'
        /\ (With(plans[r], "done") \subseteq With(checkpoints[r], "done"))'
    BY <2>1 DEF Follows, With
  <2>6. (\A k \in Kinds : checkpoints[r].outputs[k] <= Len(results[r][k]))'
    BY <2>2
  <2>7. (\A n \in 1 .. checkpoints[r].outputs["queue"] :
           ResultUnits(results[r]["queue"][n]) \intersect DOMAIN checkpoints[r].queue
             \subseteq With(checkpoints[r], "done"))'
    BY <2>4
  <2> QED
    BY <2>5, <2>6, <2>7 DEF Follows
<1>12. LogInv'
  BY <1>8, <1>9, <1>10, <1>11 DEF LogInv
<1>13. results'[q][kind] = Append(results[q][kind], out)
  BY <1>3, <1>5
<1> QED
  BY <1>7, <1>12, <1>13

LEMMA ClaimResultKeeps ==
  ASSUME RunInv, ClaimResult
  PROVE  RunInv'
<1> DEFINE kind == raw[job.out].kind
           n == job.state.outputs[kind] + 1
           claims == results[job.run][kind]
           written == Len(claims) < n
<1>1. /\ IsJob(job) /\ job.pc = "claim" /\ Relies(job) /\ LogInv /\ ChainInv
  BY DEF RunInv, JobInv, ClaimResult
<1>2. /\ job.run \in Runs /\ job.out \in DOMAIN raw /\ kind \in Kinds
      /\ IsState(job.state) /\ Follows(job.run, job.state)
      /\ job.back \in Working \union {"reconcile"}
  BY <1>1 DEF Relies, JobFollows, JobWrites, Writing
<1>3. /\ UNCHANGED <<raw, checkpoints, plans, successors, active, current>>
      /\ results' = IF written THEN [results EXCEPT ![job.run][kind] = Append(@, job.out)]
                    ELSE results
      /\ IF (written \/ claims[n] = job.out) /\ Applies(job.state, raw[job.out])
         THEN job' = [job EXCEPT !.pc = "commit",
                                 !.state = ApplyDurableOutput(job.state, raw[job.out])]
         ELSE EndJob
  BY DEF ClaimResult, Published
<1>4. /\ claims \in Seq(Nat) /\ n \in Nat \ {0} /\ n <= Len(claims) + 1
      /\ DOMAIN claims = 1 .. Len(claims) /\ Len(claims) \in Nat
  <2>1. results[job.run] \in [Kinds -> Seq(Nat)]
    <3>1. DOMAIN results = Runs /\ results \in Seq([Kinds -> Seq(Nat)])
      BY <1>1, ListFacts DEF LogInv, Shape, Runs
    <3> QED
      BY <1>2, <3>1
  <2>2. claims \in Seq(Nat) /\ DOMAIN claims = 1 .. Len(claims) /\ Len(claims) \in Nat
    BY <1>2, <2>1
  <2>3. job.state.outputs[kind] \in Nat /\ job.state.outputs[kind] <= Len(claims)
    BY <1>2 DEF Follows, IsState
  <2>4. PICK m, l : m = job.state.outputs[kind] /\ l = Len(claims)
    OBVIOUS
  <2>5. m + 1 \in Nat \ {0} /\ m + 1 <= l + 1
    <3>1. m \in Nat /\ l \in Nat /\ m <= l
      BY <2>2, <2>3, <2>4
    <3> HIDE DEF kind, n, claims, written
    <3> QED
      BY <3>1
  <2>6. n \in Nat \ {0} /\ n <= Len(claims) + 1
    BY <2>4, <2>5
  <2> HIDE DEF kind, n, claims, written
  <2> QED
    BY <2>2, <2>6
<1> HIDE DEF kind, n, claims, written
<1>5. /\ LogInv'
      /\ \A r \in Runs, k \in Kinds :
           /\ Len(results[r][k]) \in Nat /\ Len(results'[r][k]) \in Nat
           /\ Len(results[r][k]) <= Len(results'[r][k])
           /\ \A m \in 1 .. Len(results[r][k]) : results'[r][k][m] = results[r][k][m]
      /\ written \/ claims[n] = job.out =>
           n <= Len(results'[job.run][kind]) /\ results'[job.run][kind][n] = job.out
  <2>1. CASE written
    <3>1. results' = [results EXCEPT ![job.run][kind] = Append(@, job.out)]
      BY <1>3, <2>1
    <3>2. /\ LogInv' /\ results'[job.run][kind] = Append(claims, job.out)
          /\ \A r \in Runs, k \in Kinds :
               /\ Len(results[r][k]) <= Len(results'[r][k])
               /\ \A m \in 1 .. Len(results[r][k]) : results'[r][k][m] = results[r][k][m]
      <4>1. PICK q, k, out : q = job.run /\ k = kind /\ out = job.out
        OBVIOUS
      <4>2. q \in Runs /\ k \in Kinds /\ out \in DOMAIN raw /\ raw[out].kind = k
        BY <1>2, <4>1 DEF kind
      <4>3. results' = [results EXCEPT ![q][k] = Append(@, out)]
        BY <3>1, <4>1
      <4>4. UNCHANGED <<raw, plans, checkpoints, successors, active>>
        BY <1>3
      <4>5. /\ LogInv' /\ results'[q][k] = Append(results[q][k], out)
            /\ \A r \in Runs, c \in Kinds :
                 /\ Len(results[r][c]) <= Len(results'[r][c])
                 /\ \A m \in 1 .. Len(results[r][c]) : results'[r][c][m] = results[r][c][m]
        BY <1>1, <4>2, <4>3, <4>4, ResultAppended, Zenon
      <4> QED
        BY <4>1, <4>5 DEF claims
    <3>3. n = Len(claims) + 1
      BY <1>4, <2>1 DEF written
    <3>4. /\ Len(Append(claims, job.out)) = n /\ Append(claims, job.out)[n] = job.out
      BY <1>1, <1>2, <1>4, <3>3, ListFacts DEF LogInv, Shape
    <3>5. \A r \in Runs, k \in Kinds :
            Len(results[r][k]) \in Nat /\ Len(results'[r][k]) \in Nat
      <4>1. /\ results \in Seq([Kinds -> Seq(Nat)]) /\ results' \in Seq([Kinds -> Seq(Nat)])
            /\ DOMAIN results = Runs /\ DOMAIN results' = Runs
        BY <1>1, <1>3, <3>2, ListFacts, LenProperties DEF LogInv, Shape, Runs
      <4> QED
        BY <4>1
    <3> QED
      BY <1>4, <3>2, <3>4, <3>5
  <2>2. CASE ~ written
    <3>1. results' = results
      BY <1>3, <2>2
    <3>2. LogInv'
      BY <1>1, <1>3, <3>1, DurableStays DEF Durable
    <3>3. \A r \in Runs, k \in Kinds : Len(results[r][k]) \in Nat
      BY <1>1, ListFacts DEF LogInv, Shape, Runs
    <3> QED
      BY <1>4, <2>2, <3>1, <3>2, <3>3 DEF claims, written
  <2> QED
    BY <2>1, <2>2
<1>6. ChainInv'
  BY <1>1, <1>3 DEF ChainInv, SuccessorsFollow, ActivationsAscend, LaterRunsArePending, Chained,
         IndexIsCurrent, ActiveRun, Runs
<1>7. CASE EndJob
  BY <1>5, <1>6, <1>7, JobEnds DEF RunInv
<1>8. CASE ~ EndJob
  <2>1. PICK seg : seg = raw[job.out]
    OBVIOUS
  <2>2. PICK s : s = job.state
    OBVIOUS
  <2>3. PICK t : t = ApplyDurableOutput(s, seg)
    OBVIOUS
  <2>4. /\ written \/ claims[n] = job.out
        /\ Applies(s, seg)
        /\ job' = [job EXCEPT !.pc = "commit", !.state = t]
    BY <1>3, <1>8, <2>1, <2>2, <2>3
  <2>5. IsSegment(seg) /\ seg.kind = kind /\ IsState(s)
    BY <1>1, <1>2, <2>1, <2>2 DEF LogInv, Shape, kind
  <2>6. /\ IsState(t) /\ DOMAIN t.queue = DOMAIN s.queue /\ t.publication = s.publication
        /\ \A k \in Kinds : t.outputs[k] = IF k = kind THEN s.outputs[k] + 1 ELSE s.outputs[k]
        /\ With(s, "done") \subseteq With(t, "done")
        /\ kind = "queue" => DOMAIN seg.entries \intersect DOMAIN s.queue \subseteq With(t, "done")
        /\ With(t, "done") \subseteq
             With(s, "done") \union {u \in DOMAIN seg.entries : kind = "queue"}
    BY <1>2, <2>3, <2>4, <2>5, OutputApplied
  <2>7. /\ ResultUnits(job.out) = {u \in DOMAIN seg.entries : kind = "queue"}
        /\ \A i : ResultUnits(i)' = ResultUnits(i)
    BY <1>3, <2>1, <2>5 DEF ResultUnits
  <2>8. PICK j : j = [job EXCEPT !.pc = "commit", !.state = t]
    OBVIOUS
  <2>9. /\ IsJob(j) /\ j.pc = "commit" /\ j.state = t /\ j.run = job.run /\ j.out = job.out
        /\ j.back = job.back /\ j.wave = job.wave
    BY <1>1, <2>8 DEF IsJob, Pcs, Writing
  <2>10. Follows(j.run, j.state)'
    <3>1. DOMAIN t.queue = DOMAIN plans[job.run].queue
      BY <1>2, <2>2, <2>6 DEF Follows
    <3>2. \A k \in Kinds : t.outputs[k] <= Len(results'[job.run][k])
      <4> SUFFICES ASSUME NEW k \in Kinds
                   PROVE  t.outputs[k] <= Len(results'[job.run][k])
        OBVIOUS
      <4>1. CASE k = kind
        BY <1>5, <2>2, <2>4, <2>6, <4>1 DEF n
      <4>2. CASE k # kind
        <5>1. t.outputs[k] = s.outputs[k] /\ s.outputs[k] \in Nat
              /\ s.outputs[k] <= Len(results[job.run][k])
          BY <1>2, <2>2, <2>5, <2>6, <4>2 DEF Follows, IsState
        <5> QED
          BY <1>2, <1>5, <5>1
      <4> QED
        BY <4>1, <4>2
    <3>3. With(plans[job.run], "done") \subseteq With(t, "done")
      BY <1>2, <2>2, <2>6 DEF Follows
    <3>4. \A m \in 1 .. t.outputs["queue"] :
            ResultUnits(results'[job.run]["queue"][m]) \intersect DOMAIN t.queue
              \subseteq With(t, "done")
      <4> SUFFICES ASSUME NEW m \in 1 .. t.outputs["queue"]
                   PROVE  ResultUnits(results'[job.run]["queue"][m]) \intersect DOMAIN t.queue
                            \subseteq With(t, "done")
        OBVIOUS
      <4>1. CASE m \in 1 .. s.outputs["queue"]
        <5>1. ResultUnits(results[job.run]["queue"][m]) \intersect DOMAIN s.queue
                \subseteq With(s, "done")
          BY <1>2, <2>2, <4>1 DEF Follows
        <5>2. m \in 1 .. Len(results[job.run]["queue"])
          <6>1. s.outputs["queue"] \in Nat /\ s.outputs["queue"] <= Len(results[job.run]["queue"])
            BY <1>2, <2>2, <2>5 DEF Follows, IsState, Kinds
          <6> QED
            BY <1>2, <1>5, <4>1, <6>1 DEF Kinds
        <5>3. results'[job.run]["queue"][m] = results[job.run]["queue"][m]
          BY <1>2, <1>5, <5>2 DEF Kinds
        <5> QED
          BY <2>6, <5>1, <5>3
      <4>2. CASE m \notin 1 .. s.outputs["queue"]
        <5>1. s.outputs["queue"] \in Nat
          BY <2>5 DEF IsState, Kinds
        <5>2. kind = "queue" /\ m = s.outputs["queue"] + 1
          BY <2>6, <4>2, <5>1 DEF Kinds
        <5>3. results'[job.run]["queue"][m] = job.out
          BY <1>5, <2>2, <2>4, <5>2 DEF n
        <5> QED
          BY <2>6, <2>7, <5>2, <5>3
      <4> QED
        BY <4>1, <4>2
    <3>5. \A m \in 1 .. t.outputs["queue"] :
            ResultUnits(results[j.run]["queue"][m])' \intersect DOMAIN t.queue
              \subseteq With(t, "done")
      BY <1>3, <2>9, <3>4 DEF ResultUnits
    <3> QED
      BY <1>3, <2>9, <3>1, <3>2, <3>3, <3>5 DEF Follows
  <2>11. JobFollows(j)'
    <3>1. /\ job.state.publication = checkpoints[job.run].publication /\ job.run = ActiveRun
      BY <1>1 DEF Relies, JobFollows
    <3> QED
      BY <1>2, <1>3, <2>2, <2>6, <2>9, <2>10, <3>1
         DEF JobFollows, Runs, IsState, IsQueue, ActiveRun
  <2>12. JobWrites(j)'
    BY <1>2, <1>3, <2>9 DEF JobWrites, kind
  <2>13. JobWorks(j)'
    <3> SUFFICES ASSUME job.back # "reconcile"
                 PROVE  /\ t.publication \in {"pending", "building"}
                        /\ \A i \in DOMAIN raw :
                             ResultUnits(i)' \intersect DOMAIN t.queue \subseteq With(t, "done")
      BY <1>3, <2>9 DEF JobWorks, KnowsResults, Working, Writing
    <3>1. s.publication \in {"pending", "building"} /\ KnowsResults(s, job.out)
      BY <1>1, <2>2 DEF Relies, JobWorks, Writing
    <3>2. ASSUME NEW i \in DOMAIN raw
          PROVE  ResultUnits(i)' \intersect DOMAIN t.queue \subseteq With(t, "done")
      <4>1. CASE i = job.out
        BY <2>6, <2>7, <4>1
      <4>2. CASE i # job.out
        BY <2>6, <2>7, <3>1, <4>2 DEF KnowsResults
      <4> QED
        BY <4>1, <4>2
    <3> QED
      BY <2>6, <3>1, <3>2
  <2>14. WaveIsOpen(j)'
    <3> SUFFICES ASSUME job.back = "wave"
                 PROVE  job.wave \subseteq DOMAIN t.queue /\ job.wave \intersect With(t, "done") = {}
      BY <2>9 DEF WaveIsOpen
    <3>1. /\ job.wave \subseteq DOMAIN s.queue /\ job.wave \intersect With(s, "done") = {}
          /\ ResultUnits(job.out) \intersect job.wave = {}
      BY <1>1, <2>2 DEF Relies, WaveIsOpen, Writing
    <3> QED
      BY <2>6, <2>7, <3>1
  <2>15. JobPublishes(j)'
    BY <2>9 DEF JobPublishes, Publishing
  <2>16. job' = j
    BY <2>4, <2>8
  <2> QED
    BY <1>5, <1>6, <2>9, <2>11, <2>12, <2>13, <2>14, <2>15, <2>16
       DEF RunInv, JobInv, Relies, IsJob
<1> QED
  BY <1>7, <1>8

-----------------------------------------------------------------------------
(* Reconciliation.                                                         *)

(* What is in the log before the first unclaimed segment of a run, or      *)
(* anywhere when nothing is unclaimed, the run has done.                   *)
LEMMA NothingIsUnclaimed ==
  ASSUME LogInv, NEW r \in Runs, NEW s, s = checkpoints[r], Orphans(r, s) = {}
  PROVE  KnowsResults(s, 0)
<1>1. /\ IsState(s) /\ Follows(r, s) /\ IsPlan(plans[r])
      /\ plans[r].source \in Nat /\ plans[r].source <= Len(raw)
      /\ DOMAIN raw = 1 .. Len(raw) /\ Len(raw) \in Nat
  BY ListFacts DEF LogInv, Shape, CheckpointsFollow, IsPlan
<1> SUFFICES ASSUME NEW i \in DOMAIN raw, raw[i].kind = "queue"
             PROVE  ResultUnits(i) \intersect DOMAIN s.queue \subseteq With(s, "done")
  BY DEF KnowsResults, ResultUnits
<1>2. CASE i \in 1 .. plans[r].source
  BY <1>1, <1>2 DEF LogInv, PlansKnowResults, Follows
<1>3. CASE i \in (plans[r].source + 1) .. Len(raw)
  <2>1. CASE i \in ClaimedKeys(r)
    <3>1. PICK k \in Kinds : i \in Range(Frontier(r, k))
      BY <2>1 DEF ClaimedKeys
    <3>2. /\ results[r][k] \in Seq(Nat) /\ s.outputs[k] \in Nat
          /\ \A n \in 1 .. s.outputs[k] :
               /\ n \in DOMAIN results[r][k]
               /\ results[r][k][n] \in DOMAIN raw /\ raw[results[r][k][n]].kind = k
      <4>1. results[r] \in [Kinds -> Seq(Nat)]
        BY ListFacts DEF LogInv, Shape, Runs
      <4>2. results[r][k] \in Seq(Nat)
        BY <4>1
      <4>3. s.outputs[k] \in Nat
        BY <1>1 DEF IsState
      <4> QED
        BY <1>1, <4>2, <4>3, CountedClaims DEF LogInv
    <3>3. Frontier(r, k) = SubSeq(results[r][k], 1, s.outputs[k])
      BY DEF Frontier
    <3>4. /\ DOMAIN Frontier(r, k) = 1 .. s.outputs[k]
          /\ \A n \in 1 .. s.outputs[k] : Frontier(r, k)[n] = results[r][k][n]
      <4>1. \A n \in 1 .. s.outputs[k] : results[r][k][n] \in Nat
        BY <3>2
      <4>2. PICK m, q : m \in Nat /\ m = s.outputs[k] /\ q = results[r][k]
        BY <3>2
      <4>3. PICK f : f = SubSeq(q, 1, m)
        OBVIOUS
      <4>4. /\ f \in Seq(Nat) /\ Len(f) = m
            /\ \A n \in 1 .. m : f[n] = q[n]
        <5>1. \A n \in 1 .. m : q[n] \in Nat
          BY <4>1, <4>2
        <5>2. /\ f \in Seq(Nat) /\ Len(f) = (IF 1 <= m THEN m - 1 + 1 ELSE 0)
              /\ \A n \in 1 .. m - 1 + 1 : f[n] = q[1 + n - 1]
          BY <4>2, <4>3, <5>1, SubSeqProperties
        <5> QED
          BY <4>2, <5>2
      <4> QED
        BY <3>3, <4>2, <4>3, <4>4, LenProperties
    <3>5. PICK n \in 1 .. s.outputs[k] : i = results[r][k][n]
      BY <3>1, <3>4 DEF Range
    <3>6. k = "queue"
      BY <3>2, <3>5
    <3> QED
      BY <1>1, <3>5, <3>6 DEF Follows
  <2>2. CASE i \notin ClaimedKeys(r)
    <3>1. ~ OutputsFromSegment(r, s, raw[i])
      BY <1>3, <2>2 DEF Orphans
    <3>2. DOMAIN raw[i].entries \intersect DOMAIN plans[r].queue = {}
      BY <3>1 DEF OutputsFromSegment
    <3> QED
      BY <1>1, <3>2 DEF ResultUnits, Follows
  <2> QED
    BY <2>1, <2>2
<1> QED
  BY <1>1, <1>2, <1>3

LEMMA FirstOrphan ==
  ASSUME LogInv, NEW r \in Runs, NEW s, Orphans(r, s) # {}
  PROVE  /\ Min(Orphans(r, s)) \in DOMAIN raw
         /\ raw[Min(Orphans(r, s))].kind \in Kinds
<1>1. /\ plans[r].source \in Nat
      /\ DOMAIN raw = 1 .. Len(raw) /\ Len(raw) \in Nat
  BY ListFacts DEF LogInv, Shape, IsPlan
<1>2. Orphans(r, s) \subseteq DOMAIN raw /\ Orphans(r, s) \subseteq Nat
  BY <1>1 DEF Orphans
<1>3. Min(Orphans(r, s)) \in Orphans(r, s)
  <2>1. PICK S : S = Orphans(r, s)
    OBVIOUS
  <2> QED
    BY <1>2, <2>1, LeastExists
<1>4. \A i \in Orphans(r, s) : raw[i].kind \in Kinds
  BY DEF Orphans, OutputsFromSegment, Kinds
<1> QED
  BY <1>2, <1>3, <1>4

LEMMA ReconcileKeeps ==
  ASSUME RunInv, Reconcile
  PROVE  RunInv'
<1>1. /\ IsJob(job) /\ job.pc = "reconcile" /\ JobFollows(job) /\ LogInv
      /\ UNCHANGED Durable
  BY DEF RunInv, JobInv, Reconcile, Relies
<1>2. /\ job.run \in Runs /\ job.run = ActiveRun /\ job.state = checkpoints[job.run]
      /\ IsState(job.state)
  BY <1>1 DEF JobFollows
<1>3. CASE Orphans(job.run, job.state) # {}
  <2>1. PICK out : out = Min(Orphans(job.run, job.state))
    OBVIOUS
  <2>2. PICK j : j = [job EXCEPT !.pc = "claim", !.out = out, !.back = "reconcile"]
    OBVIOUS
  <2>3. job' = j
    BY <1>3, <2>1, <2>2 DEF Reconcile
  <2>4. out \in DOMAIN raw /\ raw[out].kind \in Kinds
    BY <1>1, <1>2, <1>3, <2>1, FirstOrphan
  <2>5. /\ IsJob(j) /\ j.pc = "claim" /\ j.out = out /\ j.back = "reconcile"
        /\ j.run = job.run /\ j.state = job.state
    BY <1>1, <2>2 DEF IsJob, Pcs, Writing
  <2>6. Relies(j)
    BY <1>1, <1>2, <2>4, <2>5
       DEF Relies, JobFollows, JobWrites, JobWorks, WaveIsOpen, JobPublishes, Writing, Working,
           Publishing
  <2> QED
    BY <1>1, <2>3, <2>5, <2>6, Moves
<1>4. CASE Orphans(job.run, job.state) = {}
  <2>1. PICK pc : pc = IF job.state.publication \in {"pending", "building"}
                       THEN "tick" ELSE job.state.publication
    OBVIOUS
  <2>2. /\ pc \in {"tick", "uploaded", "verified", "published"}
        /\ pc = "tick" => job.state.publication \in {"pending", "building"}
        /\ pc # "tick" => job.state.publication = pc
    BY <1>2, <2>1 DEF IsState, Publications
  <2>3. PICK j : j = [job EXCEPT !.pc = pc]
    OBVIOUS
  <2>4. job' = j
    BY <1>4, <2>1, <2>3 DEF Reconcile, Goto
  <2>5. pc \in Pcs
    BY <2>2 DEF Pcs, Working, Publishing
  <2>6. /\ IsJob(j) /\ j.pc = pc /\ j.run = job.run /\ j.state = job.state
    BY <1>1, <2>3, <2>5, JobGoesOn
  <2>7. KnowsResults(job.state, 0)
    BY <1>1, <1>2, <1>4, NothingIsUnclaimed
  <2>8. Relies(j)
    BY <1>1, <1>2, <2>2, <2>6, <2>7
       DEF Relies, JobFollows, JobWrites, JobWorks, WaveIsOpen, JobPublishes, Writing, Working,
           Publishing
  <2> QED
    BY <1>1, <2>4, <2>6, <2>8, Moves
<1> QED
  BY <1>3, <1>4

-----------------------------------------------------------------------------
(* The work of a tick.                                                     *)

(* The segments a job makes. *)
LEMMA EntriesSegment ==
  ASSUME NEW kind \in Kinds, NEW e, IsQueue(e), NEW names,
         kind = "attempt" => \A u \in DOMAIN e : e[u].status # "done",
         kind = "queue" => \A u \in DOMAIN e : e[u].status = "done",
         kind \in {"registry", "receipt"} => DOMAIN e = {}
  PROVE  /\ IsSegment(Segment(kind, e, names))
         /\ Segment(kind, e, names).kind = kind
         /\ Segment(kind, e, names).entries = e
<1>1. PICK seg : seg = Segment(kind, e, names)
  OBVIOUS
<1>2. /\ seg.kind = kind /\ seg.entries = e /\ seg.names = names
      /\ seg = [kind |-> seg.kind, entries |-> seg.entries, names |-> seg.names]
  BY <1>1 DEF Segment
<1>3. IsSegment(seg)
  BY <1>2 DEF IsSegment
<1> QED
  BY <1>1, <1>2, <1>3

LEMMA EmptySegment ==
  ASSUME NEW kind \in {"registry", "receipt"}, NEW names
  PROVE  /\ IsSegment(Segment(kind, NoEntries, names))
         /\ Segment(kind, NoEntries, names).kind = kind
<1>1. IsQueue(NoEntries) /\ DOMAIN NoEntries = {}
  BY DEF NoEntries, IsQueue
<1>2. kind \in Kinds /\ kind # "attempt" /\ kind # "queue"
  BY DEF Kinds
<1> QED
  BY <1>1, <1>2, EntriesSegment

(* Units of the run's queue that are not done: what may be sent.           *)
Open(state) == DOMAIN state.queue \ With(state, "done")

LEMMA JobState ==
  ASSUME RunInv, job.pc # "idle"
  PROVE  /\ IsJob(job) /\ Relies(job) /\ IsState(job.state)
         /\ DOMAIN job.state.queue \subseteq Units
BY DEF RunInv, JobInv, Relies, JobFollows, IsState, IsQueue

LEMMA DispatchWaveKeeps ==
  ASSUME RunInv, DispatchWave
  PROVE  RunInv'
<1>1. job.pc = "tick" /\ IsJob(job) /\ DOMAIN job.state.queue \subseteq Units
  BY JobState DEF DispatchWave
<1>2. PICK wave \in (SUBSET Claimable) \ {{}} :
        /\ raw' = Append(raw, Reservation(wave))
        /\ job' = [job EXCEPT !.pc = "claim", !.out = Len(raw'),
                              !.back = "wave", !.wave = wave]
  BY DEF DispatchWave
<1>3. wave \subseteq Open(job.state)
  BY DEF Claimable, Owed, With, Open
<1>4. PICK seg : seg = Reservation(wave)
  OBVIOUS
<1>5. IsSegment(seg) /\ seg.kind = "attempt" /\ DOMAIN seg.entries = wave
  <2> DEFINE attempt(u) == LeastOf(job.state.queue[u].attempts + 1, MaxAttempts)
  <2>1. PICK e : e = [u \in wave |-> Entry("retrying", attempt(u))]
    OBVIOUS
  <2>2. IsQueue(e) /\ DOMAIN e = wave /\ \A u \in wave : e[u].status # "done"
    BY <1>1, <1>3, <2>1 DEF Entry, Open, IsQueue
  <2>3. seg = Segment("attempt", e, {})
    BY <1>4, <2>1 DEF Reservation
  <2> QED
    BY <2>2, <2>3, EntriesSegment DEF Kinds
<1>6. PICK j : j = [job EXCEPT !.pc = "claim", !.out = Len(raw'), !.back = "wave",
                               !.wave = wave]
  OBVIOUS
<1>7. /\ IsJob(j) /\ j.pc = "claim" /\ j.out = Len(raw') /\ j.back = "wave" /\ j.wave = wave
      /\ j.run = job.run /\ j.state = job.state /\ job' = j
  BY <1>1, <1>2, <1>6 DEF IsJob, Pcs, Writing
<1>8. UNCHANGED <<plans, results, checkpoints, successors, active, current>>
  BY DEF DispatchWave, Published
<1> QED
  BY <1>1, <1>2, <1>3, <1>4, <1>5, <1>7, <1>8, OutputStarts DEF Open, Working, Kinds

(* The answers, or the failures, of units of the wave are stored.          *)
LEMMA SettlementKeeps ==
  ASSUME RunInv, job.pc = "wave", NEW units \in SUBSET job.wave, NEW seg,
         IsSegment(seg), seg.kind \in {"queue", "attempt"}, DOMAIN seg.entries = units,
         raw' = Append(raw, seg), Settle(units, AfterSettling(units)),
         UNCHANGED <<plans, results, checkpoints, successors, active, current>>
  PROVE  RunInv'
<1>1. /\ IsJob(job) /\ job.wave \subseteq Open(job.state)
  BY JobState DEF Relies, WaveIsOpen, Open
<1>2. PICK j : j = [job EXCEPT !.pc = "claim", !.out = Len(raw'),
                               !.back = AfterSettling(units),
                               !.wave = job.wave \ units, !.settled = job.settled \union units]
  OBVIOUS
<1>3. /\ IsJob(j) /\ j.pc = "claim" /\ j.out = Len(raw') /\ j.back = AfterSettling(units)
      /\ j.wave = job.wave \ units /\ j.run = job.run /\ j.state = job.state /\ job' = j
  BY <1>1, <1>2 DEF IsJob, Pcs, Writing, Settle
<1>4. j.back \in {"tick", "wave"}
  BY <1>3 DEF AfterSettling
<1> QED
  BY <1>1, <1>3, <1>4, OutputStarts DEF Open, Working, Kinds

LEMMA PersistAndApplyKeeps ==
  ASSUME RunInv, PersistAndApply
  PROVE  RunInv'
<1>1. job.pc = "wave" /\ job.wave \subseteq Units
  BY JobState DEF PersistAndApply, Relies, WaveIsOpen
<1>2. PICK units \in SUBSET job.wave :
        raw' = Append(raw, ResultsOf(units)) /\ Settle(units, AfterSettling(units))
  BY DEF PersistAndApply
<1>3. PICK seg : seg = ResultsOf(units)
  OBVIOUS
<1>4. PICK e : e = [u \in units |-> Entry("done", 0)]
  OBVIOUS
<1>5. IsSegment(seg) /\ seg.kind = "queue" /\ DOMAIN seg.entries = units
  <2>1. IsQueue(e) /\ DOMAIN e = units /\ \A u \in units : e[u].status = "done"
    BY <1>1, <1>4 DEF Entry, IsQueue
  <2> QED
    BY <1>1, <1>3, <1>4, <2>1, EntriesSegment DEF ResultsOf, Kinds
<1> QED
  BY <1>1, <1>2, <1>3, <1>5, SettlementKeeps DEF PersistAndApply, Published

LEMMA FailAttemptKeeps ==
  ASSUME RunInv, FailAttempt
  PROVE  RunInv'
<1>1. job.pc = "wave" /\ job.wave \subseteq Units
  BY JobState DEF FailAttempt, Relies, WaveIsOpen
<1>2. PICK u \in job.wave :
        raw' = Append(raw, FailedAttempt(u)) /\ Settle({u}, AfterSettling({u}))
  BY DEF FailAttempt
<1>3. PICK seg : seg = FailedAttempt(u)
  OBVIOUS
<1>4. PICK e : e = [v \in {u} |-> AttemptError(job.state.queue[u].attempts)]
  OBVIOUS
<1>5. IsSegment(seg) /\ seg.kind = "attempt" /\ DOMAIN seg.entries = {u}
  <2>1. IsQueue(e) /\ DOMAIN e = {u} /\ \A v \in {u} : e[v].status # "done"
    BY <1>1, <1>4 DEF AttemptError, Entry, IsQueue
  <2> QED
    BY <1>1, <1>3, <1>4, <2>1, EntriesSegment DEF FailedAttempt, Kinds
<1>6. {u} \in SUBSET job.wave
  OBVIOUS
<1> QED
  BY <1>1, <1>2, <1>3, <1>5, <1>6, SettlementKeeps DEF FailAttempt, Published

(* A segment without units. *)
LEMMA OutputKeeps ==
  ASSUME RunInv, job.pc \in {"registry", "receipt"}, NEW kind \in {"registry", "receipt"},
         NEW names, NEW back \in {"registry", "ticked"},
         Output(Segment(kind, NoEntries, names), back),
         UNCHANGED <<plans, results, checkpoints, successors, active, current>>
  PROVE  RunInv'
<1>1. IsJob(job)
  BY JobState
<1>2. PICK seg : seg = Segment(kind, NoEntries, names)
  OBVIOUS
<1>3. IsSegment(seg) /\ seg.kind = kind
  BY <1>2, EmptySegment
<1>4. PICK j : j = [job EXCEPT !.pc = "claim", !.out = Len(raw'), !.back = back]
  OBVIOUS
<1>5. raw' = Append(raw, seg) /\ job' = j
  BY <1>2, <1>4 DEF Output
<1>6. /\ IsJob(j) /\ j.pc = "claim" /\ j.out = Len(raw') /\ j.back = back
      /\ j.run = job.run /\ j.state = job.state
  BY <1>1, <1>4 DEF IsJob, Pcs, Writing
<1> QED
  BY <1>3, <1>5, <1>6, OutputStarts DEF Working, Kinds

LEMMA PersistRegistryDecisionsKeeps ==
  ASSUME RunInv, PersistRegistryDecisions
  PROVE  RunInv'
<1>1. PICK last \in (job.state.next + 1) .. job.state.names :
        Output(Segment("registry", NoEntries, (job.state.next + 1) .. last), "registry")
  BY DEF PersistRegistryDecisions
<1>2. PICK names : names = (job.state.next + 1) .. last
  OBVIOUS
<1>3. Output(Segment("registry", NoEntries, names), "registry")
  BY <1>1, <1>2
<1>4. job.pc = "registry"
      /\ UNCHANGED <<plans, results, checkpoints, successors, active, current>>
  BY DEF PersistRegistryDecisions, Published
<1> QED
  BY <1>3, <1>4, OutputKeeps

LEMMA WriteReceiptKeeps ==
  ASSUME RunInv, WriteReceipt
  PROVE  RunInv'
<1>1. /\ job.pc = "receipt" /\ Output(Segment("receipt", NoEntries, {}), "ticked")
      /\ UNCHANGED <<plans, results, checkpoints, successors, active, current>>
  BY DEF WriteReceipt, Published
<1> QED
  BY <1>1, OutputKeeps

(* A working job goes on with something else and writes nothing.           *)
LEMMA WorkGoesOn ==
  ASSUME RunInv, job.pc \in Working, NEW pc \in Working \ {"wave"}, Goto(pc), UNCHANGED Durable
  PROVE  RunInv'
<1>1. IsJob(job) /\ Relies(job) /\ pc \in Pcs
  BY JobState DEF Working, Pcs
<1>2. PICK j : j = [job EXCEPT !.pc = pc]
  OBVIOUS
<1>3. IsJob(j) /\ j.pc = pc /\ j.run = job.run /\ j.state = job.state
  BY <1>1, <1>2, JobGoesOn
<1>4. job' = j
  BY <1>2 DEF Goto
<1>5. Relies(j)
  BY <1>1, <1>3
     DEF Relies, JobFollows, JobWrites, JobWorks, WaveIsOpen, JobPublishes, Writing, Working,
         Publishing
<1> QED
  BY <1>3, <1>4, <1>5, Moves

LEMMA TickKeeps ==
  ASSUME RunInv, EndQueue \/ CeilingHit \/ EndRegistry
  PROVE  RunInv'
<1>1. /\ job.pc \in Working /\ UNCHANGED Durable
      /\ Goto("registry") \/ Goto("receipt")
  BY DEF EndQueue, CeilingHit, EndRegistry, Working
<1> QED
  BY <1>1, WorkGoesOn DEF Working

(* A job that ends writes nothing.                                         *)
LEMMA EndKeeps ==
  ASSUME RunInv, EndJob, UNCHANGED Durable
  PROVE  RunInv'
BY JobEnds, DurableStays DEF RunInv

LEMMA CommitOutputKeeps ==
  ASSUME RunInv, CommitOutput
  PROVE  RunInv'
<1>1. /\ job.pc = "commit" /\ IsJob(job) /\ Relies(job) /\ IsState(job.state)
      /\ CommitCheckpoint(job.state, job.back)
      /\ UNCHANGED <<raw, plans, results, successors, active, current>>
  BY JobState DEF CommitOutput, Published
<1>2. PICK s, pc : s = job.state /\ pc = job.back
  OBVIOUS
<1>3. /\ pc \in Working \union {"reconcile"}
      /\ Follows(job.run, s) /\ IsState(s) /\ CommitCheckpoint(s, pc)
  BY <1>1, <1>2 DEF Relies, JobFollows, JobWrites, Writing
<1>4. s.publication = "published" => current.run = job.run
  BY <1>1, <1>2 DEF Relies, JobFollows, RunInv, ChainInv, IndexIsCurrent
<1>5. /\ pc \in Working =>
           s.publication \in {"pending", "building"} /\ KnowsResults(s, 0)
      /\ pc = "wave" =>
           job.wave \subseteq DOMAIN s.queue /\ job.wave \intersect With(s, "done") = {}
  BY <1>1, <1>2 DEF Relies, JobWorks, WaveIsOpen, Writing, Working
<1>6. pc \notin Publishing
  BY <1>3 DEF Publishing, Working
<1> QED
  BY <1>1, <1>3, <1>4, <1>5, <1>6, CheckpointCommitted

-----------------------------------------------------------------------------
(* Publication.                                                            *)

(* The job records how far the publication of the active run has come. *)
LEMMA PublicationKeeps ==
  ASSUME RunInv, job.pc \notin {"idle", "activated"}, NEW pc \in Publishing, NEW d, NEW s,
         s = [SetPublicationState(job.state, pc) EXCEPT !.database = d],
         CommitCheckpoint(s, pc), pc = "published" => current.run = job.run,
         UNCHANGED <<raw, plans, results, successors, active, current>>
  PROVE  RunInv'
<1>1. Relies(job) /\ IsState(job.state) /\ Follows(job.run, job.state)
  BY JobState DEF Relies, JobFollows
<1>2. pc \in Publications
  BY DEF Publishing, Publications
<1>3. PICK state, q : state = job.state /\ q = job.run
  OBVIOUS
<1>4. /\ IsState(state) /\ Follows(q, state)
      /\ s = [SetPublicationState(state, pc) EXCEPT !.database = d]
  BY <1>1, <1>3
<1>5. s = [queue |-> state.queue, next |-> state.next, names |-> state.names,
           outputs |-> state.outputs, publication |-> pc, database |-> d]
  <2>1. state = [queue |-> state.queue, next |-> state.next, names |-> state.names,
             outputs |-> state.outputs, publication |-> state.publication,
             database |-> state.database]
    BY <1>4 DEF IsState
  <2>2. SetPublicationState(state, pc) =
          [queue |-> state.queue, next |-> state.next, names |-> state.names,
           outputs |-> state.outputs, publication |-> pc, database |-> state.database]
    BY <2>1 DEF SetPublicationState
  <2>3. PICK x : x = SetPublicationState(state, pc)
    OBVIOUS
  <2>4. s = [x EXCEPT !.database = d]
    BY <1>4, <2>3
  <2>5. x = [queue |-> state.queue, next |-> state.next, names |-> state.names,
             outputs |-> state.outputs, publication |-> pc, database |-> state.database]
    BY <2>2, <2>3
  <2> QED
    BY <2>4, <2>5
<1>6. IsState(s) /\ s.publication = pc /\ Follows(q, s)
  BY <1>2, <1>4, <1>5, PublicationSet
<1>7. Follows(job.run, s)
  BY <1>3, <1>6
<1>8. pc \notin Working
  BY DEF Publishing, Working
<1> QED
  BY <1>6, <1>7, <1>8, CheckpointCommitted DEF Working

LEMMA SamePublication ==
  ASSUME NEW state, IsState(state), NEW p
  PROVE  SetPublicationState(state, p) =
           [SetPublicationState(state, p) EXCEPT !.database = state.database]
<1>1. SetPublicationState(state, p) =
        [queue |-> state.queue, next |-> state.next, names |-> state.names,
         outputs |-> state.outputs, publication |-> p, database |-> state.database]
  <2>1. state = [queue |-> state.queue, next |-> state.next, names |-> state.names,
                 outputs |-> state.outputs, publication |-> state.publication,
                 database |-> state.database]
    BY DEF IsState
  <2> QED
    BY <2>1 DEF SetPublicationState
<1> QED
  BY <1>1

LEMMA RecordedKeeps ==
  ASSUME RunInv, job.pc \notin {"idle", "activated"}, NEW pc \in Publishing,
         CommitCheckpoint(SetPublicationState(job.state, pc), pc),
         pc = "published" => current.run = job.run,
         UNCHANGED <<raw, plans, results, successors, active, current>>
  PROVE  RunInv'
<1>1. PICK s, d : s = SetPublicationState(job.state, pc) /\ d = job.state.database
  OBVIOUS
<1>2. s = [SetPublicationState(job.state, pc) EXCEPT !.database = d]
  BY <1>1, JobState, SamePublication
<1>3. CommitCheckpoint(s, pc)
  BY <1>1
<1> QED
  BY <1>2, <1>3, PublicationKeeps

LEMMA PublicationStepKeeps ==
  ASSUME RunInv, BeginPublication \/ VerifyDatabase \/ CommitPublished
  PROVE  RunInv'
<1>1. CASE BeginPublication
  BY <1>1, RecordedKeeps DEF BeginPublication, Published, Publishing
<1>2. CASE VerifyDatabase
  BY <1>2, RecordedKeeps DEF VerifyDatabase, Published, Publishing
<1>3. CASE CommitPublished
  <2>1. job.pc = "swapped" /\ current.run = job.run
    BY <1>3, JobState DEF CommitPublished, Relies, JobPublishes
  <2> QED
    BY <1>3, <2>1, RecordedKeeps DEF CommitPublished, Published, Publishing
<1> QED
  BY <1>1, <1>2, <1>3

LEMMA UploadDatabaseKeeps ==
  ASSUME RunInv, UploadDatabase
  PROVE  RunInv'
<1>1. PICK d : d = current.segments \union (1 .. plans[job.run].source)
                     \union ClaimedKeys(job.run)
  OBVIOUS
<1>2. PICK s : s = [SetPublicationState(job.state, "uploaded") EXCEPT !.database = d]
  OBVIOUS
<1>3. /\ job.pc = "building"
      /\ UNCHANGED <<raw, plans, results, successors, active, current>>
  BY DEF UploadDatabase, Published
<1>4. CASE CommitCheckpoint(s, "uploaded")
  BY <1>2, <1>3, <1>4, PublicationKeeps DEF Publishing
<1>5. CASE EndJob /\ UNCHANGED checkpoints
  BY <1>3, <1>5, EndKeeps DEF Durable
<1> QED
  BY <1>1, <1>2, <1>4, <1>5 DEF UploadDatabase

LEMMA SwapManifestKeeps ==
  ASSUME RunInv, SwapManifest
  PROVE  RunInv'
<1> DEFINE manifest == [run |-> job.run, segments |-> job.state.database]
<1>1. /\ job.pc = "verified" /\ IsJob(job) /\ Relies(job)
      /\ UNCHANGED <<raw, plans, results, checkpoints, successors, active>>
  BY JobState DEF SwapManifest
<1>2. CASE UNCHANGED current /\ EndJob
  BY <1>1, <1>2, EndKeeps DEF Durable
<1>3. CASE (current' = manifest \/ (UNCHANGED current /\ current = manifest)) /\ Goto("swapped")
  <2>1. current'.run = job.run
    <3>1. manifest.run = job.run /\ current' = manifest
      BY <1>3
    <3> QED
      BY <3>1
  <2>2. LogInv'
    BY <1>1, LogStays DEF RunInv, LogInv, Shape
  <2>3. ChainInv'
    <3>1. job.run = ActiveRun
      BY <1>1 DEF Relies, JobFollows
    <3>2. IndexIsCurrent'
      BY <1>1, <2>1, <3>1 DEF IndexIsCurrent, ActiveRun
    <3> QED
      BY <1>1, <3>2 DEF RunInv, ChainInv, SuccessorsFollow, ActivationsAscend,
                        LaterRunsArePending, Chained, ActiveRun, Runs
  <2>4. PICK j : j = [job EXCEPT !.pc = "swapped"]
    OBVIOUS
  <2>5. /\ IsJob(j) /\ j.pc = "swapped" /\ j.run = job.run /\ j.state = job.state /\ job' = j
    BY <1>1, <1>3, <2>4, JobGoesOn DEF Pcs, Goto
  <2>6. JobFollows(j)'
    BY <1>1, <2>5 DEF Relies, JobFollows, Follows, Runs, ResultUnits, ActiveRun, IsState, IsQueue
  <2>7. JobWrites(j)' /\ JobWorks(j)' /\ WaveIsOpen(j)' /\ JobPublishes(j)'
    BY <2>1, <2>5 DEF JobWrites, JobWorks, WaveIsOpen, JobPublishes, Writing, Working, Publishing
  <2> QED
    BY <2>2, <2>3, <2>5, <2>6, <2>7 DEF RunInv, JobInv, Relies, IsJob
<1> QED
  BY <1>2, <1>3 DEF SwapManifest

-----------------------------------------------------------------------------
(* The successor.                                                          *)

LEMMA PlanAdded ==
  ASSUME RunInv, BootstrapSuccessor
  PROVE  /\ Shape' /\ Len(plans') = Len(plans) + 1
         /\ DOMAIN plans = 1 .. Len(plans) /\ Len(plans) \in Nat
         /\ DOMAIN plans' = 1 .. Len(plans) + 1
         /\ UNCHANGED <<raw, active, current>>
         /\ \A r \in DOMAIN plans :
              /\ plans'[r] = plans[r] /\ results'[r] = results[r]
              /\ checkpoints'[r] = checkpoints[r] /\ successors'[r] = successors[r]
         /\ plans'[Len(plans) + 1] = Plan(Len(raw), QueueAt(Len(raw)),
              Cardinality(Enriched(Len(raw)) \ Enriched(plans[job.run].source)), current.run)
         /\ results'[Len(plans) + 1] = NoResults
         /\ checkpoints'[Len(plans) + 1] = EmptyState(QueueAt(Len(raw)),
              Cardinality(Enriched(Len(raw)) \ Enriched(plans[job.run].source)))
         /\ successors'[Len(plans) + 1] = 0
<1> DEFINE names == Cardinality(Enriched(Len(raw)) \ Enriched(plans[job.run].source))
<1>1. PICK p, c : /\ p = Plan(Len(raw), QueueAt(Len(raw)), names, current.run)
                  /\ c = EmptyState(QueueAt(Len(raw)), names)
  OBVIOUS
<1> HIDE DEF names
<1>2. /\ plans' = Append(plans, p) /\ results' = Append(results, NoResults)
      /\ checkpoints' = Append(checkpoints, c) /\ successors' = Append(successors, 0)
      /\ UNCHANGED <<raw, active, current>>
  BY <1>1 DEF BootstrapSuccessor, names
<1>3. /\ Shape /\ Len(raw) \in Nat /\ Len(plans) \in Nat /\ DOMAIN plans = 1 .. Len(plans)
  BY ListFacts DEF RunInv, LogInv, Shape
<1>4. IsQueue(QueueAt(Len(raw)))
  BY DEF IsQueue, QueueAt, Captured
<1>5. IsPlan(p) /\ p.source = Len(raw)
  <2>1. PICK queue, base : queue = QueueAt(Len(raw)) /\ base = current.run
    OBVIOUS
  <2>2. IsQueue(queue) /\ p = Plan(Len(raw), queue, names, base)
    BY <1>1, <1>4, <2>1
  <2> QED
    BY <1>3, <2>2 DEF IsPlan, Plan
<1>6. IsState(c)
  <2>1. PICK queue : queue = QueueAt(Len(raw))
    OBVIOUS
  <2>2. IsQueue(queue) /\ c = EmptyState(queue, names)
    BY <1>1, <1>4, <2>1
  <2> QED
    BY <2>2 DEF IsState, EmptyState, Publications
<1>7. /\ IsList(plans)' /\ Len(plans') = Len(plans) + 1 /\ DOMAIN plans' = 1 .. Len(plans) + 1
      /\ \A r \in DOMAIN plans : plans'[r] = plans[r]
      /\ plans'[Len(plans) + 1] = p
  <2>1. PICK l : l = Append(plans, p)
    OBVIOUS
  <2>2. /\ IsList(l) /\ Len(l) = Len(plans) + 1 /\ DOMAIN l = 1 .. Len(plans) + 1
        /\ \A r \in DOMAIN plans : l[r] = plans[r]
        /\ l[Len(plans) + 1] = p
    BY <1>3, <2>1, Appended DEF Shape
  <2>3. plans' = l
    BY <1>2, <2>1
  <2>4. IsList(plans)'
    BY <2>2, <2>3 DEF IsList
  <2> QED
    BY <2>2, <2>3, <2>4
<1>8. /\ IsList(checkpoints)' /\ Len(checkpoints') = Len(plans) + 1
      /\ \A r \in DOMAIN plans : checkpoints'[r] = checkpoints[r]
      /\ checkpoints'[Len(plans) + 1] = c
  <2>1. PICK l : l = Append(checkpoints, c)
    OBVIOUS
  <2>2. /\ IsList(l) /\ Len(l) = Len(plans) + 1
        /\ \A r \in DOMAIN plans : l[r] = checkpoints[r]
        /\ l[Len(plans) + 1] = c
    BY <1>3, <2>1, Appended, ListFacts DEF Shape
  <2>3. checkpoints' = l
    BY <1>2, <2>1
  <2>4. IsList(checkpoints)'
    BY <2>2, <2>3 DEF IsList
  <2> QED
    BY <2>2, <2>3, <2>4
<1>9. /\ results' \in Seq([Kinds -> Seq(Nat)]) /\ Len(results') = Len(plans) + 1
      /\ \A r \in DOMAIN plans : results'[r] = results[r]
      /\ results'[Len(plans) + 1] = NoResults
  <2>1. NoResults \in [Kinds -> Seq(Nat)]
    BY DEF NoResults
  <2> QED
    BY <1>2, <1>3, <2>1, AppendProperties DEF Shape
<1>10. /\ successors' \in Seq(Nat) /\ Len(successors') = Len(plans) + 1
       /\ \A r \in DOMAIN plans : successors'[r] = successors[r]
       /\ successors'[Len(plans) + 1] = 0
  BY <1>2, <1>3, AppendProperties DEF Shape
<1>11. Shape'
  <2>1. /\ IsList(raw)' /\ (\A i \in DOMAIN raw : IsSegment(raw[i]))'
        /\ active' \in Seq(Nat) /\ active' # <<>>
        /\ \A g \in DOMAIN active' : active'[g] \in DOMAIN plans'
    BY <1>2, <1>3, <1>7 DEF Shape, Runs
  <2>2. ASSUME NEW r \in DOMAIN plans'
        PROVE  /\ IsPlan(plans[r])' /\ plans'[r].source <= Len(raw)
               /\ IsState(checkpoints[r])'
    <3>1. PICK x, y : x = plans'[r] /\ y = checkpoints'[r]
      OBVIOUS
    <3>2. IsPlan(x) /\ x.source <= Len(raw) /\ IsState(y)
      <4>1. CASE r \in DOMAIN plans
        BY <1>3, <1>7, <1>8, <3>1, <4>1 DEF Shape, Runs
      <4>2. CASE r = Len(plans) + 1
        BY <1>3, <1>5, <1>6, <1>7, <1>8, <3>1, <4>2
      <4> QED
        BY <1>3, <1>7, <4>1, <4>2
    <3>3. IsPlan(plans[r])' /\ IsState(checkpoints[r])'
      BY <3>1, <3>2 DEF IsPlan, IsState, IsQueue
    <3> QED
      BY <3>1, <3>2, <3>3
  <2>3. (\A r \in Runs : IsPlan(plans[r]) /\ plans[r].source <= Len(raw))'
    BY <1>2, <2>2 DEF Runs
  <2>4. (\A r \in Runs : IsState(checkpoints[r]))'
    BY <2>2 DEF Runs
  <2> QED
    BY <1>7, <1>8, <1>9, <1>10, <2>1, <2>3, <2>4 DEF Shape, Runs
<1> QED
  BY <1>1, <1>2, <1>3, <1>7, <1>8, <1>9, <1>10, <1>11 DEF names

(* A plan starts with every result there is. *)
LEMMA PlanKnowsResults ==
  ASSUME RunInv, BootstrapSuccessor, NEW i \in DOMAIN raw
  PROVE  ResultUnits(i) \intersect DOMAIN QueueAt(Len(raw))
           \subseteq {u \in DOMAIN QueueAt(Len(raw)) : QueueAt(Len(raw))[u].status = "done"}
<1> SUFFICES ASSUME NEW u \in ResultUnits(i), u \in DOMAIN QueueAt(Len(raw))
             PROVE  QueueAt(Len(raw))[u].status = "done"
  OBVIOUS
<1>1. u \in Captured(Len(raw)) /\ u \in Units
  BY DEF QueueAt, Captured
<1>2. i \in 1 .. Len(raw)
  BY ListFacts DEF RunInv, LogInv, Shape
<1>3. u \in Enriched(Len(raw))
  BY <1>1, <1>2 DEF Enriched, Mentions, ResultUnits
<1>4. QueueAt(Len(raw))[u] = Entry("done", 0)
  BY <1>1, <1>3 DEF QueueAt
<1> QED
  BY <1>4 DEF Entry

LEMMA BootstrapSuccessorKeeps ==
  ASSUME RunInv, BootstrapSuccessor
  PROVE  RunInv'
<1> DEFINE new == Len(plans) + 1
<1>1. PICK queue : queue = QueueAt(Len(raw))
  OBVIOUS
<1>2. /\ Shape' /\ Len(plans') = new /\ DOMAIN plans = 1 .. Len(plans) /\ Len(plans) \in Nat
      /\ DOMAIN plans' = 1 .. new /\ UNCHANGED <<raw, active, current>>
      /\ \A r \in DOMAIN plans :
           /\ plans'[r] = plans[r] /\ results'[r] = results[r]
           /\ checkpoints'[r] = checkpoints[r] /\ successors'[r] = successors[r]
      /\ plans'[new].source = Len(raw) /\ plans'[new].queue = queue
      /\ plans'[new].base = current.run
      /\ \A k \in Kinds : results'[new][k] = <<>>
      /\ checkpoints'[new].queue = queue /\ checkpoints'[new].publication = "pending"
      /\ \A k \in Kinds : checkpoints'[new].outputs[k] = 0
      /\ successors'[new] = 0
  <2>1. PICK names : checkpoints'[new] = EmptyState(queue, names)
    BY <1>1, PlanAdded
  <2>2. /\ checkpoints'[new].queue = queue /\ checkpoints'[new].publication = "pending"
        /\ \A k \in Kinds : checkpoints'[new].outputs[k] = 0
    BY <2>1 DEF EmptyState
  <2>3. /\ plans'[new].source = Len(raw) /\ plans'[new].queue = queue
        /\ plans'[new].base = current.run
    BY <1>1, PlanAdded DEF Plan
  <2>4. \A k \in Kinds : results'[new][k] = <<>>
    BY PlanAdded DEF NoResults
  <2> QED
    BY <2>2, <2>3, <2>4, PlanAdded
<1> HIDE DEF new
<1>3. /\ new \in Nat /\ new \notin DOMAIN plans /\ DOMAIN plans' = DOMAIN plans \union {new}
      /\ \A r \in DOMAIN plans : r \in Nat /\ r < new
  BY <1>2 DEF new
<1>4. /\ IsJob(job) /\ Relies(job) /\ job.pc = "published" /\ LogInv /\ ChainInv
      /\ DOMAIN raw = 1 .. Len(raw)
  BY JobState, ListFacts DEF BootstrapSuccessor, RunInv, LogInv, Shape
<1>5. /\ job.run \in DOMAIN plans /\ job.run = ActiveRun /\ job.state.publication = "published"
      /\ current.run = job.run
  BY <1>4 DEF Relies, JobFollows, JobPublishes, Publishing, Runs, ChainInv, IndexIsCurrent
<1>6. \A i \in DOMAIN raw :
        ResultUnits(i) \intersect DOMAIN queue \subseteq {u \in DOMAIN queue : queue[u].status = "done"}
  BY <1>1, PlanKnowsResults
<1>7. \A i : ResultUnits(i)' = ResultUnits(i)
  BY <1>2 DEF ResultUnits
<1>8. PlansKnowResults'
  <2> SUFFICES ASSUME NEW r \in DOMAIN plans', NEW i \in 1 .. plans'[r].source
               PROVE  ResultUnits(i) \intersect DOMAIN plans'[r].queue \subseteq With(plans'[r], "done")
    BY <1>7 DEF PlansKnowResults, Runs, With
  <2>1. CASE r \in DOMAIN plans
    BY <1>2, <1>4, <2>1 DEF LogInv, PlansKnowResults, Runs
  <2>2. CASE r = new
    <3>1. i \in DOMAIN raw
      BY <1>2, <1>4, <2>2
    <3> QED
      BY <1>2, <1>6, <2>2, <3>1 DEF With
  <2> QED
    BY <1>3, <2>1, <2>2
<1>9. ClaimsFit'
  <2> SUFFICES ASSUME NEW r \in DOMAIN plans', NEW k \in Kinds, NEW n \in DOMAIN results'[r][k]
               PROVE  results'[r][k][n] \in DOMAIN raw /\ raw[results'[r][k][n]].kind = k
    BY <1>2 DEF ClaimsFit, Runs
  <2>1. CASE r \in DOMAIN plans
    BY <1>2, <1>4, <2>1 DEF LogInv, ClaimsFit, Runs
  <2>2. CASE r = new
    BY <1>2, <2>2
  <2> QED
    BY <1>3, <2>1, <2>2
<1>10. CheckpointsFollow'
  <2> SUFFICES ASSUME NEW r \in DOMAIN plans'
               PROVE  Follows(r, checkpoints[r])'
    BY DEF CheckpointsFollow, Runs
  <2>1. CASE r \in DOMAIN plans
    <3>1. Follows(r, checkpoints[r])
      BY <1>4, <2>1 DEF LogInv, CheckpointsFollow, Runs
    <3> QED
      BY <1>2, <1>7, <2>1, <3>1 DEF Follows, With
  <2>2. CASE r = new
    <3>1. /\ DOMAIN checkpoints'[r].queue = DOMAIN plans'[r].queue
          /\ \A k \in Kinds : checkpoints'[r].outputs[k] <= Len(results'[r][k])
          /\ checkpoints'[r].outputs["queue"] = 0
      BY <1>2, <2>2 DEF Kinds
    <3>2. With(plans'[r], "done") \subseteq With(checkpoints'[r], "done")
      BY <1>2, <2>2 DEF With
    <3> QED
      BY <3>1, <3>2 DEF Follows, With
  <2> QED
    BY <1>3, <2>1, <2>2
<1>11. ResultsArePaidOnce'
  BY <1>2, <1>4 DEF LogInv, ResultsArePaidOnce
<1>12. SuccessorsFollow'
  <2> SUFFICES ASSUME NEW r \in DOMAIN plans', successors'[r] # 0
               PROVE  /\ successors'[r] \in DOMAIN plans' /\ r < successors'[r]
                      /\ plans'[successors'[r]].base = r
    BY DEF SuccessorsFollow, Runs
  <2>1. r \in DOMAIN plans
    BY <1>2, <1>3
  <2> QED
    BY <1>2, <1>3, <1>4, <2>1 DEF ChainInv, SuccessorsFollow, Runs
<1>13. \A g \in DOMAIN active : active[g] \in DOMAIN plans
  BY <1>4 DEF LogInv, Shape, Runs
<1>14. ActivationsAscend' /\ ActiveRun' = ActiveRun
  BY <1>2, <1>4 DEF ChainInv, ActivationsAscend, ActiveRun
<1>15. LaterRunsArePending'
  <2> SUFFICES ASSUME NEW r \in DOMAIN plans', ActiveRun < r
               PROVE  checkpoints'[r].publication = "pending"
    BY <1>14 DEF LaterRunsArePending, Runs
  <2>1. CASE r \in DOMAIN plans
    BY <1>2, <1>4, <2>1 DEF ChainInv, LaterRunsArePending, Runs
  <2>2. CASE r = new
    BY <1>2, <2>2
  <2> QED
    BY <1>3, <2>1, <2>2
<1>16. Chained'
  <2> SUFFICES ASSUME NEW g \in 2 .. Len(active)
               PROVE  /\ active[g] = successors'[active[g - 1]]
                      /\ checkpoints'[active[g - 1]].publication = "published"
                      /\ plans'[active[g]].base = active[g - 1]
    BY <1>2 DEF Chained
  <2>1. g \in DOMAIN active /\ g - 1 \in DOMAIN active
    BY <1>4 DEF LogInv, Shape
  <2>2. active[g] \in DOMAIN plans /\ active[g - 1] \in DOMAIN plans
    BY <1>13, <2>1
  <2>3. /\ active[g] = successors[active[g - 1]]
        /\ checkpoints[active[g - 1]].publication = "published"
        /\ plans[active[g]].base = active[g - 1]
    BY <1>4 DEF ChainInv, Chained
  <2> QED
    BY <1>2, <2>2, <2>3
<1>17. IndexIsCurrent'
  BY <1>2, <1>4, <1>5, <1>14 DEF ChainInv, IndexIsCurrent
<1>18. PICK j : j = [job EXCEPT !.pc = "bootstrapped", !.out = Len(plans')]
  OBVIOUS
<1>19. /\ IsJob(j) /\ j.pc = "bootstrapped" /\ j.out = new /\ j.run = job.run
       /\ j.state = job.state /\ job' = j
  BY <1>2, <1>4, <1>18 DEF IsJob, Pcs, BootstrapSuccessor
<1>20. JobFollows(j)'
  <2>1. /\ Follows(job.run, job.state) /\ IsState(job.state) /\ job.state = checkpoints[job.run]
    BY <1>4 DEF Relies, JobFollows
  <2>2. Follows(j.run, j.state)'
    BY <1>2, <1>5, <1>7, <1>19, <2>1 DEF Follows, With
  <2> QED
    BY <1>2, <1>3, <1>5, <1>14, <1>19, <2>1, <2>2 DEF JobFollows, Runs, IsState, IsQueue
<1>21. JobPublishes(j)'
  BY <1>2, <1>3, <1>5, <1>19 DEF JobPublishes, Publishing, Runs
<1>22. JobWrites(j)' /\ JobWorks(j)' /\ WaveIsOpen(j)'
  BY <1>19 DEF JobWrites, JobWorks, WaveIsOpen, Writing, Working
<1>23. LogInv' /\ ChainInv'
  BY <1>2, <1>8, <1>9, <1>10, <1>11, <1>12, <1>14, <1>15, <1>16, <1>17 DEF LogInv, ChainInv
<1> QED
  BY <1>19, <1>20, <1>21, <1>22, <1>23 DEF RunInv, JobInv, Relies, IsJob

LEMMA WriteSuccessorKeeps ==
  ASSUME RunInv, WriteSuccessor
  PROVE  RunInv'
<1>1. /\ IsJob(job) /\ Relies(job) /\ job.pc = "bootstrapped" /\ LogInv /\ ChainInv
      /\ UNCHANGED <<raw, plans, results, checkpoints, active, current>>
  BY JobState DEF WriteSuccessor, RunInv
<1>2. /\ job.run \in Runs /\ job.run = ActiveRun /\ job.state.publication = "published"
      /\ job.out \in Runs /\ job.run < job.out /\ plans[job.out].base = job.run
  BY <1>1 DEF Relies, JobFollows, JobPublishes
<1>3. /\ successors \in Seq(Nat) /\ DOMAIN successors = Runs /\ Runs \subseteq Nat
  BY <1>1, ListFacts, LenProperties DEF LogInv, Shape, Runs
<1>4. /\ successors' \in Seq(Nat) /\ Len(successors') = Len(successors)
      /\ successors'[job.run] = job.out
      /\ \A r \in Runs : r # job.run => successors'[r] = successors[r]
  BY <1>2, <1>3, ExceptSeq DEF WriteSuccessor
<1>5. LogInv'
  BY <1>1, <1>4, LogStays DEF LogInv, Shape
<1>6. SuccessorsFollow'
  BY <1>1, <1>2, <1>4 DEF ChainInv, SuccessorsFollow, Runs
<1>7. Chained'
  <2> SUFFICES ASSUME NEW g \in 2 .. Len(active)
               PROVE  active[g] = successors'[active[g - 1]]
    BY <1>1 DEF ChainInv, Chained
  <2>1. /\ g - 1 \in DOMAIN active /\ Len(active) \in DOMAIN active /\ g - 1 < Len(active)
    BY <1>1 DEF LogInv, Shape
  <2>2. active[g - 1] \in Runs /\ active[g - 1] # job.run
    BY <1>1, <1>2, <1>3, <2>1 DEF LogInv, Shape, ChainInv, ActivationsAscend, ActiveRun
  <2> QED
    BY <1>1, <1>4, <2>2 DEF ChainInv, Chained
<1>8. ActivationsAscend' /\ LaterRunsArePending' /\ IndexIsCurrent'
  BY <1>1 DEF ChainInv, ActivationsAscend, LaterRunsArePending, IndexIsCurrent, ActiveRun, Runs
<1>9. PICK j : j = [job EXCEPT !.pc = "published"]
  OBVIOUS
<1>10. /\ IsJob(j) /\ j.pc = "published" /\ j.run = job.run /\ j.state = job.state /\ job' = j
  BY <1>1, <1>9, JobGoesOn DEF Pcs, Publishing, Goto, WriteSuccessor
<1>11. JobFollows(j)'
  BY <1>1, <1>10 DEF Relies, JobFollows, Follows, Runs, ResultUnits, ActiveRun, IsState, IsQueue
<1>12. JobWrites(j)' /\ JobWorks(j)' /\ WaveIsOpen(j)' /\ JobPublishes(j)'
  BY <1>2, <1>10 DEF JobWrites, JobWorks, WaveIsOpen, JobPublishes, Writing, Working
<1> QED
  BY <1>5, <1>6, <1>7, <1>8, <1>10, <1>11, <1>12 DEF RunInv, ChainInv, JobInv, Relies, IsJob

LEMMA ActivateSuccessorKeeps ==
  ASSUME RunInv, ActivateSuccessor
  PROVE  RunInv'
<1>1. /\ IsJob(job) /\ Relies(job) /\ job.pc = "published" /\ LogInv /\ ChainInv
      /\ UNCHANGED <<raw, plans, results, checkpoints, successors, current>>
      /\ successors[job.run] # 0
  BY JobState DEF ActivateSuccessor, RunInv
<1>2. CASE UNCHANGED active /\ EndJob
  BY <1>1, <1>2, EndKeeps DEF Durable
<1>3. CASE active' = Append(active, successors[job.run]) /\ Goto("activated")
  <2>1. PICK next : next = successors[job.run]
    OBVIOUS
  <2>2. /\ job.run \in Runs /\ job.run = ActiveRun /\ job.state.publication = "published"
        /\ job.state = checkpoints[job.run] /\ Runs \subseteq Nat
    BY <1>1, ListFacts DEF Relies, JobFollows, JobPublishes, Publishing, LogInv, Shape, Runs
  <2>3. next \in Runs /\ job.run < next /\ plans[next].base = job.run
    BY <1>1, <2>1, <2>2 DEF ChainInv, SuccessorsFollow
  <2>4. /\ active \in Seq(Nat) /\ Len(active) \in Nat /\ Len(active) \in DOMAIN active
        /\ DOMAIN active = 1 .. Len(active) /\ \A g \in DOMAIN active : active[g] \in Runs
        /\ active[Len(active)] = job.run
    BY <1>1, <2>2 DEF LogInv, Shape, ActiveRun
  <2>5. /\ active' \in Seq(Nat) /\ active' # <<>> /\ Len(active') = Len(active) + 1
        /\ DOMAIN active' = 1 .. Len(active) + 1
        /\ \A g \in DOMAIN active : active'[g] = active[g]
        /\ active'[Len(active) + 1] = next /\ ActiveRun' = next
    BY <1>3, <2>1, <2>2, <2>3, <2>4, AppendProperties DEF ActiveRun
  <2>6. \A g \in DOMAIN active' : active'[g] \in Runs
    BY <2>3, <2>4, <2>5
  <2>7. LogInv'
    BY <1>1, <2>5, <2>6, LogStays DEF LogInv, Shape
  <2>8. ActivationsAscend'
    <3> SUFFICES ASSUME NEW g \in DOMAIN active', NEW h \in DOMAIN active', g < h
                 PROVE  active'[g] < active'[h]
      BY DEF ActivationsAscend
    <3>1. g \in DOMAIN active
      BY <2>4, <2>5
    <3>2. CASE h \in DOMAIN active
      BY <1>1, <2>5, <3>1, <3>2 DEF ChainInv, ActivationsAscend
    <3>3. CASE h = Len(active) + 1
      <4>1. active[g] < job.run \/ active[g] = job.run
        BY <1>1, <2>4, <3>1 DEF ChainInv, ActivationsAscend
      <4> QED
        BY <2>2, <2>3, <2>4, <2>5, <3>1, <3>3, <4>1
    <3> QED
      BY <2>4, <2>5, <3>2, <3>3
  <2>9. LaterRunsArePending'
    <3> SUFFICES ASSUME NEW r \in Runs, next < r
                 PROVE  checkpoints[r].publication = "pending"
      BY <1>1, <2>5 DEF LaterRunsArePending, Runs
    <3>1. ActiveRun < r
      <4>1. job.run \in Nat /\ next \in Nat /\ r \in Nat /\ job.run < next
        BY <2>2, <2>3
      <4>2. job.run < r
        BY <4>1
      <4> QED
        BY <2>2, <4>2
    <3> QED
      BY <1>1, <3>1 DEF ChainInv, LaterRunsArePending
  <2>10. Chained'
    <3> SUFFICES ASSUME NEW g \in 2 .. Len(active) + 1
                 PROVE  /\ active'[g] = successors[active'[g - 1]]
                        /\ checkpoints[active'[g - 1]].publication = "published"
                        /\ plans[active'[g]].base = active'[g - 1]
      BY <1>1, <2>5 DEF Chained
    <3>1. CASE g \in 2 .. Len(active)
      <4>1. g \in DOMAIN active /\ g - 1 \in DOMAIN active
        BY <2>4, <3>1
      <4> QED
        BY <1>1, <2>5, <3>1, <4>1 DEF ChainInv, Chained
    <3>2. CASE g = Len(active) + 1
      <4>1. g - 1 = Len(active) /\ Len(active) \in DOMAIN active
        BY <2>4, <3>2
      <4>2. active'[g] = next
        BY <2>5, <3>2
      <4>3. active'[g - 1] = active[Len(active)]
        BY <2>5, <4>1
      <4>4. active[Len(active)] = job.run
        BY <2>4
      <4> QED
        BY <2>1, <2>2, <2>3, <4>2, <4>3, <4>4
    <3> QED
      BY <2>4, <3>1, <3>2
  <2>11. IndexIsCurrent'
    <3>1. current.run = job.run
      BY <1>1, <2>2 DEF ChainInv, IndexIsCurrent
    <3>2. checkpoints[next].publication = "pending"
      BY <1>1, <2>2, <2>3 DEF ChainInv, LaterRunsArePending
    <3> QED
      BY <1>1, <2>3, <2>5, <3>1, <3>2 DEF IndexIsCurrent
  <2>12. SuccessorsFollow'
    BY <1>1 DEF ChainInv, SuccessorsFollow, Runs
  <2>13. PICK j : j = [job EXCEPT !.pc = "activated"]
    OBVIOUS
  <2>14. /\ IsJob(j) /\ j.pc = "activated" /\ j.run = job.run /\ j.state = job.state /\ job' = j
    BY <1>1, <1>3, <2>13, JobGoesOn DEF Pcs, Goto
  <2>15. JobFollows(j)'
    BY <1>1, <2>14 DEF Relies, JobFollows, Follows, Runs, ResultUnits, IsState, IsQueue
  <2>16. JobWrites(j)' /\ JobWorks(j)' /\ WaveIsOpen(j)' /\ JobPublishes(j)'
    BY <2>14 DEF JobWrites, JobWorks, WaveIsOpen, JobPublishes, Writing, Working, Publishing
  <2>17. ChainInv'
    BY <2>8, <2>9, <2>10, <2>11, <2>12 DEF ChainInv
  <2> QED
    BY <2>7, <2>14, <2>15, <2>16, <2>17 DEF RunInv, JobInv, Relies, IsJob
<1> QED
  BY <1>2, <1>3 DEF ActivateSuccessor

-----------------------------------------------------------------------------
(* Captures, starts, kills and deployments.                                *)

LEMMA ArriveKeeps ==
  ASSUME RunInv, Arrive
  PROVE  RunInv'
<1>1. PICK u \in Units : raw' = Append(raw, Capture(u))
  BY DEF Arrive
<1>2. PICK seg : seg = Capture(u)
  OBVIOUS
<1>3. IsSegment(seg) /\ seg.kind = "posts"
  <2>1. PICK e : e = [v \in {u} |-> Entry("pending", 0)]
    OBVIOUS
  <2>2. IsQueue(e)
    BY <2>1 DEF IsQueue
  <2>3. seg = [kind |-> "posts", entries |-> e, names |-> {}]
    BY <1>2, <2>1 DEF Capture, Segment
  <2> QED
    BY <2>2, <2>3 DEF IsSegment, Kinds
<1>4. /\ UNCHANGED <<plans, results, checkpoints, successors, active, current, job>>
      /\ LogInv /\ ChainInv /\ DOMAIN raw = 1 .. Len(raw) /\ Len(raw) \in Nat
  BY ListFacts DEF Arrive, RunInv, LogInv, Shape
<1>5. /\ LogInv'
      /\ DOMAIN raw' = 1 .. Len(raw) + 1
      /\ \A i \in DOMAIN raw : raw'[i] = raw[i] /\ ResultUnits(i)' = ResultUnits(i)
      /\ raw'[Len(raw) + 1] = seg
  BY <1>1, <1>2, <1>3, <1>4, LogGrows
<1>6. PICK new : new = Len(raw) + 1 /\ ResultUnits(new)' = {}
  <2>1. PICK n : n = Len(raw) + 1
    OBVIOUS
  <2>2. ResultUnits(n)' = {}
    BY <1>3, <1>5, <2>1 DEF ResultUnits
  <2> QED
    BY <2>1, <2>2
<1>7. ChainInv'
  BY <1>4 DEF ChainInv, SuccessorsFollow, ActivationsAscend, LaterRunsArePending, Chained,
              IndexIsCurrent, ActiveRun, Runs
<1>8. IsJob(job)' /\ job'.pc = job.pc
  BY <1>4 DEF RunInv, JobInv, IsJob
<1>9. CASE job.pc = "idle"
  BY <1>5, <1>7, <1>8, <1>9 DEF RunInv, JobInv
<1>10. CASE job.pc # "idle"
  <2>1. PICK j : j = job
    OBVIOUS
  <2>2. Relies(j) /\ job' = j
    BY <1>4, <1>10, <2>1, JobState
  <2>3. JobFollows(j)'
    <3>1. Follows(j.run, j.state)'
      BY <1>4, <1>5, <2>2, FollowsStays DEF Relies, JobFollows, LogInv
    <3> QED
      BY <1>4, <2>2, <3>1 DEF Relies, JobFollows, Runs, ActiveRun, IsState, IsQueue
  <2>4. JobWrites(j)'
    BY <1>4, <1>5, <2>2 DEF Relies, JobWrites
  <2>5. JobWorks(j)'
    <3> SUFFICES ASSUME j.pc \in Working \/ (j.pc \in Writing /\ j.back # "reconcile")
                 PROVE  /\ j.state.publication \in {"pending", "building"}
                        /\ KnowsResults(j.state, IF j.pc = "claim" THEN j.out ELSE 0)'
      BY DEF JobWorks, KnowsResults
    <3>1. PICK but : but = IF j.pc = "claim" THEN j.out ELSE 0
      OBVIOUS
    <3>2. j.state.publication \in {"pending", "building"} /\ KnowsResults(j.state, but)
      BY <2>2, <3>1 DEF Relies, JobWorks
    <3>3. KnowsResults(j.state, but)'
      <4> SUFFICES ASSUME NEW i \in DOMAIN raw', i # but
                   PROVE  ResultUnits(i)' \intersect DOMAIN j.state.queue
                            \subseteq With(j.state, "done")
        BY DEF KnowsResults
      <4>1. CASE i \in DOMAIN raw
        BY <1>5, <3>2, <4>1 DEF KnowsResults
      <4>2. CASE i = new
        BY <1>6, <4>2
      <4> QED
        BY <1>4, <1>5, <1>6, <4>1, <4>2
    <3> QED
      BY <3>1, <3>2, <3>3
  <2>6. WaveIsOpen(j)'
    BY <1>5, <2>2 DEF Relies, WaveIsOpen, JobWrites, Writing
  <2>7. JobPublishes(j)'
    BY <1>4, <2>2 DEF Relies, JobPublishes, Runs
  <2> QED
    BY <1>5, <1>7, <1>8, <2>2, <2>3, <2>4, <2>5, <2>6, <2>7 DEF RunInv, JobInv, Relies
<1> QED
  BY <1>9, <1>10

LEMMA StartKeeps ==
  ASSUME RunInv, Start
  PROVE  RunInv'
<1>1. PICK q, s : q = ActiveRun /\ s = checkpoints[ActiveRun]
  OBVIOUS
<1>2. PICK j : j = [NoJob EXCEPT !.pc = "reconcile", !.run = q, !.state = s]
  OBVIOUS
<1>3. UNCHANGED Durable /\ job' = j
  BY <1>1, <1>2 DEF Start, Restored
<1>4. /\ IsJob(j) /\ j.pc = "reconcile" /\ j.run = q /\ j.state = s
  <2>1. PICK e : e = EmptyState(NoEntries, 0)
    OBVIOUS
  <2>2. j = [pc |-> "reconcile", run |-> q, state |-> s,
             wave |-> {}, settled |-> {}, out |-> 0, back |-> "idle"]
    BY <1>2, <2>1 DEF NoJob
  <2> QED
    BY <2>2 DEF IsJob, Pcs
<1>5. q \in Runs /\ IsState(s) /\ Follows(q, s)
  BY <1>1 DEF RunInv, LogInv, Shape, CheckpointsFollow, ActiveRun
<1>6. Relies(j)
  BY <1>1, <1>4, <1>5
     DEF Relies, JobFollows, JobWrites, JobWorks, WaveIsOpen, JobPublishes, Writing, Working,
         Publishing
<1> QED
  BY <1>3, <1>4, <1>6, Moves

LEMMA JobEndsKeeps ==
  ASSUME RunInv, EndTick \/ DeferPublication \/ FinishRun \/ Kill
  PROVE  RunInv'
<1>1. EndJob /\ UNCHANGED Durable
  BY DEF EndTick, DeferPublication, FinishRun, Kill
<1> QED
  BY <1>1, EndKeeps

LEMMA IdleKeeps ==
  ASSUME RunInv, Deploy \/ UNCHANGED vars
  PROVE  RunInv'
<1>1. UNCHANGED <<Durable, job>>
  BY DEF Deploy, vars, Durable
<1>2. LogInv' /\ ChainInv'
  BY <1>1, DurableStays DEF RunInv
<1>3. JobInv'
  <2>1. PICK j : j = job
    OBVIOUS
  <2>2. IsJob(j) /\ (j.pc # "idle" => Relies(j)) /\ job' = j
    BY <1>1, <2>1 DEF RunInv, JobInv
  <2>3. j.pc # "idle" => Relies(j)'
    BY <1>1, <2>2, ReliesStays
  <2> QED
    BY <2>2, <2>3 DEF JobInv, IsJob
<1> QED
  BY <1>2, <1>3 DEF RunInv

-----------------------------------------------------------------------------
(* The beginning.                                                          *)

LEMMA FirstCaptures ==
  ASSUME Init
  PROVE  /\ IsList(raw)
         /\ \A i \in DOMAIN raw :
              /\ IsSegment(raw[i]) /\ raw[i].kind = "posts"
              /\ \E u \in FirstUnits : raw[i] = Capture(u)
<1> DEFINE S == {Capture(u) : u \in FirstUnits}
<1>1. IsFiniteSet(S)
  <2>1. PICK f : f = [u \in FirstUnits |-> Capture(u)]
    OBVIOUS
  <2>2. f \in Surjection(FirstUnits, S)
    BY <2>1 DEF Surjection
  <2> QED
    BY <2>2, FS_Surjection, EnrichmentAssumption
<1>2. \A s \in S : IsSegment(s) /\ s.kind = "posts"
  <2> SUFFICES ASSUME NEW u \in FirstUnits
               PROVE  IsSegment(Capture(u)) /\ Capture(u).kind = "posts"
    OBVIOUS
  <2>1. PICK seg : seg = Capture(u)
    OBVIOUS
  <2>2. PICK e : e = [v \in {u} |-> Entry("pending", 0)]
    OBVIOUS
  <2>3. IsQueue(e)
    BY <2>2, EnrichmentAssumption DEF IsQueue
  <2>4. seg = [kind |-> "posts", entries |-> e, names |-> {}]
    BY <2>1, <2>2 DEF Capture, Segment
  <2> QED
    BY <2>1, <2>3, <2>4 DEF IsSegment, Kinds
<1>3. raw = SetToSeq(S)
  BY DEF Init
<1> HIDE DEF S
<1>4. PICK T, s : T = S /\ s = SetToSeq(T)
  OBVIOUS
<1>5. IsList(s) /\ \A i \in DOMAIN s : s[i] \in T
  BY <1>1, <1>4, Enumerated
<1>6. IsList(raw) /\ \A i \in DOMAIN raw : raw[i] \in S
  BY <1>3, <1>4, <1>5
<1>7. \A seg \in S : \E u \in FirstUnits : seg = Capture(u)
  BY DEF S
<1> QED
  BY <1>2, <1>6, <1>7

LEMMA InitInv ==
  ASSUME Init
  PROVE  RunInv
<1>1. /\ IsList(raw) /\ DOMAIN raw = 1 .. Len(raw) /\ Len(raw) \in Nat
      /\ \A i \in DOMAIN raw : IsSegment(raw[i]) /\ raw[i].kind = "posts"
  BY FirstCaptures, ListFacts
<1>2. PICK queue, base :
        /\ queue = QueueAt(Len(raw))
        /\ base = [source |-> Len(raw), queue |-> queue, names |-> FirstNames, base |-> 0,
                   revision |-> 0]
  OBVIOUS
<1>3. /\ plans = <<base>> /\ results = <<NoResults>> /\ successors = <<0>> /\ active = <<1>>
      /\ current.run = 0 /\ job = NoJob
  BY <1>2 DEF Init
<1>4. PICK s : s = EmptyState(queue, FirstNames)
  OBVIOUS
<1>5. checkpoints = <<s>>
  BY <1>2, <1>3, <1>4 DEF Init
<1>6. IsQueue(queue)
  BY <1>2 DEF IsQueue, QueueAt, Captured
<1>7. IsPlan(base) /\ IsState(s)
  BY <1>1, <1>2, <1>4, <1>6 DEF IsPlan, IsState, EmptyState, Publications
<1>8. /\ plans[1] = base /\ Len(plans) = 1 /\ Runs = {1} /\ IsList(plans)
      /\ checkpoints[1] = s /\ Len(checkpoints) = 1 /\ IsList(checkpoints)
  <2>1. ASSUME NEW x
        PROVE  IsList(<<x>>) /\ DOMAIN <<x>> = {1} /\ Len(<<x>>) = 1 /\ <<x>>[1] = x
    <3>1. <<x>> \in Seq({x}) /\ DOMAIN <<x>> = {1} /\ Len(<<x>>) = 1 /\ <<x>>[1] = x
      OBVIOUS
    <3>2. <<x>> \in [1 .. 1 -> {x}]
      OBVIOUS
    <3> QED
      BY <3>1, <3>2, ListIf
  <2> QED
    BY <1>3, <1>5, <2>1 DEF Runs
<1>9. Shape
  <2>1. NoResults \in [Kinds -> Seq(Nat)]
    BY DEF NoResults
  <2>2. /\ results \in Seq([Kinds -> Seq(Nat)]) /\ Len(results) = 1
        /\ successors \in Seq(Nat) /\ Len(successors) = 1
        /\ active \in Seq(Nat) /\ active # <<>> /\ \A g \in DOMAIN active : active[g] = 1
    BY <1>3, <2>1
  <2>3. plans[1].source <= Len(raw)
    BY <1>1, <1>2, <1>8
  <2> QED
    BY <1>1, <1>7, <1>8, <2>2, <2>3 DEF Shape
<1>10. \A i \in DOMAIN raw : ResultUnits(i) = {}
  BY <1>1 DEF ResultUnits
<1>11. PlansKnowResults
  BY <1>1, <1>2, <1>8, <1>10 DEF PlansKnowResults
<1>12. ClaimsFit
  BY <1>3, <1>8 DEF ClaimsFit, NoResults
<1>13. CheckpointsFollow
  <2>1. /\ s.queue = queue /\ \A k \in Kinds : s.outputs[k] = 0
        /\ base.queue = queue
    BY <1>2, <1>4 DEF EmptyState
  <2>2. With(base, "done") = With(s, "done")
    BY <2>1 DEF With
  <2>3. \A k \in Kinds : Len(results[1][k]) = 0
    BY <1>3 DEF NoResults
  <2> QED
    BY <1>8, <2>1, <2>2, <2>3 DEF CheckpointsFollow, Follows, Kinds
<1>14. ResultsArePaidOnce
  BY <1>1 DEF ResultsArePaidOnce
<1>15. ChainInv
  <2>1. Len(active) = 1 /\ DOMAIN active = {1} /\ active[1] = 1 /\ successors[1] = 0
    BY <1>3
  <2>2. s.publication = "pending" /\ base.base = 0
    BY <1>2, <1>4 DEF EmptyState
  <2> QED
    BY <1>3, <1>8, <2>1, <2>2
       DEF ChainInv, SuccessorsFollow, ActivationsAscend, LaterRunsArePending, Chained,
           IndexIsCurrent, ActiveRun
<1>16. JobInv
  <2>1. PICK e : e = EmptyState(NoEntries, 0)
    OBVIOUS
  <2>2. job = [pc |-> "idle", run |-> 0, state |-> e,
               wave |-> {}, settled |-> {}, out |-> 0, back |-> "idle"]
    BY <1>3, <2>1 DEF NoJob
  <2> QED
    BY <2>2 DEF JobInv, IsJob, Pcs
<1> QED
  BY <1>9, <1>11, <1>12, <1>13, <1>14, <1>15, <1>16 DEF RunInv, LogInv

-----------------------------------------------------------------------------
(* The theorems.                                                           *)

LEMMA NextKeeps ==
  ASSUME RunInv, [Next]_vars
  PROVE  RunInv'
<1>1. CASE Arrive
  BY <1>1, ArriveKeeps
<1>2. CASE Start
  BY <1>2, StartKeeps
<1>3. CASE JobStep
  <2>1. CASE ClaimResult \/ CommitOutput \/ Reconcile
    BY <2>1, ClaimResultKeeps, CommitOutputKeeps, ReconcileKeeps
  <2>2. CASE DispatchWave \/ PersistAndApply \/ FailAttempt
    BY <2>2, DispatchWaveKeeps, PersistAndApplyKeeps, FailAttemptKeeps
  <2>3. CASE EndQueue \/ CeilingHit \/ EndRegistry
    BY <2>3, TickKeeps
  <2>4. CASE PersistRegistryDecisions \/ WriteReceipt
    BY <2>4, PersistRegistryDecisionsKeeps, WriteReceiptKeeps
  <2>5. CASE EndTick \/ DeferPublication \/ FinishRun
    BY <2>5, JobEndsKeeps
  <2>6. CASE BeginPublication \/ VerifyDatabase \/ CommitPublished
    BY <2>6, PublicationStepKeeps
  <2>7. CASE UploadDatabase \/ SwapManifest
    BY <2>7, UploadDatabaseKeeps, SwapManifestKeeps
  <2>8. CASE BootstrapSuccessor \/ WriteSuccessor \/ ActivateSuccessor
    BY <2>8, BootstrapSuccessorKeeps, WriteSuccessorKeeps, ActivateSuccessorKeeps
  <2> QED
    BY <1>3, <2>1, <2>2, <2>3, <2>4, <2>5, <2>6, <2>7, <2>8 DEF JobStep
<1>4. CASE Kill
  BY <1>4, JobEndsKeeps
<1>5. CASE Deploy \/ UNCHANGED vars
  BY <1>5, IdleKeeps
<1> QED
  BY <1>1, <1>2, <1>3, <1>4, <1>5 DEF Next

LEMMA RunInvHolds == Spec => []RunInv
BY InitInv, NextKeeps, PTL DEF Spec

(* Whatever job was killed and wherever, the worker of planned runs never  *)
(* sends a unit to the provider whose results are in the raw log: a job    *)
(* adopts what an earlier one left before it makes its first call.         *)
THEOREM PaidOnce == Spec => []ResultsArePaidOnce
<1>1. RunInv => ResultsArePaidOnce
  BY DEF RunInv, LogInv
<1> QED
  BY <1>1, RunInvHolds, PTL

(* The activations are one chain of published runs without repetition,     *)
(* each planned on the index its predecessor published, and the published  *)
(* index is that of the active run or of the one before it.                *)
THEOREM ChainHolds == Spec => []ActivationsFormOneChain
<1>1. RunInv => ActivationsFormOneChain
  <2> SUFFICES ASSUME RunInv
               PROVE  ActivationsFormOneChain
    OBVIOUS
  <2>1. \A g, h \in DOMAIN active : active[g] = active[h] => g = h
    <3> SUFFICES ASSUME NEW g \in DOMAIN active, NEW h \in DOMAIN active, g # h
                 PROVE  active[g] # active[h]
      OBVIOUS
    <3>1. /\ g \in Nat /\ h \in Nat /\ active[g] \in Nat /\ active[h] \in Nat
      BY DEF RunInv, LogInv, Shape
    <3>2. g < h \/ h < g
      BY <3>1
    <3> QED
      BY <3>1, <3>2 DEF RunInv, ChainInv, ActivationsAscend
  <2> QED
    BY <2>1 DEF RunInv, ChainInv, Chained, IndexIsCurrent, ActivationsFormOneChain
<1> QED
  BY <1>1, RunInvHolds, PTL

-----------------------------------------------------------------------------
(* The second invariant: what the active run has put into the log.         *)

Statuses == {"pending", "retrying", "blocked", "done"}

(* A plan owes the units that were captured, and those it starts with have *)
(* their results.                                                          *)
PlanIsExact(r) ==
  /\ DOMAIN plans[r].queue = Captured(plans[r].source)
  /\ With(plans[r], "done") \subseteq Enriched(plans[r].source)

Typed ==
  /\ \A i \in DOMAIN raw :
       /\ \A u \in DOMAIN raw[i].entries : raw[i].entries[u].status \in Statuses
       /\ IsFiniteSet(DOMAIN raw[i].entries) /\ IsFiniteSet(raw[i].names)
  /\ \A r \in Runs :
       /\ \A u \in DOMAIN checkpoints[r].queue : checkpoints[r].queue[u].status \in Statuses
       /\ checkpoints[r].next \in Nat /\ checkpoints[r].names \in Nat

(* Outputs after the first n segments; the outputs a state of a run        *)
(* counts; those of the active run that its checkpoint does not count yet. *)
OutputsAfter(n) == {i \in DOMAIN raw : n < i /\ raw[i].kind # "posts"}
Counted(r, s) == {i \in DOMAIN raw : \E k \in Kinds : \E n \in 1 .. s.outputs[k] : results[r][k][n] = i}
Outstanding ==
  OutputsAfter(plans[ActiveRun].source) \ Counted(ActiveRun, checkpoints[ActiveRun])

(* The state can take the output, and does not hold it yet.                *)
Fits(s, seg) ==
  /\ seg.kind \in {"queue", "attempt"} =>
       DOMAIN seg.entries # {} /\ DOMAIN seg.entries \subseteq DOMAIN s.queue \ With(s, "done")
  /\ seg.kind = "registry" => Remaining(s, seg) # {}

(* One output at most is outstanding, and a result the checkpoint does not *)
(* count is a claim of it.                                                 *)
OneOutstanding ==
  /\ \A o, p \in Outstanding : o = p
  /\ \A o \in Outstanding : Fits(checkpoints[ActiveRun], raw[o])
  /\ \A k \in Kinds :
       LET n == checkpoints[ActiveRun].outputs[k] + 1
       IN  n <= Len(results[ActiveRun][k]) =>
             /\ n = Len(results[ActiveRun][k])
             /\ results[ActiveRun][k][n] \in Outstanding

(* The results of the active run complete what its checkpoint has done     *)
(* beyond the plan, each unit once.                                        *)
UnitsOfResult(r, n) == DOMAIN raw[results[r]["queue"][n]].entries
DoneSince(r) == With(checkpoints[r], "done") \ With(plans[r], "done")

ResultsAreExact(r) ==
  LET count == checkpoints[r].outputs["queue"]
  IN  /\ \A n \in 1 .. count : UnitsOfResult(r, n) \subseteq DoneSince(r)
      /\ \A m, n \in 1 .. count : m < n => UnitsOfResult(r, m) \cap UnitsOfResult(r, n) = {}
      /\ \A u \in DoneSince(r) : \E n \in 1 .. count : u \in UnitsOfResult(r, n)

(* A plan made for a successor finds no output after its source, and the   *)
(* successor is the last of them.                                          *)
LaterRunsAreFresh ==
  \A r \in Runs : ActiveRun < r =>
    /\ checkpoints[ActiveRun].publication = "published"
    /\ plans[r].base = ActiveRun
    /\ OutputsAfter(plans[r].source) = {}
    /\ \A k \in Kinds : results[r][k] = <<>> /\ checkpoints[r].outputs[k] = 0
    /\ checkpoints[r].queue = plans[r].queue

SuccessorIsLast == successors[ActiveRun] # 0 => successors[ActiveRun] = Len(plans)

OwnInv ==
  /\ \A r \in Runs : PlanIsExact(r) /\ (r = ActiveRun => ResultsAreExact(r))
  /\ Typed /\ OneOutstanding
  /\ LaterRunsAreFresh /\ SuccessorIsLast

(* The job has no output outstanding but the one it is about to record.    *)
JobOwns ==
  /\ job.pc \notin {"idle", "reconcile", "claim", "commit"} => Outstanding = {}
  /\ job.pc \in {"claim", "commit"} => Outstanding = {job.out}
  /\ job.pc = "commit" =>
       LET seg == raw[job.out]
           s == checkpoints[job.run]
       IN  /\ job.state = ApplyDurableOutput(s, seg)
           /\ s.outputs[seg.kind] + 1 = Len(results[job.run][seg.kind])
           /\ results[job.run][seg.kind][s.outputs[seg.kind] + 1] = job.out
  /\ job.pc = "bootstrapped" => job.out = Len(plans)
  /\ job.pc = "building" => RunIsComplete(job.state)

-----------------------------------------------------------------------------
(* What a published database holds.                                        *)

HasDatabase(r) == checkpoints[r].publication \in {"uploaded", "verified", "published"}
Database(r) == checkpoints[r].database

Settled(r) ==
  \A i \in Database(r), u \in Units :
    raw[i].kind = "posts" /\ u \in DOMAIN raw[i].entries =>
      \/ u \in With(checkpoints[r], "blocked")
      \/ \E j \in Database(r) : raw[j].kind = "queue" /\ u \in DOMAIN raw[j].entries

DatabasesAreSettled ==
  \A r \in Runs : HasDatabase(r) =>
    /\ Database(r) \subseteq DOMAIN raw
    /\ \A i \in Database(r) : raw[i].kind = "posts" => i <= plans[r].source
    /\ Settled(r)

ActiveDatabaseIsComplete ==
  HasDatabase(ActiveRun) =>
    /\ OutputsAfter(0) \subseteq Database(ActiveRun)
    /\ Outstanding = {}
    /\ current.run = plans[ActiveRun].base => current.segments \subseteq Database(ActiveRun)

IndexIsADatabase ==
  /\ current.run # 0 =>
       /\ current.run \in Runs
       /\ checkpoints[current.run].publication \in {"verified", "published"}
       /\ current.segments = Database(current.run)
  /\ current.run = 0 => current.segments \subseteq 1 .. plans[1].source

BasesComeBefore ==
  \A r \in Runs :
    /\ plans[r].base = 0 => r = 1
    /\ plans[r].base # 0 =>
         /\ plans[r].base \in Runs /\ plans[r].base < r
         /\ plans[plans[r].base].source <= plans[r].source

IndexInv ==
  DatabasesAreSettled /\ ActiveDatabaseIsComplete /\ IndexIsADatabase /\ BasesComeBefore

-----------------------------------------------------------------------------
(* What a deployment hands over.                                           *)

Revisions ==
  /\ deployed.revision \in Nat /\ deployed.handoff \in Nat
  /\ \A r \in Runs : plans[r].revision \in Nat /\ plans[r].revision <= deployed.revision

ManifestFits ==
  "deploy" \notin HandoffFaults =>
    /\ VerifiesManifest(ActiveRun)
    /\ successors[ActiveRun] # 0 => plans[successors[ActiveRun]].revision = deployed.revision
    /\ job.pc = "bootstrapped" => plans[job.out].revision = deployed.revision

HandedOverIsExact ==
  /\ "kill" \notin HandoffFaults /\ RequireExactOutputFrontier(ActiveRun)
  /\ job.pc \notin {"claim", "commit"}
  => Outstanding = {}

DeployInv == Revisions /\ ManifestFits /\ HandedOverIsExact

OutputInv == OwnInv /\ JobOwns /\ IndexInv /\ DeployInv

-----------------------------------------------------------------------------
(* What the first invariant gives.                                         *)

LEMMA Basics ==
  ASSUME RunInv
  PROVE  /\ DOMAIN raw = 1 .. Len(raw) /\ Len(raw) \in Nat
         /\ Runs = 1 .. Len(plans) /\ Len(plans) \in Nat
         /\ ActiveRun \in Runs
         /\ \A r \in Runs :
              /\ plans[r].source \in Nat /\ plans[r].source <= Len(raw)
              /\ IsState(checkpoints[r]) /\ Follows(r, checkpoints[r])
              /\ DOMAIN checkpoints[r].queue = DOMAIN plans[r].queue
              /\ checkpoints[r].outputs \in [Kinds -> Nat]
              /\ results[r] \in [Kinds -> Seq(Nat)]
         /\ \A i \in DOMAIN raw : IsSegment(raw[i]) /\ (raw[i].kind # "posts" <=> raw[i].kind \in Kinds)
<1>1. /\ DOMAIN raw = 1 .. Len(raw) /\ Len(raw) \in Nat
      /\ Runs = 1 .. Len(plans) /\ Len(plans) \in Nat
  BY ListFacts DEF RunInv, LogInv, Shape, Runs
<1>2. ActiveRun \in Runs
  BY DEF RunInv, LogInv, Shape, ActiveRun
<1>3. ASSUME NEW r \in Runs
      PROVE  /\ plans[r].source \in Nat /\ plans[r].source <= Len(raw)
             /\ IsState(checkpoints[r]) /\ Follows(r, checkpoints[r])
             /\ results[r] \in [Kinds -> Seq(Nat)]
  <2>1. /\ IsPlan(plans[r]) /\ plans[r].source <= Len(raw) /\ IsState(checkpoints[r])
        /\ Follows(r, checkpoints[r])
    BY DEF RunInv, LogInv, Shape, CheckpointsFollow
  <2>2. results[r] \in [Kinds -> Seq(Nat)]
    BY <1>1 DEF RunInv, LogInv, Shape, Runs
  <2> QED
    BY <2>1, <2>2 DEF IsPlan
<1>4. ASSUME NEW r \in Runs
      PROVE  /\ DOMAIN checkpoints[r].queue = DOMAIN plans[r].queue
             /\ checkpoints[r].outputs \in [Kinds -> Nat]
  BY <1>3 DEF IsState, Follows
<1>5. \A i \in DOMAIN raw : IsSegment(raw[i])
  BY DEF RunInv, LogInv, Shape
<1>6. \A i \in DOMAIN raw : (raw[i].kind # "posts" <=> raw[i].kind \in Kinds)
  BY <1>5 DEF IsSegment, Kinds
<1> QED
  BY <1>1, <1>2, <1>3, <1>4, <1>5, <1>6

(* A counted result claims an output of its kind. *)
LEMMA CountedAre ==
  ASSUME RunInv, NEW r \in Runs, NEW k \in Kinds, NEW n \in 1 .. checkpoints[r].outputs[k]
  PROVE  /\ n \in DOMAIN results[r][k] /\ n \in 1 .. Len(results[r][k])
         /\ results[r][k][n] \in DOMAIN raw /\ raw[results[r][k][n]].kind = k
<1>1. IsState(checkpoints[r]) /\ Follows(r, checkpoints[r]) /\ results[r][k] \in Seq(Nat)
  BY Basics
<1>2. /\ n \in DOMAIN results[r][k]
      /\ results[r][k][n] \in DOMAIN raw /\ raw[results[r][k][n]].kind = k
  BY <1>1, CountedClaims DEF RunInv, LogInv
<1> QED
  BY <1>1, <1>2

(* The keys the code reads of a run's outputs are those its checkpoint counts. *)
LEMMA ClaimedKeysAreCounted ==
  ASSUME RunInv, NEW r \in Runs
  PROVE  ClaimedKeys(r) = Counted(r, checkpoints[r])
<1>1. ASSUME NEW k \in Kinds
      PROVE  Range(Frontier(r, k)) = {results[r][k][n] : n \in 1 .. checkpoints[r].outputs[k]}
  <2>1. PICK m, q : m = checkpoints[r].outputs[k] /\ q = results[r][k]
    OBVIOUS
  <2>2. m \in Nat /\ q \in Seq(Nat) /\ m <= Len(q)
    BY <2>1, Basics DEF Follows
  <2>3. PICK f : f = SubSeq(q, 1, m)
    OBVIOUS
  <2>4. f \in Seq(Nat) /\ Len(f) = m /\ \A n \in 1 .. m : f[n] = q[n]
    <3>1. CASE m = 0
      <4>1. f = <<>>
        BY <2>2, <2>3, <3>1
      <4> QED
        BY <3>1, <4>1
    <3>2. CASE m > 0
      <4>1. 1 \in 1 .. Len(q) /\ m \in 1 .. Len(q)
        BY <2>2, <3>2
      <4>2. /\ f \in Seq(Nat) /\ Len(f) = m - 1 + 1
            /\ \A n \in 1 .. m - 1 + 1 : f[n] = q[1 + n - 1]
        BY <2>2, <2>3, <3>2, <4>1, SubSeqProperties
      <4> QED
        BY <2>2, <4>2
    <3> QED
      BY <2>2, <3>1, <3>2
  <2>5. DOMAIN f = 1 .. m
    BY <2>4
  <2>6. Range(f) = {q[n] : n \in 1 .. m}
    BY <2>4, <2>5 DEF Range
  <2> QED
    BY <2>1, <2>3, <2>6 DEF Frontier
<1>2. \A k \in Kinds : \A n \in 1 .. checkpoints[r].outputs[k] : results[r][k][n] \in DOMAIN raw
  BY CountedAre
<1> QED
  BY <1>1, <1>2 DEF ClaimedKeys, Counted

(* The outputs that reconciliation finds are those outstanding.            *)
LEMMA OrphansAre ==
  ASSUME RunInv, OwnInv
  PROVE  Orphans(ActiveRun, checkpoints[ActiveRun]) = Outstanding
<1>1. PICK a, c : a = ActiveRun /\ c = checkpoints[ActiveRun]
  OBVIOUS
<1>2. /\ a \in Runs /\ c = checkpoints[a] /\ plans[a].source \in Nat
      /\ DOMAIN raw = 1 .. Len(raw) /\ Len(raw) \in Nat
      /\ DOMAIN c.queue = DOMAIN plans[a].queue
      /\ \A i \in DOMAIN raw : raw[i].kind # "posts" <=> raw[i].kind \in Kinds
  BY <1>1, Basics
<1>3. Outstanding = OutputsAfter(plans[a].source) \ Counted(a, c)
  BY <1>1 DEF Outstanding
<1>4. ClaimedKeys(a) = Counted(a, c)
  BY <1>2, ClaimedKeysAreCounted
<1>5. ASSUME NEW i \in Outstanding
      PROVE  i \in Orphans(a, c)
  <2>1. Fits(c, raw[i]) /\ i \in DOMAIN raw /\ raw[i].kind \in Kinds
    BY <1>1, <1>2, <1>3 DEF OwnInv, OneOutstanding, OutputsAfter
  <2>2. OutputsFromSegment(a, c, raw[i])
    BY <1>2, <2>1 DEF Fits, OutputsFromSegment, Kinds
  <2>3. i \in (plans[a].source + 1) .. Len(raw) /\ i \notin ClaimedKeys(a)
    BY <1>2, <1>3, <1>4 DEF OutputsAfter
  <2> QED
    BY <2>2, <2>3 DEF Orphans
<1>6. ASSUME NEW i \in Orphans(a, c)
      PROVE  i \in Outstanding
  <2>1. /\ i \in (plans[a].source + 1) .. Len(raw) /\ i \notin Counted(a, c)
        /\ OutputsFromSegment(a, c, raw[i])
    BY <1>4 DEF Orphans
  <2>2. raw[i].kind # "posts"
    BY <2>1 DEF OutputsFromSegment
  <2> QED
    BY <1>2, <1>3, <2>1, <2>2 DEF OutputsAfter
<1> QED
  BY <1>1, <1>5, <1>6

(* What the code verifies of the active run's results. *)
LEMMA ResultsAreRead ==
  ASSUME RunInv, OwnInv
  PROVE  ReadRunOutputKeys(ActiveRun)
<1>1. PICK a, c : a = ActiveRun /\ c = checkpoints[ActiveRun]
  OBVIOUS
<1>2. /\ a \in Runs /\ c = checkpoints[a] /\ Follows(a, c) /\ "queue" \in Kinds
      /\ c.outputs \in [Kinds -> Nat] /\ results[a] \in [Kinds -> Seq(Nat)]
  BY <1>1, Basics DEF Kinds
<1>3. PICK q, m : q = results[a]["queue"] /\ m = c.outputs["queue"]
  OBVIOUS
<1>4. q \in Seq(Nat) /\ m \in Nat /\ m <= Len(q)
  BY <1>2, <1>3 DEF Follows
<1>5. PICK f : f = Frontier(a, "queue")
  OBVIOUS
<1>6. DOMAIN f = 1 .. m /\ \A n \in 1 .. m : f[n] = q[n]
  <2>1. f = SubSeq(q, 1, m)
    BY <1>2, <1>3, <1>5 DEF Frontier
  <2>2. CASE m = 0
    <3>1. f = <<>>
      BY <1>4, <2>1, <2>2
    <3> QED
      BY <2>2, <3>1
  <2>3. CASE m > 0
    <3>1. 1 \in 1 .. Len(q) /\ m \in 1 .. Len(q)
      BY <1>4, <2>3
    <3>2. /\ f \in Seq(Nat) /\ Len(f) = m - 1 + 1
          /\ \A n \in 1 .. m - 1 + 1 : f[n] = q[1 + n - 1]
      BY <1>4, <2>1, <2>3, <3>1, SubSeqProperties
    <3> QED
      BY <1>4, <3>2
  <2> QED
    BY <1>4, <2>2, <2>3
<1>7. PICK b : b = {u \in DOMAIN plans[a].queue : plans[a].queue[u].status = "done"}
  OBVIOUS
<1>8. b = With(plans[a], "done") /\ DoneSince(a) = With(c, "done") \ b
  BY <1>2, <1>7 DEF With, DoneSince
<1>9. /\ \A n \in 1 .. m : DOMAIN raw[f[n]].entries \subseteq With(c, "done") \ b
      /\ \A p, n \in 1 .. m :
           p < n => DOMAIN raw[f[p]].entries \cap DOMAIN raw[f[n]].entries = {}
      /\ \A u \in With(c, "done") \ b : \E n \in 1 .. m : u \in DOMAIN raw[f[n]].entries
  <2>1. ResultsAreExact(a)
    BY <1>1, <1>2 DEF OwnInv
  <2> QED
    BY <1>2, <1>3, <1>6, <1>8, <2>1 DEF ResultsAreExact, UnitsOfResult
<1>10. \A k \in Kinds : Len(results[a][k]) >= c.outputs[k]
  BY <1>2 DEF Follows
<1>11. \A n \in 1 .. m :
         /\ DOMAIN raw[f[n]].entries \subseteq With(c, "done") \ b
         /\ \A p \in 1 .. n - 1 : DOMAIN raw[f[p]].entries \cap DOMAIN raw[f[n]].entries = {}
  <2> SUFFICES ASSUME NEW n \in 1 .. m, NEW p \in 1 .. n - 1
               PROVE  DOMAIN raw[f[p]].entries \cap DOMAIN raw[f[n]].entries = {}
    BY <1>9
  <2>1. p \in 1 .. m /\ p < n
    BY <1>4
  <2> QED
    BY <1>9, <2>1
<1>12. UNION {DOMAIN raw[f[n]].entries : n \in 1 .. m} = With(c, "done") \ b
  BY <1>9
<1>13. /\ \A n \in DOMAIN f :
            /\ DOMAIN raw[f[n]].entries \subseteq With(c, "done") \ b
            /\ \A p \in 1 .. n - 1 : DOMAIN raw[f[p]].entries \cap DOMAIN raw[f[n]].entries = {}
       /\ UNION {DOMAIN raw[f[n]].entries : n \in DOMAIN f} = With(c, "done") \ b
  BY <1>6, <1>11, <1>12
<1>14. ReadRunOutputKeys(a)
  BY <1>2, <1>5, <1>7, <1>10, <1>13 DEF ReadRunOutputKeys
<1> QED
  BY <1>1, <1>14

LEMMA NothingUncheckpointed ==
  ASSUME RunInv, OwnInv, Outstanding = {}
  PROVE  ExactFrontier(ActiveRun)
<1>1. PICK a, c : a = ActiveRun /\ c = checkpoints[ActiveRun]
  OBVIOUS
<1>2. c.outputs \in [Kinds -> Nat] /\ results[a] \in [Kinds -> Seq(Nat)] /\ c = checkpoints[a]
  BY <1>1, Basics
<1>3. ASSUME NEW k \in Kinds
      PROVE  ~ Len(results[a][k]) > c.outputs[k]
  <2>1. ~ c.outputs[k] + 1 <= Len(results[a][k])
    BY <1>1 DEF OwnInv, OneOutstanding
  <2>2. c.outputs[k] \in Nat /\ Len(results[a][k]) \in Nat
    BY <1>2
  <2> QED
    BY <2>1, <2>2
<1>4. ~ UncheckpointedResults(a)
  BY <1>2, <1>3 DEF UncheckpointedResults
<1>5. Orphans(a, c) = {}
  BY <1>1, OrphansAre
<1> QED
  BY <1>1, <1>2, <1>4, <1>5 DEF ExactFrontier

-----------------------------------------------------------------------------
(* Steps that leave the log and the plans.                                 *)

LEMMA OwnStays ==
  ASSUME UNCHANGED <<raw, plans, results, checkpoints, successors, active>>
  PROVE  (OwnInv' <=> OwnInv) /\ Outstanding' = Outstanding
<1>1. /\ ActiveRun' = ActiveRun /\ Runs' = Runs
      /\ (\A n : OutputsAfter(n)' = OutputsAfter(n))
      /\ (\A r, s : Counted(r, s)' = Counted(r, s))
      /\ (\A r : PlanIsExact(r)' <=> PlanIsExact(r))
      /\ (\A r : ResultsAreExact(r)' <=> ResultsAreExact(r))
  <2>1. ActiveRun' = ActiveRun /\ Runs' = Runs
    BY DEF ActiveRun, Runs
  <2>2. \A n : OutputsAfter(n)' = OutputsAfter(n)
    BY DEF OutputsAfter
  <2>3. \A r, s : Counted(r, s)' = Counted(r, s)
    BY DEF Counted
  <2>4. \A r : PlanIsExact(r)' <=> PlanIsExact(r)
    BY DEF PlanIsExact, With, Captured, Enriched, Mentions
  <2>5. \A r : ResultsAreExact(r)' <=> ResultsAreExact(r)
    BY DEF ResultsAreExact, DoneSince, UnitsOfResult, With
  <2> QED
    BY <2>1, <2>2, <2>3, <2>4, <2>5
<1>2. Outstanding' = Outstanding
  <2>1. PICK a : a = ActiveRun
    OBVIOUS
  <2>2. Outstanding' = OutputsAfter(plans[a].source)' \ Counted(a, checkpoints[a])'
    BY <1>1, <2>1 DEF Outstanding
  <2>3. PICK n, c : n = plans[a].source /\ c = checkpoints[a]
    OBVIOUS
  <2>4. OutputsAfter(n)' = OutputsAfter(n) /\ Counted(a, c)' = Counted(a, c)
    BY <1>1
  <2>5. Outstanding' = OutputsAfter(n)' \ Counted(a, c)'
    BY <2>2, <2>3
  <2> QED
    BY <2>1, <2>3, <2>4, <2>5 DEF Outstanding
<1>3. Typed' <=> Typed
  BY <1>1 DEF Typed
<1>4. OneOutstanding' <=> OneOutstanding
  BY <1>1, <1>2 DEF OneOutstanding, Fits, Remaining, With
<1>6. LaterRunsAreFresh' <=> LaterRunsAreFresh
  BY <1>1 DEF LaterRunsAreFresh, OutputsAfter
<1>7. SuccessorIsLast' <=> SuccessorIsLast
  BY <1>1 DEF SuccessorIsLast
<1>8. (\A r \in Runs : PlanIsExact(r) /\ (r = ActiveRun => ResultsAreExact(r)))'
        <=> \A r \in Runs : PlanIsExact(r) /\ (r = ActiveRun => ResultsAreExact(r))
  BY <1>1
<1> QED
  BY <1>2, <1>3, <1>4, <1>6, <1>7, <1>8 DEF OwnInv

LEMMA IndexStays ==
  ASSUME UNCHANGED <<raw, plans, results, checkpoints, active, current>>
  PROVE  IndexInv' <=> IndexInv
<1>1. /\ ActiveRun' = ActiveRun /\ Runs' = Runs
  BY DEF ActiveRun, Runs
<1>2. DatabasesAreSettled' <=> DatabasesAreSettled
  BY <1>1 DEF DatabasesAreSettled, HasDatabase, Database, Settled, With
<1>3. ActiveDatabaseIsComplete' <=> ActiveDatabaseIsComplete
  BY <1>1 DEF ActiveDatabaseIsComplete, HasDatabase, Database, Outstanding, OutputsAfter, Counted
<1>4. IndexIsADatabase' <=> IndexIsADatabase
  BY <1>1 DEF IndexIsADatabase, Database
<1>5. BasesComeBefore' <=> BasesComeBefore
  BY <1>1 DEF BasesComeBefore
<1> QED
  BY <1>2, <1>3, <1>4, <1>5 DEF IndexInv

LEMMA JobMoves ==
  ASSUME OutputInv, UNCHANGED <<Durable, deployed>>, NEW j, job' = j,
         j.pc \notin {"idle", "reconcile", "claim", "commit"} => Outstanding = {},
         j.pc \in {"claim", "commit"} => Outstanding = {j.out},
         j.pc \notin {"commit", "bootstrapped", "building"},
         HandedOverIsExact'
  PROVE  OutputInv'
<1>1. UNCHANGED <<raw, plans, results, checkpoints, successors, active, current, deployed>>
  BY DEF Durable
<1>2. OwnInv' /\ IndexInv' /\ Outstanding' = Outstanding
  BY <1>1, OwnStays, IndexStays DEF OutputInv
<1>3. JobOwns'
  BY <1>2 DEF JobOwns
<1>4. Revisions'
  BY <1>1 DEF OutputInv, DeployInv, Revisions, Runs
<1>5. ManifestFits'
  BY <1>1 DEF OutputInv, DeployInv, ManifestFits, VerifiesManifest,
              RequireExactOutputFrontier, ActiveRun
<1> QED
  BY <1>2, <1>3, <1>4, <1>5 DEF OutputInv, DeployInv

LEMMA ExactStays ==
  ASSUME UNCHANGED <<Durable, deployed>>, HandedOverIsExact,
         job.pc \notin {"claim", "commit"} \/ Outstanding = {}
  PROVE  HandedOverIsExact'
<1>1. Outstanding' = Outstanding
  BY OwnStays DEF Durable
<1> QED
  BY <1>1 DEF HandedOverIsExact, RequireExactOutputFrontier, ActiveRun, Durable

LEMMA StartOwns ==
  ASSUME RunInv, OutputInv, Start
  PROVE  OutputInv'
<1>1. UNCHANGED <<Durable, deployed>> /\ job.pc = "idle" /\ job'.pc = "reconcile"
  BY DEF Start, NoJob
<1>2. HandedOverIsExact'
  BY <1>1, ExactStays DEF OutputInv, DeployInv
<1> QED
  BY <1>1, <1>2, JobMoves

LEMMA ReconcileOwns ==
  ASSUME RunInv, OutputInv, Reconcile
  PROVE  OutputInv'
<1>1. /\ IsJob(job) /\ Relies(job) /\ job.pc = "reconcile" /\ UNCHANGED <<Durable, deployed>>
  BY JobState DEF Reconcile
<1>2. /\ job.run = ActiveRun /\ job.state = checkpoints[ActiveRun]
      /\ job.state.publication \in Publications
  BY <1>1 DEF Relies, JobFollows, IsState
<1>3. PICK o : o = Orphans(job.run, job.state)
  OBVIOUS
<1>4. o = Outstanding
  BY <1>2, <1>3, OrphansAre DEF OutputInv
<1>5. HandedOverIsExact'
  BY <1>1, ExactStays DEF OutputInv, DeployInv
<1>6. CASE o # {}
  <2>1. job' = [job EXCEPT !.pc = "claim", !.out = Min(o), !.back = "reconcile"]
    BY <1>3, <1>6 DEF Reconcile
  <2>2. job'.pc = "claim" /\ job'.out = Min(o)
    BY <1>1, <2>1 DEF IsJob
  <2>3. Min(o) \in o
    <3>1. o \subseteq Nat
      BY <1>4, Basics DEF Outstanding, OutputsAfter
    <3> QED
      BY <1>6, <3>1, LeastExists
  <2>4. Outstanding = {Min(o)}
    BY <1>4, <2>3 DEF OutputInv, OwnInv, OneOutstanding
  <2> QED
    BY <1>1, <1>5, <2>2, <2>4, JobMoves
<1>7. CASE o = {}
  <2>1. PICK pc : pc = IF job.state.publication \in {"pending", "building"} THEN "tick"
                       ELSE job.state.publication
    OBVIOUS
  <2>2. job' = [job EXCEPT !.pc = pc]
    BY <1>3, <1>7, <2>1 DEF Reconcile, Goto
  <2>3. job'.pc = pc /\ pc \in {"tick", "uploaded", "verified", "published"}
    BY <1>1, <1>2, <2>1, <2>2 DEF IsJob, Publications
  <2> QED
    BY <1>1, <1>4, <1>5, <1>7, <2>3, JobMoves
<1> QED
  BY <1>6, <1>7

LEMMA TickOwns ==
  ASSUME RunInv, OutputInv, EndQueue \/ CeilingHit \/ EndRegistry
  PROVE  OutputInv'
<1>1. /\ IsJob(job) /\ UNCHANGED <<Durable, deployed>> /\ job.pc \in {"tick", "registry"}
      /\ Goto("receipt") \/ Goto("registry")
  BY JobState DEF EndQueue, CeilingHit, EndRegistry
<1>2. job'.pc \in {"receipt", "registry"}
  BY <1>1 DEF IsJob, Goto
<1>3. Outstanding = {}
  BY <1>1 DEF OutputInv, JobOwns
<1>4. HandedOverIsExact'
  BY <1>1, <1>3, ExactStays DEF OutputInv, DeployInv
<1> QED
  BY <1>1, <1>2, <1>3, <1>4, JobMoves

LEMMA JobEndsOwns ==
  ASSUME RunInv, OutputInv, EndTick \/ DeferPublication \/ FinishRun \/ Kill
  PROVE  OutputInv'
<1>1. EndJob /\ UNCHANGED <<Durable, deployed>>
  BY DEF EndTick, DeferPublication, FinishRun, Kill
<1>2. job'.pc = "idle"
  BY <1>1 DEF EndJob, NoJob
<1>3. HandedOverIsExact'
  <2>1. CASE job.pc \notin {"claim", "commit"}
    BY <1>1, <2>1, ExactStays DEF OutputInv, DeployInv
  <2>2. CASE job.pc \in {"claim", "commit"}
    <3>1. Kill /\ job.run = ActiveRun
      BY <2>2, JobState DEF EndTick, DeferPublication, FinishRun, Relies, JobFollows
    <3>2. RequireExactOutputFrontier(ActiveRun) => "kill" \in HandoffFaults
      BY <2>2, <3>1 DEF Kill
    <3> QED
      BY <1>1, <3>2 DEF HandedOverIsExact, RequireExactOutputFrontier, ActiveRun, Durable
  <2> QED
    BY <2>1, <2>2
<1> QED
  BY <1>1, <1>2, <1>3, JobMoves

LEMMA StutterOwns ==
  ASSUME OutputInv, UNCHANGED vars
  PROVE  OutputInv'
<1>1. UNCHANGED <<raw, plans, results, checkpoints, successors, active, current, deployed, job>>
  BY DEF vars
<1>2. OwnInv' /\ IndexInv' /\ Outstanding' = Outstanding
  BY <1>1, OwnStays, IndexStays DEF OutputInv
<1>3. JobOwns'
  <2>1. \A s, seg : ApplyDurableOutput(s, seg)' = ApplyDurableOutput(s, seg)
    BY DEF ApplyDurableOutput, RecordEntries, Remaining, AdvanceRegistryCursor,
           AdvanceOutputFrontier, With
  <2>2. \A s : RunIsComplete(s)' = RunIsComplete(s)
    BY DEF RunIsComplete, With
  <2> QED
    BY <1>1, <1>2, <2>1, <2>2 DEF OutputInv, JobOwns
<1>4. Revisions'
  BY <1>1 DEF OutputInv, DeployInv, Revisions, Runs
<1>5. ManifestFits'
  BY <1>1 DEF OutputInv, DeployInv, ManifestFits, VerifiesManifest,
              RequireExactOutputFrontier, ActiveRun
<1>6. HandedOverIsExact'
  BY <1>1, <1>2 DEF OutputInv, DeployInv, HandedOverIsExact, RequireExactOutputFrontier, ActiveRun
<1> QED
  BY <1>2, <1>3, <1>4, <1>5, <1>6 DEF OutputInv, DeployInv

LEMMA DeployOwns ==
  ASSUME RunInv, OutputInv, Deploy
  PROVE  OutputInv'
<1>1. /\ job.pc = "idle" /\ UNCHANGED Durable /\ job' = job
      /\ ExactFrontier(ActiveRun)
      /\ deployed' = HandOver(deployed.revision + 1)
      /\ successors[ActiveRun] # 0 => "deploy" \in HandoffFaults
  BY DEF Deploy
<1>2. UNCHANGED <<raw, plans, results, checkpoints, successors, active, current>>
  BY <1>1 DEF Durable
<1>3. OwnInv' /\ IndexInv' /\ Outstanding' = Outstanding
  BY <1>2, OwnStays, IndexStays DEF OutputInv
<1>4. Outstanding = {}
  BY <1>1, OrphansAre DEF OutputInv, ExactFrontier
<1>5. JobOwns'
  BY <1>1 DEF JobOwns
<1>6. PICK a : a = ActiveRun
  OBVIOUS
<1>7. /\ deployed.revision \in Nat /\ Len(active) \in Nat /\ Len(active) > 0
      /\ plans[a].revision \in Nat /\ plans[a].revision <= deployed.revision
  BY <1>6, Basics DEF OutputInv, DeployInv, Revisions, RunInv, LogInv, Shape
<1>8. deployed'.revision = deployed.revision + 1 /\ deployed'.handoff = Len(active)
  BY <1>1, <1>6, <1>7 DEF HandOver
<1>9. Revisions'
  <2>1. ASSUME NEW r \in Runs
        PROVE  plans[r].revision \in Nat /\ plans[r].revision <= deployed.revision + 1
    BY <1>7 DEF OutputInv, DeployInv, Revisions
  <2> QED
    BY <1>2, <1>7, <1>8, <2>1 DEF Revisions, Runs
<1>10. ManifestFits'
  <2>1. plans[a].revision # deployed'.revision
    BY <1>7, <1>8
  <2>2. VerifiesManifest(a)'
    BY <1>2, <1>8, <2>1 DEF VerifiesManifest, RequireExactOutputFrontier
  <2>3. VerifiesManifest(ActiveRun)'
    BY <1>2, <1>6, <2>2 DEF VerifiesManifest, RequireExactOutputFrontier, ActiveRun
  <2> QED
    BY <1>1, <1>2, <2>3 DEF ManifestFits, ActiveRun
<1>11. HandedOverIsExact'
  BY <1>3, <1>4 DEF HandedOverIsExact
<1> QED
  BY <1>3, <1>5, <1>9, <1>10, <1>11 DEF OutputInv, DeployInv

-----------------------------------------------------------------------------
(* The log grows.                                                          *)

TypedSegment(seg) ==
  /\ \A u \in DOMAIN seg.entries : seg.entries[u].status \in Statuses
  /\ IsFiniteSet(DOMAIN seg.entries) /\ IsFiniteSet(seg.names)

LEMMA LogGrew ==
  ASSUME RunInv, OwnInv, NEW seg, TypedSegment(seg), raw' = Append(raw, seg),
         UNCHANGED <<plans, results, checkpoints, successors, active>>
  PROVE  /\ Len(raw') = Len(raw) + 1 /\ DOMAIN raw' = DOMAIN raw \union {Len(raw) + 1}
         /\ \A i \in DOMAIN raw : i \in Nat /\ i < Len(raw) + 1 /\ raw'[i] = raw[i]
         /\ raw'[Len(raw) + 1] = seg
         /\ ActiveRun' = ActiveRun /\ Runs' = Runs
         /\ (\A r \in Runs : PlanIsExact(r) /\ (r = ActiveRun => ResultsAreExact(r)))'
         /\ Typed' /\ SuccessorIsLast'
         /\ Outstanding' = IF seg.kind = "posts" THEN Outstanding
                           ELSE Outstanding \union {Len(raw) + 1}
<1>1. /\ DOMAIN raw = 1 .. Len(raw) /\ Len(raw) \in Nat
      /\ ActiveRun \in Runs
      /\ \A r \in Runs : plans[r].source \in Nat /\ plans[r].source <= Len(raw)
  BY Basics
<1>2. /\ Len(raw') = Len(raw) + 1 /\ DOMAIN raw' = 1 .. Len(raw) + 1
      /\ \A i \in DOMAIN raw : raw'[i] = raw[i]
      /\ raw'[Len(raw) + 1] = seg
  BY Appended DEF RunInv, LogInv, Shape
<1>3. /\ DOMAIN raw' = DOMAIN raw \union {Len(raw) + 1}
      /\ \A i \in DOMAIN raw : i \in Nat /\ i < Len(raw) + 1
  BY <1>1, <1>2
<1>4. ActiveRun' = ActiveRun /\ Runs' = Runs
  BY DEF ActiveRun, Runs
<1>5. \A r \in Runs : PlanIsExact(r)'
  <2> SUFFICES ASSUME NEW r \in Runs
               PROVE  PlanIsExact(r)'
    OBVIOUS
  <2>1. PICK n : n = plans[r].source
    OBVIOUS
  <2>2. n \in Nat /\ 1 .. n \subseteq DOMAIN raw
    BY <1>1, <2>1
  <2>3. \A u, kind : Mentions(n, u, kind)' = Mentions(n, u, kind)
    BY <1>2, <2>2 DEF Mentions
  <2>4. Captured(n)' = Captured(n) /\ Enriched(n)' = Enriched(n)
    BY <2>3 DEF Captured, Enriched
  <2>5. PlanIsExact(r)
    BY DEF OwnInv
  <2>6. /\ DOMAIN plans[r].queue = Captured(n)'
        /\ With(plans[r], "done") \subseteq Enriched(n)'
    BY <2>1, <2>4, <2>5 DEF PlanIsExact
  <2> QED
    BY <2>1, <2>6 DEF PlanIsExact, With
<1>6. Typed'
  <2>1. ASSUME NEW i \in DOMAIN raw'
        PROVE  /\ \A u \in DOMAIN raw'[i].entries : raw'[i].entries[u].status \in Statuses
               /\ IsFiniteSet(DOMAIN raw'[i].entries) /\ IsFiniteSet(raw'[i].names)
    <3>1. CASE i \in DOMAIN raw
      BY <1>2, <3>1 DEF OwnInv, Typed
    <3>2. CASE i = Len(raw) + 1
      BY <1>2, <3>2 DEF TypedSegment
    <3> QED
      BY <1>3, <3>1, <3>2
  <2> QED
    BY <1>4, <2>1 DEF OwnInv, Typed
<1>7. PICK a, c : a = ActiveRun /\ c = checkpoints[ActiveRun]
  OBVIOUS
<1>8. \A k \in Kinds : \A n \in 1 .. c.outputs[k] : results[a][k][n] \in DOMAIN raw
  BY <1>1, <1>7, CountedAre
<1>9. "queue" \in Kinds
  BY DEF Kinds
<1>10. ResultsAreExact(a)'
  <2>1. ResultsAreExact(a)
    BY <1>1, <1>7 DEF OwnInv
  <2>2. \A n \in 1 .. c.outputs["queue"] : UnitsOfResult(a, n)' = UnitsOfResult(a, n)
    BY <1>2, <1>8, <1>9 DEF UnitsOfResult
  <2>3. DoneSince(a)' = DoneSince(a) /\ checkpoints'[a] = c /\ checkpoints[a] = c
    BY <1>7 DEF DoneSince, With
  <2>4. PICK m : m = c.outputs["queue"]
    OBVIOUS
  <2>5. /\ \A n \in 1 .. m : UnitsOfResult(a, n)' \subseteq DoneSince(a)'
        /\ \A p, n \in 1 .. m : p < n => UnitsOfResult(a, p)' \cap UnitsOfResult(a, n)' = {}
        /\ \A u \in DoneSince(a)' : \E n \in 1 .. m : u \in UnitsOfResult(a, n)'
    BY <2>1, <2>2, <2>3, <2>4 DEF ResultsAreExact
  <2>6. checkpoints'[a].outputs["queue"] = m
    BY <2>3, <2>4
  <2> QED
    BY <2>5, <2>6 DEF ResultsAreExact, UnitsOfResult
<1>11. (\A r \in Runs : PlanIsExact(r) /\ (r = ActiveRun => ResultsAreExact(r)))'
  BY <1>4, <1>5, <1>7, <1>10
<1>12. SuccessorIsLast'
  BY <1>4 DEF OwnInv, SuccessorIsLast
<1>13. Outstanding' = IF seg.kind = "posts" THEN Outstanding
                      ELSE Outstanding \union {Len(raw) + 1}
  <2>1. Counted(a, c)' = Counted(a, c)
    BY <1>3, <1>8 DEF Counted
  <2>2. PICK n : n = plans[a].source
    OBVIOUS
  <2>3. OutputsAfter(n)' = IF seg.kind = "posts" THEN OutputsAfter(n)
                           ELSE OutputsAfter(n) \union {Len(raw) + 1}
    <3>1. n \in Nat /\ n < Len(raw) + 1
      BY <1>1, <1>7, <2>2
    <3>2. PICK m : m = Len(raw) + 1
      OBVIOUS
    <3> QED
      BY <1>2, <1>3, <3>1, <3>2 DEF OutputsAfter
  <2>4. Len(raw) + 1 \notin Counted(a, c)
    BY <1>3 DEF Counted
  <2>5. Outstanding = OutputsAfter(n) \ Counted(a, c)
    BY <1>7, <2>2 DEF Outstanding
  <2>6. Outstanding' = OutputsAfter(n)' \ Counted(a, c)'
    BY <1>4, <1>7, <2>2 DEF Outstanding, OutputsAfter, Counted
  <2> QED
    BY <2>1, <2>3, <2>4, <2>5, <2>6
<1> QED
  BY <1>2, <1>3, <1>4, <1>5, <1>6, <1>11, <1>12, <1>13

LEMMA IndexGrew ==
  ASSUME RunInv, OutputInv, NEW seg, TypedSegment(seg), raw' = Append(raw, seg),
         UNCHANGED <<plans, results, checkpoints, successors, active, current>>,
         seg.kind # "posts" => ~ HasDatabase(ActiveRun)
  PROVE  IndexInv'
<1>1. /\ DOMAIN raw' = DOMAIN raw \union {Len(raw) + 1}
      /\ \A i \in DOMAIN raw : raw'[i] = raw[i]
      /\ raw'[Len(raw) + 1] = seg
      /\ ActiveRun' = ActiveRun /\ Runs' = Runs
      /\ seg.kind = "posts" => Outstanding' = Outstanding
  BY LogGrew DEF OutputInv
<1>2. DatabasesAreSettled'
  <2> SUFFICES ASSUME NEW r \in Runs, HasDatabase(r)
               PROVE  /\ Database(r) \subseteq DOMAIN raw'
                      /\ \A i \in Database(r) : raw'[i].kind = "posts" => i <= plans[r].source
                      /\ Settled(r)'
    BY <1>1 DEF DatabasesAreSettled, HasDatabase, Database
  <2>1. /\ Database(r) \subseteq DOMAIN raw
        /\ \A i \in Database(r) : raw[i].kind = "posts" => i <= plans[r].source
        /\ Settled(r)
    BY DEF OutputInv, IndexInv, DatabasesAreSettled
  <2>2. \A i \in Database(r) : raw'[i] = raw[i]
    BY <1>1, <2>1
  <2>3. Database(r)' = Database(r)
    BY DEF Database
  <2>4. Settled(r)'
    BY <2>1, <2>2, <2>3 DEF Settled, With
  <2> QED
    BY <1>1, <2>1, <2>2, <2>4
<1>3. ActiveDatabaseIsComplete'
  <2>1. PICK a : a = ActiveRun
    OBVIOUS
  <2> SUFFICES ASSUME HasDatabase(a)
               PROVE  ActiveDatabaseIsComplete'
    BY <1>1, <2>1 DEF ActiveDatabaseIsComplete, HasDatabase
  <2>2. seg.kind = "posts" /\ Outstanding' = Outstanding
    BY <1>1, <2>1
  <2>3. OutputsAfter(0)' \subseteq OutputsAfter(0)
    BY <1>1, <2>2 DEF OutputsAfter
  <2>4. /\ OutputsAfter(0) \subseteq Database(a)
        /\ Outstanding = {}
        /\ current.run = plans[a].base => current.segments \subseteq Database(a)
    BY <2>1 DEF OutputInv, IndexInv, ActiveDatabaseIsComplete
  <2>5. Database(a)' = Database(a)
    BY DEF Database
  <2> QED
    BY <1>1, <2>1, <2>2, <2>3, <2>4, <2>5 DEF ActiveDatabaseIsComplete, Database
<1>4. IndexIsADatabase' /\ BasesComeBefore'
  BY <1>1 DEF OutputInv, IndexInv, IndexIsADatabase, BasesComeBefore, Database
<1> QED
  BY <1>2, <1>3, <1>4 DEF IndexInv

LEMMA ArriveOwns ==
  ASSUME RunInv, OutputInv, Arrive
  PROVE  OutputInv'
<1>1. PICK u \in Units : raw' = Append(raw, Capture(u))
  BY DEF Arrive
<1>2. PICK seg : seg = Capture(u)
  OBVIOUS
<1>3. seg.kind = "posts" /\ TypedSegment(seg)
  <2>1. seg.names = {} /\ IsFiniteSet({})
    BY <1>2, FS_EmptySet DEF Capture, Segment
  <2>2. seg.kind = "posts" /\ seg.entries = [v \in {u} |-> Entry("pending", 0)]
    BY <1>2 DEF Capture, Segment
  <2>3. IsFiniteSet({u})
    BY FS_Singleton
  <2> QED
    BY <2>1, <2>2, <2>3 DEF TypedSegment, Entry, Statuses
<1>4. UNCHANGED <<plans, results, checkpoints, successors, active, current, deployed, job>>
  BY DEF Arrive
<1>5. /\ Len(raw') = Len(raw) + 1 /\ DOMAIN raw' = DOMAIN raw \union {Len(raw) + 1}
      /\ \A i \in DOMAIN raw : i \in Nat /\ i < Len(raw) + 1 /\ raw'[i] = raw[i]
      /\ raw'[Len(raw) + 1] = seg
      /\ ActiveRun' = ActiveRun /\ Runs' = Runs
      /\ (\A r \in Runs : PlanIsExact(r) /\ (r = ActiveRun => ResultsAreExact(r)))'
      /\ Typed' /\ SuccessorIsLast'
      /\ Outstanding' = Outstanding
  BY <1>1, <1>2, <1>3, <1>4, LogGrew DEF OutputInv
<1>6. IndexInv'
  BY <1>1, <1>2, <1>3, <1>4, IndexGrew
<1>7. OneOutstanding'
  <2>1. PICK a : a = ActiveRun
    OBVIOUS
  <2>2. \A o \in Outstanding : raw'[o] = raw[o]
    BY <1>5 DEF Outstanding, OutputsAfter
  <2>3. OneOutstanding
    BY DEF OutputInv, OwnInv
  <2> QED
    BY <1>4, <1>5, <2>1, <2>2, <2>3 DEF OneOutstanding, Fits, Remaining, With
<1>8. LaterRunsAreFresh'
  <2> SUFFICES ASSUME NEW r \in Runs, ActiveRun < r
               PROVE  OutputsAfter(plans[r].source)' = {}
    BY <1>4, <1>5 DEF OutputInv, OwnInv, LaterRunsAreFresh
  <2>1. OutputsAfter(plans[r].source) = {}
    BY DEF OutputInv, OwnInv, LaterRunsAreFresh
  <2>2. PICK n : n = plans[r].source
    OBVIOUS
  <2>3. OutputsAfter(n)' \subseteq OutputsAfter(n)
    BY <1>3, <1>5 DEF OutputsAfter
  <2> QED
    BY <1>4, <2>1, <2>2, <2>3 DEF OutputsAfter
<1>9. JobOwns'
  <2>1. job.pc = "commit" => job.out \in DOMAIN raw
    BY JobState DEF Relies, JobWrites, Writing
  <2>2. job.pc = "commit" => raw'[job.out] = raw[job.out]
    BY <1>5, <2>1
  <2> QED
    BY <1>4, <1>5, <2>2 DEF OutputInv, JobOwns
<1>10. Revisions'
  BY <1>4 DEF OutputInv, DeployInv, Revisions, Runs
<1>11. ManifestFits'
  BY <1>4 DEF OutputInv, DeployInv, ManifestFits, VerifiesManifest,
              RequireExactOutputFrontier, ActiveRun
<1>12. HandedOverIsExact'
  BY <1>4, <1>5 DEF OutputInv, DeployInv, HandedOverIsExact, RequireExactOutputFrontier, ActiveRun
<1> QED
  BY <1>5, <1>6, <1>7, <1>8, <1>9, <1>10, <1>11, <1>12 DEF OutputInv, OwnInv, DeployInv

(* What a prefix of the log captured is finite, and so are the queues. *)
LEMMA PrefixesAreFinite ==
  ASSUME RunInv, OwnInv, NEW n \in Nat, n <= Len(raw)
  PROVE  IsFiniteSet(Captured(n)) /\ IsFiniteSet(Enriched(n))
<1>1. 1 .. n \subseteq DOMAIN raw /\ IsFiniteSet(1 .. n)
  BY Basics, FS_Interval
<1>2. PICK S : S = {DOMAIN raw[i].entries : i \in 1 .. n}
  OBVIOUS
<1>3. IsFiniteSet(S)
  <2>1. PICK f : f = [i \in 1 .. n |-> DOMAIN raw[i].entries]
    OBVIOUS
  <2>2. f \in Surjection(1 .. n, S)
    BY <1>2, <2>1 DEF Surjection
  <2> QED
    BY <1>1, <2>2, FS_Surjection
<1>4. \A T \in S : IsFiniteSet(T)
  BY <1>1, <1>2 DEF OwnInv, Typed
<1>5. IsFiniteSet(UNION S)
  BY <1>3, <1>4, FS_UNION
<1>6. Captured(n) \subseteq UNION S /\ Enriched(n) \subseteq UNION S
  BY <1>2 DEF Captured, Enriched, Mentions
<1> QED
  BY <1>5, <1>6, FS_Subset

LEMMA QueuesAreFinite ==
  ASSUME RunInv, OwnInv, NEW r \in Runs
  PROVE  IsFiniteSet(DOMAIN plans[r].queue) /\ IsFiniteSet(DOMAIN checkpoints[r].queue)
<1>1. PICK n : n = plans[r].source
  OBVIOUS
<1>2. IsFiniteSet(Captured(n))
  BY <1>1, Basics, PrefixesAreFinite
<1> QED
  BY <1>1, <1>2, Basics DEF OwnInv, PlanIsExact

(* A job stores an output: the only one that is outstanding. *)
LEMMA OutputMade ==
  ASSUME RunInv, OutputInv, job.pc \in Working, NEW seg, seg.kind \in Kinds, TypedSegment(seg),
         Fits(job.state, seg), raw' = Append(raw, seg),
         UNCHANGED <<plans, results, checkpoints, successors, active, current, deployed>>,
         job'.pc = "claim", job'.out = Len(raw')
  PROVE  OutputInv'
<1>1. PICK a, c : a = ActiveRun /\ c = checkpoints[ActiveRun]
  OBVIOUS
<1>2. /\ job.run = a /\ job.state = c /\ c = checkpoints[a]
      /\ c.publication \in {"pending", "building"}
  BY <1>1, JobState DEF Relies, JobFollows, JobWorks, Working
<1>3. seg.kind # "posts" /\ Outstanding = {} /\ ~ HasDatabase(ActiveRun)
  BY <1>1, <1>2 DEF Kinds, OutputInv, JobOwns, Working, HasDatabase
<1>4. /\ Len(raw') = Len(raw) + 1
      /\ raw'[Len(raw) + 1] = seg
      /\ ActiveRun' = ActiveRun /\ Runs' = Runs
      /\ (\A r \in Runs : PlanIsExact(r) /\ (r = ActiveRun => ResultsAreExact(r)))'
      /\ Typed' /\ SuccessorIsLast'
      /\ Outstanding' = {Len(raw) + 1}
  BY <1>3, LogGrew DEF OutputInv
<1>5. IndexInv'
  BY <1>3, IndexGrew
<1>6. OneOutstanding'
  <2>1. ASSUME NEW k \in Kinds
        PROVE  ~ c.outputs[k] + 1 <= Len(results[a][k])
    BY <1>1, <1>3 DEF OutputInv, OwnInv, OneOutstanding
  <2>2. Fits(c, seg)
    BY <1>2
  <2>3. \A o \in Outstanding' : raw'[o] = seg
    BY <1>4
  <2> QED
    BY <1>1, <1>2, <1>4, <2>1, <2>2, <2>3 DEF OneOutstanding, Fits, Remaining, With
<1>7. LaterRunsAreFresh'
  <2>1. \A r \in Runs : ~ ActiveRun < r
    BY <1>1, <1>2 DEF OutputInv, OwnInv, LaterRunsAreFresh
  <2> QED
    BY <1>4, <2>1 DEF LaterRunsAreFresh
<1>8. JobOwns'
  BY <1>4 DEF JobOwns
<1>9. Revisions'
  BY DEF OutputInv, DeployInv, Revisions, Runs
<1>10. ManifestFits'
  BY DEF OutputInv, DeployInv, ManifestFits, VerifiesManifest,
         RequireExactOutputFrontier, ActiveRun
<1>11. HandedOverIsExact'
  BY DEF HandedOverIsExact
<1> QED
  BY <1>4, <1>5, <1>6, <1>7, <1>8, <1>9, <1>10, <1>11 DEF OutputInv, OwnInv, DeployInv

LEMMA SegmentIs ==
  ASSUME NEW kind, NEW entries, NEW names
  PROVE  /\ Segment(kind, entries, names).kind = kind
         /\ Segment(kind, entries, names).entries = entries
         /\ Segment(kind, entries, names).names = names
BY DEF Segment

(* An output of units of the queue that are not done. *)
LEMMA UnitsOutputMade ==
  ASSUME RunInv, OutputInv, job.pc \in Working, NEW kind \in {"queue", "attempt"}, NEW e,
         DOMAIN e # {}, DOMAIN e \subseteq DOMAIN job.state.queue \ With(job.state, "done"),
         \A u \in DOMAIN e : e[u].status \in Statuses,
         NEW seg, seg = Segment(kind, e, {}), raw' = Append(raw, seg),
         UNCHANGED <<plans, results, checkpoints, successors, active, current, deployed>>,
         job'.pc = "claim", job'.out = Len(raw')
  PROVE  OutputInv'
<1>1. seg.kind = kind /\ seg.entries = e /\ seg.names = {}
  BY SegmentIs
<1>2. TypedSegment(seg)
  <2>1. IsFiniteSet(DOMAIN job.state.queue)
    BY JobState, QueuesAreFinite DEF OutputInv, Relies, JobFollows, Working
  <2>2. IsFiniteSet(DOMAIN e)
    BY <2>1, FS_Subset
  <2> QED
    BY <1>1, <2>2, FS_EmptySet DEF TypedSegment
<1>3. Fits(job.state, seg) /\ seg.kind \in Kinds
  BY <1>1 DEF Fits, Kinds
<1> QED
  BY <1>2, <1>3, OutputMade

LEMMA DispatchWaveOwns ==
  ASSUME RunInv, OutputInv, DispatchWave
  PROVE  OutputInv'
<1>1. job.pc = "tick" /\ IsJob(job)
  BY JobState DEF DispatchWave
<1>2. PICK wave \in (SUBSET Claimable) \ {{}} :
        /\ raw' = Append(raw, Reservation(wave))
        /\ job' = [job EXCEPT !.pc = "claim", !.out = Len(raw'),
                              !.back = "wave", !.wave = wave]
  BY DEF DispatchWave
<1>3. wave \subseteq DOMAIN job.state.queue \ With(job.state, "done") /\ wave # {}
  BY DEF Claimable, Owed, With
<1>4. PICK e : e = [u \in wave |->
        Entry("retrying", LeastOf(job.state.queue[u].attempts + 1, MaxAttempts))]
  OBVIOUS
<1>5. DOMAIN e = wave /\ \A u \in wave : e[u].status \in Statuses
  BY <1>4 DEF Entry, Statuses
<1>6. PICK seg : seg = Segment("attempt", e, {})
  OBVIOUS
<1>7. raw' = Append(raw, seg)
  BY <1>2, <1>4, <1>6 DEF Reservation
<1>8. job'.pc = "claim" /\ job'.out = Len(raw')
  BY <1>1, <1>2 DEF IsJob
<1>9. UNCHANGED <<plans, results, checkpoints, successors, active, current, deployed>>
  BY DEF DispatchWave, Published
<1> QED
  BY <1>1, <1>3, <1>5, <1>6, <1>7, <1>8, <1>9, UnitsOutputMade DEF Working

LEMMA WaveSettles ==
  ASSUME RunInv, job.pc = "wave", NEW units \in SUBSET job.wave, NEW back, Settle(units, back)
  PROVE  /\ units \subseteq DOMAIN job.state.queue \ With(job.state, "done")
         /\ job'.pc = "claim" /\ job'.out = Len(raw')
<1>1. IsJob(job) /\ WaveIsOpen(job)
  BY JobState DEF Relies
<1> QED
  BY <1>1 DEF Settle, IsJob, WaveIsOpen

LEMMA PersistAndApplyOwns ==
  ASSUME RunInv, OutputInv, PersistAndApply
  PROVE  OutputInv'
<1>1. job.pc = "wave"
  BY DEF PersistAndApply
<1>2. PICK units \in (SUBSET job.wave) \ {{}} :
        raw' = Append(raw, ResultsOf(units)) /\ Settle(units, AfterSettling(units))
  BY DEF PersistAndApply
<1>3. PICK e : e = [u \in units |-> Entry("done", 0)]
  OBVIOUS
<1>4. DOMAIN e = units /\ \A u \in units : e[u].status \in Statuses
  BY <1>3 DEF Entry, Statuses
<1>5. PICK seg : seg = Segment("queue", e, {})
  OBVIOUS
<1>6. raw' = Append(raw, seg)
  BY <1>2, <1>3, <1>5 DEF ResultsOf
<1>7. UNCHANGED <<plans, results, checkpoints, successors, active, current, deployed>>
  BY DEF PersistAndApply, Published
<1>8. PICK back : back = AfterSettling(units)
  OBVIOUS
<1>9. /\ units \subseteq DOMAIN job.state.queue \ With(job.state, "done")
      /\ job'.pc = "claim" /\ job'.out = Len(raw')
  BY <1>1, <1>2, <1>8, WaveSettles
<1>10. units # {}
  OBVIOUS
<1> QED
  BY <1>1, <1>4, <1>5, <1>6, <1>7, <1>9, <1>10, UnitsOutputMade DEF Working

LEMMA FailAttemptOwns ==
  ASSUME RunInv, OutputInv, FailAttempt
  PROVE  OutputInv'
<1>1. job.pc = "wave"
  BY DEF FailAttempt
<1>2. PICK u \in job.wave :
        raw' = Append(raw, FailedAttempt(u)) /\ Settle({u}, AfterSettling({u}))
  BY DEF FailAttempt
<1>3. PICK e : e = [v \in {u} |-> AttemptError(job.state.queue[u].attempts)]
  OBVIOUS
<1>4. DOMAIN e = {u} /\ \A v \in {u} : e[v].status \in Statuses
  BY <1>3 DEF AttemptError, Entry, Statuses
<1>5. PICK seg : seg = Segment("attempt", e, {})
  OBVIOUS
<1>6. raw' = Append(raw, seg)
  BY <1>2, <1>3, <1>5 DEF FailedAttempt
<1>7. UNCHANGED <<plans, results, checkpoints, successors, active, current, deployed>>
  BY DEF FailAttempt, Published
<1>8. PICK back : back = AfterSettling({u})
  OBVIOUS
<1>9. PICK units : units = {u}
  OBVIOUS
<1>10. /\ units \subseteq DOMAIN job.state.queue \ With(job.state, "done")
       /\ job'.pc = "claim" /\ job'.out = Len(raw')
  BY <1>1, <1>2, <1>8, <1>9, WaveSettles
<1> QED
  BY <1>1, <1>4, <1>5, <1>6, <1>7, <1>9, <1>10, UnitsOutputMade DEF Working

(* Decisions on names, and a receipt. *)
LEMMA WorkOutputs ==
  ASSUME RunInv, OutputInv, PersistRegistryDecisions \/ WriteReceipt
  PROVE  OutputInv'
<1>1. /\ IsJob(job) /\ job.pc \in {"registry", "receipt"} /\ IsState(job.state)
      /\ UNCHANGED <<plans, results, checkpoints, successors, active, current, deployed>>
  BY JobState DEF PersistRegistryDecisions, WriteReceipt, Published
<1>2. job.pc \in Working
  BY <1>1 DEF Working
<1>3. DOMAIN NoEntries = {}
  BY DEF NoEntries
<1>4. CASE WriteReceipt
  <2>1. PICK seg : seg = Segment("receipt", NoEntries, {})
    OBVIOUS
  <2>2. Output(seg, "ticked")
    BY <1>4, <2>1 DEF WriteReceipt
  <2>3. /\ raw' = Append(raw, seg)
        /\ job'.pc = "claim" /\ job'.out = Len(raw')
    BY <1>1, <2>2 DEF Output, IsJob
  <2>4. seg.kind = "receipt" /\ DOMAIN seg.entries = {} /\ seg.names = {}
    BY <1>3, <2>1, SegmentIs
  <2>5. TypedSegment(seg) /\ seg.kind \in Kinds /\ Fits(job.state, seg)
    BY <2>4, FS_EmptySet DEF TypedSegment, Kinds, Fits
  <2> QED
    BY <1>1, <1>2, <2>3, <2>5, OutputMade
<1>5. CASE PersistRegistryDecisions
  <2>1. PICK last \in (job.state.next + 1) .. job.state.names :
          Output(Segment("registry", NoEntries, (job.state.next + 1) .. last), "registry")
    BY <1>5 DEF PersistRegistryDecisions
  <2>2. PICK next, names : next = job.state.next /\ names = (next + 1) .. last
    OBVIOUS
  <2>3. next \in Nat /\ job.state.names \in Nat
    <3>1. job.state = checkpoints[job.run] /\ job.run \in Runs
      BY <1>1, JobState DEF Relies, JobFollows
    <3> QED
      BY <2>2, <3>1 DEF OutputInv, OwnInv, Typed
  <2>4. last \in Int /\ next + 1 <= last
    BY <2>1, <2>2, <2>3
  <2>5. next + 1 \in names /\ next + 1 > next /\ IsFiniteSet(names)
    <3>1. PICK first : first = next + 1
      OBVIOUS
    <3>2. first \in Int /\ first > next /\ first <= last /\ names = first .. last
      BY <2>2, <2>3, <2>4, <3>1
    <3>3. IsFiniteSet(names)
      BY <2>4, <3>2, FS_Interval
    <3> QED
      BY <2>4, <3>1, <3>2, <3>3
  <2>6. PICK seg : seg = Segment("registry", NoEntries, names)
    OBVIOUS
  <2>7. Output(seg, "registry")
    BY <2>1, <2>2, <2>6
  <2>8. /\ raw' = Append(raw, seg)
        /\ job'.pc = "claim" /\ job'.out = Len(raw')
    BY <1>1, <2>7 DEF Output, IsJob
  <2>9. seg.kind = "registry" /\ DOMAIN seg.entries = {} /\ seg.names = names
    BY <1>3, <2>6, SegmentIs
  <2>10. next + 1 \in Remaining(job.state, seg)
    BY <2>2, <2>5, <2>9 DEF Remaining
  <2>11. TypedSegment(seg) /\ seg.kind \in Kinds /\ Fits(job.state, seg)
    BY <2>5, <2>9, <2>10, FS_EmptySet DEF TypedSegment, Kinds, Fits
  <2> QED
    BY <1>1, <1>2, <2>8, <2>11, OutputMade
<1> QED
  BY <1>4, <1>5

-----------------------------------------------------------------------------
(* An output is claimed and counted.                                       *)

(* The next result of the run is a claim of the output, and nothing else   *)
(* of the results changes.                                                 *)
Claims(a, c, out, kind, n) ==
  /\ a = ActiveRun /\ c = checkpoints[a] /\ out = job.out /\ kind = raw[out].kind
  /\ n = c.outputs[kind] + 1
  /\ a \in Runs /\ job.run = a /\ job.state = c /\ kind \in Kinds
  /\ out \in DOMAIN raw /\ Outstanding = {out} /\ Fits(c, raw[out])
  /\ n \in Nat /\ c.outputs[kind] \in Nat
  /\ \A r \in Runs, k \in Kinds :
       r # a \/ k # kind => results'[r][k] = results[r][k]
  /\ Len(results'[a][kind]) = n /\ results'[a][kind][n] = out
  /\ \A m \in 1 .. n - 1 : results'[a][kind][m] = results[a][kind][m]
  /\ job'.pc = "commit" /\ job'.run = a /\ job'.out = out
  /\ job'.state = ApplyDurableOutput(c, raw[out])

LEMMA ResultClaimed ==
  ASSUME RunInv, OutputInv, ClaimResult
  PROVE  \E a, c, out, kind, n : Claims(a, c, out, kind, n)
<1>1. /\ IsJob(job) /\ Relies(job) /\ job.pc = "claim"
  BY JobState DEF ClaimResult
<1>15. PICK a, out : a = ActiveRun /\ out = job.out
  OBVIOUS
<1>16. PICK c, kind : c = checkpoints[a] /\ kind = raw[out].kind
  OBVIOUS
<1>17. PICK n : n = c.outputs[kind] + 1
  OBVIOUS
<1>2. /\ a \in Runs /\ job.run = a /\ job.state = c /\ out \in DOMAIN raw /\ kind \in Kinds
      /\ DOMAIN results = Runs
  BY <1>1, <1>15, <1>16, ListFacts, Basics
     DEF Relies, JobFollows, JobWrites, Writing, RunInv, LogInv, Shape, Runs
<1>3. Outstanding = {out} /\ Fits(c, raw[out])
  <2>1. Outstanding = {out}
    BY <1>1, <1>15 DEF OutputInv, JobOwns
  <2> QED
    BY <1>15, <1>16, <2>1 DEF OutputInv, OwnInv, OneOutstanding
<1>4. PICK q : q = results[a][kind]
  OBVIOUS
<1>5. q \in Seq(Nat) /\ Len(q) \in Nat /\ c.outputs[kind] \in Nat /\ c.outputs[kind] <= Len(q)
  <2>1. Follows(a, c) /\ c.outputs \in [Kinds -> Nat] /\ results[a] \in [Kinds -> Seq(Nat)]
    BY <1>2, <1>16, Basics
  <2> QED
    BY <1>2, <1>4, <2>1 DEF Follows
<1>6. n \in Nat /\ n <= Len(q) + 1
  BY <1>5, <1>17
<1>7. n <= Len(q) => n = Len(q) /\ q[n] = out
  <2>1. n <= Len(q) => n = Len(q) /\ q[n] \in Outstanding
    BY <1>2, <1>4, <1>15, <1>16, <1>17 DEF OutputInv, OwnInv, OneOutstanding
  <2> QED
    BY <1>3, <2>1
<1>8. Applies(c, raw[out])
  BY <1>3 DEF Fits, Applies
<1>9. /\ results' = IF Len(q) < n THEN [results EXCEPT ![a][kind] = Append(q, out)] ELSE results
      /\ job' = [job EXCEPT !.pc = "commit", !.state = ApplyDurableOutput(c, raw[out])]
  <2>1. /\ results' = IF Len(q) < n
                      THEN [results EXCEPT ![job.run][kind] = Append(@, out)]
                      ELSE results
        /\ IF (Len(q) < n \/ q[n] = out) /\ Applies(c, raw[out])
           THEN job' = [job EXCEPT !.pc = "commit", !.state = ApplyDurableOutput(c, raw[out])]
           ELSE EndJob
    BY <1>2, <1>4, <1>15, <1>16, <1>17 DEF ClaimResult
  <2>2. Len(q) < n \/ q[n] = out
    BY <1>5, <1>6, <1>7
  <2>3. [results EXCEPT ![job.run][kind] = Append(@, out)]
          = [results EXCEPT ![a][kind] = Append(q, out)]
    BY <1>2, <1>4
  <2> QED
    BY <1>8, <2>1, <2>2, <2>3
<1>10. PICK t : t = ApplyDurableOutput(c, raw[out])
  OBVIOUS
<1>11. job'.pc = "commit" /\ job'.run = a /\ job'.out = out /\ job'.state = t
  BY <1>1, <1>2, <1>9, <1>10, <1>15 DEF IsJob
<1>12. /\ \A r \in Runs, k \in Kinds :
            r # a \/ k # kind => results'[r][k] = results[r][k]
       /\ Len(results'[a][kind]) = n /\ results'[a][kind][n] = out
       /\ \A m \in 1 .. n - 1 : results'[a][kind][m] = results[a][kind][m]
  <2>1. CASE Len(q) < n
    <3>1. PICK p : p = Append(q, out)
      OBVIOUS
    <3>2. n = Len(q) + 1 /\ out \in Nat
      <4>1. PICK l : l = Len(q)
        OBVIOUS
      <4>2. l \in Nat /\ n \in Nat /\ n <= l + 1 /\ l < n
        BY <1>5, <1>6, <2>1, <4>1
      <4>3. n = l + 1
        BY <4>2
      <4>4. out \in Nat
        BY <1>2, Basics
      <4> QED
        BY <4>1, <4>3, <4>4
    <3>3. Len(p) = n /\ p[n] = out /\ \A m \in 1 .. n - 1 : p[m] = q[m]
      BY <1>5, <3>1, <3>2, AppendProperties
    <3>4. results' = [results EXCEPT ![a][kind] = p]
      BY <1>9, <2>1, <3>1
    <3>5. \A r \in Runs : results[r] \in [Kinds -> Seq(Nat)]
      BY Basics
    <3>6. results'[a] = [results[a] EXCEPT ![kind] = p] /\ \A r \in Runs : r # a => results'[r] = results[r]
      BY <1>2, <3>4
    <3>7. results'[a][kind] = p /\ \A k \in Kinds : k # kind => results'[a][k] = results[a][k]
      BY <1>2, <3>5, <3>6
    <3> QED
      BY <1>4, <3>3, <3>6, <3>7
  <2>2. CASE n <= Len(q)
    <3>1. results' = results
      BY <1>5, <1>6, <1>9, <2>2
    <3>2. n = Len(q) /\ q[n] = out
      BY <1>7, <2>2
    <3>3. results'[a][kind] = q
      BY <1>4, <3>1
    <3>4. /\ Len(results'[a][kind]) = n /\ results'[a][kind][n] = out
          /\ \A m \in 1 .. n - 1 : results'[a][kind][m] = results[a][kind][m]
      BY <1>4, <3>2, <3>3, Zenon
    <3> QED
      BY <3>1, <3>4
  <2> QED
    BY <1>5, <1>6, <2>1, <2>2
<1> QED
  <2>1. Claims(a, c, out, kind, n)
    BY <1>2, <1>3, <1>5, <1>6, <1>10, <1>11, <1>12, <1>15, <1>16, <1>17, Zenon DEF Claims
  <2> QED
    BY <2>1, Zenon

LEMMA ClaimResultOwns ==
  ASSUME RunInv, OutputInv, ClaimResult
  PROVE  OutputInv'
<1>1. PICK a, c, out, kind, n : Claims(a, c, out, kind, n)
  BY ResultClaimed
<1>2. n = c.outputs[kind] + 1 /\ c.outputs[kind] \in Nat
  BY <1>1, Zenon DEF Claims
<1>3. a = ActiveRun /\ c = checkpoints[a] /\ a \in Runs
  BY <1>1, Zenon DEF Claims
<1>4. /\ a = ActiveRun /\ c = checkpoints[a] /\ out = job.out /\ kind = raw[out].kind
      /\ n = c.outputs[kind] + 1
      /\ a \in Runs /\ job.run = a /\ job.state = c /\ kind \in Kinds
      /\ out \in DOMAIN raw /\ Outstanding = {out} /\ Fits(c, raw[out])
      /\ n \in Nat /\ c.outputs[kind] \in Nat
      /\ \A r \in Runs, k \in Kinds :
           r # a \/ k # kind => results'[r][k] = results[r][k]
      /\ Len(results'[a][kind]) = n /\ results'[a][kind][n] = out
      /\ \A m \in 1 .. n - 1 : results'[a][kind][m] = results[a][kind][m]
      /\ job'.pc = "commit" /\ job'.run = a /\ job'.out = out
      /\ job'.state = ApplyDurableOutput(c, raw[out])
  BY <1>1, Zenon DEF Claims
<1>5. /\ UNCHANGED <<raw, plans, checkpoints, successors, active, current, deployed>>
      /\ ActiveRun' = ActiveRun /\ Runs' = Runs
  BY DEF ClaimResult, Published, ActiveRun, Runs
<1>6. \A k \in Kinds : \A m \in 1 .. c.outputs[k] : results'[a][k][m] = results[a][k][m]
  <2>1. 1 .. n - 1 = 1 .. c.outputs[kind]
    BY <1>2
  <2> QED
    BY <1>4, <2>1
<1>7. Outstanding' = {out}
  <2>1. Counted(a, c)' = Counted(a, c)
    BY <1>5, <1>6 DEF Counted
  <2>2. Outstanding' = OutputsAfter(plans[a].source) \ Counted(a, c)'
    BY <1>3, <1>5 DEF Outstanding, OutputsAfter, Counted
  <2>3. Outstanding = OutputsAfter(plans[a].source) \ Counted(a, c)
    BY <1>4 DEF Outstanding
  <2> QED
    BY <1>4, <2>1, <2>2, <2>3
<1>8. (\A r \in Runs : PlanIsExact(r) /\ (r = ActiveRun => ResultsAreExact(r)))'
  <2>1. \A r \in Runs : PlanIsExact(r)'
    BY <1>5 DEF OutputInv, OwnInv, PlanIsExact, Captured, Enriched, Mentions, With
  <2>2. ResultsAreExact(a)'
    <3>1. \A m \in 1 .. c.outputs["queue"] : UnitsOfResult(a, m)' = UnitsOfResult(a, m)
      BY <1>5, <1>6 DEF UnitsOfResult, Kinds
    <3>2. ResultsAreExact(a)
      BY <1>4 DEF OutputInv, OwnInv
    <3>3. DoneSince(a)' = DoneSince(a) /\ checkpoints'[a] = c /\ checkpoints[a] = c
      BY <1>4, <1>5 DEF DoneSince, With
    <3>4. PICK m : m = c.outputs["queue"]
      OBVIOUS
    <3>5. /\ \A p \in 1 .. m : UnitsOfResult(a, p)' \subseteq DoneSince(a)'
          /\ \A o, p \in 1 .. m : o < p => UnitsOfResult(a, o)' \cap UnitsOfResult(a, p)' = {}
          /\ \A u \in DoneSince(a)' : \E p \in 1 .. m : u \in UnitsOfResult(a, p)'
      BY <3>1, <3>2, <3>3, <3>4 DEF ResultsAreExact
    <3> QED
      BY <3>3, <3>4, <3>5 DEF ResultsAreExact, UnitsOfResult
  <2> QED
    BY <1>4, <1>5, <2>1, <2>2
<1>9. Typed' /\ SuccessorIsLast'
  BY <1>5 DEF OutputInv, OwnInv, Typed, SuccessorIsLast
<1>10. OneOutstanding'
  <2>1. ASSUME NEW k \in Kinds, c.outputs[k] + 1 <= Len(results'[a][k])
        PROVE  /\ c.outputs[k] + 1 = Len(results'[a][k])
               /\ results'[a][k][c.outputs[k] + 1] = out
    <3>1. CASE k = kind
      BY <1>4, <3>1
    <3>2. CASE k # kind
      <4>1. results'[a][k] = results[a][k]
        BY <1>4, <3>2
      <4>2. /\ c.outputs[k] + 1 = Len(results[a][k])
            /\ results[a][k][c.outputs[k] + 1] \in Outstanding
        BY <1>4, <2>1, <4>1 DEF OutputInv, OwnInv, OneOutstanding
      <4> QED
        BY <1>4, <4>1, <4>2
    <3> QED
      BY <3>1, <3>2
  <2>2. Fits(c, raw[out])'
    BY <1>4, <1>5 DEF Fits, Remaining, With
  <2>3. /\ \A o, p \in Outstanding' : o = p
        /\ \A o \in Outstanding' : o = out
        /\ ActiveRun' = a /\ checkpoints'[a] = c
    BY <1>4, <1>5, <1>7
  <2>4. (\A o \in Outstanding : Fits(checkpoints[ActiveRun], raw[o]))'
    BY <2>2, <2>3 DEF Fits, Remaining, With
  <2>5. (\A k \in Kinds :
          LET m == checkpoints[ActiveRun].outputs[k] + 1
          IN  m <= Len(results[ActiveRun][k]) =>
                /\ m = Len(results[ActiveRun][k])
                /\ results[ActiveRun][k][m] \in Outstanding)'
    BY <1>7, <2>1, <2>3
  <2> QED
    BY <2>3, <2>4, <2>5 DEF OneOutstanding
<1>11. LaterRunsAreFresh'
  <2>1. \A r \in Runs : a < r => r # a
    BY Basics
  <2>2. \A r \in Runs : a < r => \A k \in Kinds : results'[r][k] = results[r][k]
    BY <1>4, <2>1
  <2>3. LaterRunsAreFresh
    BY DEF OutputInv, OwnInv
  <2> QED
    BY <1>3, <1>5, <2>2, <2>3 DEF LaterRunsAreFresh, OutputsAfter
<1>12. IndexInv'
  <2>1. ~ HasDatabase(a)
    BY <1>4 DEF OutputInv, IndexInv, ActiveDatabaseIsComplete
  <2>2. ActiveDatabaseIsComplete'
    BY <1>4, <1>5, <2>1 DEF ActiveDatabaseIsComplete, HasDatabase
  <2>3. DatabasesAreSettled' /\ IndexIsADatabase' /\ BasesComeBefore'
    BY <1>5 DEF OutputInv, IndexInv, DatabasesAreSettled, HasDatabase, Database, Settled, With,
         IndexIsADatabase, BasesComeBefore
  <2> QED
    BY <2>2, <2>3 DEF IndexInv
<1>13. JobOwns'
  <2>1. /\ job'.pc = "commit" /\ job'.run = a /\ job'.out = out
        /\ job'.state = ApplyDurableOutput(c, raw[out])
        /\ kind = raw[out].kind /\ n = c.outputs[kind] + 1
        /\ Len(results'[a][kind]) = n /\ results'[a][kind][n] = out
    BY <1>4
  <2>2. checkpoints'[a] = c /\ raw' = raw
    BY <1>3, <1>5
  <2> QED
    BY <1>7, <2>1, <2>2 DEF JobOwns
<1>14. DeployInv'
  BY <1>4, <1>5 DEF OutputInv, DeployInv, Revisions, ManifestFits, VerifiesManifest,
         RequireExactOutputFrontier, HandedOverIsExact
<1> QED
  BY <1>8, <1>9, <1>10, <1>11, <1>12, <1>13, <1>14 DEF OutputInv, OwnInv

(* What the job's checkpoint write changes. *)
LEMMA CheckpointIs ==
  ASSUME RunInv, job.pc \notin {"idle", "activated"}, NEW t, NEW pc, CommitCheckpoint(t, pc)
  PROVE  /\ job.run = ActiveRun /\ ActiveRun \in Runs
         /\ checkpoints'[ActiveRun] = t
         /\ \A r \in Runs : r # ActiveRun => checkpoints'[r] = checkpoints[r]
         /\ job'.pc = pc /\ job'.state = t /\ job'.out = job.out /\ job'.run = job.run
<1>1. IsJob(job) /\ job.run = ActiveRun /\ job.run \in Runs
  BY JobState DEF Relies, JobFollows
<1>2. IsList(checkpoints) /\ DOMAIN checkpoints = Runs
  BY ListFacts DEF RunInv, LogInv, Shape, Runs
<1>3. PICK a : a = ActiveRun
  OBVIOUS
<1>4. a \in DOMAIN checkpoints /\ checkpoints' = [checkpoints EXCEPT ![a] = t]
  BY <1>1, <1>2, <1>3 DEF CommitCheckpoint
<1>5. /\ checkpoints'[a] = t
      /\ \A r \in Runs : r # a => checkpoints'[r] = checkpoints[r]
  BY <1>2, <1>4
<1>6. PICK j : j = [job EXCEPT !.state = t, !.pc = pc]
  OBVIOUS
<1>7. j.pc = pc /\ j.state = t /\ j.out = job.out /\ j.run = job.run
  BY <1>1, <1>6 DEF IsJob
<1>8. job' = j
  BY <1>6 DEF CommitCheckpoint
<1> QED
  BY <1>1, <1>3, <1>5, <1>7, <1>8

(* The state after an output, and what the checkpoint then counts. *)
LEMMA OutputCommitted ==
  ASSUME RunInv, OutputInv, CommitOutput
  PROVE  \E a, c, out, seg, t :
           /\ a = ActiveRun /\ c = checkpoints[a] /\ out = job.out /\ seg = raw[out]
           /\ t = job.state /\ IsSegment(seg) /\ seg.kind \in Kinds /\ out \in DOMAIN raw
           /\ a \in Runs /\ job.run = a /\ Outstanding = {out} /\ Fits(c, seg)
           /\ IsState(c) /\ Follows(a, c)
           /\ t = ApplyDurableOutput(c, seg)
           /\ c.outputs[seg.kind] + 1 = Len(results[a][seg.kind])
           /\ results[a][seg.kind][c.outputs[seg.kind] + 1] = out
           /\ job.back \in Working \union {"reconcile"}
<1>1. /\ IsJob(job) /\ Relies(job) /\ job.pc = "commit"
  BY JobState DEF CommitOutput
<1>2. PICK a, out : a = ActiveRun /\ out = job.out
  OBVIOUS
<1>3. PICK c, seg : c = checkpoints[a] /\ seg = raw[out]
  OBVIOUS
<1>4. PICK t : t = job.state
  OBVIOUS
<1>5. /\ a \in Runs /\ job.run = a /\ out \in DOMAIN raw /\ seg.kind \in Kinds
      /\ job.back \in Working \union {"reconcile"}
  BY <1>1, <1>2, <1>3 DEF Relies, JobFollows, JobWrites, Writing
<1>6. IsSegment(seg) /\ IsState(c) /\ Follows(a, c)
  BY <1>3, <1>5, Basics
<1>7. /\ Outstanding = {out} /\ t = ApplyDurableOutput(c, seg)
      /\ c.outputs[seg.kind] + 1 = Len(results[a][seg.kind])
      /\ results[a][seg.kind][c.outputs[seg.kind] + 1] = out
  BY <1>1, <1>2, <1>3, <1>4, <1>5 DEF OutputInv, JobOwns
<1>8. Fits(c, seg)
  BY <1>2, <1>3, <1>7 DEF OutputInv, OwnInv, OneOutstanding
<1> QED
  BY <1>2, <1>3, <1>4, <1>5, <1>6, <1>7, <1>8

(* The state after an output: a unit the output completes was not done     *)
(* before.                                                                 *)
StateAfter(c, seg, t) ==
  /\ IsState(t) /\ DOMAIN t.queue = DOMAIN c.queue /\ t.publication = c.publication
  /\ \A k \in Kinds :
       t.outputs[k] = IF k = seg.kind THEN c.outputs[k] + 1 ELSE c.outputs[k]
  /\ \A u : u \in With(t, "done") <=>
             \/ u \in With(c, "done")
             \/ seg.kind = "queue" /\ u \in DOMAIN seg.entries
  /\ seg.kind = "queue" => DOMAIN seg.entries \cap With(c, "done") = {}
  /\ t.next = c.next + Cardinality(Remaining(c, seg)) /\ t.names = c.names
  /\ \A u \in DOMAIN c.queue :
       t.queue[u] = IF u \in DOMAIN seg.entries THEN seg.entries[u] ELSE c.queue[u]

LEMMA DoneAfter ==
  ASSUME NEW c, IsState(c), NEW seg, IsSegment(seg), seg.kind \in Kinds, Fits(c, seg)
  PROVE  StateAfter(c, seg, ApplyDurableOutput(c, seg))
<1>5. PICK t : t = ApplyDurableOutput(c, seg)
  OBVIOUS
<1>1. Applies(c, seg)
  BY DEF Fits, Applies
<1>2. /\ IsState(t) /\ DOMAIN t.queue = DOMAIN c.queue /\ t.publication = c.publication
      /\ \A k \in Kinds :
           t.outputs[k] = IF k = seg.kind THEN c.outputs[k] + 1 ELSE c.outputs[k]
      /\ With(c, "done") \subseteq With(t, "done")
      /\ seg.kind = "queue" =>
           DOMAIN seg.entries \intersect DOMAIN c.queue \subseteq With(t, "done")
      /\ With(t, "done") \subseteq
           With(c, "done") \union {u \in DOMAIN seg.entries : seg.kind = "queue"}
      /\ t.next = c.next + Cardinality(Remaining(c, seg)) /\ t.names = c.names
      /\ \A u \in DOMAIN c.queue :
           t.queue[u] = IF u \in DOMAIN seg.entries THEN seg.entries[u] ELSE c.queue[u]
  BY <1>1, <1>5, OutputApplied
<1>3. seg.kind = "queue" => DOMAIN seg.entries \subseteq DOMAIN c.queue \ With(c, "done")
  BY DEF Fits
<1>4. seg.kind = "queue" => DOMAIN seg.entries \subseteq With(t, "done")
  BY <1>2, <1>3
<1>6. StateAfter(c, seg, t)
  BY <1>2, <1>3, <1>4 DEF StateAfter
<1> QED
  BY <1>5, <1>6

LEMMA CommitOutputOwns ==
  ASSUME RunInv, OutputInv, CommitOutput
  PROVE  OutputInv'
<1>1. PICK a, c, out, seg, t :
        /\ a = ActiveRun /\ c = checkpoints[a] /\ out = job.out /\ seg = raw[out]
        /\ t = job.state /\ IsSegment(seg) /\ seg.kind \in Kinds /\ out \in DOMAIN raw
        /\ a \in Runs /\ job.run = a /\ Outstanding = {out} /\ Fits(c, seg)
        /\ IsState(c) /\ Follows(a, c)
        /\ t = ApplyDurableOutput(c, seg)
        /\ c.outputs[seg.kind] + 1 = Len(results[a][seg.kind])
        /\ results[a][seg.kind][c.outputs[seg.kind] + 1] = out
        /\ job.back \in Working \union {"reconcile"}
  BY OutputCommitted
<1>2. PICK D, kind : D = {u \in DOMAIN seg.entries : seg.kind = "queue"} /\ kind = seg.kind
  OBVIOUS
<1>3. /\ IsState(t) /\ DOMAIN t.queue = DOMAIN c.queue /\ t.publication = c.publication
      /\ \A k \in Kinds : t.outputs[k] = IF k = kind THEN c.outputs[k] + 1 ELSE c.outputs[k]
      /\ With(t, "done") = With(c, "done") \union D
      /\ D \cap With(c, "done") = {}
      /\ t.next = c.next + Cardinality(Remaining(c, seg)) /\ t.names = c.names
      /\ \A u \in DOMAIN c.queue :
           t.queue[u] = IF u \in DOMAIN seg.entries THEN seg.entries[u] ELSE c.queue[u]
  <2>1. IsState(c) /\ IsSegment(seg) /\ seg.kind \in Kinds /\ Fits(c, seg)
    BY <1>1
  <2>2. t = ApplyDurableOutput(c, seg)
    BY <1>1
  <2>3. D = {u \in DOMAIN seg.entries : seg.kind = "queue"} /\ kind = seg.kind
    BY <1>2
  <2>4. StateAfter(c, seg, t)
    BY <2>1, <2>2, DoneAfter
  <2> QED
    BY <2>3, <2>4 DEF StateAfter
<1>4. PICK pc : pc = job.back
  OBVIOUS
<1>5. /\ CommitCheckpoint(t, pc) /\ job.pc = "commit"
      /\ pc \notin {"claim", "commit", "bootstrapped", "building"}
      /\ UNCHANGED <<raw, plans, results, successors, active, current, deployed>>
  BY <1>1, <1>4 DEF CommitOutput, Published, Working
<1>6. /\ checkpoints'[a] = t
      /\ \A r \in Runs : r # a => checkpoints'[r] = checkpoints[r]
      /\ job'.pc = pc
  BY <1>1, <1>5, CheckpointIs
<1>7. ActiveRun' = a /\ Runs' = Runs
  BY <1>1, <1>5 DEF ActiveRun, Runs
<1>8. kind \in Kinds /\ results[a][kind][c.outputs[kind] + 1] = out
  BY <1>1, <1>2
<1>9. \A k \in Kinds : /\ c.outputs[k] \in Nat /\ results[a][k] \in Seq(Nat)
                       /\ c.outputs[k] <= Len(results[a][k])
  BY <1>1, Basics DEF Follows
<1>10. Outstanding' = {}
  <2>1. \A k \in Kinds : \A n \in 1 .. c.outputs[k] : n \in 1 .. t.outputs[k]
    BY <1>3, <1>9
  <2>2. Counted(a, c) \union {out} \subseteq Counted(a, t)
    <3>1. out \in Counted(a, t)
      <4>1. t.outputs[kind] = c.outputs[kind] + 1 /\ c.outputs[kind] \in Nat
        BY <1>3, <1>8, <1>9
      <4>2. t.outputs[kind] \in 1 .. t.outputs[kind] /\ results[a][kind][t.outputs[kind]] = out
        BY <1>8, <4>1
      <4> QED
        BY <1>1, <1>2, <4>2 DEF Counted
    <3> QED
      BY <2>1, <3>1 DEF Counted
  <2>3. Outstanding' = OutputsAfter(plans[a].source) \ Counted(a, t)
    BY <1>5, <1>6, <1>7 DEF Outstanding, OutputsAfter, Counted
  <2>4. OutputsAfter(plans[a].source) \ Counted(a, c) = {out}
    BY <1>1 DEF Outstanding
  <2> QED
    BY <2>2, <2>3, <2>4
<1>11. OneOutstanding'
  <2>1. ASSUME NEW k \in Kinds
        PROVE  ~ t.outputs[k] + 1 <= Len(results[a][k])
    <3>1. CASE k = kind
      <4>1. PICK l : l = Len(results[a][kind])
        OBVIOUS
      <4>2. l \in Nat
        BY <1>9, <3>1, <4>1
      <4>3. t.outputs[k] = l
        BY <1>1, <1>2, <1>3, <3>1, <4>1
      <4>4. ~ l + 1 <= l
        BY <4>2
      <4> QED
        BY <3>1, <4>1, <4>3, <4>4
    <3>2. CASE k # kind
      <4>1. t.outputs[k] = c.outputs[k]
        BY <1>3, <3>2
      <4>2. SUFFICES ASSUME c.outputs[k] + 1 <= Len(results[a][k])
                     PROVE  FALSE
        BY <4>1
      <4>3. results[a][k][c.outputs[k] + 1] = out
        BY <1>1, <4>2 DEF OutputInv, OwnInv, OneOutstanding
      <4>4. c.outputs[k] + 1 \in DOMAIN results[a][k]
        BY <1>9, <4>2
      <4>5. raw[out].kind = k
        <5>1. ClaimsFit /\ a \in Runs
          BY <1>1 DEF RunInv, LogInv
        <5> QED
          BY <4>3, <4>4, <5>1 DEF ClaimsFit
      <4> QED
        BY <1>1, <1>2, <3>2, <4>5
    <3> QED
      BY <3>1, <3>2
  <2> QED
    BY <1>5, <1>6, <1>7, <1>10, <2>1 DEF OneOutstanding
<1>12. \A r \in Runs : PlanIsExact(r)'
  BY <1>5 DEF OutputInv, OwnInv, PlanIsExact, Captured, Enriched, Mentions, With
<1>13. ResultsAreExact(a)'
  <2>1. PICK m, before, after :
          /\ m = c.outputs["queue"] /\ before = DoneSince(a) /\ after = before \union D
    OBVIOUS
  <2>2. /\ \A n \in 1 .. m : UnitsOfResult(a, n) \subseteq before
        /\ \A n, p \in 1 .. m : n < p => UnitsOfResult(a, n) \cap UnitsOfResult(a, p) = {}
        /\ \A u \in before : \E n \in 1 .. m : u \in UnitsOfResult(a, n)
    <3>1. ResultsAreExact(a)
      BY <1>1 DEF OutputInv, OwnInv
    <3> QED
      BY <1>1, <2>1, <3>1 DEF ResultsAreExact
  <2>3. before = With(c, "done") \ With(plans[a], "done") /\ With(plans[a], "done") \subseteq With(c, "done")
    BY <1>1, <2>1 DEF DoneSince, Follows
  <2>4. DoneSince(a)' = after /\ D \cap before = {}
    <3>1. With(plans[a], "done")' = With(plans[a], "done")
      BY <1>5 DEF With
    <3>2. With(checkpoints[a], "done")' = With(t, "done")
      BY <1>6 DEF With
    <3> QED
      BY <1>3, <2>1, <2>3, <3>1, <3>2 DEF DoneSince
  <2>5. \A n : UnitsOfResult(a, n)' = UnitsOfResult(a, n)
    BY <1>5 DEF UnitsOfResult
  <2>6. m \in Nat /\ "queue" \in Kinds
    BY <1>9, <2>1 DEF Kinds
  <2>7. PICK count : count = t.outputs["queue"]
    OBVIOUS
  <2>8. /\ \A n \in 1 .. count : UnitsOfResult(a, n) \subseteq after
        /\ \A n, p \in 1 .. count : n < p => UnitsOfResult(a, n) \cap UnitsOfResult(a, p) = {}
        /\ \A u \in after : \E n \in 1 .. count : u \in UnitsOfResult(a, n)
    <3>1. CASE kind # "queue"
      <4>1. count = m /\ D = {}
        BY <1>2, <1>3, <2>1, <2>6, <2>7, <3>1
      <4> QED
        BY <2>1, <2>2, <4>1
    <3>2. CASE kind = "queue"
      <4>1. count = m + 1
        BY <1>3, <2>1, <2>6, <2>7, <3>2
      <4>2. D = UnitsOfResult(a, count)
        BY <1>1, <1>2, <2>1, <3>2, <4>1 DEF UnitsOfResult
      <4>3. \A n \in 1 .. count : n \in 1 .. m \/ n = count
        BY <2>6, <4>1
      <4>4. count \in 1 .. count /\ \A n \in 1 .. m : n \in 1 .. count
        BY <2>6, <4>1
      <4>5. \A n \in 1 .. m : UnitsOfResult(a, n) \cap UnitsOfResult(a, count) = {}
        BY <2>2, <2>4, <4>2
      <4>6. \A n \in 1 .. count : ~ count < n
        BY <2>6, <4>1
      <4> QED
        BY <2>1, <2>2, <4>2, <4>3, <4>4, <4>5, <4>6
    <3> QED
      BY <3>1, <3>2
  <2>9. /\ \A n \in 1 .. count : UnitsOfResult(a, n)' \subseteq DoneSince(a)'
        /\ \A n, p \in 1 .. count : n < p => UnitsOfResult(a, n)' \cap UnitsOfResult(a, p)' = {}
        /\ \A u \in DoneSince(a)' : \E n \in 1 .. count : u \in UnitsOfResult(a, n)'
    BY <2>4, <2>5, <2>8
  <2> QED
    BY <1>6, <2>7, <2>9 DEF ResultsAreExact, UnitsOfResult
<1>14. Typed'
  <2>1. \A u \in DOMAIN t.queue : t.queue[u].status \in Statuses
    BY <1>1, <1>3 DEF OutputInv, OwnInv, Typed
  <2>2. t.next \in Nat /\ t.names \in Nat
    <3>1. c.next \in Nat /\ c.names \in Nat /\ IsFiniteSet(seg.names)
      BY <1>1 DEF OutputInv, OwnInv, Typed
    <3>2. IsFiniteSet(Remaining(c, seg))
      BY <3>1, FS_Subset DEF Remaining
    <3>3. Cardinality(Remaining(c, seg)) \in Nat
      BY <3>2, FS_CardinalityType
    <3> QED
      BY <1>3, <3>1, <3>3
  <2>3. ASSUME NEW r \in Runs
        PROVE  /\ \A u \in DOMAIN checkpoints'[r].queue : checkpoints'[r].queue[u].status \in Statuses
               /\ checkpoints'[r].next \in Nat /\ checkpoints'[r].names \in Nat
    BY <1>6, <2>1, <2>2 DEF OutputInv, OwnInv, Typed
  <2> QED
    BY <1>5, <1>7, <2>3 DEF OutputInv, OwnInv, Typed
<1>15. LaterRunsAreFresh'
  <2>1. ASSUME NEW r \in Runs, a < r
        PROVE  r # a
    <3>1. r \in Nat
      BY Basics
    <3> QED
      BY <2>1, <3>1
  <2>2. t.publication = c.publication /\ c = checkpoints[a] /\ a = ActiveRun
    BY <1>1, <1>3
  <2> SUFFICES ASSUME NEW r \in Runs, a < r
               PROVE  (/\ checkpoints[a].publication = "published"
                       /\ plans[r].base = a
                       /\ OutputsAfter(plans[r].source) = {}
                       /\ \A k \in Kinds : results[r][k] = <<>> /\ checkpoints[r].outputs[k] = 0
                       /\ checkpoints[r].queue = plans[r].queue)'
    BY <1>7 DEF LaterRunsAreFresh
  <2>3. /\ checkpoints[a].publication = "published"
        /\ plans[r].base = a
        /\ OutputsAfter(plans[r].source) = {}
        /\ \A k \in Kinds : results[r][k] = <<>> /\ checkpoints[r].outputs[k] = 0
        /\ checkpoints[r].queue = plans[r].queue
    BY <2>2 DEF OutputInv, OwnInv, LaterRunsAreFresh
  <2> QED
    BY <1>5, <1>6, <2>1, <2>2, <2>3 DEF OutputsAfter
<1>16. SuccessorIsLast'
  BY <1>1, <1>5, <1>7 DEF OutputInv, OwnInv, SuccessorIsLast
<1>17. IndexInv'
  <2>1. ~ HasDatabase(a)
    BY <1>1 DEF OutputInv, IndexInv, ActiveDatabaseIsComplete
  <2>2. t.publication \notin {"uploaded", "verified", "published"}
    BY <1>1, <1>3, <2>1 DEF HasDatabase
  <2>3. ActiveDatabaseIsComplete'
    BY <1>6, <1>7, <2>2 DEF ActiveDatabaseIsComplete, HasDatabase
  <2>4. DatabasesAreSettled'
    <3> SUFFICES ASSUME NEW r \in Runs, HasDatabase(r)'
                 PROVE  (/\ Database(r) \subseteq DOMAIN raw
                         /\ \A i \in Database(r) : raw[i].kind = "posts" => i <= plans[r].source
                         /\ Settled(r))'
      BY <1>7 DEF DatabasesAreSettled
    <3>1. r # a /\ checkpoints'[r] = checkpoints[r]
      BY <1>6, <2>2 DEF HasDatabase
    <3>2. HasDatabase(r)
      BY <3>1 DEF HasDatabase
    <3> QED
      BY <1>5, <3>1, <3>2 DEF OutputInv, IndexInv, DatabasesAreSettled, Database, Settled, With
  <2>5. IndexIsADatabase'
    <3>1. current.run # a
      <4>1. current.run = a => checkpoints[a].publication \in {"verified", "published"}
        <5>1. IndexIsADatabase
          BY DEF OutputInv, IndexInv
        <5>2. a # 0
          <6>1. a \in Runs
            BY <1>1
          <6> QED
            BY <6>1, Basics
        <5> QED
          BY <5>1, <5>2 DEF IndexIsADatabase
      <4> QED
        BY <1>1, <1>3, <2>2, <4>1
    <3> QED
      BY <1>5, <1>6, <1>7, <3>1 DEF OutputInv, IndexInv, IndexIsADatabase, Database
  <2>6. BasesComeBefore'
    BY <1>5, <1>7 DEF OutputInv, IndexInv, BasesComeBefore
  <2> QED
    BY <2>3, <2>4, <2>5, <2>6 DEF IndexInv
<1>18. JobOwns'
  BY <1>5, <1>6, <1>10 DEF JobOwns
<1>19. DeployInv'
  BY <1>1, <1>5, <1>6, <1>7, <1>10 DEF OutputInv, DeployInv, Revisions, ManifestFits, VerifiesManifest,
         RequireExactOutputFrontier, HandedOverIsExact
<1> QED
  BY <1>7, <1>11, <1>12, <1>13, <1>14, <1>15, <1>16, <1>17, <1>18, <1>19 DEF OutputInv, OwnInv

-----------------------------------------------------------------------------
(* Publication.                                                            *)

(* The job records how far the publication has come, and nothing of what   *)
(* the run has done changes.                                               *)
Records(a, c, t, pc) ==
  /\ a = ActiveRun /\ c = checkpoints[a] /\ a \in Runs /\ job.state = c /\ job.run = a
  /\ Outstanding = {}
  /\ t.queue = c.queue /\ t.next = c.next /\ t.names = c.names /\ t.outputs = c.outputs
  /\ t.publication = pc
  /\ checkpoints'[a] = t
  /\ \A r \in Runs : r # a => checkpoints'[r] = checkpoints[r]
  /\ job'.pc = pc /\ job'.state = t
  /\ UNCHANGED <<raw, plans, results, successors, active, current, deployed>>
  /\ ActiveRun' = a /\ Runs' = Runs

LEMMA RecordedOwns ==
  ASSUME RunInv, OutputInv, NEW a, NEW c, NEW t, NEW pc \in Publishing, Records(a, c, t, pc),
         pc = "published" \/ c.publication # "published",
         pc = "building" => RunIsComplete(c),
         IndexInv'
  PROVE  OutputInv'
<1>1. /\ a = ActiveRun /\ c = checkpoints[a] /\ a \in Runs
      /\ Outstanding = {}
      /\ t.queue = c.queue /\ t.next = c.next /\ t.names = c.names /\ t.outputs = c.outputs
      /\ t.publication = pc
      /\ checkpoints'[a] = t
      /\ \A r \in Runs : r # a => checkpoints'[r] = checkpoints[r]
      /\ job'.pc = pc /\ job'.state = t
      /\ UNCHANGED <<raw, plans, results, successors, active, current, deployed>>
      /\ ActiveRun' = a /\ Runs' = Runs
  BY DEF Records
<1>2. Outstanding' = {}
  <2>1. Counted(a, t) = Counted(a, c)
    BY <1>1 DEF Counted
  <2>2. Outstanding' = OutputsAfter(plans[a].source) \ Counted(a, t)
    BY <1>1 DEF Outstanding, OutputsAfter, Counted
  <2>3. Outstanding = OutputsAfter(plans[a].source) \ Counted(a, c)
    BY <1>1 DEF Outstanding
  <2> QED
    BY <1>1, <2>1, <2>2, <2>3
<1>3. \A r \in Runs : PlanIsExact(r)'
  BY <1>1 DEF OutputInv, OwnInv, PlanIsExact, Captured, Enriched, Mentions, With
<1>4. ResultsAreExact(a)'
  <2>1. DoneSince(a)' = DoneSince(a)
    <3>1. With(plans[a], "done")' = With(plans[a], "done")
      BY <1>1 DEF With
    <3>2. With(checkpoints[a], "done")' = With(checkpoints[a], "done")
      BY <1>1 DEF With
    <3> QED
      BY <3>1, <3>2 DEF DoneSince
  <2>2. \A n : UnitsOfResult(a, n)' = UnitsOfResult(a, n)
    BY <1>1 DEF UnitsOfResult
  <2>3. ResultsAreExact(a)
    BY <1>1 DEF OutputInv, OwnInv
  <2>4. checkpoints'[a].outputs["queue"] = checkpoints[a].outputs["queue"]
    BY <1>1
  <2>5. PICK m : m = checkpoints[a].outputs["queue"]
    OBVIOUS
  <2>6. /\ \A n \in 1 .. m : UnitsOfResult(a, n)' \subseteq DoneSince(a)'
        /\ \A n, p \in 1 .. m : n < p => UnitsOfResult(a, n)' \cap UnitsOfResult(a, p)' = {}
        /\ \A u \in DoneSince(a)' : \E n \in 1 .. m : u \in UnitsOfResult(a, n)'
    BY <2>1, <2>2, <2>3, <2>5 DEF ResultsAreExact
  <2> QED
    BY <2>4, <2>5, <2>6 DEF ResultsAreExact, UnitsOfResult
<1>5. Typed'
  BY <1>1 DEF OutputInv, OwnInv, Typed
<1>6. OneOutstanding'
  <2>1. ASSUME NEW k \in Kinds
        PROVE  ~ c.outputs[k] + 1 <= Len(results[a][k])
    BY <1>1 DEF OutputInv, OwnInv, OneOutstanding
  <2> QED
    BY <1>1, <1>2, <2>1 DEF OneOutstanding
<1>7. LaterRunsAreFresh'
  <2> SUFFICES ASSUME NEW r \in Runs, a < r
               PROVE  (/\ checkpoints[a].publication = "published"
                       /\ plans[r].base = a
                       /\ OutputsAfter(plans[r].source) = {}
                       /\ \A k \in Kinds : results[r][k] = <<>> /\ checkpoints[r].outputs[k] = 0
                       /\ checkpoints[r].queue = plans[r].queue)'
    BY <1>1 DEF LaterRunsAreFresh
  <2>1. r # a
    <3>1. r \in Nat
      BY Basics
    <3> QED
      BY <3>1
  <2>2. /\ checkpoints[a].publication = "published"
        /\ plans[r].base = a
        /\ OutputsAfter(plans[r].source) = {}
        /\ \A k \in Kinds : results[r][k] = <<>> /\ checkpoints[r].outputs[k] = 0
        /\ checkpoints[r].queue = plans[r].queue
    BY <1>1 DEF OutputInv, OwnInv, LaterRunsAreFresh
  <2> QED
    BY <1>1, <2>1, <2>2 DEF OutputsAfter
<1>8. SuccessorIsLast'
  BY <1>1 DEF OutputInv, OwnInv, SuccessorIsLast
<1>9. pc \notin {"idle", "reconcile", "claim", "commit", "bootstrapped"}
  BY DEF Publishing
<1>10. JobOwns'
  <2>1. pc = "building" => RunIsComplete(t)
    BY <1>1 DEF RunIsComplete, With
  <2>2. (RunIsComplete(job.state))' <=> RunIsComplete(t)
    BY <1>1 DEF RunIsComplete, With
  <2> QED
    BY <1>1, <1>2, <1>9, <2>1, <2>2 DEF JobOwns
<1>11. DeployInv'
  BY <1>1, <1>2, <1>9 DEF OutputInv, DeployInv, Revisions, ManifestFits, VerifiesManifest,
         RequireExactOutputFrontier, HandedOverIsExact
<1> QED
  BY <1>1, <1>3, <1>4, <1>5, <1>6, <1>7, <1>8, <1>10, <1>11 DEF OutputInv, OwnInv

(* A publication step that the job records. *)
LEMMA PublicationRecords ==
  ASSUME RunInv, OutputInv, job.pc \in {"ticked", "building", "uploaded", "swapped"},
         NEW pc, NEW d, NEW t,
         t = [SetPublicationState(job.state, pc) EXCEPT !.database = d],
         CommitCheckpoint(t, pc),
         UNCHANGED <<raw, plans, results, successors, active, current, deployed>>
  PROVE  \E a, c : Records(a, c, t, pc) /\ t.database = d
<1>1. PICK a : a = ActiveRun
  OBVIOUS
<1>2. PICK c : c = checkpoints[a]
  OBVIOUS
<1>3. /\ a \in Runs /\ job.run = a /\ job.state = c /\ IsState(c) /\ Outstanding = {}
  BY <1>1, <1>2, JobState DEF Relies, JobFollows, OutputInv, JobOwns
<1>4. t = [SetPublicationState(c, pc) EXCEPT !.database = d]
  BY <1>3
<1>5. /\ t.queue = c.queue /\ t.next = c.next /\ t.names = c.names /\ t.outputs = c.outputs
      /\ t.publication = pc /\ t.database = d
  <2>1. c = [queue |-> c.queue, next |-> c.next, names |-> c.names, outputs |-> c.outputs,
             publication |-> c.publication, database |-> c.database]
    BY <1>3 DEF IsState
  <2> QED
    BY <1>4, <2>1 DEF SetPublicationState
<1>6. /\ checkpoints'[a] = t
      /\ \A r \in Runs : r # a => checkpoints'[r] = checkpoints[r]
      /\ job'.pc = pc /\ job'.state = t
  BY <1>1, CheckpointIs
<1>7. ActiveRun' = a /\ Runs' = Runs
  BY <1>1 DEF ActiveRun, Runs
<1>8. Records(a, c, t, pc)
  BY <1>1, <1>2, <1>3, <1>5, <1>6, <1>7 DEF Records
<1> QED
  BY <1>5, <1>8

(* The publication of the active run moves on, with its database as it is. *)
LEMMA DatabasesStay ==
  ASSUME RunInv, OutputInv, NEW a, NEW c, NEW t, NEW pc \in {"verified", "published"},
         Records(a, c, t, pc), HasDatabase(a), t.database = c.database
  PROVE  IndexInv'
<1>1. /\ a = ActiveRun /\ c = checkpoints[a] /\ a \in Runs
      /\ t.queue = c.queue /\ t.outputs = c.outputs /\ t.publication = pc
      /\ checkpoints'[a] = t
      /\ \A r \in Runs : r # a => checkpoints'[r] = checkpoints[r]
      /\ UNCHANGED <<raw, plans, results, successors, active, current, deployed>>
      /\ ActiveRun' = a /\ Runs' = Runs
  BY DEF Records
<1>2. \A r \in Runs : /\ checkpoints'[r].database = checkpoints[r].database
                      /\ checkpoints'[r].queue = checkpoints[r].queue
                      /\ checkpoints'[r].outputs = checkpoints[r].outputs
                      /\ r # a => checkpoints'[r] = checkpoints[r]
  BY <1>1
<1>3. DatabasesAreSettled'
  <2> SUFFICES ASSUME NEW r \in Runs, HasDatabase(r)'
               PROVE  (/\ Database(r) \subseteq DOMAIN raw
                       /\ \A i \in Database(r) : raw[i].kind = "posts" => i <= plans[r].source
                       /\ Settled(r))'
    BY <1>1 DEF DatabasesAreSettled
  <2>1. HasDatabase(r)
    BY <1>1 DEF HasDatabase
  <2>2. Database(r)' = Database(r) /\ With(checkpoints[r], "blocked")' = With(checkpoints[r], "blocked")
    BY <1>2 DEF Database, With
  <2>3. Settled(r)' <=> Settled(r)
    BY <1>1, <2>2 DEF Settled, With
  <2> QED
    BY <1>1, <2>1, <2>2, <2>3 DEF OutputInv, IndexInv, DatabasesAreSettled
<1>4. ActiveDatabaseIsComplete'
  <2>1. Counted(a, t) = Counted(a, c)
    BY <1>1 DEF Counted
  <2>2. Outstanding' = Outstanding
    <3>1. Outstanding' = OutputsAfter(plans[a].source) \ Counted(a, t)
      BY <1>1 DEF Outstanding, OutputsAfter, Counted
    <3> QED
      BY <1>1, <2>1, <3>1 DEF Outstanding
  <2>3. OutputsAfter(0)' = OutputsAfter(0) /\ Database(a)' = Database(a)
    BY <1>1, <1>2 DEF OutputsAfter, Database
  <2>4. /\ OutputsAfter(0) \subseteq Database(a)
        /\ Outstanding = {}
        /\ current.run = plans[a].base => current.segments \subseteq Database(a)
    BY <1>1 DEF OutputInv, IndexInv, ActiveDatabaseIsComplete
  <2> QED
    BY <1>1, <2>2, <2>3, <2>4 DEF ActiveDatabaseIsComplete, Database
<1>5. IndexIsADatabase'
  <2>1. \A r \in Runs : Database(r)' = Database(r)
    BY <1>2 DEF Database
  <2>2. \A r \in Runs : checkpoints[r].publication \in {"verified", "published"}
                          => checkpoints'[r].publication \in {"verified", "published"}
    BY <1>1
  <2> QED
    BY <1>1, <1>2, <2>2 DEF OutputInv, IndexInv, IndexIsADatabase, Database
<1>6. BasesComeBefore'
  BY <1>1 DEF OutputInv, IndexInv, BasesComeBefore
<1> QED
  BY <1>3, <1>4, <1>5, <1>6 DEF IndexInv

LEMMA VerifyDatabaseOwns ==
  ASSUME RunInv, OutputInv, VerifyDatabase
  PROVE  OutputInv'
<1>1. /\ job.pc = "uploaded" /\ Relies(job) /\ IsState(job.state)
      /\ UNCHANGED <<raw, plans, results, successors, active, current, deployed>>
  BY JobState DEF VerifyDatabase, Published
<1>2. PICK t, d : t = SetPublicationState(job.state, "verified") /\ d = job.state.database
  OBVIOUS
<1>3. t = [SetPublicationState(job.state, "verified") EXCEPT !.database = d]
  BY <1>1, <1>2, SamePublication
<1>4. CommitCheckpoint(t, "verified")
  BY <1>2 DEF VerifyDatabase
<1>5. PICK a, c : Records(a, c, t, "verified") /\ t.database = d
  BY <1>1, <1>3, <1>4, PublicationRecords
<1>6. c.publication = "uploaded" /\ c = job.state /\ c = checkpoints[a]
  BY <1>1, <1>5 DEF Records, Relies, JobPublishes, Publishing
<1>7. IndexInv'
  BY <1>2, <1>5, <1>6, DatabasesStay DEF HasDatabase
<1> QED
  BY <1>5, <1>6, <1>7, RecordedOwns DEF Publishing

LEMMA CommitPublishedOwns ==
  ASSUME RunInv, OutputInv, CommitPublished
  PROVE  OutputInv'
<1>1. /\ job.pc = "swapped" /\ Relies(job) /\ IsState(job.state)
      /\ UNCHANGED <<raw, plans, results, successors, active, current, deployed>>
  BY JobState DEF CommitPublished, Published
<1>2. PICK t, d : t = SetPublicationState(job.state, "published") /\ d = job.state.database
  OBVIOUS
<1>3. t = [SetPublicationState(job.state, "published") EXCEPT !.database = d]
  BY <1>1, <1>2, SamePublication
<1>4. CommitCheckpoint(t, "published")
  BY <1>2 DEF CommitPublished
<1>5. PICK a, c : Records(a, c, t, "published") /\ t.database = d
  BY <1>1, <1>3, <1>4, PublicationRecords
<1>6. c = job.state /\ c = checkpoints[a] /\ a \in Runs /\ current.run = a /\ Runs \subseteq Nat \ {0}
  BY <1>1, <1>5, Basics DEF Records, Relies, JobPublishes
<1>7. c.publication \in {"verified", "published"}
  BY <1>6 DEF OutputInv, IndexInv, IndexIsADatabase
<1>8. IndexInv'
  BY <1>2, <1>5, <1>6, <1>7, DatabasesStay DEF HasDatabase
<1> QED
  BY <1>5, <1>8, RecordedOwns DEF Publishing

LEMMA BeginPublicationOwns ==
  ASSUME RunInv, OutputInv, BeginPublication
  PROVE  OutputInv'
<1>1. /\ job.pc = "ticked" /\ Relies(job) /\ IsState(job.state) /\ RunIsComplete(job.state)
      /\ UNCHANGED <<raw, plans, results, successors, active, current, deployed>>
  BY JobState DEF BeginPublication, Published
<1>2. PICK t, d : t = SetPublicationState(job.state, "building") /\ d = job.state.database
  OBVIOUS
<1>3. t = [SetPublicationState(job.state, "building") EXCEPT !.database = d]
  BY <1>1, <1>2, SamePublication
<1>4. CommitCheckpoint(t, "building")
  BY <1>2 DEF BeginPublication
<1>5. PICK a, c : Records(a, c, t, "building") /\ t.database = d
  BY <1>1, <1>3, <1>4, PublicationRecords
<1>6. /\ c = job.state /\ c = checkpoints[a] /\ a \in Runs /\ a = ActiveRun
      /\ t.publication = "building" /\ checkpoints'[a] = t
      /\ \A r \in Runs : r # a => checkpoints'[r] = checkpoints[r]
      /\ UNCHANGED <<raw, plans, results, successors, active, current, deployed>>
      /\ ActiveRun' = a /\ Runs' = Runs
  BY <1>5 DEF Records
<1>7. c.publication \in {"pending", "building"}
  BY <1>1, <1>6 DEF Relies, JobWorks, Working
<1>8. IndexInv'
  <2>1. ActiveDatabaseIsComplete'
    BY <1>6 DEF ActiveDatabaseIsComplete, HasDatabase
  <2>2. DatabasesAreSettled'
    <3> SUFFICES ASSUME NEW r \in Runs, HasDatabase(r)'
                 PROVE  (/\ Database(r) \subseteq DOMAIN raw
                         /\ \A i \in Database(r) : raw[i].kind = "posts" => i <= plans[r].source
                         /\ Settled(r))'
      BY <1>6 DEF DatabasesAreSettled
    <3>1. r # a /\ checkpoints'[r] = checkpoints[r]
      BY <1>6 DEF HasDatabase
    <3>2. HasDatabase(r)
      BY <3>1 DEF HasDatabase
    <3> QED
      BY <1>6, <3>1, <3>2 DEF OutputInv, IndexInv, DatabasesAreSettled, Database, Settled, With
  <2>3. IndexIsADatabase'
    <3>1. current.run # a
      <4>1. current.run = a => checkpoints[a].publication \in {"verified", "published"}
        BY <1>6, Basics DEF OutputInv, IndexInv, IndexIsADatabase
      <4> QED
        BY <1>6, <1>7, <4>1
    <3> QED
      BY <1>6, <3>1 DEF OutputInv, IndexInv, IndexIsADatabase, Database
  <2>4. BasesComeBefore'
    BY <1>6 DEF OutputInv, IndexInv, BasesComeBefore
  <2> QED
    BY <2>1, <2>2, <2>3, <2>4 DEF IndexInv
<1> QED
  BY <1>1, <1>5, <1>6, <1>7, <1>8, RecordedOwns DEF Publishing

(* The database with no unit of its posts owed. *)
DatabaseFits(c, n, d) ==
  /\ d \subseteq DOMAIN raw
  /\ \A i \in d : raw[i].kind = "posts" => i <= n
  /\ OutputsAfter(0) \subseteq d
  /\ \A i \in d, u \in Units :
       raw[i].kind = "posts" /\ u \in DOMAIN raw[i].entries =>
         \/ u \in With(c, "blocked")
         \/ \E j \in d : raw[j].kind = "queue" /\ u \in DOMAIN raw[j].entries

(* The database of a complete run: what the base index holds comes before  *)
(* the source, every output is claimed, and no unit of its posts is owed.  *)
LEMMA DatabaseIsSettled ==
  ASSUME RunInv, OutputInv, NEW a, a = ActiveRun, NEW c, c = checkpoints[a], NEW n,
         n = plans[a].source, RunIsComplete(c), Outstanding = {}, current.run = plans[a].base,
         NEW d, d = current.segments \union (1 .. n) \union Counted(a, c)
  PROVE  DatabaseFits(c, n, d)
<1>1. /\ a \in Runs /\ n \in Nat /\ n <= Len(raw) /\ DOMAIN raw = 1 .. Len(raw) /\ Len(raw) \in Nat
      /\ Follows(a, c) /\ DOMAIN c.queue = DOMAIN plans[a].queue
      /\ \A i \in DOMAIN raw : raw[i].kind # "posts" <=> raw[i].kind \in Kinds
  BY Basics
<1>2. 1 .. n \subseteq DOMAIN raw /\ \A i \in 1 .. n : i <= n
  BY <1>1
<1>3. /\ current.segments \subseteq DOMAIN raw
      /\ \A i \in current.segments : raw[i].kind = "posts" => i <= n
  <2>1. CASE current.run = 0
    <3>1. a = 1
      BY <1>1, <2>1 DEF OutputInv, IndexInv, BasesComeBefore
    <3>2. current.segments \subseteq 1 .. n
      BY <2>1, <3>1 DEF OutputInv, IndexInv, IndexIsADatabase
    <3> QED
      BY <1>2, <3>2
  <2>2. CASE current.run # 0
    <3>1. PICK b : b = current.run
      OBVIOUS
    <3>2. b \in Runs /\ current.segments = Database(b) /\ HasDatabase(b)
      BY <2>2, <3>1 DEF OutputInv, IndexInv, IndexIsADatabase, HasDatabase
    <3>3. /\ current.segments \subseteq DOMAIN raw
          /\ \A i \in current.segments : raw[i].kind = "posts" => i <= plans[b].source
      BY <3>2 DEF OutputInv, IndexInv, DatabasesAreSettled
    <3>4. plans[b].source <= n /\ plans[b].source \in Nat
      BY <1>1, <2>2, <3>1, <3>2, Basics DEF OutputInv, IndexInv, BasesComeBefore
    <3>5. ASSUME NEW i \in current.segments, raw[i].kind = "posts"
          PROVE  i <= n
      <4>1. PICK m : m = plans[b].source
        OBVIOUS
      <4>2. i \in Nat /\ m \in Nat /\ i <= m /\ m <= n
        BY <1>1, <3>3, <3>4, <3>5, <4>1
      <4> QED
        BY <1>1, <4>2
    <3> QED
      BY <3>3, <3>5
  <2> QED
    BY <2>1, <2>2
<1>4. Counted(a, c) \subseteq DOMAIN raw /\ \A i \in Counted(a, c) : raw[i].kind # "posts"
  <2> SUFFICES ASSUME NEW i \in Counted(a, c)
               PROVE  i \in DOMAIN raw /\ raw[i].kind # "posts"
    OBVIOUS
  <2>1. PICK k \in Kinds : \E m \in 1 .. c.outputs[k] : results[a][k][m] = i
    BY DEF Counted
  <2>2. PICK m \in 1 .. checkpoints[a].outputs[k] : results[a][k][m] = i
    BY <2>1
  <2>3. raw[i].kind = k /\ i \in DOMAIN raw
    BY <1>1, <2>2, CountedAre
  <2> QED
    BY <1>1, <2>3
<1>5. d \subseteq DOMAIN raw /\ \A i \in d : raw[i].kind = "posts" => i <= n
  BY <1>2, <1>3, <1>4
<1>6. OutputsAfter(0) \subseteq d
  <2> SUFFICES ASSUME NEW i \in DOMAIN raw, raw[i].kind # "posts"
               PROVE  i \in d
    BY DEF OutputsAfter
  <2>1. i \in 1 .. n \/ n < i
    BY <1>1
  <2>2. n < i => i \in Counted(a, c)
    BY DEF Outstanding, OutputsAfter
  <2> QED
    BY <2>1, <2>2
<1>7. ASSUME NEW i \in d, NEW u \in Units, raw[i].kind = "posts", u \in DOMAIN raw[i].entries,
             u \notin With(c, "blocked")
      PROVE  \E j \in d : raw[j].kind = "queue" /\ u \in DOMAIN raw[j].entries
  <2>1. i \in 1 .. n
    BY <1>1, <1>5, <1>7
  <2>2. u \in Captured(n)
    BY <1>7, <2>1 DEF Captured, Mentions
  <2>3. u \in DOMAIN c.queue
    BY <1>1, <2>2 DEF OutputInv, OwnInv, PlanIsExact
  <2>4. u \in With(c, "done")
    <3>1. c.queue[u].status \in Statuses
      BY <1>1, <2>3 DEF OutputInv, OwnInv, Typed
    <3> QED
      BY <1>7, <2>3, <3>1 DEF RunIsComplete, With, Statuses
  <2>5. CASE u \in With(plans[a], "done")
    <3>1. u \in Enriched(n)
      BY <1>1, <2>5 DEF OutputInv, OwnInv, PlanIsExact
    <3>2. PICK j \in 1 .. n : raw[j].kind = "queue" /\ u \in DOMAIN raw[j].entries
      BY <3>1 DEF Enriched, Mentions
    <3> QED
      BY <3>2
  <2>6. CASE u \notin With(plans[a], "done")
    <3>1. u \in DoneSince(a) /\ ResultsAreExact(a)
      BY <1>1, <2>4, <2>6 DEF DoneSince, OutputInv, OwnInv
    <3>2. PICK m \in 1 .. c.outputs["queue"] : u \in UnitsOfResult(a, m)
      BY <3>1 DEF ResultsAreExact
    <3>3. PICK j : j = results[a]["queue"][m]
      OBVIOUS
    <3>4. "queue" \in Kinds /\ m \in 1 .. checkpoints[a].outputs["queue"]
      BY DEF Kinds
    <3>5. j \in DOMAIN raw /\ raw[j].kind = "queue" /\ u \in DOMAIN raw[j].entries
      BY <1>1, <3>2, <3>3, <3>4, CountedAre DEF UnitsOfResult
    <3>6. j \in Counted(a, c)
      BY <3>3, <3>4, <3>5 DEF Counted
    <3> QED
      BY <3>5, <3>6
  <2> QED
    BY <2>5, <2>6
<1> QED
  BY <1>5, <1>6, <1>7 DEF DatabaseFits

LEMMA UploadDatabaseOwns ==
  ASSUME RunInv, OutputInv, UploadDatabase
  PROVE  OutputInv'
<1>1. /\ job.pc = "building" /\ Relies(job) /\ IsState(job.state) /\ RunIsComplete(job.state)
      /\ Outstanding = {}
      /\ UNCHANGED <<raw, plans, results, successors, active, current, deployed>>
  BY JobState DEF UploadDatabase, Published, OutputInv, JobOwns
<1>2. PICK d, t :
        /\ d = current.segments \union (1 .. plans[job.run].source) \union ClaimedKeys(job.run)
        /\ t = [SetPublicationState(job.state, "uploaded") EXCEPT !.database = d]
  <2>1. PICK d : d = current.segments \union (1 .. plans[job.run].source)
                       \union ClaimedKeys(job.run)
    OBVIOUS
  <2>2. PICK t : t = [SetPublicationState(job.state, "uploaded") EXCEPT !.database = d]
    OBVIOUS
  <2> QED
    BY <2>1, <2>2
<1>3. CASE EndJob /\ UNCHANGED checkpoints
  <2>1. UNCHANGED <<Durable, deployed>> /\ job'.pc = "idle"
    BY <1>1, <1>3 DEF Durable, EndJob, NoJob
  <2>2. HandedOverIsExact'
    BY <1>1, <2>1, ExactStays DEF OutputInv, DeployInv
  <2> QED
    BY <2>1, <2>2, JobMoves
<1>4. CASE CommitCheckpoint(t, "uploaded") /\ current.run = plans[job.run].base
  <2>1. PICK a, c : Records(a, c, t, "uploaded") /\ t.database = d
    BY <1>1, <1>2, <1>4, PublicationRecords
  <2>2. /\ c = job.state /\ c = checkpoints[a] /\ a \in Runs /\ a = ActiveRun /\ job.run = a
        /\ t.publication = "uploaded" /\ checkpoints'[a] = t
        /\ t.queue = c.queue /\ t.outputs = c.outputs
        /\ \A r \in Runs : r # a => checkpoints'[r] = checkpoints[r]
        /\ UNCHANGED <<raw, plans, results, successors, active, current, deployed>>
        /\ ActiveRun' = a /\ Runs' = Runs
    BY <2>1 DEF Records
  <2>3. c.publication = "building"
    BY <1>1, <2>2 DEF Relies, JobPublishes, Publishing
  <2>4. PICK n : n = plans[a].source
    OBVIOUS
  <2>5. d = current.segments \union (1 .. n) \union Counted(a, c)
    BY <1>2, <2>2, <2>4, ClaimedKeysAreCounted
  <2>6. current.run = plans[a].base /\ RunIsComplete(c)
    BY <1>1, <1>4, <2>2
  <2>7. DatabaseFits(c, n, d)
    <3>1. a = ActiveRun /\ c = checkpoints[a] /\ n = plans[a].source /\ Outstanding = {}
      BY <1>1, <2>2, <2>4
    <3> QED
      BY <2>5, <2>6, <3>1, DatabaseIsSettled
  <2>8. ActiveDatabaseIsComplete'
    <3>1. Counted(a, t) = Counted(a, c)
      BY <2>2 DEF Counted
    <3>2. Outstanding' = Outstanding
      <4>1. Outstanding' = OutputsAfter(plans[a].source) \ Counted(a, t)
        BY <2>2 DEF Outstanding, OutputsAfter, Counted
      <4> QED
        BY <2>2, <3>1, <4>1 DEF Outstanding
    <3>3. OutputsAfter(0)' = OutputsAfter(0) /\ Database(a)' = d
      BY <2>1, <2>2 DEF OutputsAfter, Database
    <3> QED
      BY <1>1, <2>2, <2>5, <2>7, <3>2, <3>3 DEF ActiveDatabaseIsComplete, Database, DatabaseFits
  <2>9. DatabasesAreSettled'
    <3> SUFFICES ASSUME NEW r \in Runs, HasDatabase(r)'
                 PROVE  (/\ Database(r) \subseteq DOMAIN raw
                         /\ \A i \in Database(r) : raw[i].kind = "posts" => i <= plans[r].source
                         /\ Settled(r))'
      BY <2>2 DEF DatabasesAreSettled
    <3>1. CASE r = a
      <4>1. Database(a)' = d
        BY <2>1, <2>2 DEF Database
      <4>2. With(checkpoints[a], "blocked")' = With(c, "blocked")
        BY <2>2 DEF With
      <4>3. Settled(a)'
        BY <2>2, <2>7, <4>1, <4>2 DEF Settled, With, DatabaseFits
      <4> QED
        BY <2>2, <2>4, <2>7, <3>1, <4>1, <4>3 DEF DatabaseFits
    <3>2. CASE r # a
      <4>1. checkpoints'[r] = checkpoints[r]
        BY <2>2, <3>2
      <4>2. HasDatabase(r)
        BY <4>1 DEF HasDatabase
      <4> QED
        BY <2>2, <4>1, <4>2 DEF OutputInv, IndexInv, DatabasesAreSettled, Database, Settled, With
    <3> QED
      BY <3>1, <3>2
  <2>10. IndexIsADatabase'
    <3>1. current.run # a
      <4>1. current.run = a => checkpoints[a].publication \in {"verified", "published"}
        BY <2>2, Basics DEF OutputInv, IndexInv, IndexIsADatabase
      <4> QED
        BY <2>2, <2>3, <4>1
    <3> QED
      BY <2>2, <3>1 DEF OutputInv, IndexInv, IndexIsADatabase, Database
  <2>11. BasesComeBefore'
    BY <2>2 DEF OutputInv, IndexInv, BasesComeBefore
  <2>12. IndexInv'
    BY <2>8, <2>9, <2>10, <2>11 DEF IndexInv
  <2> QED
    BY <2>1, <2>3, <2>12, RecordedOwns DEF Publishing
<1> QED
  BY <1>2, <1>3, <1>4 DEF UploadDatabase

LEMMA SwapManifestOwns ==
  ASSUME RunInv, OutputInv, SwapManifest
  PROVE  OutputInv'
<1>1. /\ job.pc = "verified" /\ IsJob(job) /\ Relies(job)
      /\ UNCHANGED <<raw, plans, results, checkpoints, successors, active, deployed>>
      /\ Outstanding = {}
  BY JobState DEF SwapManifest, OutputInv, JobOwns
<1>2. PICK a, c : a = ActiveRun /\ c = checkpoints[ActiveRun]
  OBVIOUS
<1>3. /\ job.run = a /\ job.state = c /\ c.publication = "verified" /\ a \in Runs
      /\ c = checkpoints[a] /\ Runs \subseteq Nat \ {0}
  BY <1>1, <1>2, Basics DEF Relies, JobFollows, JobPublishes, Publishing
<1>4. PICK m : m = [run |-> a, segments |-> c.database]
  OBVIOUS
<1>5. IF current.run = plans[a].base
      THEN current' = m /\ Goto("swapped")
      ELSE UNCHANGED current /\ (IF current = m THEN Goto("swapped") ELSE EndJob)
  BY <1>3, <1>4 DEF SwapManifest
<1>6. CASE UNCHANGED current
  <2>1. UNCHANGED <<Durable, deployed>>
    BY <1>1, <1>6 DEF Durable
  <2>2. job'.pc \in {"idle", "swapped"}
    BY <1>1, <1>5 DEF Goto, EndJob, NoJob, IsJob
  <2>3. HandedOverIsExact'
    BY <1>1, <2>1, ExactStays DEF OutputInv, DeployInv
  <2> QED
    BY <1>1, <2>1, <2>2, <2>3, JobMoves
<1>7. CASE current.run = plans[a].base /\ current' = m /\ Goto("swapped")
  <2>1. job'.pc = "swapped"
    BY <1>1, <1>7 DEF Goto, IsJob
  <2>2. OwnInv' /\ Outstanding' = {}
    BY <1>1, OwnStays DEF OutputInv
  <2>3. JobOwns'
    BY <2>1, <2>2 DEF JobOwns
  <2>4. ActiveRun' = a /\ Runs' = Runs /\ current'.run = a /\ current'.segments = c.database
    BY <1>1, <1>2, <1>4, <1>7 DEF ActiveRun, Runs
  <2>5. DatabasesAreSettled' /\ BasesComeBefore'
    BY <1>1, <2>4 DEF OutputInv, IndexInv, DatabasesAreSettled, BasesComeBefore, HasDatabase,
                      Database, Settled, With
  <2>6. IndexIsADatabase'
    BY <1>1, <1>3, <2>4 DEF IndexIsADatabase, Database
  <2>7. ActiveDatabaseIsComplete'
    <3>1. plans[a].base # a
      BY <1>3 DEF OutputInv, IndexInv, BasesComeBefore
    <3>2. HasDatabase(a) /\ OutputsAfter(0) \subseteq Database(a)
      BY <1>2, <1>3 DEF OutputInv, IndexInv, ActiveDatabaseIsComplete, HasDatabase
    <3>3. OutputsAfter(0)' = OutputsAfter(0) /\ Database(a)' = Database(a)
      BY <1>1 DEF OutputsAfter, Database
    <3> QED
      BY <1>1, <2>2, <2>4, <3>1, <3>2, <3>3 DEF ActiveDatabaseIsComplete, Database
  <2>8. Revisions' /\ ManifestFits'
    BY <1>1, <2>1, <2>4 DEF OutputInv, DeployInv, Revisions, ManifestFits, VerifiesManifest,
                      RequireExactOutputFrontier, Runs, ActiveRun
  <2>9. HandedOverIsExact'
    BY <2>2 DEF HandedOverIsExact
  <2> QED
    BY <2>2, <2>3, <2>5, <2>6, <2>7, <2>8, <2>9 DEF OutputInv, IndexInv, DeployInv
<1> QED
  BY <1>5, <1>6, <1>7

-----------------------------------------------------------------------------
(* The successor.                                                          *)

LEMMA GreatestExists ==
  ASSUME NEW n \in Nat, NEW S \in SUBSET (1 .. n), S # {}
  PROVE  Max(S) \in S
<1>1. PICK T : T = {n - i : i \in S}
  OBVIOUS
<1>2. T \in SUBSET Nat /\ T # {}
  <2>1. PICK i : i \in S
    OBVIOUS
  <2>2. n - i \in T
    BY <1>1, <2>1
  <2>3. \A j \in S : n - j \in Nat
    OBVIOUS
  <2> QED
    BY <1>1, <2>2, <2>3
<1>3. Min(T) \in T /\ \A y \in T : Min(T) <= y
  BY <1>2, LeastExists
<1>4. PICK m \in S : Min(T) = n - m
  BY <1>1, <1>3
<1>5. \A i \in S : m >= i
  <2> SUFFICES ASSUME NEW i \in S
               PROVE  m >= i
    OBVIOUS
  <2>1. n - m <= n - i
    BY <1>1, <1>3, <1>4
  <2> QED
    BY <2>1
<1> QED
  BY <1>5 DEF Max

(* The queue of a plan: the units captured, done only with a result. *)
LEMMA QueueIs ==
  ASSUME NEW n \in Nat, 1 .. n \subseteq DOMAIN raw,
         \A i \in DOMAIN raw : IsSegment(raw[i]),
         \A i \in DOMAIN raw : \A u \in DOMAIN raw[i].entries : raw[i].entries[u].status \in Statuses,
         NEW queue, queue = QueueAt(n)
  PROVE  /\ DOMAIN queue = Captured(n)
         /\ \A u \in DOMAIN queue :
              queue[u].status \in Statuses /\ (queue[u].status = "done" => u \in Enriched(n))
<1>1. DOMAIN queue = Captured(n)
  BY DEF QueueAt
<1>2. ASSUME NEW u \in Captured(n)
      PROVE  queue[u].status \in Statuses /\ (queue[u].status = "done" => u \in Enriched(n))
  <2>1. CASE u \in Enriched(n)
    <3>1. queue[u] = Entry("done", 0)
      BY <1>2, <2>1 DEF QueueAt
    <3> QED
      BY <2>1, <3>1 DEF Entry, Statuses
  <2>2. CASE u \notin Enriched(n)
    <3>1. queue[u] = LastAttempt(n, u)
      BY <1>2, <2>2 DEF QueueAt
    <3>2. CASE Mentions(n, u, "attempt") = {}
      <4>1. queue[u] = Entry("pending", 0)
        BY <3>1, <3>2 DEF LastAttempt
      <4> QED
        BY <4>1 DEF Entry, Statuses
    <3>3. CASE Mentions(n, u, "attempt") # {}
      <4>1. PICK M : M = Mentions(n, u, "attempt")
        OBVIOUS
      <4>2. M \in SUBSET (1 .. n) /\ M # {}
        BY <3>3, <4>1 DEF Mentions
      <4>3. Max(M) \in M
        BY <4>2, GreatestExists
      <4>4. PICK i : i = Max(M)
        OBVIOUS
      <4>5. i \in DOMAIN raw /\ raw[i].kind = "attempt" /\ u \in DOMAIN raw[i].entries
        BY <4>1, <4>3, <4>4 DEF Mentions
      <4>6. queue[u] = raw[i].entries[u]
        BY <3>1, <3>3, <4>1, <4>4 DEF LastAttempt
      <4> QED
        BY <4>5, <4>6 DEF IsSegment
    <3> QED
      BY <3>2, <3>3
  <2> QED
    BY <2>1, <2>2
<1> QED
  BY <1>1, <1>2

(* What a new plan leaves, and what it adds. *)
PlansSuccessor(a, n, new, queue, names) ==
  /\ a = ActiveRun /\ n = Len(raw) /\ new = Len(plans) + 1 /\ queue = QueueAt(n)
  /\ a \in Runs /\ a # 0 /\ current.run = a /\ successors[a] = 0
  /\ checkpoints[a].publication = "published" /\ Outstanding = {}
  /\ n \in Nat /\ DOMAIN raw = 1 .. n
  /\ new \in Nat /\ new \notin Runs /\ DOMAIN plans' = Runs \union {new}
  /\ Len(plans') = new /\ \A r \in Runs : r \in Nat /\ r < new
  /\ UNCHANGED <<raw, active, current, deployed>>
  /\ \A r \in Runs :
       /\ plans'[r] = plans[r] /\ results'[r] = results[r]
       /\ checkpoints'[r] = checkpoints[r] /\ successors'[r] = successors[r]
  /\ plans'[new] = Plan(n, queue, names, a)
  /\ results'[new] = NoResults
  /\ checkpoints'[new] = EmptyState(queue, names)
  /\ successors'[new] = 0 /\ names \in Nat
  /\ job'.pc = "bootstrapped" /\ job'.out = new

LEMMA SuccessorPlanned ==
  ASSUME RunInv, OutputInv, BootstrapSuccessor
  PROVE  \E a, n, new, queue, names : PlansSuccessor(a, n, new, queue, names)
<1>1. /\ job.pc = "published" /\ IsJob(job) /\ Relies(job)
  BY JobState DEF BootstrapSuccessor
<1>2. PICK a, n, new : a = ActiveRun /\ n = Len(raw) /\ new = Len(plans) + 1
  OBVIOUS
<1>3. PICK queue, names : /\ queue = QueueAt(n)
                          /\ names = Cardinality(Enriched(n) \ Enriched(plans[a].source))
  OBVIOUS
<1>4. /\ a \in Runs /\ job.run = a /\ checkpoints[a].publication = "published"
      /\ Outstanding = {} /\ Runs = 1 .. Len(plans) /\ Len(plans) \in Nat
      /\ n \in Nat /\ DOMAIN raw = 1 .. n
  BY <1>1, <1>2, Basics DEF Relies, JobFollows, JobPublishes, Publishing, OutputInv, JobOwns
<1>5. current.run = a /\ a # 0 /\ successors[a] = 0
  BY <1>2, <1>4 DEF RunInv, ChainInv, IndexIsCurrent, BootstrapSuccessor
<1>6. /\ new \in Nat /\ new \notin Runs /\ \A r \in Runs : r \in Nat /\ r < new
      /\ 1 .. Len(plans) + 1 = Runs \union {new}
  BY <1>2, <1>4
<1>7. /\ Len(plans') = new /\ DOMAIN plans' = 1 .. Len(plans) + 1
      /\ UNCHANGED <<raw, active, current>>
      /\ \A r \in Runs :
           /\ plans'[r] = plans[r] /\ results'[r] = results[r]
           /\ checkpoints'[r] = checkpoints[r] /\ successors'[r] = successors[r]
      /\ plans'[new] = Plan(Len(raw), QueueAt(Len(raw)),
           Cardinality(Enriched(Len(raw)) \ Enriched(plans[job.run].source)), current.run)
      /\ results'[new] = NoResults
      /\ checkpoints'[new] = EmptyState(QueueAt(Len(raw)),
           Cardinality(Enriched(Len(raw)) \ Enriched(plans[job.run].source)))
      /\ successors'[new] = 0
  BY <1>2, PlanAdded, Zenon DEF Runs
<1>8. /\ plans'[new] = Plan(n, queue, names, a)
      /\ checkpoints'[new] = EmptyState(queue, names)
  BY <1>2, <1>3, <1>4, <1>5, <1>7, Zenon
<1>9. names \in Nat
  <2>1. IsFiniteSet(Enriched(n))
    BY <1>2, <1>4, PrefixesAreFinite DEF OutputInv
  <2>2. IsFiniteSet(Enriched(n) \ Enriched(plans[a].source))
    BY <2>1, FS_Difference
  <2> QED
    BY <1>3, <2>2, FS_CardinalityType
<1>10. job'.pc = "bootstrapped" /\ job'.out = new /\ UNCHANGED deployed
  <2>1. job' = [job EXCEPT !.pc = "bootstrapped", !.out = Len(plans')] /\ UNCHANGED deployed
    BY DEF BootstrapSuccessor
  <2> QED
    BY <1>1, <1>7, <2>1 DEF IsJob
<1>11. PlansSuccessor(a, n, new, queue, names)
  BY <1>2, <1>3, <1>4, <1>5, <1>6, <1>7, <1>8, <1>9, <1>10 DEF PlansSuccessor
<1> QED
  BY <1>11, Zenon

LEMMA BootstrapSuccessorOwns ==
  ASSUME RunInv, OutputInv, BootstrapSuccessor
  PROVE  OutputInv'
<1>0. PICK a, n, new, queue, names : PlansSuccessor(a, n, new, queue, names)
  BY SuccessorPlanned
<1>1. /\ a = ActiveRun /\ n = Len(raw) /\ new = Len(plans) + 1 /\ queue = QueueAt(n)
      /\ a \in Runs /\ a # 0 /\ current.run = a /\ successors[a] = 0
      /\ checkpoints[a].publication = "published" /\ Outstanding = {}
      /\ n \in Nat /\ DOMAIN raw = 1 .. n
      /\ new \in Nat /\ new \notin Runs /\ DOMAIN plans' = Runs \union {new}
      /\ Len(plans') = new /\ \A r \in Runs : r \in Nat /\ r < new
      /\ UNCHANGED <<raw, active, current, deployed>>
      /\ \A r \in Runs :
           /\ plans'[r] = plans[r] /\ results'[r] = results[r]
           /\ checkpoints'[r] = checkpoints[r] /\ successors'[r] = successors[r]
      /\ plans'[new] = Plan(n, queue, names, a)
      /\ results'[new] = NoResults
      /\ checkpoints'[new] = EmptyState(queue, names)
      /\ successors'[new] = 0 /\ names \in Nat
      /\ job'.pc = "bootstrapped" /\ job'.out = new
  BY <1>0 DEF PlansSuccessor
<1>2. /\ plans'[new].source = n /\ plans'[new].queue = queue /\ plans'[new].base = a
      /\ plans'[new].revision = deployed.revision
      /\ checkpoints'[new].queue = queue /\ checkpoints'[new].next = 0
      /\ checkpoints'[new].names = names /\ checkpoints'[new].publication = "pending"
      /\ \A k \in Kinds : checkpoints'[new].outputs[k] = 0 /\ results'[new][k] = <<>>
  BY <1>1 DEF Plan, EmptyState, NoResults
<1>3. ActiveRun' = a /\ Runs' = Runs \union {new}
  BY <1>1 DEF ActiveRun, Runs
<1>4. /\ DOMAIN queue = Captured(n)
      /\ \A u \in DOMAIN queue :
           queue[u].status \in Statuses /\ (queue[u].status = "done" => u \in Enriched(n))
  <2>1. /\ 1 .. n \subseteq DOMAIN raw
        /\ \A i \in DOMAIN raw : IsSegment(raw[i])
    BY <1>1, Basics
  <2>2. \A i \in DOMAIN raw : \A u \in DOMAIN raw[i].entries : raw[i].entries[u].status \in Statuses
    BY DEF OutputInv, OwnInv, Typed
  <2>3. n \in Nat /\ queue = QueueAt(n)
    BY <1>1
  <2> QED
    BY <2>1, <2>2, <2>3, QueueIs
<1>5. Outstanding' = {}
  <2>1. Outstanding' = Outstanding
    BY <1>1, <1>3 DEF Outstanding, OutputsAfter, Counted
  <2> QED
    BY <1>1, <2>1
<1>6. (\A r \in Runs : PlanIsExact(r))'
  <2>1. \A m : Captured(m)' = Captured(m) /\ Enriched(m)' = Enriched(m)
    BY <1>1 DEF Captured, Enriched, Mentions
  <2>2. ASSUME NEW r \in Runs
        PROVE  PlanIsExact(r)'
    <3>1. PICK p : p = plans[r]
      OBVIOUS
    <3>2. plans'[r] = p
      BY <1>1, <3>1
    <3>3. DOMAIN p.queue = Captured(p.source) /\ With(p, "done") \subseteq Enriched(p.source)
      BY <3>1 DEF OutputInv, OwnInv, PlanIsExact
    <3>4. DOMAIN p.queue = Captured(p.source)' /\ With(p, "done") \subseteq Enriched(p.source)'
      BY <2>1, <3>3
    <3> QED
      BY <3>2, <3>4 DEF PlanIsExact, With
  <2>3. PlanIsExact(new)'
    <3>1. PICK p : p = plans'[new]
      OBVIOUS
    <3>2. DOMAIN p.queue = Captured(n) /\ With(p, "done") \subseteq Enriched(n) /\ p.source = n
      BY <1>2, <1>4, <3>1 DEF With
    <3>3. DOMAIN p.queue = Captured(p.source)' /\ With(p, "done") \subseteq Enriched(p.source)'
      BY <2>1, <3>2
    <3> QED
      BY <3>1, <3>3 DEF PlanIsExact, With
  <2> QED
    BY <1>3, <2>2, <2>3
<1>7. ResultsAreExact(a)'
  <2>1. DoneSince(a)' = DoneSince(a)
    <3>1. With(plans[a], "done")' = With(plans[a], "done")
      BY <1>1 DEF With
    <3>2. With(checkpoints[a], "done")' = With(checkpoints[a], "done")
      BY <1>1 DEF With
    <3> QED
      BY <3>1, <3>2 DEF DoneSince
  <2>2. \A m : UnitsOfResult(a, m)' = UnitsOfResult(a, m)
    BY <1>1 DEF UnitsOfResult
  <2>3. ResultsAreExact(a)
    BY <1>1 DEF OutputInv, OwnInv
  <2>4. checkpoints'[a] = checkpoints[a]
    BY <1>1
  <2>5. PICK m : m = checkpoints[a].outputs["queue"]
    OBVIOUS
  <2>6. /\ \A p \in 1 .. m : UnitsOfResult(a, p)' \subseteq DoneSince(a)'
        /\ \A o, p \in 1 .. m : o < p => UnitsOfResult(a, o)' \cap UnitsOfResult(a, p)' = {}
        /\ \A u \in DoneSince(a)' : \E p \in 1 .. m : u \in UnitsOfResult(a, p)'
    BY <2>1, <2>2, <2>3, <2>5 DEF ResultsAreExact
  <2> QED
    BY <2>4, <2>5, <2>6 DEF ResultsAreExact, UnitsOfResult
<1>8. Typed'
  <2>1. ASSUME NEW r \in Runs \union {new}
        PROVE  /\ \A u \in DOMAIN checkpoints'[r].queue : checkpoints'[r].queue[u].status \in Statuses
               /\ checkpoints'[r].next \in Nat /\ checkpoints'[r].names \in Nat
    <3>1. CASE r \in Runs
      BY <1>1, <3>1 DEF OutputInv, OwnInv, Typed
    <3>2. CASE r = new
      BY <1>1, <1>2, <1>4, <3>2
    <3> QED
      BY <3>1, <3>2
  <2> QED
    BY <1>1, <1>3, <2>1 DEF OutputInv, OwnInv, Typed
<1>9. OneOutstanding'
  <2>1. ASSUME NEW k \in Kinds
        PROVE  ~ checkpoints[a].outputs[k] + 1 <= Len(results[a][k])
    BY <1>1 DEF OutputInv, OwnInv, OneOutstanding
  <2> QED
    BY <1>1, <1>3, <1>5, <2>1 DEF OneOutstanding
<1>10. LaterRunsAreFresh'
  <2> SUFFICES ASSUME NEW r \in Runs \union {new}, a < r
               PROVE  (/\ checkpoints[a].publication = "published"
                       /\ plans[r].base = a
                       /\ OutputsAfter(plans[r].source) = {}
                       /\ \A k \in Kinds : results[r][k] = <<>> /\ checkpoints[r].outputs[k] = 0
                       /\ checkpoints[r].queue = plans[r].queue)'
    BY <1>3 DEF LaterRunsAreFresh
  <2>1. CASE r \in Runs
    <3>1. /\ checkpoints[a].publication = "published"
          /\ plans[r].base = a
          /\ OutputsAfter(plans[r].source) = {}
          /\ \A k \in Kinds : results[r][k] = <<>> /\ checkpoints[r].outputs[k] = 0
          /\ checkpoints[r].queue = plans[r].queue
      BY <1>1, <2>1 DEF OutputInv, OwnInv, LaterRunsAreFresh
    <3> QED
      BY <1>1, <2>1, <3>1 DEF OutputsAfter
  <2>2. CASE r = new
    <3>1. OutputsAfter(n)' = {}
      BY <1>1 DEF OutputsAfter
    <3> QED
      BY <1>1, <1>2, <2>2, <3>1 DEF OutputsAfter
  <2> QED
    BY <2>1, <2>2
<1>11. SuccessorIsLast'
  BY <1>1, <1>3 DEF SuccessorIsLast
<1>12. JobOwns'
  BY <1>1, <1>5 DEF JobOwns
<1>13. IndexInv'
  <2>1. ActiveDatabaseIsComplete'
    <3>1. OutputsAfter(0)' = OutputsAfter(0)
      BY <1>1 DEF OutputsAfter
    <3> QED
      BY <1>1, <1>3, <1>5, <3>1 DEF OutputInv, IndexInv, ActiveDatabaseIsComplete, HasDatabase, Database
  <2>2. DatabasesAreSettled'
    <3> SUFFICES ASSUME NEW r \in Runs \union {new}, HasDatabase(r)'
                 PROVE  (/\ Database(r) \subseteq DOMAIN raw
                         /\ \A i \in Database(r) : raw[i].kind = "posts" => i <= plans[r].source
                         /\ Settled(r))'
      BY <1>3 DEF DatabasesAreSettled
    <3>1. r \in Runs
      BY <1>2 DEF HasDatabase
    <3>2. HasDatabase(r) /\ checkpoints'[r] = checkpoints[r]
      BY <1>1, <3>1 DEF HasDatabase
    <3> QED
      BY <1>1, <3>1, <3>2 DEF OutputInv, IndexInv, DatabasesAreSettled, Database, Settled, With
  <2>3. IndexIsADatabase'
    BY <1>1, <1>3 DEF OutputInv, IndexInv, IndexIsADatabase, Database
  <2>4. BasesComeBefore'
    <3> SUFFICES ASSUME NEW r \in Runs \union {new}
                 PROVE  (/\ plans[r].base = 0 => r = 1
                         /\ plans[r].base # 0 =>
                              /\ plans[r].base \in Runs /\ plans[r].base < r
                              /\ plans[plans[r].base].source <= plans[r].source)'
      BY <1>3 DEF BasesComeBefore
    <3>1. CASE r \in Runs
      BY <1>1, <1>3, <3>1 DEF OutputInv, IndexInv, BasesComeBefore
    <3>2. CASE r = new
      <4>1. plans[a].source <= n
        BY <1>1, Basics
      <4> QED
        BY <1>1, <1>2, <1>3, <3>2, <4>1
    <3> QED
      BY <3>1, <3>2
  <2> QED
    BY <2>1, <2>2, <2>3, <2>4 DEF IndexInv
<1>14. Revisions'
  <2>1. ASSUME NEW r \in Runs \union {new}
        PROVE  plans'[r].revision \in Nat /\ plans'[r].revision <= deployed.revision
    <3>1. CASE r \in Runs
      BY <1>1, <3>1 DEF OutputInv, DeployInv, Revisions
    <3>2. CASE r = new
      <4>1. deployed.revision \in Nat
        BY DEF OutputInv, DeployInv, Revisions
      <4> QED
        BY <1>2, <3>2, <4>1
    <3> QED
      BY <3>1, <3>2
  <2> QED
    BY <1>1, <1>3, <2>1 DEF OutputInv, DeployInv, Revisions
<1>15. ManifestFits'
  BY <1>1, <1>2, <1>3 DEF OutputInv, DeployInv, ManifestFits, VerifiesManifest,
                          RequireExactOutputFrontier
<1>16. HandedOverIsExact'
  BY <1>5 DEF HandedOverIsExact
<1>17. (\A r \in Runs : PlanIsExact(r) /\ (r = ActiveRun => ResultsAreExact(r)))'
  BY <1>3, <1>6, <1>7
<1> QED
  BY <1>8, <1>9, <1>10, <1>11, <1>12, <1>13, <1>14, <1>15, <1>16, <1>17
     DEF OutputInv, OwnInv, DeployInv

LEMMA WriteSuccessorOwns ==
  ASSUME RunInv, OutputInv, WriteSuccessor
  PROVE  OutputInv'
<1>1. /\ job.pc = "bootstrapped" /\ IsJob(job) /\ Relies(job) /\ Outstanding = {}
      /\ job.out = Len(plans)
      /\ UNCHANGED <<raw, plans, results, checkpoints, active, current, deployed>>
  BY JobState DEF WriteSuccessor, OutputInv, JobOwns
<1>2. PICK a, out : a = ActiveRun /\ out = job.out
  OBVIOUS
<1>3. job.run = a /\ a \in Runs
  BY <1>1, <1>2 DEF Relies, JobFollows
<1>4. successors'[a] = out /\ job'.pc = "published"
  <2>1. DOMAIN successors = Runs
    BY ListFacts, LenProperties DEF RunInv, LogInv, Shape, Runs
  <2>2. successors' = [successors EXCEPT ![a] = out]
    BY <1>2, <1>3 DEF WriteSuccessor
  <2>3. job'.pc = "published"
    BY <1>1 DEF WriteSuccessor, Goto, IsJob
  <2> QED
    BY <1>3, <2>1, <2>2, <2>3
<1>5. /\ ActiveRun' = a /\ Runs' = Runs
  BY <1>1, <1>2 DEF ActiveRun, Runs
<1>6. IndexInv'
  BY <1>1, IndexStays DEF OutputInv
<1>7. Outstanding' = {}
  <2>1. Outstanding' = Outstanding
    BY <1>1 DEF Outstanding, OutputsAfter, Counted, ActiveRun
  <2> QED
    BY <1>1, <2>1
<1>8. (\A r \in Runs : PlanIsExact(r) /\ (r = ActiveRun => ResultsAreExact(r)))'
  <2>1. \A r : PlanIsExact(r)' <=> PlanIsExact(r)
    BY <1>1 DEF PlanIsExact, With, Captured, Enriched, Mentions
  <2>2. \A r : ResultsAreExact(r)' <=> ResultsAreExact(r)
    BY <1>1 DEF ResultsAreExact, DoneSince, UnitsOfResult, With
  <2> QED
    BY <1>2, <1>5, <2>1, <2>2 DEF OutputInv, OwnInv
<1>9. Typed' /\ LaterRunsAreFresh'
  BY <1>1, <1>2, <1>5 DEF OutputInv, OwnInv, Typed, LaterRunsAreFresh, OutputsAfter
<1>10. OneOutstanding'
  <2>1. ASSUME NEW k \in Kinds
        PROVE  ~ checkpoints[a].outputs[k] + 1 <= Len(results[a][k])
    BY <1>1, <1>2 DEF OutputInv, OwnInv, OneOutstanding
  <2> QED
    BY <1>1, <1>5, <1>7, <2>1 DEF OneOutstanding
<1>11. SuccessorIsLast'
  BY <1>1, <1>2, <1>4, <1>5 DEF SuccessorIsLast
<1>12. JobOwns'
  BY <1>4, <1>7 DEF JobOwns
<1>13. DeployInv'
  <2>1. ManifestFits'
    BY <1>1, <1>2, <1>4, <1>5 DEF OutputInv, DeployInv, ManifestFits, VerifiesManifest,
                                  RequireExactOutputFrontier
  <2>2. Revisions' /\ HandedOverIsExact'
    BY <1>1, <1>5, <1>7 DEF OutputInv, DeployInv, Revisions, HandedOverIsExact
  <2> QED
    BY <2>1, <2>2 DEF DeployInv
<1> QED
  BY <1>6, <1>8, <1>9, <1>10, <1>11, <1>12, <1>13 DEF OutputInv, OwnInv

LEMMA ActivateSuccessorOwns ==
  ASSUME RunInv, OutputInv, ActivateSuccessor
  PROVE  OutputInv'
<1>1. /\ job.pc = "published" /\ IsJob(job) /\ Relies(job) /\ Outstanding = {}
      /\ UNCHANGED <<raw, plans, results, checkpoints, successors, current, deployed>>
      /\ successors[job.run] # 0
  BY JobState DEF ActivateSuccessor, OutputInv, JobOwns
<1>2. PICK a, next : a = ActiveRun /\ next = successors[a]
  OBVIOUS
<1>3. /\ job.run = a /\ a \in Runs /\ Runs = 1 .. Len(plans) /\ Len(plans) \in Nat
  BY <1>1, <1>2, Basics DEF Relies, JobFollows
<1>4. CASE UNCHANGED active /\ EndJob
  <2>1. UNCHANGED <<Durable, deployed>> /\ job'.pc = "idle"
    BY <1>1, <1>4 DEF Durable, EndJob, NoJob
  <2>2. HandedOverIsExact'
    BY <1>1, <2>1, ExactStays DEF OutputInv, DeployInv
  <2> QED
    BY <2>1, <2>2, JobMoves
<1>5. CASE active' = Append(active, next) /\ Goto("activated")
  <2>1. next # 0 /\ next = Len(plans) /\ next \in Runs /\ a < next
    BY <1>1, <1>2, <1>3 DEF OutputInv, OwnInv, SuccessorIsLast, RunInv, ChainInv, SuccessorsFollow
  <2>2. ActiveRun' = next /\ Runs' = Runs /\ Len(active') = Len(active) + 1 /\ Len(active) \in Nat
    <3>1. active \in Seq(Nat) /\ next \in Nat
      BY <1>3, <2>1 DEF RunInv, LogInv, Shape
    <3>2. PICK l : l = Append(active, next)
      OBVIOUS
    <3>3. Len(l) = Len(active) + 1 /\ l[Len(active) + 1] = next /\ Len(active) \in Nat
      BY <3>1, <3>2, AppendProperties
    <3> QED
      BY <1>1, <1>5, <3>2, <3>3 DEF ActiveRun, Runs
  <2>3. job'.pc = "activated"
    BY <1>1, <1>5 DEF Goto, IsJob
  <2>4. /\ OutputsAfter(plans[next].source) = {}
        /\ \A k \in Kinds : results[next][k] = <<>> /\ checkpoints[next].outputs[k] = 0
        /\ checkpoints[next].queue = plans[next].queue
    BY <1>2, <2>1 DEF OutputInv, OwnInv, LaterRunsAreFresh
  <2>5. checkpoints[next].publication = "pending"
    BY <1>2, <2>1 DEF RunInv, ChainInv, LaterRunsArePending
  <2>6. Outstanding' = {}
    <3>1. Outstanding' \subseteq OutputsAfter(plans[next].source)
      BY <1>1, <2>2 DEF Outstanding, OutputsAfter
    <3> QED
      BY <2>4, <3>1
  <2>7. \A r \in Runs : ~ next < r
    BY <1>3, <2>1
  <2>8. successors[next] = 0
    <3>1. successors[next] # 0 => successors[next] \in Runs /\ next < successors[next]
      BY <2>1 DEF RunInv, ChainInv, SuccessorsFollow
    <3> QED
      BY <2>7, <3>1
  <2>9. (\A r \in Runs : PlanIsExact(r) /\ (r = ActiveRun => ResultsAreExact(r)))'
    <3>1. \A r : PlanIsExact(r)' <=> PlanIsExact(r)
      BY <1>1 DEF PlanIsExact, With, Captured, Enriched, Mentions
    <3>2. ResultsAreExact(next)'
      <4>1. DoneSince(next) = {} /\ DoneSince(next)' = DoneSince(next)
        BY <1>1, <2>4 DEF DoneSince, With
      <4>2. checkpoints'[next].outputs["queue"] = 0
        BY <1>1, <2>4 DEF Kinds
      <4> QED
        BY <4>1, <4>2 DEF ResultsAreExact
    <3> QED
      BY <2>2, <3>1, <3>2 DEF OutputInv, OwnInv
  <2>10. Typed' /\ LaterRunsAreFresh' /\ SuccessorIsLast'
    BY <1>1, <2>2, <2>7, <2>8 DEF OutputInv, OwnInv, Typed, LaterRunsAreFresh, SuccessorIsLast
  <2>11. OneOutstanding'
    <3>1. \A k \in Kinds : ~ checkpoints[next].outputs[k] + 1 <= Len(results[next][k])
      BY <2>4
    <3> QED
      BY <1>1, <2>2, <2>6, <3>1 DEF OneOutstanding
  <2>12. JobOwns'
    BY <2>3, <2>6 DEF JobOwns
  <2>13. IndexInv'
    <3>1. ActiveDatabaseIsComplete'
      BY <1>1, <2>2, <2>5 DEF ActiveDatabaseIsComplete, HasDatabase
    <3>2. DatabasesAreSettled' /\ IndexIsADatabase' /\ BasesComeBefore'
      BY <1>1, <2>2 DEF OutputInv, IndexInv, DatabasesAreSettled, HasDatabase, Database, Settled,
                        With, IndexIsADatabase, BasesComeBefore
    <3> QED
      BY <3>1, <3>2 DEF IndexInv
  <2>14. DeployInv'
    <3>1. Revisions'
      BY <1>1, <2>2 DEF OutputInv, DeployInv, Revisions
    <3>2. ManifestFits'
      <4> SUFFICES ASSUME "deploy" \notin HandoffFaults
                   PROVE  VerifiesManifest(ActiveRun)'
        BY <1>1, <2>2, <2>3, <2>8 DEF ManifestFits
      <4>1. VerifiesManifest(a) /\ plans[next].revision = deployed.revision
        BY <1>2, <2>1 DEF OutputInv, DeployInv, ManifestFits
      <4>2. deployed.handoff \in Nat
        BY DEF OutputInv, DeployInv, Revisions
      <4>3. deployed.handoff < Len(active) + 1
        BY <2>2, <4>1, <4>2 DEF VerifiesManifest
      <4> QED
        BY <1>1, <2>2, <4>1, <4>3 DEF VerifiesManifest, RequireExactOutputFrontier
    <3>3. HandedOverIsExact'
      BY <2>6 DEF HandedOverIsExact
    <3> QED
      BY <3>1, <3>2, <3>3 DEF DeployInv
  <2> QED
    BY <2>9, <2>10, <2>11, <2>12, <2>13, <2>14 DEF OutputInv, OwnInv
<1> QED
  BY <1>2, <1>3, <1>4, <1>5 DEF ActivateSuccessor

-----------------------------------------------------------------------------
(* The beginning.                                                          *)

LEMMA InitOwns ==
  ASSUME Init
  PROVE  OutputInv
<1>1. RunInv
  BY InitInv
<1>2. /\ DOMAIN raw = 1 .. Len(raw) /\ Len(raw) \in Nat
      /\ \A i \in DOMAIN raw :
           /\ IsSegment(raw[i]) /\ raw[i].kind = "posts"
           /\ \E u \in FirstUnits : raw[i] = Capture(u)
  BY FirstCaptures, ListFacts
<1>3. PICK queue, base :
        /\ queue = QueueAt(Len(raw))
        /\ base = [source |-> Len(raw), queue |-> queue, names |-> FirstNames, base |-> 0,
                   revision |-> 0]
  OBVIOUS
<1>4. PICK s : s = EmptyState(queue, FirstNames)
  OBVIOUS
<1>5. /\ plans = <<base>> /\ results = <<NoResults>> /\ successors = <<0>> /\ active = <<1>>
      /\ checkpoints = <<s>> /\ current = [run |-> 0, segments |-> 1 .. Len(raw)]
      /\ job = NoJob /\ deployed = [revision |-> 0, handoff |-> 0]
  BY <1>3, <1>4 DEF Init
<1>6. /\ plans[1] = base /\ results[1] = NoResults /\ successors[1] = 0
      /\ checkpoints[1] = s /\ Len(plans) = 1 /\ Runs = {1} /\ ActiveRun = 1 /\ Len(active) = 1
      /\ current.run = 0 /\ current.segments = 1 .. Len(raw) /\ job.pc = "idle"
      /\ deployed.revision = 0 /\ deployed.handoff = 0
  BY <1>5 DEF Runs, ActiveRun, NoJob
<1>7. /\ base.source = Len(raw) /\ base.queue = queue /\ base.base = 0 /\ base.revision = 0
      /\ s.queue = queue /\ s.next = 0 /\ s.names = FirstNames /\ s.publication = "pending"
      /\ \A k \in Kinds : s.outputs[k] = 0 /\ NoResults[k] = <<>>
  BY <1>3, <1>4 DEF EmptyState, NoResults
<1>8. \A i \in DOMAIN raw :
        /\ \A u \in DOMAIN raw[i].entries : raw[i].entries[u].status \in Statuses
        /\ IsFiniteSet(DOMAIN raw[i].entries) /\ IsFiniteSet(raw[i].names)
  <2> SUFFICES ASSUME NEW u \in FirstUnits, NEW seg, seg = Capture(u)
               PROVE  /\ \A v \in DOMAIN seg.entries : seg.entries[v].status \in Statuses
                      /\ IsFiniteSet(DOMAIN seg.entries) /\ IsFiniteSet(seg.names)
    BY <1>2
  <2>1. seg.names = {} /\ seg.entries = [v \in {u} |-> Entry("pending", 0)]
    BY DEF Capture, Segment
  <2>2. IsFiniteSet({u}) /\ IsFiniteSet({})
    BY FS_Singleton, FS_EmptySet
  <2> QED
    BY <2>1, <2>2 DEF Entry, Statuses
<1>9. /\ DOMAIN queue = Captured(Len(raw))
      /\ \A u \in DOMAIN queue :
           queue[u].status \in Statuses /\ (queue[u].status = "done" => u \in Enriched(Len(raw)))
  <2>1. PICK n : n = Len(raw)
    OBVIOUS
  <2>2. n \in Nat /\ 1 .. n \subseteq DOMAIN raw /\ queue = QueueAt(n)
    BY <1>2, <1>3, <2>1
  <2>3. /\ \A i \in DOMAIN raw : IsSegment(raw[i])
        /\ \A i \in DOMAIN raw : \A u \in DOMAIN raw[i].entries : raw[i].entries[u].status \in Statuses
    BY <1>2, <1>8
  <2>4. /\ DOMAIN queue = Captured(n)
        /\ \A u \in DOMAIN queue :
             queue[u].status \in Statuses /\ (queue[u].status = "done" => u \in Enriched(n))
    BY <2>2, <2>3, QueueIs
  <2> QED
    BY <2>1, <2>4
<1>10. \A n : OutputsAfter(n) = {}
  BY <1>2 DEF OutputsAfter
<1>11. Outstanding = {}
  BY <1>10 DEF Outstanding
<1>12. PlanIsExact(1)
  BY <1>6, <1>7, <1>9 DEF PlanIsExact, With
<1>13. ResultsAreExact(1)
  <2>1. DoneSince(1) = {}
    BY <1>6, <1>7 DEF DoneSince, With
  <2>2. checkpoints[1].outputs["queue"] = 0
    BY <1>6, <1>7 DEF Kinds
  <2> QED
    BY <2>1, <2>2 DEF ResultsAreExact
<1>14. Typed
  BY <1>6, <1>7, <1>8, <1>9, EnrichmentAssumption DEF Typed
<1>15. OneOutstanding
  <2>1. \A k \in Kinds : ~ checkpoints[1].outputs[k] + 1 <= Len(results[1][k])
    BY <1>6, <1>7
  <2> QED
    BY <1>6, <1>11, <2>1 DEF OneOutstanding
<1>16. LaterRunsAreFresh /\ SuccessorIsLast
  BY <1>6 DEF LaterRunsAreFresh, SuccessorIsLast
<1>17. JobOwns
  BY <1>6 DEF JobOwns
<1>18. IndexInv
  <2>1. DatabasesAreSettled /\ ActiveDatabaseIsComplete
    BY <1>6, <1>7 DEF DatabasesAreSettled, ActiveDatabaseIsComplete, HasDatabase
  <2>2. IndexIsADatabase /\ BasesComeBefore
    BY <1>6, <1>7 DEF IndexIsADatabase, BasesComeBefore
  <2> QED
    BY <2>1, <2>2 DEF IndexInv
<1>19. DeployInv
  <2>1. Revisions
    BY <1>6, <1>7 DEF Revisions
  <2>2. ManifestFits
    BY <1>6, <1>7 DEF ManifestFits, VerifiesManifest, RequireExactOutputFrontier
  <2> QED
    BY <1>11, <2>1, <2>2 DEF DeployInv, HandedOverIsExact
<1> QED
  BY <1>6, <1>12, <1>13, <1>14, <1>15, <1>16, <1>17, <1>18, <1>19 DEF OutputInv, OwnInv

LEMMA NextOwns ==
  ASSUME RunInv, OutputInv, [Next]_vars
  PROVE  OutputInv'
<1>1. CASE Arrive \/ Start \/ Kill \/ Deploy \/ UNCHANGED vars
  BY <1>1, ArriveOwns, StartOwns, JobEndsOwns, DeployOwns, StutterOwns
<1>2. CASE JobStep
  <2>1. CASE ClaimResult \/ CommitOutput \/ Reconcile
    BY <2>1, ClaimResultOwns, CommitOutputOwns, ReconcileOwns
  <2>2. CASE DispatchWave \/ PersistAndApply \/ FailAttempt
    BY <2>2, DispatchWaveOwns, PersistAndApplyOwns, FailAttemptOwns
  <2>3. CASE EndQueue \/ CeilingHit \/ EndRegistry
    BY <2>3, TickOwns
  <2>4. CASE PersistRegistryDecisions \/ WriteReceipt
    BY <2>4, WorkOutputs
  <2>5. CASE EndTick \/ DeferPublication \/ FinishRun
    BY <2>5, JobEndsOwns
  <2>6. CASE BeginPublication \/ VerifyDatabase \/ CommitPublished
    BY <2>6, BeginPublicationOwns, VerifyDatabaseOwns, CommitPublishedOwns
  <2>7. CASE UploadDatabase \/ SwapManifest
    BY <2>7, UploadDatabaseOwns, SwapManifestOwns
  <2>8. CASE BootstrapSuccessor \/ WriteSuccessor \/ ActivateSuccessor
    BY <2>8, BootstrapSuccessorOwns, WriteSuccessorOwns, ActivateSuccessorOwns
  <2> QED
    BY <1>2, <2>1, <2>2, <2>3, <2>4, <2>5, <2>6, <2>7, <2>8 DEF JobStep
<1> QED
  BY <1>1, <1>2 DEF Next

LEMMA OutputInvHolds == Spec => [](RunInv /\ OutputInv)
<1>1. Init => RunInv /\ OutputInv
  BY InitInv, InitOwns
<1>2. RunInv /\ OutputInv /\ [Next]_vars => (RunInv /\ OutputInv)'
  BY NextKeeps, NextOwns
<1> QED
  BY <1>1, <1>2, PTL DEF Spec

(* When nothing goes wrong around a deployment, the next job can restore   *)
(* the active run whatever earlier jobs were killed, and wherever: the     *)
(* manifest verifies, the results are those the checkpoint has done, a run *)
(* that an earlier revision planned stands at an exact frontier, and the   *)
(* index the run starts from is still the published one.                   *)
THEOREM RestoresHolds ==
  ASSUME HandoffFaults = {}
  PROVE  Spec => []ActiveRunRestores
<1>1. RunInv /\ OutputInv => ActiveRunRestores
  <2> SUFFICES ASSUME RunInv, OutputInv, job.pc = "idle"
               PROVE  JobAccepts(ActiveRun)
    BY DEF ActiveRunRestores
  <2>1. VerifiesManifest(ActiveRun)
    BY DEF OutputInv, DeployInv, ManifestFits
  <2>2. ReadRunOutputKeys(ActiveRun)
    BY ResultsAreRead DEF OutputInv
  <2>3. RequireExactOutputFrontier(ActiveRun) => ExactFrontier(ActiveRun)
    <3> SUFFICES ASSUME RequireExactOutputFrontier(ActiveRun)
                 PROVE  ExactFrontier(ActiveRun)
      OBVIOUS
    <3>1. Outstanding = {}
      BY DEF OutputInv, DeployInv, HandedOverIsExact
    <3> QED
      BY <3>1, NothingUncheckpointed DEF OutputInv
  <2>4. PICK a : a = ActiveRun
    OBVIOUS
  <2>5. BaseIndexIsCurrent(a)
    <3>1. a \in Runs /\ Runs \subseteq Nat \ {0}
      BY <2>4, Basics
    <3>2. current.run \in {plans[a].base, a}
      BY <2>4 DEF RunInv, ChainInv, IndexIsCurrent
    <3>3. current.run = a => checkpoints[a].publication \in {"verified", "published"}
      BY <3>1 DEF OutputInv, IndexInv, IndexIsADatabase
    <3> QED
      BY <3>2, <3>3 DEF BaseIndexIsCurrent
  <2> QED
    BY <2>1, <2>2, <2>3, <2>4, <2>5 DEF JobAccepts
<1> QED
  BY <1>1, OutputInvHolds, PTL

(* A published index holds no posts of a unit it does not settle: the      *)
(* unit's results are in the same index, or its run ended with it blocked. *)
THEOREM UnitsAreSettled == Spec => []PublishedUnitsAreSettled
<1>1. RunInv /\ OutputInv => PublishedUnitsAreSettled
  <2> SUFFICES ASSUME RunInv, OutputInv, current.run # 0
               PROVE  Settled(current.run) /\ current.segments = Database(current.run)
    BY DEF PublishedUnitsAreSettled, Settled
  <2>1. /\ current.run \in Runs /\ HasDatabase(current.run)
        /\ current.segments = Database(current.run)
    BY DEF OutputInv, IndexInv, IndexIsADatabase, HasDatabase
  <2> QED
    BY <2>1 DEF OutputInv, IndexInv, DatabasesAreSettled
<1> QED
  BY <1>1, OutputInvHolds, PTL

(* Only the swap of the manifest changes the published index. *)
LEMMA OnlySwapPublishes ==
  ASSUME [Next]_vars, current' # current
  PROVE  SwapManifest
<1>1. CASE Arrive \/ Start \/ Kill \/ Deploy \/ UNCHANGED vars
  BY <1>1 DEF Arrive, Start, Kill, Deploy, Durable, vars
<1>2. CASE ClaimResult \/ CommitOutput \/ Reconcile \/ DispatchWave \/ PersistAndApply \/ FailAttempt
  BY <1>2 DEF ClaimResult, CommitOutput, Reconcile, DispatchWave, PersistAndApply, FailAttempt,
              Durable, Published
<1>3. CASE EndQueue \/ CeilingHit \/ EndRegistry \/ PersistRegistryDecisions \/ WriteReceipt
           \/ EndTick \/ DeferPublication \/ FinishRun
  BY <1>3 DEF EndQueue, CeilingHit, EndRegistry, PersistRegistryDecisions, WriteReceipt, EndTick,
              DeferPublication, FinishRun, Durable, Published
<1>4. CASE BeginPublication \/ VerifyDatabase \/ CommitPublished \/ UploadDatabase
           \/ BootstrapSuccessor \/ WriteSuccessor \/ ActivateSuccessor
  BY <1>4 DEF BeginPublication, VerifyDatabase, CommitPublished, UploadDatabase,
              BootstrapSuccessor, WriteSuccessor, ActivateSuccessor, Published
<1> QED
  BY <1>1, <1>2, <1>3, <1>4 DEF Next, JobStep

(* Whatever earlier jobs stored and left, a publication takes nothing out  *)
(* of the index and leaves out no output that is in the raw log.           *)
THEOREM PublicationIsComplete == Spec => PublishedIsComplete
<1>1. RunInv /\ OutputInv /\ [Next]_vars =>
        [current' # current =>
           /\ current.segments \subseteq current'.segments
           /\ {i \in DOMAIN raw : raw[i].kind # "posts"} \subseteq current'.segments]_vars
  <2> SUFFICES ASSUME RunInv, OutputInv, [Next]_vars, current' # current
               PROVE  /\ current.segments \subseteq current'.segments
                      /\ {i \in DOMAIN raw : raw[i].kind # "posts"} \subseteq current'.segments
    OBVIOUS
  <2>1. SwapManifest
    BY OnlySwapPublishes
  <2>2. PICK a, c : a = ActiveRun /\ c = checkpoints[ActiveRun]
    OBVIOUS
  <2>3. /\ job.run = a /\ job.state = c /\ c.publication = "verified" /\ c = checkpoints[a]
    <3>1. job.pc = "verified" /\ Relies(job)
      BY <2>1, JobState DEF SwapManifest
    <3> QED
      BY <2>2, <3>1 DEF Relies, JobFollows, JobPublishes, Publishing
  <2>4. current.run = plans[a].base /\ current'.segments = Database(a)
    <3>1. current.run = plans[a].base /\ current' = [run |-> a, segments |-> c.database]
      BY <2>1, <2>3 DEF SwapManifest
    <3> QED
      BY <2>3, <3>1 DEF Database
  <2>5. /\ OutputsAfter(0) \subseteq Database(a)
        /\ current.segments \subseteq Database(a)
    BY <2>2, <2>3, <2>4 DEF OutputInv, IndexInv, ActiveDatabaseIsComplete, HasDatabase
  <2>6. {i \in DOMAIN raw : raw[i].kind # "posts"} \subseteq OutputsAfter(0)
    BY Basics DEF OutputsAfter
  <2> QED
    BY <2>4, <2>5, <2>6
<1> QED
  BY <1>1, OutputInvHolds, PTL DEF PublishedIsComplete, Spec
=============================================================================
