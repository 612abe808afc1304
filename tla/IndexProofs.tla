----------------------------- MODULE IndexProofs -----------------------------
(***************************************************************************)
(* Proofs about DurableIndex, for any segments, programs that stop at any  *)
(* step, and any number of publications, as long as one publisher at a     *)
(* time is between its comparison and its write.                           *)
(*                                                                         *)
(* Databases are numbered as they are uploaded, and the manifest only ever *)
(* moves to a later one: a fresh publication uploads after it has read the *)
(* manifest it replaces, a resumed one replaces the base of its plan,      *)
(* which its database succeeds.  What is removed was uploaded a day before *)
(* a publication began, so it is older than what that published.           *)
(***************************************************************************)
EXTENDS DurableIndex, SequenceTheorems, TLAPS

Pcs == {"idle", "begin", "upload", "uploaded", "verify", "compare", "write", "readback",
        "prune", "list", "check", "remove", "download", "work",
        "create", "resume", "pin", "replay"}

Databases == [source : SUBSET Nat, ready : BOOLEAN, target : SUBSET Nat]
Manifests == [key : Nat, source : SUBSET Nat, predecessors : Seq(Nat)]
Runs ==
  [pc : Pcs, db : Databases, keys : Seq(Nat), seen : Manifests, next : Manifests,
   resumed : BOOLEAN, after : Nat, stale : SUBSET Nat, target : SUBSET Nat]

Shape ==
  /\ raw \subseteq Nat
  /\ databases \in Seq(Databases)
  /\ removed \subseteq Nat
  /\ aged \in Nat /\ aged <= Len(databases)
  /\ manifest \in Manifests
  /\ plan \in Nat
  /\ saved \in [state : {"none", "uploaded", "verified", "published"}, manifest : Manifests]
  /\ disk \in [state : {"none", "file", "database"}, db : Databases, pinned : SUBSET Nat]
  /\ run \in [Programs -> Runs]

(* A database was uploaded as the manifest describes it, and consumers can *)
(* read it.                                                                *)
Sound(m) ==
  /\ m.key \in DOMAIN databases
  /\ databases[m.key].source = m.source
  /\ ConsumerBoundary(databases[m.key])

(* It succeeds the base of the plan. *)
OverPlan(m) ==
  /\ plan \in DOMAIN databases /\ plan < m.key
  /\ databases[plan].source \subseteq m.source

(* What the manifest names was uploaded, and what was removed was named    *)
(* before it, if ever.                                                     *)
ManifestStands ==
  /\ manifest.key # 0 => /\ manifest.key \in DOMAIN databases
                         /\ databases[manifest.key].source = manifest.source
  /\ \A key \in removed : key < manifest.key

SavedStands ==
  saved.state \in {"uploaded", "verified"} => Sound(saved.manifest) /\ OverPlan(saved.manifest)

OneWrite == \A p, q \in Programs : At(p, "write") /\ At(q, "write") => p = q

(* What a program relies on at its step: what it is about to publish is    *)
(* newer than what it has seen, what it is about to write succeeds the     *)
(* manifest, and what it is about to remove is older than its publication. *)
InFlight == {"uploaded", "verify", "compare", "write", "readback"}
Pruning == {"prune", "list", "check", "remove"}

Relies(p, r) ==
  /\ r.resumed => p = "job" /\ r.pc \in {"verify", "compare", "write", "readback"}
  /\ p = "job" /\ r.pc = "begin" => plan \in DOMAIN databases
  /\ r.pc = "upload" =>
       /\ ConsumerBoundary(r.db)
       /\ r.seen.key <= r.after /\ r.seen.source \subseteq r.db.source
       /\ aged <= r.after /\ r.after <= Len(databases)
       /\ p = "job" => /\ plan \in DOMAIN databases /\ r.seen.key = plan
                       /\ databases[plan].source = r.seen.source
  /\ r.pc \in InFlight =>
       /\ Sound(r.next)
       /\ p = "job" => OverPlan(r.next)
       /\ ~r.resumed => /\ r.seen.key <= r.after /\ aged <= r.after /\ r.after < r.next.key
                        /\ r.seen.source \subseteq r.next.source
  /\ r.pc = "write" => manifest.key < r.next.key /\ manifest.source \subseteq r.next.source
  /\ r.pc \in Pruning =>
       aged <= r.after /\ r.after < r.next.key /\ r.next.key <= manifest.key
  /\ r.pc \in {"check", "remove"} => \A key \in r.stale : key < r.next.key

IndexInv ==
  /\ Shape /\ ManifestStands /\ SavedStands /\ OneWrite
  /\ \A p \in Programs : Relies(p, run[p])

-----------------------------------------------------------------------------
(* Records. *)

Savings == [state : {"none", "uploaded", "verified", "published"}, manifest : Manifests]
Disks == [state : {"none", "file", "database"}, db : Databases, pinned : SUBSET Nat]

LEMMA PrefixOfSeq ==
  ASSUME NEW s \in Seq(Nat), NEW k \in Nat, k <= Len(s)
  PROVE  SubSeq(s, 1, k) \in Seq(Nat)
<1>1. \A i \in 1 .. k : s[i] \in Nat
  OBVIOUS
<1>2. 1 \in Int /\ k \in Int
  OBVIOUS
<1> QED
  BY <1>1, <1>2, SubSeqProperties, Zenon

LEMMA RunIsRecord ==
  ASSUME Shape, NEW p \in Programs
  PROVE  run[p] \in Runs
BY DEF Shape

LEMMA NothingIsRecord ==
  /\ NoManifest \in Manifests /\ NoDatabase \in Databases /\ Idle \in Runs /\ Unsaved \in Savings
  /\ NoManifest.key = 0 /\ Idle.pc = "idle" /\ ~Idle.resumed /\ Unsaved.state = "none"
<1>1. NoManifest \in Manifests /\ NoManifest.key = 0
  BY DEF NoManifest, Manifests
<1>2. NoDatabase \in Databases
  BY DEF NoDatabase, Database, Databases, NoTarget
<1>3. Idle \in Runs /\ Idle.pc = "idle" /\ ~Idle.resumed
  BY <1>1, <1>2 DEF Idle, Runs, Pcs, NoTarget
<1>4. Unsaved \in Savings /\ Unsaved.state = "none"
  BY <1>1 DEF Unsaved, Savings
<1> QED
  BY <1>1, <1>2, <1>3, <1>4

(* An idle program, and one that does not publish, relies on nothing. *)
LEMMA RelyOnNothing ==
  ASSUME NEW p, NEW r, ~r.resumed,
         r.pc \in {"idle", "download", "work", "create", "resume", "pin", "replay"}
  PROVE  Relies(p, r)
BY DEF Relies, InFlight, Pruning

(* A database that was uploaded is there, whatever is uploaded later. *)
LEMMA DomainIsInitial ==
  ASSUME Shape
  PROVE  /\ DOMAIN databases = 1 .. Len(databases) /\ Len(databases) \in Nat
         /\ \A key \in DOMAIN databases : key \in Nat \ {0} /\ key <= Len(databases)
                                          /\ databases[key] \in Databases
<1>1. databases \in Seq(Databases)
  BY DEF Shape
<1> QED
  BY <1>1

-----------------------------------------------------------------------------
(* A step of one program that leaves the Bucket and the plan alone. *)

LEMMA ProgramMoves ==
  ASSUME IndexInv, NEW p \in Programs, NEW r \in Runs, Goes(p, r),
         UNCHANGED <<databases, removed, aged, manifest, plan>>,
         raw' \subseteq Nat, saved' \in Savings, disk' \in Disks, SavedStands',
         Relies(p, r), r.pc = "write" => \A q \in Programs : ~At(q, "write")
  PROVE  IndexInv'
<1> USE DEF IndexInv
<1>1. /\ run' \in [Programs -> Runs] /\ run'[p] = r
      /\ \A q \in Programs : q # p => run'[q] = run[q]
  BY DEF Goes, Shape
<1>2. Shape'
  BY <1>1 DEF Shape, Savings, Disks
<1>3. ManifestStands'
  BY DEF ManifestStands
<1>4. OneWrite'
  BY <1>1 DEF OneWrite, At
<1>5. ASSUME NEW q \in Programs PROVE Relies(q, run[q])'
  <2>1. Relies(q, run'[q])
    BY <1>1
  <2> QED
    BY <2>1 DEF Relies, Sound, OverPlan, InFlight, Pruning
<1> QED
  BY <1>2, <1>3, <1>4, <1>5

(* The same, with nothing else changed. *)
LEMMA OnlyMoves ==
  ASSUME IndexInv, NEW p \in Programs, NEW r \in Runs, Goes(p, r),
         UNCHANGED <<raw, bucket, manifest, plan, saved, disk>>,
         Relies(p, r), r.pc = "write" => \A q \in Programs : ~At(q, "write")
  PROVE  IndexInv'
<1>1. UNCHANGED <<databases, removed, aged>>
  BY DEF bucket
<1>2. raw' \subseteq Nat /\ saved' \in Savings /\ disk' \in Disks
  BY DEF IndexInv, Shape, Savings, Disks
<1>3. SavedStands'
  BY <1>1 DEF IndexInv, SavedStands, Sound, OverPlan
<1> QED
  BY <1>1, <1>2, <1>3, ProgramMoves

(* A program ends. *)
LEMMA EndKeeps ==
  ASSUME IndexInv, NEW p \in Programs, Ends(p),
         UNCHANGED <<bucket, manifest, plan, saved>>, raw' \subseteq Nat, disk' \in Disks
  PROVE  IndexInv'
<1>1. UNCHANGED <<databases, removed, aged>>
  BY DEF bucket
<1>2. SavedStands' /\ saved' \in Savings
  BY <1>1 DEF IndexInv, SavedStands, Sound, OverPlan, Shape, Savings
<1>3. Goes(p, Idle) /\ Idle \in Runs /\ Idle.pc = "idle" /\ ~Idle.resumed
  BY NothingIsRecord DEF Ends
<1>4. Relies(p, Idle)
  BY <1>3, RelyOnNothing
<1> QED
  BY <1>1, <1>2, <1>3, <1>4, ProgramMoves

(* A program goes on to another step of its own. *)
LEMMA MoveIsRecord ==
  ASSUME Shape, NEW p \in Programs, NEW pc \in Pcs
  PROVE  LET r == [run[p] EXCEPT !.pc = pc] IN
         /\ r \in Runs /\ r.pc = pc /\ r.resumed = run[p].resumed /\ r.seen = run[p].seen
         /\ r.next = run[p].next /\ r.after = run[p].after /\ r.stale = run[p].stale
         /\ r.db = run[p].db
BY RunIsRecord DEF Runs

-----------------------------------------------------------------------------
(* The raw log, the planned job and the worker. *)

LEMMA CaptureKeeps ==
  ASSUME IndexInv, IndexAssumption, NEW s \in Segments, Capture(s)
  PROVE  IndexInv'
<1> USE DEF IndexInv
<1>1. UNCHANGED <<databases, removed, aged, manifest, plan, saved, disk, run>>
  BY DEF Capture, bucket
<1>2. Shape'
  BY <1>1 DEF Capture, Shape, IndexAssumption
<1>3. ManifestStands' /\ SavedStands' /\ OneWrite'
  BY <1>1 DEF ManifestStands, SavedStands, Sound, OverPlan, OneWrite, At
<1>4. ASSUME NEW q \in Programs PROVE Relies(q, run[q])'
  BY <1>1 DEF Relies, Sound, OverPlan, InFlight, Pruning
<1> QED
  BY <1>2, <1>3, <1>4

LEMMA DownloadIsRecord ==
  ASSUME Shape, NEW key, Downloads(key)
  PROVE  key \in DOMAIN databases /\ key \in Nat /\ RestoreReference(key) \in Databases
BY DomainIsInitial DEF Downloads, Stored, RestoreReference

LEMMA JobBuildsKeeps ==
  ASSUME IndexInv, JobBuilds
  PROVE  IndexInv'
<1> USE DEF IndexInv
<1>1. plan \in DOMAIN databases /\ plan \in Nat /\ RestoreReference(plan) \in Databases
  BY DownloadIsRecord DEF JobBuilds
<1>2. PICK keys \in SUBSET (raw \ RestoreReference(plan).source) :
        Goes("job", [Idle EXCEPT !.pc = "begin", !.keys = <<plan>>,
                                 !.db = ApplyOutputSegments(RestoreReference(plan), keys)])
  BY DEF JobBuilds
<1> DEFINE db == ApplyOutputSegments(RestoreReference(plan), keys)
           r == [Idle EXCEPT !.pc = "begin", !.keys = <<plan>>, !.db = db]
<1>3. db \in Databases
  BY <1>1 DEF ApplyOutputSegments, Databases, Shape
<1> HIDE DEF db
<1>4. <<plan>> \in Seq(Nat)
  BY <1>1
<1>5. r \in Runs /\ r.pc = "begin" /\ ~r.resumed
  BY <1>3, <1>4, NothingIsRecord DEF Runs, Pcs
<1>6. Goes("job", r)
  BY <1>2 DEF db
<1> HIDE DEF r
<1>7. Relies("job", r)
  BY <1>1, <1>5 DEF Relies, InFlight, Pruning
<1>8. UNCHANGED <<raw, bucket, manifest, plan, saved, disk>>
  BY DEF JobBuilds
<1> QED
  BY <1>5, <1>6, <1>7, <1>8, OnlyMoves DEF Programs

LEMMA JobResumesKeeps ==
  ASSUME IndexInv, JobResumes
  PROVE  IndexInv'
<1> USE DEF IndexInv
<1>1. PICK pc \in {"verify", "compare"} :
        Goes("job", [Idle EXCEPT !.pc = pc, !.next = saved.manifest, !.resumed = TRUE,
                                 !.after = Len(databases)])
  BY DEF JobResumes
<1> DEFINE r == [Idle EXCEPT !.pc = pc, !.next = saved.manifest, !.resumed = TRUE,
                             !.after = Len(databases)]
<1>2. saved.manifest \in Manifests /\ Len(databases) \in Nat
  BY DomainIsInitial DEF Shape
<1>3. r \in Runs /\ r.pc = pc /\ r.resumed /\ r.next = saved.manifest
  BY <1>2, NothingIsRecord DEF Runs, Pcs
<1>4. Goes("job", r)
  BY <1>1
<1> HIDE DEF r
<1>5. Sound(saved.manifest) /\ OverPlan(saved.manifest)
  BY DEF JobResumes, SavedStands
<1>6. Relies("job", r)
  BY <1>3, <1>5 DEF Relies, InFlight, Pruning
<1>7. UNCHANGED <<raw, bucket, manifest, plan, saved, disk>>
  BY DEF JobResumes
<1> QED
  BY <1>3, <1>4, <1>6, <1>7, OnlyMoves DEF Programs

(* The plan changes while the job is idle and nothing is saved of it. *)
LEMMA PlanKeeps ==
  ASSUME IndexInv, At("job", "idle"), plan' \in Nat, saved' = Unsaved,
         UNCHANGED <<raw, bucket, manifest, disk, run>>
  PROVE  IndexInv'
<1> USE DEF IndexInv
<1>1. UNCHANGED <<databases, removed, aged>>
  BY DEF bucket
<1>2. saved' \in Savings /\ saved'.state = "none"
  BY NothingIsRecord
<1>3. Shape' /\ SavedStands'
  BY <1>1, <1>2 DEF Shape, Savings, SavedStands
<1>4. ManifestStands' /\ OneWrite'
  BY <1>1 DEF ManifestStands, OneWrite, At
<1>5. ASSUME NEW q \in Programs PROVE Relies(q, run[q])'
  <2>1. CASE q = "job"
    BY <2>1, <1>1 DEF Relies, InFlight, Pruning, At
  <2>2. CASE q # "job"
    BY <2>2, <1>1 DEF Relies, Sound, InFlight, Pruning
  <2> QED
    BY <2>1, <2>2
<1> QED
  BY <1>3, <1>4, <1>5

LEMMA JobPlansKeeps ==
  ASSUME IndexInv, JobPlansSuccessor \/ Replan
  PROVE  IndexInv'
<1>1. plan' \in Nat /\ saved' = Unsaved /\ At("job", "idle")
  BY DEF JobPlansSuccessor, Replan, CommitEnrichmentBootstrap, IndexInv, Shape, Manifests
<1>2. UNCHANGED <<raw, bucket, manifest, disk, run>>
  BY DEF JobPlansSuccessor, Replan
<1> QED
  BY <1>1, <1>2, PlanKeeps

LEMMA WorkerKeeps ==
  ASSUME IndexInv, Worker
  PROVE  IndexInv'
<1> USE DEF IndexInv
<1>1. "worker" \in Programs /\ run["worker"] \in Runs /\ manifest \in Manifests
  BY RunIsRecord DEF Programs, Shape
<1>2. CASE WorkerRestores
  <2> DEFINE r == [Idle EXCEPT !.pc = "download", !.seen = manifest]
  <2>1. r \in Runs /\ r.pc = "download" /\ ~r.resumed
    BY <1>1, NothingIsRecord DEF Runs, Pcs
  <2>2. Goes("worker", r) /\ UNCHANGED <<raw, bucket, manifest, plan, saved, disk>>
    BY <1>2 DEF WorkerRestores
  <2> HIDE DEF r
  <2>3. Relies("worker", r)
    BY <2>1, RelyOnNothing
  <2> QED
    BY <1>1, <2>1, <2>2, <2>3, OnlyMoves
<1>3. CASE WorkerDownloads
  <2> DEFINE m == run["worker"].seen
             r == [Idle EXCEPT !.pc = "work", !.db = RestoreReference(m.key),
                               !.keys = <<m.key>> \o m.predecessors]
  <2>1. UNCHANGED <<raw, bucket, manifest, plan, saved, disk>>
    BY <1>3 DEF WorkerDownloads
  <2>2. CASE Downloads(m.key) /\ Goes("worker", r)
    <3>1. RestoreReference(m.key) \in Databases /\ m.key \in Nat /\ m.predecessors \in Seq(Nat)
      BY <1>1, <2>2, DownloadIsRecord DEF Runs, Manifests
    <3>2. <<m.key>> \o m.predecessors \in Seq(Nat)
      BY <3>1
    <3>3. r \in Runs /\ r.pc = "work" /\ ~r.resumed
      BY <3>1, <3>2, NothingIsRecord DEF Runs, Pcs
    <3>4. Goes("worker", r)
      BY <2>2
    <3> HIDE DEF r
    <3>5. Relies("worker", r)
      BY <3>3, RelyOnNothing
    <3> QED
      BY <1>1, <2>1, <3>3, <3>4, <3>5, OnlyMoves
  <2>3. CASE Ends("worker")
    BY <1>1, <2>1, <2>3, EndKeeps DEF Shape, Disks
  <2> QED
    BY <1>3, <2>2, <2>3 DEF WorkerDownloads
<1>4. CASE WorkerPublishes
  <2> DEFINE r == [run["worker"] EXCEPT !.pc = "begin", !.db = AdvanceToLatest(run["worker"].db)]
  <2>1. AdvanceToLatest(run["worker"].db) \in Databases
    BY <1>1 DEF AdvanceToLatest, ReplayVerifiedTail, Databases, Runs, Shape
  <2>2. ~run["worker"].resumed
    BY <1>1 DEF Relies
  <2>3. r \in Runs /\ r.pc = "begin" /\ ~r.resumed
    BY <1>1, <2>1, <2>2 DEF Runs, Pcs
  <2>4. Goes("worker", r)
    BY <1>4 DEF WorkerPublishes
  <2> HIDE DEF r
  <2>5. Relies("worker", r)
    BY <2>3 DEF Relies, InFlight, Pruning
  <2>6. UNCHANGED <<raw, bucket, manifest, plan, saved, disk>>
    BY <1>4 DEF WorkerPublishes
  <2> QED
    BY <1>1, <2>3, <2>4, <2>5, <2>6, OnlyMoves
<1> QED
  BY <1>2, <1>3, <1>4 DEF Worker

-----------------------------------------------------------------------------
(* The index command. *)

LEMMA DiskIsRecord ==
  ASSUME Shape
  PROVE  /\ disk \in Disks /\ disk.db \in Databases
         /\ \A db \in Databases : [disk EXCEPT !.db = db] \in Disks
         /\ \A target \in SUBSET Nat : [disk.db EXCEPT !.target = target] \in Databases
BY DEF Shape, Disks, Databases

LEMMA CommandMoves ==
  ASSUME IndexInv, NEW pc \in {"resume", "pin", "replay"}, Moves("command", pc), disk' \in Disks,
         UNCHANGED <<raw, bucket, manifest, plan, saved>>
  PROVE  IndexInv'
<1> USE DEF IndexInv
<1> DEFINE r == [run["command"] EXCEPT !.pc = pc]
<1>1. "command" \in Programs /\ ~run["command"].resumed
  BY DEF Relies, Programs
<1>2. r \in Runs /\ r.pc = pc /\ r.resumed = run["command"].resumed
  <2>1. pc \in Pcs
    BY DEF Pcs
  <2> QED
    BY <1>1, <2>1, MoveIsRecord
<1>3. Goes("command", r)
  BY DEF Moves
<1> HIDE DEF r
<1>4. Relies("command", r)
  BY <1>1, <1>2, RelyOnNothing
<1>5. UNCHANGED <<databases, removed, aged>>
  BY DEF bucket
<1>6. raw' \subseteq Nat /\ saved' \in Savings /\ SavedStands'
  BY <1>5 DEF Shape, Savings, SavedStands, Sound, OverPlan
<1> QED
  BY <1>1, <1>2, <1>3, <1>4, <1>5, <1>6, ProgramMoves

LEMMA PrepareKeeps ==
  ASSUME IndexInv, IndexAssumption, Prepare
  PROVE  IndexInv'
<1> USE DEF IndexInv
<1>0. "command" \in Programs /\ run["command"] \in Runs /\ raw' \subseteq Nat
      /\ UNCHANGED <<raw, bucket, manifest, plan, saved>>
  BY RunIsRecord
  DEF Programs, Shape, Prepare, PrepareOpens, CreateEmpty, BeginBootstrap, PinTarget, ReplayChunk,
      FinishBootstrap
<1>1. CASE PrepareOpens
  <2>1. PICK pc \in {"create", "resume"} :
          Goes("command", [Idle EXCEPT !.pc = pc, !.target = BootstrapSource])
    BY <1>1 DEF PrepareOpens
  <2>2. BootstrapSource \in SUBSET Nat
    BY DEF BootstrapSource, CreateSnapshot, Shape, Manifests
  <2> DEFINE r == [Idle EXCEPT !.pc = pc, !.target = BootstrapSource]
  <2>3. r \in Runs /\ r.pc = pc /\ ~r.resumed
    BY <2>2, NothingIsRecord DEF Runs, Pcs
  <2>4. Goes("command", r)
    BY <2>1
  <2> HIDE DEF r
  <2>5. Relies("command", r)
    BY <2>3, RelyOnNothing
  <2>6. disk' \in Disks
    BY <1>1 DEF PrepareOpens, Disks, Shape
  <2>7. UNCHANGED <<databases, removed, aged>>
    BY <1>0 DEF bucket
  <2>8. saved' \in Savings /\ SavedStands'
    BY <1>0, <2>7 DEF Shape, Savings, SavedStands, Sound, OverPlan
  <2> QED
    BY <1>0, <2>3, <2>4, <2>5, <2>6, <2>7, <2>8, ProgramMoves
<1>2. CASE CreateEmpty
  <2>1. Database({}, TRUE, run["command"].target) \in Databases
    BY <1>0 DEF Database, Databases, Runs
  <2>2. disk' \in Disks
    BY <1>2, <2>1, DiskIsRecord DEF CreateEmpty, Disks
  <2> QED
    BY <1>0, <1>2, <2>2, CommandMoves DEF CreateEmpty
<1>3. CASE BeginBootstrap
  <2>1. CASE /\ disk' = [disk EXCEPT !.db = [disk.db EXCEPT !.target = run["command"].target]]
             /\ Moves("command", "pin")
    <3>1. disk' \in Disks
      BY <1>0, <2>1, DiskIsRecord DEF Runs
    <3> QED
      BY <1>0, <2>1, <3>1, CommandMoves
  <2>2. CASE UNCHANGED disk /\ Ends("command")
    BY <1>0, <2>2, EndKeeps, DiskIsRecord
  <2> QED
    BY <1>3, <2>1, <2>2 DEF BeginBootstrap
<1>4. CASE PinTarget
  <2>1. disk' \in Disks
    BY <1>0, <1>4, DiskIsRecord DEF PinTarget, Disks, Runs
  <2> QED
    BY <1>0, <1>4, <2>1, CommandMoves DEF PinTarget
<1>5. CASE ReplayChunk
  <2>1. PICK db \in AdvanceToSnapshot(disk.db, run["command"].target) :
          disk' = [disk EXCEPT !.db = db]
    BY <1>5 DEF ReplayChunk
  <2>2. PICK files \in SUBSET run["command"].target : db = [disk.db EXCEPT !.source = files]
    BY <2>1 DEF AdvanceToSnapshot
  <2>3. db \in Databases
    BY <1>0, <2>2, DiskIsRecord DEF Databases, Runs
  <2>4. disk' \in Disks
    BY <2>1, <2>3, DiskIsRecord
  <2> QED
    BY <1>0, <1>5, <2>4, CommandMoves, EndKeeps DEF ReplayChunk
<1>6. CASE FinishBootstrap
  <2>1. disk' \in Disks
    BY <1>6, DiskIsRecord DEF FinishBootstrap, NoTarget
  <2> QED
    BY <1>0, <1>6, <2>1, EndKeeps DEF FinishBootstrap
<1> QED
  BY <1>1, <1>2, <1>3, <1>4, <1>5, <1>6 DEF Prepare

LEMMA CommandKeeps ==
  ASSUME IndexInv, PublishPreparedIndex
  PROVE  IndexInv'
<1> USE DEF IndexInv
<1> DEFINE db == AdvanceToLatest(disk.db)
           keys == IF manifest.key = 0 THEN <<>> ELSE <<manifest.key>> \o manifest.predecessors
           r == [Idle EXCEPT !.pc = "begin", !.db = db, !.seen = manifest, !.keys = keys]
<1>1. db \in Databases
  BY DiskIsRecord DEF AdvanceToLatest, ReplayVerifiedTail, Databases, Shape
<1>2. keys \in Seq(Nat)
  <2>1. manifest.key \in Nat /\ manifest.predecessors \in Seq(Nat)
    BY DEF Shape, Manifests
  <2>2. <<manifest.key>> \o manifest.predecessors \in Seq(Nat)
    BY <2>1
  <2> QED
    BY <2>2
<1>3. disk' \in Disks
  BY <1>1, DiskIsRecord DEF PublishPreparedIndex
<1>4. Goes("command", r)
  BY DEF PublishPreparedIndex
<1>5. r \in Runs /\ r.pc = "begin" /\ ~r.resumed
  <2> HIDE DEF db, keys
  <2>1. manifest \in Manifests
    BY DEF Shape
  <2> QED
    BY <1>1, <1>2, <2>1, NothingIsRecord DEF Runs, Pcs
<1> HIDE DEF r
<1>6. Relies("command", r)
  BY <1>5 DEF Relies, InFlight, Pruning
<1>7. UNCHANGED <<raw, databases, removed, aged, manifest, plan, saved>>
  BY DEF PublishPreparedIndex, bucket
<1>8. raw' \subseteq Nat /\ saved' \in Savings /\ SavedStands'
  BY <1>7 DEF Shape, Savings, SavedStands, Sound, OverPlan
<1> QED
  BY <1>3, <1>4, <1>5, <1>6, <1>7, <1>8, ProgramMoves DEF Programs

-----------------------------------------------------------------------------
(* Publication. *)

LEMMA BeginKeeps ==
  ASSUME IndexInv, NEW p \in Programs, BeginPublication(p)
  PROVE  IndexInv'
<1> USE DEF IndexInv
<1>0. /\ run[p] \in Runs /\ run[p].pc = "begin" /\ Relies(p, run[p])
      /\ UNCHANGED <<raw, bucket, manifest, plan, saved, disk>>
      /\ manifest \in Manifests /\ Len(databases) \in Nat
  BY RunIsRecord, DomainIsInitial DEF BeginPublication, At, Shape
<1>1. CASE Ends(p)
  BY <1>0, <1>1, EndKeeps DEF Shape, Disks
<1>2. CASE /\ ConsumerBoundary(run[p].db) /\ ExpectedDatabase(p)
           /\ AssertPredecessorIncluded(run[p].db, manifest)
           /\ Goes(p, [run[p] EXCEPT !.pc = "upload", !.seen = manifest, !.after = Len(databases)])
  <2> DEFINE r == [run[p] EXCEPT !.pc = "upload", !.seen = manifest, !.after = Len(databases)]
  <2>1. /\ r \in Runs /\ r.pc = "upload" /\ r.seen = manifest /\ r.after = Len(databases)
        /\ r.db = run[p].db /\ r.resumed = run[p].resumed
    BY <1>0 DEF Runs, Pcs
  <2>2. Goes(p, r)
    BY <1>2
  <2> HIDE DEF r
  <2>3. ~r.resumed
    BY <1>0, <2>1 DEF Relies
  <2>4. manifest.key <= Len(databases) /\ aged <= Len(databases)
    BY <1>0, DomainIsInitial DEF ManifestStands, Shape, Manifests
  <2>5. p = "job" => /\ plan \in DOMAIN databases /\ manifest.key = plan
                     /\ databases[plan].source = manifest.source
    <3> SUFFICES ASSUME p = "job"
                 PROVE  /\ plan \in DOMAIN databases /\ manifest.key = plan
                        /\ databases[plan].source = manifest.source
      OBVIOUS
    <3>1. plan \in DOMAIN databases /\ manifest.key = plan
      BY <1>0, <1>2 DEF Relies, ExpectedDatabase
    <3> QED
      BY <3>1, DomainIsInitial DEF ManifestStands
  <2>6. Relies(p, r)
    BY <1>2, <2>1, <2>3, <2>4, <2>5 DEF Relies, InFlight, Pruning, AssertPredecessorIncluded
  <2> QED
    BY <1>0, <2>1, <2>2, <2>6, OnlyMoves
<1> QED
  BY <1>1, <1>2 DEF BeginPublication

(* What was uploaded before stays as it is. *)
LEMMA UploadExtends ==
  ASSUME Shape, NEW db \in Databases, databases' = UploadFile(db)
  PROVE  /\ databases' \in Seq(Databases) /\ Len(databases') = Len(databases) + 1
         /\ Len(databases) + 1 \in DOMAIN databases' /\ databases'[Len(databases) + 1] = db
         /\ \A key \in DOMAIN databases : key \in DOMAIN databases' /\ databases'[key] = databases[key]
<1>1. databases \in Seq(Databases) /\ databases' = Append(databases, db)
  BY DEF Shape, UploadFile
<1> QED
  BY <1>1

LEMMA SmallestOfTwo ==
  ASSUME NEW m \in Nat, NEW n \in Nat
  PROVE  Min({m, n}) \in Nat /\ Min({m, n}) <= n
<1>1. \E x \in {m, n} : \A y \in {m, n} : x <= y
  OBVIOUS
<1> QED
  BY <1>1 DEF Min

LEMMA UploadKeeps ==
  ASSUME IndexInv, NEW p \in Programs, Upload(p)
  PROVE  IndexInv'
<1> USE DEF IndexInv
<1> DEFINE n == Len(databases)
<1>0. /\ run[p] \in Runs /\ run[p].db \in Databases /\ run[p].pc = "upload" /\ Relies(p, run[p])
      /\ UNCHANGED <<raw, removed, aged, manifest, plan, saved, disk>>
      /\ n \in Nat /\ databases' = UploadFile(run[p].db)
  BY RunIsRecord, DomainIsInitial DEF Upload, At, Runs
<1>1. PICK pc \in {"uploaded", "verify"}, next \in Manifests :
        /\ Goes(p, [run[p] EXCEPT !.pc = pc, !.next = next])
        /\ next.key = n + 1 /\ next.source = run[p].db.source
  <2> DEFINE kept == SubSeq(run[p].keys, 1, Min({RETAINED_PREDECESSORS, Len(run[p].keys)}))
             m == [key |-> n + 1, source |-> run[p].db.source, predecessors |-> kept]
  <2>1. run[p].keys \in Seq(Nat) /\ Len(run[p].keys) \in Nat /\ RETAINED_PREDECESSORS \in Nat
    BY <1>0 DEF Runs, RETAINED_PREDECESSORS
  <2>2. PICK k \in Nat : k = Min({RETAINED_PREDECESSORS, Len(run[p].keys)}) /\ k <= Len(run[p].keys)
    BY <2>1, SmallestOfTwo
  <2>3. SubSeq(run[p].keys, 1, k) \in Seq(Nat)
    BY <2>1, <2>2, PrefixOfSeq
  <2>4. kept \in Seq(Nat)
    BY <2>2, <2>3
  <2>5. PICK pc \in {"uploaded", "verify"} : Goes(p, [run[p] EXCEPT !.pc = pc, !.next = m])
    BY DEF Upload
  <2> HIDE DEF kept
  <2>6. m \in Manifests /\ m.key = n + 1 /\ m.source = run[p].db.source
    BY <1>0, <2>4 DEF Manifests, Databases
  <2> HIDE DEF m
  <2> QED
    BY <2>5, <2>6
<1> DEFINE r == [run[p] EXCEPT !.pc = pc, !.next = next]
<1>4. /\ r \in Runs /\ r.pc = pc /\ r.next = next /\ r.seen = run[p].seen /\ r.after = run[p].after
      /\ r.resumed = run[p].resumed
  BY <1>0 DEF Runs, Pcs
<1>5. Goes(p, r)
  BY <1>1
<1> HIDE DEF r
<1>6. /\ run' \in [Programs -> Runs] /\ run'[p] = r
      /\ \A q \in Programs : q # p => run'[q] = run[q]
  BY <1>4, <1>5 DEF Goes, Shape
<1>7. /\ databases' \in Seq(Databases) /\ Len(databases') = n + 1
      /\ n + 1 \in DOMAIN databases' /\ databases'[n + 1] = run[p].db
      /\ \A key \in DOMAIN databases : key \in DOMAIN databases' /\ databases'[key] = databases[key]
  BY <1>0, UploadExtends
<1>8. Shape'
  BY <1>0, <1>6, <1>7 DEF Shape
<1>9. ManifestStands' /\ SavedStands'
  BY <1>0, <1>7 DEF ManifestStands, SavedStands, Sound, OverPlan
<1>10. OneWrite'
  BY <1>4, <1>6 DEF OneWrite, At
<1>11. Relies(p, run[p])'
  <2>1. /\ ConsumerBoundary(run[p].db) /\ ~r.resumed
        /\ run[p].seen.key <= run[p].after /\ run[p].seen.source \subseteq run[p].db.source
        /\ aged <= run[p].after /\ run[p].after <= n
        /\ p = "job" => /\ plan \in DOMAIN databases /\ run[p].seen.key = plan
                        /\ databases[plan].source = run[p].seen.source
    BY <1>0, <1>4 DEF Relies
  <2>2. /\ databases'[n + 1].source = next.source /\ ConsumerBoundary(databases'[n + 1])
    BY <1>1, <1>7, <2>1
  <2>3. Sound(next)'
    BY <1>1, <1>7, <2>2 DEF Sound
  <2>4. p = "job" => OverPlan(next)'
    <3> SUFFICES ASSUME p = "job" PROVE OverPlan(next)'
      OBVIOUS
    <3>1. plan \in DOMAIN databases' /\ databases'[plan] = databases[plan] /\ plan <= n /\ plan \in Nat
      BY <1>7, <2>1, DomainIsInitial
    <3> QED
      BY <1>0, <1>1, <2>1, <3>1 DEF OverPlan
  <2>5. r.after < next.key
    BY <1>0, <1>1, <1>4, <2>1 DEF Runs
  <2> QED
    BY <1>0, <1>1, <1>4, <1>6, <2>1, <2>3, <2>4, <2>5 DEF Relies, InFlight, Pruning
<1>12. ASSUME NEW q \in Programs, q # p PROVE Relies(q, run[q])'
  <2>1. Relies(q, run[q]) /\ run'[q] = run[q] /\ run[q].after \in Nat
    BY <1>6, <1>12, RunIsRecord DEF Runs
  <2>2. \A m : Sound(m) => Sound(m)'
    BY <1>7 DEF Sound
  <2>3. OverPlan(run[q].next) => OverPlan(run[q].next)'
    BY <1>0, <1>6, <1>7, <1>12 DEF OverPlan
  <2>4. PICK state \in Runs : run[q] = state /\ run'[q] = state
    BY <1>6, <2>1, <1>12, RunIsRecord
  <2>5. Sound(state.next) => Sound(state.next)'
    BY <2>2
  <2>6. OverPlan(state.next) => OverPlan(state.next)'
    BY <2>3, <2>4
  <2>7. plan \in DOMAIN databases => plan' \in DOMAIN databases' /\ databases'[plan'] = databases[plan]
    BY <1>0, <1>7
  <2>8. Len(databases) <= Len(databases') /\ Len(databases) \in Nat /\ Len(databases') \in Nat
    BY <1>0, <1>7
  <2>9. state.after \in Nat
    BY DEF Runs
  <2>10. Relies(q, state)'
    BY <1>0, <2>1, <2>4, <2>5, <2>6, <2>7, <2>8, <2>9 DEF Relies
  <2> QED
    BY <2>4, <2>10
<1> QED
  BY <1>8, <1>9, <1>10, <1>11, <1>12

LEMMA SaveUploadedKeeps ==
  ASSUME IndexInv, SaveUploaded
  PROVE  IndexInv'
<1> USE DEF IndexInv
<1>1. /\ "job" \in Programs /\ run["job"] \in Runs /\ run["job"].pc = "uploaded"
      /\ Relies("job", run["job"])
      /\ UNCHANGED <<raw, databases, removed, aged, manifest, plan, disk>>
  BY RunIsRecord DEF SaveUploaded, At, Programs, bucket
<1>2. Sound(run["job"].next) /\ OverPlan(run["job"].next)
  BY <1>1 DEF Relies, InFlight
<1> DEFINE r == [run["job"] EXCEPT !.pc = "verify"]
<1>3. /\ r \in Runs /\ r.pc = "verify" /\ r.resumed = run["job"].resumed /\ r.seen = run["job"].seen
      /\ r.next = run["job"].next /\ r.after = run["job"].after
  BY <1>1 DEF Runs, Pcs
<1>4. Goes("job", r)
  BY DEF SaveUploaded, Moves
<1> HIDE DEF r
<1>5. Relies("job", r)
  BY <1>1, <1>3 DEF Relies, InFlight, Pruning
<1>6. saved' \in Savings /\ saved'.manifest = run["job"].next
  BY <1>1 DEF SaveUploaded, Boundary, Savings, Runs
<1>7. SavedStands'
  BY <1>1, <1>2, <1>6 DEF SavedStands, Sound, OverPlan
<1>8. raw' \subseteq Nat /\ disk' \in Disks
  BY <1>1 DEF Shape, Disks
<1> QED
  BY <1>1, <1>3, <1>4, <1>5, <1>6, <1>7, <1>8, ProgramMoves

(* A boundary the job has passed is saved with a manifest that is sound. *)
LEMMA BoundarySaves ==
  ASSUME IndexInv, NEW p \in Programs, NEW state \in {"uploaded", "verified", "published"},
         Boundary(p, state), run[p].pc \in InFlight,
         UNCHANGED <<bucket, manifest, plan>>
  PROVE  saved' \in Savings /\ SavedStands'
<1> USE DEF IndexInv
<1>1. run[p] \in Runs /\ Relies(p, run[p]) /\ UNCHANGED <<databases, plan>>
  BY RunIsRecord DEF bucket
<1>2. CASE p = "job"
  <2>1. saved' = [state |-> state, manifest |-> run[p].next]
    BY <1>2 DEF Boundary
  <2>2. Sound(run[p].next) /\ OverPlan(run[p].next) /\ run[p].next \in Manifests
    BY <1>1, <1>2 DEF Relies, Runs
  <2>3. saved' \in Savings /\ saved'.manifest = run[p].next
    BY <2>1, <2>2 DEF Savings
  <2> QED
    BY <1>1, <2>2, <2>3 DEF SavedStands, Sound, OverPlan
<1>3. CASE p # "job"
  <2>1. saved' = saved
    BY <1>3 DEF Boundary
  <2> QED
    BY <1>1, <2>1 DEF SavedStands, Sound, OverPlan, Shape, Savings
<1> QED
  BY <1>2, <1>3

LEMMA VerifyKeeps ==
  ASSUME IndexInv, NEW p \in Programs, Verify(p)
  PROVE  IndexInv'
<1> USE DEF IndexInv
<1>1. /\ run[p] \in Runs /\ run[p].pc = "verify" /\ Relies(p, run[p])
      /\ UNCHANGED <<raw, bucket, manifest, plan, disk>>
      /\ raw' \subseteq Nat /\ disk' \in Disks
  BY RunIsRecord DEF Verify, At, Shape, Disks
<1>2. CASE UNCHANGED saved /\ Ends(p)
  BY <1>1, <1>2, EndKeeps
<1>3. CASE Boundary(p, "verified") /\ Moves(p, "compare")
  <2> DEFINE r == [run[p] EXCEPT !.pc = "compare"]
  <2>1. "compare" \in Pcs
    BY DEF Pcs
  <2>2. /\ r \in Runs /\ r.pc = "compare" /\ r.resumed = run[p].resumed /\ r.seen = run[p].seen
        /\ r.next = run[p].next /\ r.after = run[p].after
    BY <2>1, MoveIsRecord
  <2>3. Goes(p, r)
    BY <1>3 DEF Moves
  <2> HIDE DEF r
  <2>4. Relies(p, r)
    BY <1>1, <2>2 DEF Relies, InFlight, Pruning
  <2>5. saved' \in Savings /\ SavedStands'
    BY <1>1, <1>3, BoundarySaves DEF InFlight
  <2>6. UNCHANGED <<databases, removed, aged, manifest, plan>>
    BY <1>1 DEF bucket
  <2> QED
    BY <1>1, <2>2, <2>3, <2>4, <2>5, <2>6, ProgramMoves
<1> QED
  BY <1>2, <1>3 DEF Verify

(* Nobody else is about to write the manifest: what was compared is still  *)
(* there when it is replaced.                                              *)
LEMMA CompareKeeps ==
  ASSUME IndexInv, ExclusiveSwap, NEW p \in Programs, Compare(p)
  PROVE  IndexInv'
<1> USE DEF IndexInv
<1>1. /\ run[p] \in Runs /\ run[p].pc = "compare" /\ Relies(p, run[p])
      /\ UNCHANGED <<raw, bucket, manifest, plan, saved, disk>>
      /\ \A q \in Programs : ~At(q, "write")
      /\ run[p].next \in Manifests /\ run[p].after \in Nat /\ manifest \in Manifests
  BY RunIsRecord DEF Compare, At, Runs, Shape
<1>2. CASE Ends(p)
  BY <1>1, <1>2, EndKeeps DEF Shape, Disks
<1>3. CASE Moves(p, "readback")
  <2> DEFINE r == [run[p] EXCEPT !.pc = "readback"]
  <2>1. "readback" \in Pcs
    BY DEF Pcs
  <2>2. /\ r \in Runs /\ r.pc = "readback" /\ r.resumed = run[p].resumed /\ r.seen = run[p].seen
        /\ r.next = run[p].next /\ r.after = run[p].after
    BY <2>1, MoveIsRecord
  <2>3. Goes(p, r)
    BY <1>3 DEF Moves
  <2> HIDE DEF r
  <2>4. Relies(p, r)
    BY <1>1, <2>2 DEF Relies, InFlight, Pruning
  <2> QED
    BY <1>1, <2>2, <2>3, <2>4, OnlyMoves
<1>4. CASE Unchanged(p) /\ Moves(p, "write")
  <2> DEFINE r == [run[p] EXCEPT !.pc = "write"]
  <2>1. "write" \in Pcs
    BY DEF Pcs
  <2>2. /\ r \in Runs /\ r.pc = "write" /\ r.resumed = run[p].resumed /\ r.seen = run[p].seen
        /\ r.next = run[p].next /\ r.after = run[p].after
    BY <2>1, MoveIsRecord
  <2>3. Goes(p, r)
    BY <1>4 DEF Moves
  <2> HIDE DEF r
  <2>4. manifest.key < run[p].next.key /\ manifest.source \subseteq run[p].next.source
    <3>1. CASE run[p].resumed
      <4>1. OverPlan(run[p].next) /\ manifest.key = plan
        BY <1>1, <1>4, <3>1 DEF Relies, InFlight, Unchanged
      <4>2. plan # 0
        BY <4>1, DomainIsInitial DEF OverPlan
      <4> QED
        BY <4>1, <4>2 DEF OverPlan, ManifestStands
    <3>2. CASE ~run[p].resumed
      <4>1. /\ manifest = run[p].seen /\ run[p].seen.key <= run[p].after
            /\ run[p].after < run[p].next.key
            /\ run[p].seen.source \subseteq run[p].next.source
        BY <1>1, <1>4, <3>2 DEF Relies, InFlight, Unchanged
      <4> QED
        BY <1>1, <4>1 DEF Manifests
    <3> QED
      BY <3>1, <3>2
  <2>5. Relies(p, r)
    BY <1>1, <2>2, <2>4 DEF Relies, InFlight, Pruning
  <2> QED
    BY <1>1, <2>2, <2>3, <2>5, OnlyMoves
<1> QED
  BY <1>2, <1>3, <1>4 DEF Compare

LEMMA WriteKeeps ==
  ASSUME IndexInv, NEW p \in Programs, WriteManifest(p)
  PROVE  IndexInv'
<1> USE DEF IndexInv
<1>1. /\ run[p] \in Runs /\ run[p].pc = "write" /\ Relies(p, run[p])
      /\ UNCHANGED <<raw, databases, removed, aged, plan, saved, disk>>
      /\ manifest' = run[p].next /\ run[p].next \in Manifests /\ manifest \in Manifests
  BY RunIsRecord DEF WriteManifest, At, bucket, Runs, Shape
<1>2. /\ Sound(run[p].next) /\ manifest.key < run[p].next.key
  BY <1>1 DEF Relies, InFlight
<1> DEFINE r == [run[p] EXCEPT !.pc = "readback"]
<1>3. "readback" \in Pcs
  BY DEF Pcs
<1>4. /\ r \in Runs /\ r.pc = "readback" /\ r.resumed = run[p].resumed /\ r.seen = run[p].seen
      /\ r.next = run[p].next /\ r.after = run[p].after
  BY <1>3, MoveIsRecord
<1>5. Goes(p, r)
  BY DEF WriteManifest, Moves
<1> HIDE DEF r
<1>6. /\ run' \in [Programs -> Runs] /\ run'[p] = r
      /\ \A q \in Programs : q # p => run'[q] = run[q]
  BY <1>4, <1>5 DEF Goes, Shape
<1>7. Shape' /\ SavedStands'
  BY <1>1, <1>6 DEF Shape, SavedStands, Sound, OverPlan
<1>8. ManifestStands'
  <2>1. \A key \in removed : key \in Nat
    BY DEF Shape
  <2> QED
    BY <1>1, <1>2, <2>1 DEF ManifestStands, Sound, Manifests
<1>9. OneWrite'
  BY <1>4, <1>6 DEF OneWrite, At
<1>10. Relies(p, run[p])'
  BY <1>1, <1>4, <1>6 DEF Relies, Sound, OverPlan, InFlight, Pruning
<1>11. ASSUME NEW q \in Programs, q # p PROVE Relies(q, run[q])'
  <2>1. Relies(q, run[q]) /\ run'[q] = run[q] /\ run[q].next.key \in Nat
    BY <1>6, <1>11, RunIsRecord DEF Runs, Manifests
  <2>2. run[q].pc # "write"
    BY <1>1, <1>11 DEF OneWrite, At
  <2>3. run[q].next.key <= manifest.key => run[q].next.key <= manifest'.key
    BY <1>1, <1>2, <2>1 DEF Manifests
  <2> QED
    BY <1>1, <2>1, <2>2, <2>3 DEF Relies, Sound, OverPlan
<1> QED
  BY <1>7, <1>8, <1>9, <1>10, <1>11

LEMMA ReadBackKeeps ==
  ASSUME IndexInv, NEW p \in Programs, ReadBack(p)
  PROVE  IndexInv'
<1> USE DEF IndexInv
<1>1. /\ run[p] \in Runs /\ run[p].pc = "readback" /\ Relies(p, run[p])
      /\ UNCHANGED <<raw, bucket, manifest, plan, disk>>
      /\ raw' \subseteq Nat /\ disk' \in Disks
      /\ run[p].next.key \in Nat
  BY RunIsRecord DEF ReadBack, At, Shape, Disks, Runs, Manifests
<1>2. CASE UNCHANGED saved /\ Ends(p)
  BY <1>1, <1>2, EndKeeps
<1>3. CASE /\ manifest = run[p].next /\ Boundary(p, "published")
           /\ IF run[p].resumed THEN Ends(p) ELSE Moves(p, "prune")
  <2>1. saved' \in Savings /\ SavedStands'
    BY <1>1, <1>3, BoundarySaves DEF InFlight
  <2>2. UNCHANGED <<databases, removed, aged, manifest, plan>>
    BY <1>1 DEF bucket
  <2>3. PICK r \in Runs : Goes(p, r) /\ Relies(p, r) /\ r.pc # "write"
    <3>1. CASE run[p].resumed
      <4>1. Goes(p, Idle) /\ Idle \in Runs /\ Idle.pc = "idle" /\ ~Idle.resumed
        BY <1>3, <3>1, NothingIsRecord DEF Ends
      <4>2. Relies(p, Idle)
        BY <4>1, RelyOnNothing
      <4> QED
        BY <4>1, <4>2
    <3>2. CASE ~run[p].resumed
      <4> DEFINE r == [run[p] EXCEPT !.pc = "prune"]
      <4>1. "prune" \in Pcs
        BY DEF Pcs
      <4>2. /\ r \in Runs /\ r.pc = "prune" /\ r.resumed = run[p].resumed
            /\ r.next = run[p].next /\ r.after = run[p].after
        BY <4>1, MoveIsRecord
      <4>3. Goes(p, r)
        BY <1>3, <3>2 DEF Moves
      <4> HIDE DEF r
      <4>4. aged <= r.after /\ r.after < r.next.key /\ r.next.key <= manifest.key
        BY <1>1, <1>3, <3>2, <4>2 DEF Relies, InFlight
      <4>5. Relies(p, r)
        BY <3>2, <4>2, <4>4 DEF Relies, InFlight, Pruning
      <4> QED
        BY <4>2, <4>3, <4>5
    <3> QED
      BY <3>1, <3>2
  <2> QED
    BY <1>1, <2>1, <2>2, <2>3, ProgramMoves
<1> QED
  BY <1>2, <1>3 DEF ReadBack

-----------------------------------------------------------------------------
(* Pruning. *)

LEMMA PruneKeeps ==
  ASSUME IndexInv, NEW p \in Programs, ReadActive(p) \/ ListStale(p) \/ CheckActive(p)
  PROVE  IndexInv'
<1> USE DEF IndexInv
<1>1. /\ run[p] \in Runs /\ run[p].pc \in {"prune", "list", "check"} /\ Relies(p, run[p])
      /\ UNCHANGED <<raw, bucket, manifest, plan, saved, disk>>
      /\ manifest \in Manifests /\ aged \in Nat /\ run[p].after \in Nat /\ run[p].next.key \in Nat
      /\ raw' \subseteq Nat /\ disk' \in Disks
  BY RunIsRecord DEF ReadActive, ListStale, CheckActive, At, Shape, Runs, Manifests, Disks
<1>2. /\ aged <= run[p].after /\ run[p].after < run[p].next.key /\ run[p].next.key <= manifest.key
      /\ ~run[p].resumed
  BY <1>1 DEF Relies, Pruning
<1>3. CASE ReadActive(p)
  <2> DEFINE r == [run[p] EXCEPT !.pc = "list", !.seen = manifest]
  <2>1. /\ r \in Runs /\ r.pc = "list" /\ r.resumed = run[p].resumed
        /\ r.next = run[p].next /\ r.after = run[p].after
    BY <1>1 DEF Runs, Pcs
  <2>2. Goes(p, r)
    BY <1>3 DEF ReadActive
  <2> HIDE DEF r
  <2>3. Relies(p, r)
    BY <1>2, <2>1 DEF Relies, InFlight, Pruning
  <2> QED
    BY <1>1, <2>1, <2>2, <2>3, OnlyMoves
<1>4. CASE Ends(p)
  BY <1>1, <1>4, EndKeeps
<1>5. CASE Goes(p, [run[p] EXCEPT !.pc = "check", !.stale = Stale(p)])
  <2> DEFINE r == [run[p] EXCEPT !.pc = "check", !.stale = Stale(p)]
  <2>1. Stale(p) \subseteq 1 .. aged
    BY DEF Stale
  <2>2. Stale(p) \in SUBSET Nat /\ \A key \in Stale(p) : key < run[p].next.key
    BY <1>1, <1>2, <2>1
  <2>3. /\ r \in Runs /\ r.pc = "check" /\ r.resumed = run[p].resumed
        /\ r.next = run[p].next /\ r.after = run[p].after /\ r.stale = Stale(p)
    BY <1>1, <2>2 DEF Runs, Pcs
  <2>4. Goes(p, r)
    BY <1>5
  <2> HIDE DEF r
  <2>5. Relies(p, r)
    BY <1>2, <2>2, <2>3 DEF Relies, InFlight, Pruning
  <2> QED
    BY <1>1, <2>3, <2>4, <2>5, OnlyMoves
<1>6. CASE run[p].pc = "check" /\ Moves(p, "remove")
  <2> DEFINE r == [run[p] EXCEPT !.pc = "remove"]
  <2>1. "remove" \in Pcs
    BY DEF Pcs
  <2>2. /\ r \in Runs /\ r.pc = "remove" /\ r.resumed = run[p].resumed
        /\ r.next = run[p].next /\ r.after = run[p].after /\ r.stale = run[p].stale
    BY <2>1, MoveIsRecord
  <2>3. Goes(p, r)
    BY <1>6 DEF Moves
  <2> HIDE DEF r
  <2>4. Relies(p, r)
    BY <1>1, <1>2, <1>6, <2>2 DEF Relies, InFlight, Pruning
  <2> QED
    BY <1>1, <2>2, <2>3, <2>4, OnlyMoves
<1> QED
  BY <1>3, <1>4, <1>5, <1>6 DEF ListStale, CheckActive, At

LEMMA RemoveKeeps ==
  ASSUME IndexInv, NEW p \in Programs, RemoveStale(p)
  PROVE  IndexInv'
<1> USE DEF IndexInv
<1>1. /\ run[p] \in Runs /\ run[p].pc = "remove" /\ Relies(p, run[p])
      /\ UNCHANGED <<raw, databases, aged, manifest, plan, saved, disk>>
      /\ removed' = removed \union run[p].stale
      /\ run[p].stale \in SUBSET Nat /\ run[p].next.key \in Nat /\ manifest.key \in Nat
  BY RunIsRecord DEF RemoveStale, At, Runs, Manifests, Shape
<1>2. \A key \in run[p].stale : key < manifest.key
  BY <1>1 DEF Relies, Pruning
<1>3. /\ run' \in [Programs -> Runs] /\ run'[p] = Idle
      /\ \A q \in Programs : q # p => run'[q] = run[q]
  BY NothingIsRecord DEF RemoveStale, Ends, Goes, Shape
<1>4. Shape' /\ SavedStands'
  BY <1>1, <1>3 DEF Shape, SavedStands, Sound, OverPlan
<1>5. ManifestStands'
  BY <1>1, <1>2 DEF ManifestStands
<1>6. OneWrite'
  BY <1>3, NothingIsRecord DEF OneWrite, At
<1>7. ASSUME NEW q \in Programs PROVE Relies(q, run[q])'
  <2>1. Relies(q, run'[q])
    BY <1>3, NothingIsRecord, RelyOnNothing
  <2> QED
    BY <1>1, <2>1 DEF Relies, Sound, OverPlan
<1> QED
  BY <1>4, <1>5, <1>6, <1>7

(* A database grows a day old only while every publication under way began *)
(* after its upload.                                                       *)
LEMMA DayKeeps ==
  ASSUME IndexInv, DayPasses
  PROVE  IndexInv'
<1> USE DEF IndexInv
<1>1. /\ UNCHANGED <<raw, databases, removed, manifest, plan, saved, disk, run>>
      /\ aged' = aged + 1 /\ aged < Len(databases) /\ aged \in Nat /\ Len(databases) \in Nat
  BY DomainIsInitial DEF DayPasses, Shape
<1>2. Shape'
  BY <1>1 DEF Shape
<1>3. ManifestStands' /\ SavedStands' /\ OneWrite'
  BY <1>1 DEF ManifestStands, SavedStands, Sound, OverPlan, OneWrite, At
<1>4. ASSUME NEW q \in Programs PROVE Relies(q, run[q])'
  <2> DEFINE r == run[q]
  <2>1. Relies(q, r) /\ r.after \in Nat /\ r.next.key \in Nat
    BY RunIsRecord DEF Runs, Manifests
  <2>2. r.pc \in {"upload"} \union Pruning \/ (r.pc \in InFlight /\ ~r.resumed) => aged' <= r.after
    <3> SUFFICES ASSUME r.pc \in {"upload"} \union Pruning \/ (r.pc \in InFlight /\ ~r.resumed)
                 PROVE  aged' <= r.after
      OBVIOUS
    <3>1. Publishing(q) /\ ~At(q, "begin")
      <4>1. r.pc # "upload" => r.next.key # 0
        <5>1. r.pc \in Pruning => r.next.key # 0
          BY <2>1 DEF Relies
        <5>2. r.pc \in InFlight => r.next.key # 0
          BY <2>1, DomainIsInitial DEF Relies, Sound
        <5> QED
          BY <5>1, <5>2
      <4> QED
        BY <4>1 DEF Publishing, At, InFlight, Pruning
    <3>2. r.after > aged
      BY <3>1 DEF DayPasses
    <3> QED
      BY <1>1, <2>1, <3>2
  <2> QED
    BY <1>1, <2>1, <2>2 DEF Relies, Sound, OverPlan
<1> QED
  BY <1>2, <1>3, <1>4

-----------------------------------------------------------------------------
LEMMA IndexStarts ==
  ASSUME IndexAssumption, Init
  PROVE  IndexInv
<1>1. FirstSegments \subseteq Nat
  BY DEF IndexAssumption
<1>2. databases \in Seq(Databases) /\ manifest \in Manifests
      /\ (manifest.key # 0 => manifest.key \in DOMAIN databases
                              /\ databases[manifest.key].source = manifest.source)
  <2>1. CASE databases = <<>> /\ manifest = NoManifest
    BY <2>1, NothingIsRecord
  <2>2. CASE \E ready \in BOOLEAN :
               /\ databases = <<Database(FirstSegments, ready, NoTarget)>>
               /\ manifest = [NoManifest EXCEPT !.key = 1, !.source = FirstSegments]
    <3>1. PICK ready \in BOOLEAN : databases = <<Database(FirstSegments, ready, NoTarget)>>
      BY <2>2
    <3>2. Database(FirstSegments, ready, NoTarget) \in Databases
          /\ Database(FirstSegments, ready, NoTarget).source = FirstSegments
      BY <1>1 DEF Database, Databases, NoTarget
    <3>3. manifest = [key |-> 1, source |-> FirstSegments, predecessors |-> <<>>]
      BY <2>2 DEF NoManifest
    <3>4. manifest \in Manifests /\ manifest.key = 1 /\ manifest.source = FirstSegments
      BY <1>1, <3>3 DEF Manifests
    <3> QED
      BY <3>1, <3>2, <3>4
  <2> QED
    BY <2>1, <2>2 DEF Init
<1>3. /\ raw = FirstSegments /\ removed = {} /\ aged = 0 /\ plan = manifest.key /\ saved = Unsaved
      /\ disk = [state |-> "none", db |-> NoDatabase, pinned |-> NoTarget]
      /\ run = [p \in Programs |-> Idle]
  BY DEF Init
<1>4. disk \in Disks
  BY <1>3, NothingIsRecord DEF Disks, NoTarget
<1>5. Shape
  <2>1. aged <= Len(databases) /\ plan \in Nat
    BY <1>2, <1>3 DEF Manifests
  <2>2. run \in [Programs -> Runs] /\ saved \in Savings
    BY <1>3, NothingIsRecord
  <2> QED
    BY <1>1, <1>2, <1>3, <1>4, <2>1, <2>2 DEF Shape, Disks, Savings
<1>6. ManifestStands /\ SavedStands /\ OneWrite
  BY <1>2, <1>3, NothingIsRecord DEF ManifestStands, SavedStands, OneWrite, At
<1>7. \A p \in Programs : Relies(p, run[p])
  BY <1>3, NothingIsRecord, RelyOnNothing
<1> QED
  BY <1>5, <1>6, <1>7 DEF IndexInv

LEMMA IndexStops ==
  ASSUME IndexInv, NEW p \in Programs, Stop(p)
  PROVE  IndexInv'
BY EndKeeps DEF Stop, IndexInv, Shape, Disks

LEMMA IndexStutters ==
  ASSUME IndexInv, UNCHANGED vars
  PROVE  IndexInv'
<1> USE DEF IndexInv, vars
<1>1. Shape' /\ ManifestStands' /\ SavedStands' /\ OneWrite'
  BY DEF Shape, ManifestStands, SavedStands, Sound, OverPlan, OneWrite, At
<1>2. ASSUME NEW q \in Programs PROVE Relies(q, run[q])'
  BY DEF Relies, Sound, OverPlan
<1> QED
  BY <1>1, <1>2

(* The inductive invariant holds while one publisher at a time is between  *)
(* its comparison of the manifest and its write.                           *)
THEOREM IndexInvariant == ExclusiveSwap => (Spec => []IndexInv)
<1> SUFFICES ASSUME ExclusiveSwap PROVE Spec => []IndexInv
  OBVIOUS
<1>1. Init => IndexInv
  BY IndexStarts, IndexAssumption
<1>2. IndexInv /\ [Next]_vars => IndexInv'
  <2> SUFFICES ASSUME IndexInv, [Next]_vars PROVE IndexInv'
    OBVIOUS
  <2>1. CASE Job
    BY <2>1, JobBuildsKeeps, JobResumesKeeps, JobPlansKeeps, SaveUploadedKeeps DEF Job
  <2>2. ASSUME NEW p \in Programs, Publish(p) PROVE IndexInv'
    BY <2>2, BeginKeeps, UploadKeeps, VerifyKeeps, CompareKeeps, WriteKeeps, ReadBackKeeps,
       PruneKeeps, RemoveKeeps
    DEF Publish
  <2>3. CASE Command
    BY <2>3, PrepareKeeps, CommandKeeps, IndexAssumption DEF Command
  <2> QED
    BY <2>1, <2>2, <2>3, CaptureKeeps, WorkerKeeps, IndexStops, DayKeeps, IndexStutters,
       IndexAssumption
    DEF Next
<1> QED
  BY <1>1, <1>2, PTL DEF Spec

(* The database that the manifest names is there to restore, whatever is   *)
(* published, pruned, stopped and resumed at the same time                 *)
(* (publishDatabase and prune of durable-index.ts).                        *)
THEOREM ManifestIsReadable == ExclusiveSwap => (Spec => []PointerIsReadable)
<1>1. IndexInv => PointerIsReadable
  <2> SUFFICES ASSUME IndexInv, manifest.key # 0
               PROVE  manifest.key \in Stored /\ databases[manifest.key].source = manifest.source
    BY DEF PointerIsReadable
  <2>1. manifest.key \in DOMAIN databases /\ databases[manifest.key].source = manifest.source
    BY DEF IndexInv, ManifestStands
  <2>2. manifest.key \notin removed
    <3> SUFFICES ASSUME manifest.key \in removed PROVE FALSE
      OBVIOUS
    <3>1. manifest.key < manifest.key /\ manifest.key \in Nat
      BY DEF IndexInv, ManifestStands, Shape, Manifests
    <3> QED
      BY <3>1
  <2> QED
    BY <2>1, <2>2 DEF Stored
<1> QED
  BY <1>1, IndexInvariant, PTL

(* A publication never drops a segment from the index, and publishes only  *)
(* what consumers can read, also when it resumes one of an earlier job.    *)
THEOREM PublicationsOnlyAdd == ExclusiveSwap => (Spec => NothingPublishedIsLost)
<1> SUFFICES ASSUME ExclusiveSwap PROVE Spec => NothingPublishedIsLost
  OBVIOUS
<1>1. ASSUME IndexInv, [Next]_vars, manifest' # manifest
      PROVE  /\ manifest.source \subseteq manifest'.source
             /\ ConsumerBoundary(databases[manifest'.key])
  <2>1. PICK p \in Programs : WriteManifest(p)
    <3>1. ~Job /\ ~Worker /\ ~Command
      BY <1>1
      DEF Job, JobBuilds, JobResumes, JobPlansSuccessor, Replan, SaveUploaded, Worker,
          WorkerRestores, WorkerDownloads, WorkerPublishes, Command, Prepare, PrepareOpens,
          CreateEmpty, BeginBootstrap, PinTarget, ReplayChunk, FinishBootstrap, PublishPreparedIndex
    <3>2. ASSUME NEW p \in Programs, Publish(p) PROVE WriteManifest(p)
      BY <1>1, <3>2
      DEF Publish, BeginPublication, Upload, Verify, Compare, ReadBack, ReadActive, ListStale,
          CheckActive, RemoveStale
    <3>3. ASSUME NEW p \in Programs, Stop(p) PROVE FALSE
      BY <1>1, <3>3 DEF Stop
    <3>4. ASSUME NEW s \in Segments, Capture(s) PROVE FALSE
      BY <1>1, <3>4 DEF Capture
    <3>5. ~DayPasses /\ ~UNCHANGED vars
      BY <1>1 DEF DayPasses, vars
    <3> QED
      BY <1>1, <3>1, <3>2, <3>3, <3>4, <3>5 DEF Next
  <2>2. Relies(p, run[p]) /\ run[p].pc = "write" /\ manifest' = run[p].next
    BY <1>1, <2>1 DEF WriteManifest, At, IndexInv
  <2> QED
    BY <2>2 DEF Relies, InFlight, Sound
<1>2. IndexInv /\ [Next]_vars =>
        [manifest' # manifest =>
           /\ manifest.source \subseteq manifest'.source
           /\ ConsumerBoundary(databases[manifest'.key])]_vars
  BY <1>1
<1>3. Spec => []IndexInv
  BY IndexInvariant
<1> QED
  BY <1>2, <1>3, PTL DEF NothingPublishedIsLost, Spec
=============================================================================
