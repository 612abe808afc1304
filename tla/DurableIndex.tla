---------------------------- MODULE DurableIndex ----------------------------
(***************************************************************************)
(* The published index.  A database is built from a set of raw segments,   *)
(* uploaded under its own hash and named by one mutable manifest.  Three   *)
(* programs publish: the scheduled job of a planned run, the unplanned     *)
(* worker and the index command, which first replays the whole log into a  *)
(* database on its disk.  A publication reads the manifest, uploads,       *)
(* verifies, compares the manifest with what it read, writes it, and then  *)
(* removes old databases that nothing refers to.  A program may stop       *)
(* between any two of these requests: killed, refused by a check, or       *)
(* because a transfer failed for the last time.                            *)
(*                                                                         *)
(* Segments are numbered in key order and a snapshot is the set of its     *)
(* segments: snapshots are immutable, stored before the database they      *)
(* describe and, like segments, never deleted.  A database's key, its      *)
(* hash, is its number in the order of uploads.                            *)
(***************************************************************************)
EXTENDS Integers, Sequences, FiniteSets, FiniteSetsExt, Functions

CONSTANTS Segments,      \* the raw segments, numbered in key order
          FirstSegments, \* those of the first published index
          MaxUploads,    \* databases that are uploaded
          MaxStops,      \* programs that end before they are done
          ExclusiveSwap  \* no publisher compares the manifest while another
                         \* one is between its comparison and its write

ASSUME IndexAssumption ==
  /\ Segments \subseteq Nat \ {0}
  /\ FirstSegments \subseteq Segments
  /\ {MaxUploads, MaxStops} \subseteq Nat
  /\ ExclusiveSwap \in BOOLEAN

VARIABLES raw,        \* the segments of the raw Bucket
          databases,  \* every database uploaded to the index Bucket
          removed,    \* the keys of those that were deleted
          aged,       \* how many were uploaded more than a day ago
          manifest,   \* index/current.json
          plan,       \* the base index of the planned run, 0 if there is none
          saved,      \* the publication state in the run's checkpoint
          disk,       \* the index command's working directory
          run,        \* what each program is doing
          stops       \* stopped programs so far

vars == <<raw, databases, removed, aged, manifest, plan, saved, disk, run, stops>>
bucket == <<databases, removed, aged>>

Programs == {"job", "worker", "command"}
RETAINED_PREDECESSORS == 3

NoManifest == [key |-> 0, source |-> {}, predecessors |-> <<>>]
Unsaved == [state |-> "none", manifest |-> NoManifest]
NoTarget == {0}

(* A database: the segments applied to it, whether its consumer projection *)
(* covers exactly these, and the snapshot an unfinished bootstrap is for.  *)
Database(source, ready, target) ==
  [source |-> source, ready |-> ready, target |-> target]
NoDatabase == Database({}, FALSE, NoTarget)

Idle == [pc |-> "idle", db |-> NoDatabase, keys |-> <<>>, seen |-> NoManifest,
         next |-> NoManifest, resumed |-> FALSE, after |-> 0, stale |-> {},
         target |-> NoTarget]

Stored == DOMAIN databases \ removed
Named(m) == {m.key} \union Range(m.predecessors)

At(p, pc) == run[p].pc = pc
Goes(p, r) == run' = [run EXCEPT ![p] = r]
Moves(p, pc) == Goes(p, [run[p] EXCEPT !.pc = pc])
Ends(p) == Goes(p, Idle)
Publishing(p) == At(p, "begin") \/ At(p, "upload") \/ run[p].next.key # 0

-----------------------------------------------------------------------------
(* Databases on a local disk.                                              *)

(* Tail replay applies every listed segment the database does not hold.    *)
(* The rows, the source and the consumer boundary commit together, and the *)
(* boundary is kept only if it was valid before.                           *)
ReplayVerifiedTail(db) == raw \ db.source
AdvanceToLatest(db) == [db EXCEPT !.source = @ \union ReplayVerifiedTail(db)]
ApplyOutputSegments(db, keys) == [db EXCEPT !.source = @ \union keys]

(* A chunk of a bootstrap: the first segments of its target in key order.  *)
Holds(db, target) ==
  /\ db.source \subseteq target
  /\ \A s \in target, t \in db.source : s < t => s \in db.source
AdvanceToSnapshot(db, target) ==
  {later \in {[db EXCEPT !.source = files] : files \in SUBSET target} :
     db.source \subseteq later.source /\ db # later /\ Holds(later, target)}

(* An unfinished bootstrap and an old projection are never published.      *)
RequireComplete(db) == db.target = NoTarget
RequireBoundary(db) == db.ready
ConsumerBoundary(db) == RequireComplete(db) /\ RequireBoundary(db)

(* A download is resumed until it is whole, and fails if the file is gone. *)
Downloads(key) == key \in Stored
RestoreReference(key) == databases[key]
UploadFile(db) == Append(databases, db)

-----------------------------------------------------------------------------
(* The raw log and the planned job.                                        *)

Capture(s) ==
  /\ s \notin raw
  /\ raw' = raw \union {s}
  /\ UNCHANGED <<bucket, manifest, plan, saved, disk, run, stops>>

(* The job builds on the base of its plan, not on the current index, and   *)
(* applies the plan's segments and its own outputs.  It names only the     *)
(* base as a predecessor.                                                  *)
JobBuilds ==
  /\ At("job", "idle") /\ saved = Unsaved
  /\ Downloads(plan)
  /\ \E keys \in SUBSET (raw \ RestoreReference(plan).source) :
       Goes("job", [Idle EXCEPT !.pc = "begin", !.keys = <<plan>>,
                                !.db = ApplyOutputSegments(RestoreReference(plan), keys)])
  /\ UNCHANGED <<raw, bucket, manifest, plan, saved, disk, stops>>

JobResumes ==
  /\ At("job", "idle") /\ saved.state \in {"uploaded", "verified"}
  /\ Goes("job", [Idle EXCEPT
       !.pc = IF saved.state = "uploaded" THEN "verify" ELSE "compare",
       !.next = saved.manifest, !.resumed = TRUE, !.after = Len(databases)])
  /\ UNCHANGED <<raw, bucket, manifest, plan, saved, disk, stops>>

(* The next run is planned on the database that was just published.        *)
JobPlansSuccessor ==
  /\ At("job", "idle") /\ saved.state = "published"
  /\ Downloads(saved.manifest.key)
  /\ plan' = saved.manifest.key
  /\ saved' = Unsaved
  /\ UNCHANGED <<raw, bucket, manifest, disk, run, stops>>

(* The operator prepares a run on the current index and commits it only if *)
(* the manifest is the same before and after: the two act as one.          *)
PrepareEnrichmentBootstrap == manifest.key \notin {0, plan} /\ Downloads(manifest.key)
CommitEnrichmentBootstrap == plan' = manifest.key /\ saved' = Unsaved

Replan ==
  /\ At("job", "idle")
  /\ PrepareEnrichmentBootstrap /\ CommitEnrichmentBootstrap
  /\ UNCHANGED <<raw, bucket, manifest, disk, run, stops>>

-----------------------------------------------------------------------------
(* The unplanned worker restores the current index, works, and publishes   *)
(* a copy of what it restored after another replay of the tail.  It and    *)
(* the command are started by hand, and the operator stops the one before  *)
(* the other publishes; the scheduled job runs when it likes.              *)

WorkerRestores ==
  /\ At("worker", "idle") /\ manifest.key # 0 /\ ~Publishing("command")
  /\ Goes("worker", [Idle EXCEPT !.pc = "download", !.seen = manifest])
  /\ UNCHANGED <<raw, bucket, manifest, plan, saved, disk, stops>>

WorkerDownloads ==
  /\ At("worker", "download")
  /\ LET m == run["worker"].seen
     IN  IF Downloads(m.key)
         THEN Goes("worker", [Idle EXCEPT !.pc = "work", !.db = RestoreReference(m.key),
                                          !.keys = <<m.key>> \o m.predecessors])
         ELSE Ends("worker")
  /\ UNCHANGED <<raw, bucket, manifest, plan, saved, disk, stops>>

WorkerPublishes ==
  /\ At("worker", "work")
  /\ Goes("worker", [run["worker"] EXCEPT !.pc = "begin", !.db = AdvanceToLatest(@)])
  /\ UNCHANGED <<raw, bucket, manifest, plan, saved, disk, stops>>

-----------------------------------------------------------------------------
(* Publication.  Each step is one request to the index Bucket.  The job    *)
(* saves the boundaries it has passed in its checkpoint.                   *)

Boundary(p, state) ==
  saved' = IF p = "job" THEN [state |-> state, manifest |-> run[p].next] ELSE saved

ExpectedDatabase(p) ==
  CASE p = "job" -> manifest.key = plan
    [] p = "command" -> run[p].seen.key \in {0, manifest.key}
    [] p = "worker" -> TRUE

AssertPredecessorIncluded(db, current) == current.source \subseteq db.source

BeginPublication(p) ==
  /\ At(p, "begin")
  /\ IF /\ ConsumerBoundary(run[p].db)
        /\ ExpectedDatabase(p)
        /\ AssertPredecessorIncluded(run[p].db, manifest)
     THEN Goes(p, [run[p] EXCEPT !.pc = "upload", !.seen = manifest,
                                 !.after = Len(databases)])
     ELSE Ends(p)
  /\ UNCHANGED <<raw, bucket, manifest, plan, saved, disk, stops>>

Upload(p) ==
  /\ At(p, "upload") /\ Len(databases) < MaxUploads
  /\ databases' = UploadFile(run[p].db)
  /\ Goes(p, [run[p] EXCEPT
       !.pc = IF p = "job" THEN "uploaded" ELSE "verify",
       !.next = [key |-> Len(databases) + 1, source |-> run[p].db.source,
                 predecessors |-> SubSeq(run[p].keys, 1,
                   Min({RETAINED_PREDECESSORS, Len(run[p].keys)}))]])
  /\ UNCHANGED <<raw, removed, aged, manifest, plan, saved, disk, stops>>

SaveUploaded ==
  /\ At("job", "uploaded")
  /\ Boundary("job", "uploaded") /\ Moves("job", "verify")
  /\ UNCHANGED <<raw, bucket, manifest, plan, disk, stops>>

Verify(p) ==
  /\ At(p, "verify")
  /\ IF Downloads(run[p].next.key)
     THEN Boundary(p, "verified") /\ Moves(p, "compare")
     ELSE UNCHANGED saved /\ Ends(p)
  /\ UNCHANGED <<raw, bucket, manifest, plan, disk, stops>>

(* Mutant: a resumed publication does not look at the manifest again.      *)
ResumedUnchecked(p) ==
  IF run[p].resumed THEN TRUE ELSE manifest = run[p].seen

(* A resumed publication compares the manifest with the plan's base.       *)
Unchanged(p) ==
  IF run[p].resumed THEN manifest.key = plan ELSE manifest = run[p].seen

Compare(p) ==
  /\ At(p, "compare")
  /\ ExclusiveSwap => \A q \in Programs : ~At(q, "write")
  /\ IF run[p].resumed /\ manifest = run[p].next THEN Moves(p, "readback")
     ELSE IF Unchanged(p) THEN Moves(p, "write") ELSE Ends(p)
  /\ UNCHANGED <<raw, bucket, manifest, plan, saved, disk, stops>>

WriteManifest(p) ==
  /\ At(p, "write")
  /\ manifest' = run[p].next
  /\ Moves(p, "readback")
  /\ UNCHANGED <<raw, bucket, plan, saved, disk, stops>>

(* A resumed publication ends here, without pruning.                       *)
ReadBack(p) ==
  /\ At(p, "readback")
  /\ IF manifest = run[p].next
     THEN /\ Boundary(p, "published")
          /\ IF run[p].resumed THEN Ends(p) ELSE Moves(p, "prune")
     ELSE UNCHANGED saved /\ Ends(p)
  /\ UNCHANGED <<raw, bucket, manifest, plan, disk, stops>>

-----------------------------------------------------------------------------
(* Pruning: the manifest is read, the databases listed, the manifest read  *)
(* again, and only then are old unreferenced databases deleted.            *)

ReadActive(p) ==
  /\ At(p, "prune")
  /\ Goes(p, [run[p] EXCEPT !.pc = "list", !.seen = manifest])
  /\ UNCHANGED <<raw, bucket, manifest, plan, saved, disk, stops>>

(* Mutant: a database is stale as soon as no manifest names it.            *)
StaleAtOnce(p) == Stored \ (Named(run[p].next) \union Named(run[p].seen))

Stale(p) == (Stored \cap 1..aged) \ (Named(run[p].next) \union Named(run[p].seen))

ListStale(p) ==
  /\ At(p, "list")
  /\ IF Stale(p) = {} THEN Ends(p)
     ELSE Goes(p, [run[p] EXCEPT !.pc = "check", !.stale = Stale(p)])
  /\ UNCHANGED <<raw, bucket, manifest, plan, saved, disk, stops>>

CheckActive(p) ==
  /\ At(p, "check")
  /\ IF manifest = run[p].seen THEN Moves(p, "remove") ELSE Ends(p)
  /\ UNCHANGED <<raw, bucket, manifest, plan, saved, disk, stops>>

RemoveStale(p) ==
  /\ At(p, "remove")
  /\ removed' = removed \union run[p].stale
  /\ Ends(p)
  /\ UNCHANGED <<raw, databases, aged, manifest, plan, saved, disk, stops>>

-----------------------------------------------------------------------------
(* The index command prepares a database on its disk, in transactions of a *)
(* few segments, from a snapshot it pins beside it.                        *)

CreateSnapshot == raw

(* Mutant: every preparation aims at the newest snapshot.                  *)
NewestSource == IF manifest.key # 0 THEN manifest.source ELSE CreateSnapshot

BootstrapSource ==
  IF disk.pinned # NoTarget THEN disk.pinned
  ELSE IF manifest.key # 0 THEN manifest.source ELSE CreateSnapshot

VerifyPinnedTarget(target) == disk.pinned \in {NoTarget, target}

PrepareOpens ==
  /\ At("command", "idle")
  /\ VerifyPinnedTarget(BootstrapSource)
  /\ \/ /\ disk.state = "none"
        /\ disk' = [disk EXCEPT !.state = "file"]
        /\ Goes("command", [Idle EXCEPT !.pc = "create", !.target = BootstrapSource])
     \/ /\ disk.state = "database"
        /\ UNCHANGED disk
        /\ Goes("command", [Idle EXCEPT !.pc = "resume", !.target = BootstrapSource])
  /\ UNCHANGED <<raw, bucket, manifest, plan, saved, stops>>

(* The file exists before the transaction that makes it a database.        *)
CreateEmpty ==
  /\ At("command", "create")
  /\ disk' = [disk EXCEPT !.state = "database",
                          !.db = Database({}, TRUE, run["command"].target)]
  /\ Moves("command", "resume")
  /\ UNCHANGED <<raw, bucket, manifest, plan, saved, stops>>

BeginBootstrap ==
  /\ At("command", "resume")
  /\ LET target == run["command"].target
     IN  IF /\ Holds(disk.db, target)
            /\ disk.db.ready /\ disk.db.target \in {NoTarget, target}
         THEN /\ disk' = [disk EXCEPT !.db.target = target]
              /\ Moves("command", "pin")
         ELSE UNCHANGED disk /\ Ends("command")
  /\ UNCHANGED <<raw, bucket, manifest, plan, saved, stops>>

PinTarget ==
  /\ At("command", "pin")
  /\ disk' = [disk EXCEPT !.pinned = run["command"].target]
  /\ Moves("command", "replay")
  /\ UNCHANGED <<raw, bucket, manifest, plan, saved, stops>>

(* A chunk commits with its source; the segment limit may end the program. *)
ReplayChunk ==
  /\ At("command", "replay")
  /\ \E db \in AdvanceToSnapshot(disk.db, run["command"].target) :
       disk' = [disk EXCEPT !.db = db]
  /\ Moves("command", "replay") \/ Ends("command")
  /\ UNCHANGED <<raw, bucket, manifest, plan, saved, stops>>

FinishBootstrap ==
  /\ At("command", "replay") /\ disk.db.source = run["command"].target
  /\ disk' = [disk EXCEPT !.db.target = NoTarget]
  /\ Ends("command")
  /\ UNCHANGED <<raw, bucket, manifest, plan, saved, stops>>

Prepared ==
  /\ disk.pinned # NoTarget /\ disk.state = "database"
  /\ ConsumerBoundary(disk.db) /\ disk.pinned \subseteq disk.db.source

(* The operator names the current database; the command replays the tail.  *)
PublishPreparedIndex ==
  /\ At("command", "idle") /\ Prepared /\ At("worker", "idle")
  /\ disk' = [disk EXCEPT !.db = AdvanceToLatest(@)]
  /\ Goes("command", [Idle EXCEPT !.pc = "begin", !.db = AdvanceToLatest(disk.db),
       !.seen = manifest,
       !.keys = IF manifest.key = 0 THEN <<>> ELSE <<manifest.key>> \o manifest.predecessors])
  /\ UNCHANGED <<raw, bucket, manifest, plan, saved, stops>>

-----------------------------------------------------------------------------
(* A program stops between two of its requests.                            *)
Stop(p) ==
  /\ ~At(p, "idle") /\ stops < MaxStops
  /\ Ends(p)
  /\ stops' = stops + 1
  /\ UNCHANGED <<raw, bucket, manifest, plan, saved, disk>>

(* The oldest fresh database becomes a day old.  No publication takes that *)
(* long: none that is under way began before the upload.                   *)
DayPasses ==
  /\ aged < Len(databases)
  /\ \A p \in Programs : Publishing(p) /\ ~At(p, "begin") => run[p].after > aged
  /\ aged' = aged + 1
  /\ UNCHANGED <<raw, databases, removed, manifest, plan, saved, disk, run, stops>>

-----------------------------------------------------------------------------
(* Before the first publication there is no manifest; an index published   *)
(* before consumers existed has no valid boundary.                         *)
Init ==
  /\ raw = FirstSegments
  /\ \/ databases = <<>> /\ manifest = NoManifest
     \/ \E ready \in BOOLEAN :
          /\ databases = <<Database(FirstSegments, ready, NoTarget)>>
          /\ manifest = [NoManifest EXCEPT !.key = 1, !.source = FirstSegments]
  /\ removed = {} /\ aged = 0
  /\ plan = manifest.key /\ saved = Unsaved
  /\ disk = [state |-> "none", db |-> NoDatabase, pinned |-> NoTarget]
  /\ run = [p \in Programs |-> Idle]
  /\ stops = 0

Publish(p) ==
  \/ BeginPublication(p) \/ Upload(p) \/ Verify(p)
  \/ Compare(p) \/ WriteManifest(p) \/ ReadBack(p)
  \/ ReadActive(p) \/ ListStale(p) \/ CheckActive(p) \/ RemoveStale(p)

Job ==
  \/ JobBuilds \/ JobResumes \/ JobPlansSuccessor \/ Replan
  \/ SaveUploaded

Worker == WorkerRestores \/ WorkerDownloads \/ WorkerPublishes

Prepare ==
  \/ PrepareOpens \/ CreateEmpty \/ BeginBootstrap
  \/ PinTarget \/ ReplayChunk \/ FinishBootstrap

Command == Prepare \/ PublishPreparedIndex

Next ==
  \/ \E s \in Segments : Capture(s)
  \/ Job \/ Worker \/ Command
  \/ \E p \in Programs : Publish(p) \/ Stop(p)
  \/ DayPasses

(* Someone runs the preparation again until it is done.                    *)
Spec == Init /\ [][Next]_vars /\ WF_vars(Prepare)

-----------------------------------------------------------------------------
(* Whatever is uploaded, pruned, stopped and resumed, by programs that run *)
(* at the same time: the database the manifest names is there to restore.  *)
PointerIsReadable ==
  manifest.key # 0 => /\ manifest.key \in Stored
                      /\ databases[manifest.key].source = manifest.source

(* A publication never drops a segment from the index, and never replaces  *)
(* a database consumers can read by one they cannot.                       *)
NothingPublishedIsLost ==
  [][manifest' # manifest =>
       /\ manifest.source \subseteq manifest'.source
       /\ ConsumerBoundary(databases[manifest'.key])]_vars

(* A preparation whose target is pinned is resumed until it is complete,   *)
(* however often it stops and whatever is captured or published meanwhile. *)
PinnedBootstrapFinishes == disk.pinned # NoTarget ~> Prepared
=============================================================================
