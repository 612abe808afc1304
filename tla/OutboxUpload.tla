---------------------------- MODULE OutboxUpload ----------------------------
(***************************************************************************)
(* From the pool outbox to the raw Bucket: `npm run push-outbox`           *)
(* (space/src/push-outbox.ts, outbox-upload.ts, ingest.ts, and putSegment  *)
(* of bucket-log.ts).                                                      *)
(*                                                                         *)
(* A run lists the outbox once and takes its files in name order.  A file  *)
(* becomes one content-addressed segment of its acceptable observations;   *)
(* the others are set aside; then the file is removed.  A run can be       *)
(* stopped or fail between any two steps, runs can overlap, each run has   *)
(* the contributor its token belongs to, and a file can come back after it *)
(* was removed, when a hand-off is repeated.                               *)
(***************************************************************************)
EXTENDS Integers, Sequences, FiniteSets

CONSTANTS
  Tweets,        \* the observations files can contain
  Files,         \* the files that can arrive, as [name, content]
  Invalid,       \* the observations validateTweet refuses
  Contributors,  \* the accounts the tokens of the runs belong to
  Clock,         \* values of the uploader's clock
  FutureSlack,   \* MAX_FUTURE_CAPTURE_MS
  Runs,          \* runs that can be active at the same time
  MaxStops       \* bound of the model: runs stopped or failed

ASSUME UploadAssumption ==
  /\ \A f \in Files : f.content \in Seq(Tweets) \ {<<>>}
  /\ \A f, g \in Files : f.name = g.name => f = g
  /\ Invalid \subseteq Tweets
  /\ Clock \subseteq Nat /\ FutureSlack \in Nat /\ MaxStops \in Nat

VARIABLES
  outbox,   \* the files of the pool outbox
  arrived,  \* the files that ever arrived (history)
  bucket,   \* the segments of the raw Bucket: [name, at, by, tweets]
  aside,    \* rejected/<name>.json: [name, tweets], one per name
  run,      \* the state of each run
  stops     \* the number of runs stopped or failed so far

vars == <<outbox, arrived, bucket, aside, run, stops>>

-----------------------------------------------------------------------------
NoFile == [name |-> <<0, 0>>, content |-> <<>>]
Idle == [step |-> "idle", by |-> "nobody", todo |-> {}, file |-> NoFile, now |-> 0]

(* Names sort as <seal-time-ms>-<uuid>. *)
Before(a, b) == a[1] < b[1] \/ (a[1] = b[1] /\ a[2] < b[2])

Members(q) == {q[i] : i \in DOMAIN q}

(* prepareIngest: what a run at time now refuses. *)
InFuture(t, now) == t.time > now + FutureSlack
Rejects(t, now) == t \in Invalid \/ InFuture(t, now)

(* A segment keeps the order of its file, so the observations it holds     *)
(* tell two segments of one file apart as well as their sequence would.    *)
Stamped(file, now) == {t \in Members(file.content) : ~Rejects(t, now)}
Rejections(file, now) == {t \in Members(file.content) : Rejects(t, now)}

(* Mutant: the creation time is the time of the run. *)
SegmentOfRun(r) ==
  [name |-> run[r].file.name, at |-> run[r].now, by |-> run[r].by,
   tweets |-> Stamped(run[r].file, run[r].now)]

(* outboxSegment: transaction and creation time come from the name alone,  *)
(* attribution from the run.  The key is the digest of all of it, so two   *)
(* segments are the same object exactly if they are equal.                 *)
Segment(r) ==
  [name |-> run[r].file.name, at |-> run[r].file.name[1], by |-> run[r].by,
   tweets |-> Stamped(run[r].file, run[r].now)]

-----------------------------------------------------------------------------
Init ==
  /\ outbox = {}
  /\ arrived = {}
  /\ bucket = {}
  /\ aside = {}
  /\ run = [r \in Runs |-> Idle]
  /\ stops = 0

(* The environment: the daemon stores a batch, for the first time or again *)
(* after the file was removed (write_outbox_file).                         *)
Arrive(f) ==
  /\ f \notin outbox
  /\ outbox' = outbox \union {f}
  /\ arrived' = arrived \union {f}
  /\ UNCHANGED <<bucket, aside, run, stops>>

(* runPushOutbox: the token's owner is the contributor; one directory      *)
(* listing serves the whole run.                                           *)
RunStart(r, by) ==
  /\ run[r] = Idle /\ outbox # {}
  /\ run' = [run EXCEPT ![r] =
       [Idle EXCEPT !.step = "next", !.by = by, !.todo = {f.name : f \in outbox}]]
  /\ UNCHANGED <<outbox, arrived, bucket, aside, stops>>

(* The next file of the listing; the clock is read once per file.  A file  *)
(* another run removed meanwhile ends the run with an error.               *)
NextFile(r) ==
  /\ run[r].step = "next"
  /\ IF run[r].todo = {}
     THEN run' = [run EXCEPT ![r] = Idle]
     ELSE \E name \in run[r].todo :
            /\ \A other \in run[r].todo \ {name} : Before(name, other)
            /\ IF \E f \in outbox : f.name = name
               THEN \E f \in outbox, now \in Clock :
                      /\ f.name = name
                      /\ run' = [run EXCEPT ![r].step = "put", ![r].file = f,
                                            ![r].now = now, ![r].todo = @ \ {name}]
               ELSE run' = [run EXCEPT ![r] = Idle]
  /\ UNCHANGED <<outbox, arrived, bucket, aside, stops>>

(* Mutant: a file with a refused observation stores no segment. *)
PutIfWhole(r) ==
  /\ run[r].step = "put"
  /\ IF Rejections(run[r].file, run[r].now) = {}
     THEN bucket' = bucket \union {Segment(r)} /\ run' = [run EXCEPT ![r].step = "verify"]
     ELSE UNCHANGED bucket /\ run' = [run EXCEPT ![r].step = "setAside"]
  /\ UNCHANGED <<outbox, arrived, aside, stops>>

(* putSegment uploads the segment unless the key exists. *)
Put(r) ==
  /\ run[r].step = "put"
  /\ bucket' = IF Segment(r).tweets = {} THEN bucket ELSE bucket \union {Segment(r)}
  /\ run' = [run EXCEPT ![r].step = "verify"]
  /\ UNCHANGED <<outbox, arrived, aside, stops>>

(* ... and reads it back. *)
Verify(r) ==
  /\ run[r].step = "verify"
  /\ Segment(r).tweets = {} \/ Segment(r) \in bucket
  /\ run' = [run EXCEPT ![r].step = "setAside"]
  /\ UNCHANGED <<outbox, arrived, bucket, aside, stops>>

(* Mutant: an observation from the future is not set aside. *)
SetAsideInvalid(r) ==
  /\ run[r].step = "setAside"
  /\ LET file == run[r].file
         refused == Members(file.content) \intersect Invalid
     IN aside' = IF refused = {}
                 THEN aside
                 ELSE {a \in aside : a.name # file.name}
                        \union {[name |-> file.name, tweets |-> refused]}
  /\ run' = [run EXCEPT ![r].step = "remove"]
  /\ UNCHANGED <<outbox, arrived, bucket, stops>>

(* The rejections of a file replace those of an earlier run. *)
SetAside(r) ==
  /\ run[r].step = "setAside"
  /\ LET file == run[r].file
         refused == Rejections(file, run[r].now)
     IN aside' = IF refused = {}
                 THEN aside
                 ELSE {a \in aside : a.name # file.name}
                        \union {[name |-> file.name, tweets |-> refused]}
  /\ run' = [run EXCEPT ![r].step = "remove"]
  /\ UNCHANGED <<outbox, arrived, bucket, stops>>

(* Mutant: a file with refused observations is kept. *)
RemoveIfWhole(r) ==
  /\ run[r].step = "remove"
  /\ outbox' = IF Rejections(run[r].file, run[r].now) = {}
               THEN {f \in outbox : f.name # run[r].file.name}
               ELSE outbox
  /\ run' = [run EXCEPT ![r].step = "next", ![r].file = NoFile, ![r].now = 0]
  /\ UNCHANGED <<arrived, bucket, aside, stops>>

(* rm by name: whatever file has the name now, or none. *)
Remove(r) ==
  /\ run[r].step = "remove"
  /\ outbox' = {f \in outbox : f.name # run[r].file.name}
  /\ run' = [run EXCEPT ![r].step = "next", ![r].file = NoFile, ![r].now = 0]
  /\ UNCHANGED <<arrived, bucket, aside, stops>>

(* The process is killed, or a step fails: the rest of the run is gone. *)
RunStops(r) ==
  /\ run[r] # Idle
  /\ stops < MaxStops
  /\ stops' = stops + 1
  /\ run' = [run EXCEPT ![r] = Idle]
  /\ UNCHANGED <<outbox, arrived, bucket, aside>>

RunStep(r) == NextFile(r) \/ Put(r) \/ Verify(r) \/ SetAside(r) \/ Remove(r)

(* Everything but the arrival of files. *)
UploadNext ==
  \E r \in Runs :
    \/ \E by \in Contributors : RunStart(r, by)
    \/ RunStep(r)
    \/ RunStops(r)

Next == UploadNext \/ \E f \in Files : Arrive(f)

Spec == Init /\ [][Next]_vars

(* A run that is not stopped goes on, and the operator keeps running it.   *)
Fairness ==
  \A r \in Runs :
    /\ WF_vars(\E by \in Contributors : RunStart(r, by))
    /\ WF_vars(RunStep(r))

FairSpec == Spec /\ Fairness

-----------------------------------------------------------------------------
TypeOK ==
  /\ outbox \subseteq arrived
  /\ \A s \in bucket :
       /\ s.by \in Contributors
       /\ s.tweets \in (SUBSET Tweets) \ {{}}
  /\ \A a \in aside : a.tweets \subseteq Tweets
  /\ run \in [Runs -> [step : {"idle", "next", "put", "verify", "setAside", "remove"},
                       by : Contributors \union {"nobody"},
                       todo : SUBSET {f.name : f \in arrived},
                       file : arrived \union {NoFile},
                       now : Clock \union {0}]]
  /\ stops \in 0 .. MaxStops

(* A file leaves the outbox only when each of its observations is in a     *)
(* segment of its name or set aside under its name, whatever runs were     *)
(* stopped or overlapped (uploadOutboxFile removes the file last).         *)
NothingLostInUpload ==
  \A f \in arrived \ outbox : \A t \in Members(f.content) :
    \/ \E s \in bucket : s.name = f.name /\ t \in s.tweets
    \/ \E a \in aside : a.name = f.name /\ t \in a.tweets

(* "repeated or concurrent runs never store a second copy": at most one    *)
(* segment per file name.                                                  *)
OneSegmentPerFile == \A s, t \in bucket : s.name = t.name => s = t

(* Runs of one account store one segment of a file, whatever runs were     *)
(* stopped or overlapped, and whenever they ran, unless the file holds an  *)
(* observation that is refused at one time and accepted at another.        *)
RetriesStoreOneSegment ==
  \A f \in arrived :
    (\A m, n \in Clock : Rejections(f, m) = Rejections(f, n)) =>
      \A s, t \in bucket : s.name = f.name /\ t.name = f.name /\ s.by = t.by => s = t

(* As long as the operator keeps running it, no file stays in the outbox   *)
(* for ever, also when runs get in each other's way.                       *)
NoFileStuck == \A f \in Files : []<>(f \notin outbox)
=============================================================================
