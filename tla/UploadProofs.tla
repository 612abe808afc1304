---------------------------- MODULE UploadProofs ----------------------------
(***************************************************************************)
(* Proofs about OutboxUpload, for every set of files, observations, runs   *)
(* and accounts and every clock.                                           *)
(*                                                                         *)
(* A run that reaches the removal of a file has stored what it accepts of  *)
(* it and set aside the rest.  Another run may overwrite what was set      *)
(* aside, but only after it has stored what it accepts itself: so once a   *)
(* file is covered it stays covered, whoever works on it.                  *)
(***************************************************************************)
EXTENDS OutboxUpload, TLAPS

Stages == {"idle", "next", "put", "verify", "setAside", "remove"}
Working == {"put", "verify", "setAside", "remove"}

-----------------------------------------------------------------------------
(* The inductive invariant.                                                *)

(* The parts of TypeOK the argument needs. *)
Shape ==
  /\ outbox \subseteq arrived
  /\ run \in [Runs -> [step : Stages, by : Contributors \union {"nobody"},
                       todo : SUBSET {f.name : f \in arrived},
                       file : arrived \union {NoFile}, now : Clock \union {0}]]

(* A name is the name of one file, through every repeated hand-off. *)
NamesAreUnique == \A f, g \in arrived : f.name = g.name => f = g

(* A run that works on a file has taken it from the outbox, for one account *)
(* and at one time.                                                        *)
WorkIsReal ==
  \A r \in Runs : run[r].step \in Working =>
    run[r].file \in arrived /\ run[r].now \in Clock

HasAccount == \A r \in Runs : run[r].step # "idle" => run[r].by \in Contributors

(* What a run accepts of its file is stored before the run goes on. *)
Stored(r) == Segment(r).tweets = {} \/ Segment(r) \in bucket
StoredFirst == \A r \in Runs : run[r].step \in {"setAside", "remove"} => Stored(r)

(* Every observation of a file is in a segment of its name or set aside    *)
(* under its name.                                                         *)
Covered(f) ==
  \A t \in Members(f.content) :
    \/ \E s \in bucket : s.name = f.name /\ t \in s.tweets
    \/ \E a \in aside : a.name = f.name /\ t \in a.tweets

CoveredFirst == \A r \in Runs : run[r].step = "remove" => Covered(run[r].file)
CoveredOnceGone == \A f \in arrived \ outbox : Covered(f)

(* A segment is what some run accepted of a file that arrived. *)
SegmentsAreMade ==
  \A s \in bucket : \E f \in arrived, n \in Clock, by \in Contributors :
    s = [name |-> f.name, at |-> f.name[1], by |-> by, tweets |-> Stamped(f, n)]

UploadInv ==
  /\ Shape /\ NamesAreUnique /\ WorkIsReal /\ HasAccount
  /\ StoredFirst /\ CoveredFirst /\ CoveredOnceGone /\ SegmentsAreMade

(* In OutboxUpload the files that arrive are those of the environment. *)
FilesArrive == arrived \subseteq Files

-----------------------------------------------------------------------------
(* A step of one run leaves the states of the others. *)
LEMMA OthersStay ==
  ASSUME UploadInv, NEW r \in Runs, NEW new, run' = [run EXCEPT ![r] = new]
  PROVE  /\ run'[r] = new
         /\ \A q \in Runs : q # r => run'[q] = run[q]
BY DEF UploadInv, Shape

(* Segments and coverage depend on a run's own state and on the Bucket. *)
LEMMA StoredStays ==
  ASSUME NEW r \in Runs, Stored(r), bucket \subseteq bucket',
         run'[r].file = run[r].file, run'[r].now = run[r].now, run'[r].by = run[r].by
  PROVE  Stored(r)'
BY DEF Stored, Segment

LEMMA CoveredStays ==
  ASSUME NEW f, Covered(f), bucket \subseteq bucket', aside \subseteq aside'
  PROVE  Covered(f)'
BY DEF Covered

(* Nothing but the state of a run that has no file in hand changes. *)
LEMMA WithoutFileKeeps ==
  ASSUME UploadInv, NEW r \in Runs, NEW new,
         new \in [step : Stages, by : Contributors \union {"nobody"},
                  todo : SUBSET {f.name : f \in arrived},
                  file : arrived \union {NoFile}, now : Clock \union {0}],
         new.step \notin Working,
         new.step # "idle" => new.by \in Contributors,
         run' = [run EXCEPT ![r] = new],
         UNCHANGED <<outbox, arrived, bucket, aside>>
  PROVE  UploadInv'
<1>1. /\ run'[r] = new
      /\ \A q \in Runs : q # r => run'[q] = run[q]
  BY OthersStay
<1>2. Shape' /\ NamesAreUnique'
  BY DEF UploadInv, Shape, NamesAreUnique
<1>3. WorkIsReal' /\ HasAccount'
  BY <1>1 DEF UploadInv, WorkIsReal, HasAccount
<1>4. StoredFirst' /\ CoveredFirst'
  <2> SUFFICES ASSUME NEW q \in Runs, run'[q].step \in {"setAside", "remove"}
               PROVE  Stored(q)' /\ (run'[q].step = "remove" => Covered(run[q].file)')
    BY <1>1 DEF StoredFirst, CoveredFirst, Working
  <2>1. q # r /\ run'[q] = run[q]
    BY <1>1 DEF Working
  <2>2. Stored(q) /\ (run[q].step = "remove" => Covered(run[q].file))
    BY <2>1 DEF UploadInv, StoredFirst, CoveredFirst
  <2> QED
    BY <2>1, <2>2, StoredStays, CoveredStays
<1>5. CoveredOnceGone' /\ SegmentsAreMade'
  BY CoveredStays DEF UploadInv, CoveredOnceGone, SegmentsAreMade, Stamped, Rejects, InFuture
<1> QED
  BY <1>2, <1>3, <1>4, <1>5 DEF UploadInv

(* RunStart, the end of a listing, a missing file and RunStops. *)
LEMMA RunStartKeeps ==
  ASSUME UploadInv, NEW r \in Runs, NEW by \in Contributors, RunStart(r, by)
  PROVE  UploadInv'
<1> DEFINE new == [Idle EXCEPT !.step = "next", !.by = by, !.todo = {f.name : f \in outbox}]
<1>1. /\ new \in [step : Stages, by : Contributors \union {"nobody"},
                  todo : SUBSET {f.name : f \in arrived},
                  file : arrived \union {NoFile}, now : Clock \union {0}]
      /\ new.step \notin Working /\ new.by = by
  BY DEF Idle, UploadInv, Shape, Stages, Working
<1>2. /\ run' = [run EXCEPT ![r] = new]
      /\ UNCHANGED <<outbox, arrived, bucket, aside>>
  BY DEF RunStart
<1> HIDE DEF new
<1> QED
  BY <1>1, <1>2, WithoutFileKeeps

LEMMA EndKeeps ==
  ASSUME UploadInv, NEW r \in Runs, run' = [run EXCEPT ![r] = Idle],
         UNCHANGED <<outbox, arrived, bucket, aside>>
  PROVE  UploadInv'
<1>1. /\ Idle \in [step : Stages, by : Contributors \union {"nobody"},
                   todo : SUBSET {f.name : f \in arrived},
                   file : arrived \union {NoFile}, now : Clock \union {0}]
      /\ Idle.step \notin Working /\ Idle.step = "idle"
  BY DEF Idle, Stages, Working
<1> QED
  BY <1>1, WithoutFileKeeps

LEMMA NextFileKeeps ==
  ASSUME UploadInv, NEW r \in Runs, NextFile(r)
  PROVE  UploadInv'
<1>1. CASE run' = [run EXCEPT ![r] = Idle]
  BY <1>1, EndKeeps DEF NextFile
<1>2. CASE run' # [run EXCEPT ![r] = Idle]
  <2>1. PICK name \in run[r].todo, f \in outbox, now \in Clock :
          run' = [run EXCEPT ![r].step = "put", ![r].file = f,
                             ![r].now = now, ![r].todo = @ \ {name}]
    BY <1>2, Zenon DEF NextFile
  <2> DEFINE new == [run[r] EXCEPT !.step = "put", !.file = f, !.now = now, !.todo = @ \ {name}]
  <2>2. /\ run[r] \in [step : Stages, by : Contributors \union {"nobody"},
                       todo : SUBSET {g.name : g \in arrived},
                       file : arrived \union {NoFile}, now : Clock \union {0}]
        /\ run[r].step = "next" /\ run[r].by \in Contributors /\ f \in arrived
        /\ UNCHANGED <<outbox, arrived, bucket, aside>>
    BY <2>1 DEF UploadInv, Shape, HasAccount, NextFile
  <2>3. /\ new \in [step : Stages, by : Contributors \union {"nobody"},
                    todo : SUBSET {g.name : g \in arrived},
                    file : arrived \union {NoFile}, now : Clock \union {0}]
        /\ new.step = "put" /\ new.by \in Contributors /\ new.file = f /\ new.now = now
    BY <2>2 DEF Stages
  <2>4. run' = [run EXCEPT ![r] = new]
    BY <2>1, <2>2 DEF UploadInv, Shape
  <2> HIDE DEF new
  <2>5. /\ run'[r] = new
        /\ \A q \in Runs : q # r => run'[q] = run[q]
    BY <2>4, OthersStay
  <2>6. Shape' /\ NamesAreUnique' /\ WorkIsReal' /\ HasAccount'
    <3>1. Shape' /\ NamesAreUnique'
      BY <2>2, <2>3, <2>4 DEF UploadInv, Shape, NamesAreUnique
    <3>2. WorkIsReal' /\ HasAccount'
      BY <2>2, <2>3, <2>5 DEF UploadInv, WorkIsReal, HasAccount
    <3> QED
      BY <3>1, <3>2
  <2>7. StoredFirst' /\ CoveredFirst'
    <3> SUFFICES ASSUME NEW q \in Runs, run'[q].step \in {"setAside", "remove"}
                 PROVE  Stored(q)' /\ (run'[q].step = "remove" => Covered(run[q].file)')
      BY DEF StoredFirst, CoveredFirst
    <3>1. q # r /\ run'[q] = run[q]
      BY <2>3, <2>5
    <3>2. Stored(q) /\ (run[q].step = "remove" => Covered(run[q].file))
      BY <3>1 DEF UploadInv, StoredFirst, CoveredFirst
    <3> QED
      BY <2>2, <3>1, <3>2, StoredStays, CoveredStays
  <2>8. CoveredOnceGone' /\ SegmentsAreMade'
    BY <2>2, CoveredStays
    DEF UploadInv, CoveredOnceGone, SegmentsAreMade, Stamped, Rejects, InFuture
  <2> QED
    BY <2>6, <2>7, <2>8 DEF UploadInv
<1> QED
  BY <1>1, <1>2

(* A run goes on with the file in its hands: the Bucket and what is set    *)
(* aside only cover more, and what the next step needs is established.     *)
LEMMA WithFileKeeps ==
  ASSUME UploadInv, NEW r \in Runs, NEW step \in Working,
         run[r].step \in Working,
         run' = [run EXCEPT ![r].step = step],
         bucket \subseteq bucket', SegmentsAreMade',
         \A f \in arrived : Covered(f) => Covered(f)',
         step \in {"setAside", "remove"} => Stored(r)',
         step = "remove" => Covered(run[r].file)',
         UNCHANGED <<outbox, arrived>>
  PROVE  UploadInv'
<1> DEFINE new == [run[r] EXCEPT !.step = step]
<1>1. /\ run[r] \in [step : Stages, by : Contributors \union {"nobody"},
                     todo : SUBSET {g.name : g \in arrived},
                     file : arrived \union {NoFile}, now : Clock \union {0}]
      /\ step \in Stages /\ "idle" \notin Working
  BY DEF UploadInv, Shape, Stages, Working
<1>2. /\ new \in [step : Stages, by : Contributors \union {"nobody"},
                  todo : SUBSET {g.name : g \in arrived},
                  file : arrived \union {NoFile}, now : Clock \union {0}]
      /\ new.step = step /\ new.by = run[r].by /\ new.file = run[r].file /\ new.now = run[r].now
  BY <1>1
<1>3. run' = [run EXCEPT ![r] = new]
  BY <1>1 DEF UploadInv, Shape
<1> HIDE DEF new
<1>4. /\ run'[r] = new
      /\ \A q \in Runs : q # r => run'[q] = run[q]
  BY <1>3, OthersStay
<1>5. Shape' /\ NamesAreUnique'
  BY <1>2, <1>3 DEF UploadInv, Shape, NamesAreUnique
<1>6. WorkIsReal' /\ HasAccount'
  BY <1>1, <1>2, <1>4 DEF UploadInv, WorkIsReal, HasAccount
<1>7. \A q \in Runs : run'[q].step \in Working => run'[q].file = run[q].file /\ run[q].file \in arrived
  BY <1>2, <1>4 DEF UploadInv, WorkIsReal
<1>8. StoredFirst'
  <2> SUFFICES ASSUME NEW q \in Runs, run'[q].step \in {"setAside", "remove"}
               PROVE  Stored(q)'
    BY DEF StoredFirst
  <2>1. CASE q = r
    BY <1>2, <1>4, <2>1
  <2>2. CASE q # r
    BY <1>4, <2>2, StoredStays DEF UploadInv, StoredFirst
  <2> QED
    BY <2>1, <2>2
<1>9. CoveredFirst'
  <2> SUFFICES ASSUME NEW q \in Runs, run'[q].step = "remove"
               PROVE  Covered(run[q].file)'
    BY DEF CoveredFirst
  <2>1. PICK f \in arrived : f = run[q].file /\ f = run'[q].file
    BY <1>7 DEF Working
  <2>2. CASE q = r
    BY <1>2, <1>4, <2>2
  <2>3. CASE q # r
    <3>1. Covered(f)
      BY <1>4, <2>1, <2>3 DEF UploadInv, CoveredFirst
    <3>2. Covered(f)'
      BY <3>1
    <3> QED
      BY <2>1, <3>2 DEF Covered
  <2> QED
    BY <2>2, <2>3
<1>10. CoveredOnceGone'
  BY DEF UploadInv, CoveredOnceGone
<1> QED
  BY <1>5, <1>6, <1>8, <1>9, <1>10 DEF UploadInv

LEMMA PutKeeps ==
  ASSUME UploadInv, NEW r \in Runs, Put(r)
  PROVE  UploadInv'
<1>1. /\ run[r].step \in Working /\ "verify" \in Working
      /\ run[r].file \in arrived /\ run[r].now \in Clock /\ run[r].by \in Contributors
      /\ bucket \subseteq bucket' /\ bucket' \subseteq bucket \union {Segment(r)}
      /\ UNCHANGED <<outbox, arrived, aside>>
  BY DEF Put, Working, UploadInv, WorkIsReal, HasAccount
<1>2. SegmentsAreMade'
  <2> SUFFICES ASSUME NEW s \in bucket'
               PROVE  \E f \in arrived, n \in Clock, by \in Contributors :
                        s = [name |-> f.name, at |-> f.name[1], by |-> by,
                             tweets |-> Stamped(f, n)]
    BY <1>1 DEF SegmentsAreMade, Stamped, Rejects, InFuture
  <2>1. CASE s \in bucket
    BY <2>1 DEF UploadInv, SegmentsAreMade
  <2>2. CASE s = Segment(r)
    BY <1>1, <2>2 DEF Segment
  <2> QED
    BY <1>1, <2>1, <2>2
<1>3. \A f \in arrived : Covered(f) => Covered(f)'
  BY <1>1, CoveredStays
<1> QED
  BY <1>1, <1>2, <1>3, WithFileKeeps DEF Put

LEMMA VerifyKeeps ==
  ASSUME UploadInv, NEW r \in Runs, Verify(r)
  PROVE  UploadInv'
<1>1. /\ run[r].step \in Working /\ "setAside" \in Working
      /\ run' = [run EXCEPT ![r].step = "setAside"]
      /\ Stored(r)
      /\ UNCHANGED <<outbox, arrived, bucket, aside>>
  BY DEF Verify, Working, Stored
<1>2. /\ run'[r].file = run[r].file /\ run'[r].now = run[r].now /\ run'[r].by = run[r].by
  BY <1>1 DEF UploadInv, Shape
<1>3. Stored(r)' /\ SegmentsAreMade' /\ \A f \in arrived : Covered(f) => Covered(f)'
  BY <1>1, <1>2, StoredStays, CoveredStays
  DEF UploadInv, SegmentsAreMade, Stamped, Rejects, InFuture
<1> QED
  BY <1>1, <1>3, WithFileKeeps

(* What a run accepts is stored already, so replacing what others set      *)
(* aside under the name of its file uncovers nothing.                      *)
LEMMA SetAsideKeeps ==
  ASSUME UploadInv, NEW r \in Runs, SetAside(r)
  PROVE  UploadInv'
<1> DEFINE file == run[r].file
           now == run[r].now
           refused == Rejections(file, now)
<1>1. /\ run[r].step = "setAside" /\ {"setAside", "remove"} \subseteq Working
      /\ run' = [run EXCEPT ![r].step = "remove"]
      /\ aside' = IF refused = {} THEN aside
                  ELSE {a \in aside : a.name # file.name}
                         \union {[name |-> file.name, tweets |-> refused]}
      /\ UNCHANGED <<outbox, arrived, bucket>>
  BY DEF SetAside, Working
<1>2. file \in arrived /\ Stored(r)
  BY <1>1 DEF UploadInv, WorkIsReal, StoredFirst
<1>3. /\ run'[r].file = file /\ run'[r].now = now /\ run'[r].by = run[r].by
  BY <1>1 DEF UploadInv, Shape
<1>4. PICK f \in arrived : f = file
  BY <1>2
<1>5. Covered(f)'
  <2> SUFFICES ASSUME NEW t \in Members(f.content)
               PROVE  \/ \E s \in bucket : s.name = f.name /\ t \in s.tweets
                      \/ \E a \in aside' : a.name = f.name /\ t \in a.tweets
    BY <1>1 DEF Covered, Members
  <2>1. CASE Rejects(t, now)
    <3>1. t \in refused
      BY <1>4, <2>1 DEF Rejections
    <3>2. [name |-> file.name, tweets |-> refused] \in aside'
      BY <1>1, <3>1
    <3> QED
      BY <1>4, <3>1, <3>2
  <2>2. CASE ~Rejects(t, now)
    <3>1. t \in Segment(r).tweets /\ Segment(r).name = f.name
      BY <1>4, <2>2 DEF Segment, Stamped
    <3>2. Segment(r) \in bucket
      BY <1>2, <3>1 DEF Stored
    <3> QED
      BY <3>1, <3>2
  <2> QED
    BY <2>1, <2>2
<1>6. ASSUME NEW g \in arrived, Covered(g) PROVE Covered(g)'
  <2>1. CASE g.name = f.name
    BY <1>5, <2>1 DEF UploadInv, NamesAreUnique
  <2>2. CASE g.name # f.name
    <3>1. \A a \in aside : a.name = g.name => a \in aside'
      BY <1>1, <1>4, <2>2
    <3> QED
      BY <1>1, <1>6, <3>1 DEF Covered, Members
  <2> QED
    BY <2>1, <2>2
<1>7. Covered(run[r].file)'
  BY <1>3, <1>4, <1>5 DEF Covered
<1>8. Stored(r)' /\ SegmentsAreMade'
  BY <1>1, <1>2, <1>3, StoredStays DEF UploadInv, SegmentsAreMade, Stamped, Rejects, InFuture
<1> HIDE DEF file, now, refused
<1> QED
  BY <1>1, <1>6, <1>7, <1>8, WithFileKeeps

(* A file is removed by its name, and a name is the name of one file. *)
LEMMA RemoveKeeps ==
  ASSUME UploadInv, NEW r \in Runs, Remove(r)
  PROVE  UploadInv'
<1> DEFINE new == [run[r] EXCEPT !.step = "next", !.file = NoFile, !.now = 0]
<1>1. /\ run[r] \in [step : Stages, by : Contributors \union {"nobody"},
                     todo : SUBSET {g.name : g \in arrived},
                     file : arrived \union {NoFile}, now : Clock \union {0}]
      /\ run[r].step = "remove"
      /\ outbox' = {f \in outbox : f.name # run[r].file.name}
      /\ UNCHANGED <<arrived, bucket, aside>>
  BY DEF Remove, UploadInv, Shape
<1>2. /\ new \in [step : Stages, by : Contributors \union {"nobody"},
                  todo : SUBSET {g.name : g \in arrived},
                  file : arrived \union {NoFile}, now : Clock \union {0}]
      /\ new.step = "next" /\ new.by = run[r].by
  BY <1>1 DEF Stages
<1>3. run' = [run EXCEPT ![r] = new]
  BY <1>1 DEF Remove, UploadInv, Shape
<1> HIDE DEF new
<1>4. /\ run'[r] = new
      /\ \A q \in Runs : q # r => run'[q] = run[q]
  BY <1>3, OthersStay
<1>5. Shape' /\ NamesAreUnique'
  BY <1>1, <1>2, <1>3 DEF UploadInv, Shape, NamesAreUnique
<1>6. WorkIsReal' /\ HasAccount'
  BY <1>1, <1>2, <1>4 DEF UploadInv, WorkIsReal, HasAccount, Working
<1>7. StoredFirst' /\ CoveredFirst'
  <2> SUFFICES ASSUME NEW q \in Runs, run'[q].step \in {"setAside", "remove"}
               PROVE  Stored(q)' /\ (run'[q].step = "remove" => Covered(run[q].file)')
    BY DEF StoredFirst, CoveredFirst
  <2>1. q # r /\ run'[q] = run[q]
    BY <1>2, <1>4
  <2>2. Stored(q) /\ (run[q].step = "remove" => Covered(run[q].file))
    BY <2>1 DEF UploadInv, StoredFirst, CoveredFirst
  <2> QED
    BY <1>1, <2>1, <2>2, StoredStays, CoveredStays
<1>8. CoveredOnceGone'
  <2> SUFFICES ASSUME NEW f \in arrived \ outbox'
               PROVE  Covered(f)'
    BY <1>1 DEF CoveredOnceGone
  <2>1. CASE f \notin outbox
    BY <1>1, <2>1, CoveredStays DEF UploadInv, CoveredOnceGone
  <2>2. CASE f \in outbox
    <3>1. f = run[r].file
      BY <1>1, <2>2 DEF UploadInv, NamesAreUnique, WorkIsReal, Working
    <3>2. Covered(f)
      BY <1>1, <3>1 DEF UploadInv, CoveredFirst
    <3> QED
      BY <1>1, <3>2, CoveredStays
  <2> QED
    BY <2>1, <2>2
<1>9. SegmentsAreMade'
  BY <1>1 DEF UploadInv, SegmentsAreMade, Stamped, Rejects, InFuture
<1> QED
  BY <1>5, <1>6, <1>7, <1>8, <1>9 DEF UploadInv

-----------------------------------------------------------------------------
(* Every step of the uploader keeps the invariant, whatever files arrive. *)
LEMMA UploadKeeps ==
  ASSUME UploadInv, UploadNext
  PROVE  UploadInv'
<1> PICK r \in Runs : \/ \E by \in Contributors : RunStart(r, by)
                      \/ RunStep(r)
                      \/ RunStops(r)
  BY DEF UploadNext
<1>1. CASE \E by \in Contributors : RunStart(r, by)
  BY <1>1, RunStartKeeps
<1>2. CASE RunStep(r)
  BY <1>2, NextFileKeeps, PutKeeps, VerifyKeeps, SetAsideKeeps, RemoveKeeps DEF RunStep
<1>3. CASE RunStops(r)
  BY <1>3, EndKeeps DEF RunStops
<1> QED
  BY <1>1, <1>2, <1>3

(* Files that arrive are in the outbox, under names of their own. *)
LEMMA ArrivalsKeep ==
  ASSUME UploadInv, UNCHANGED <<bucket, aside, run>>,
         arrived \subseteq arrived', outbox' \subseteq arrived',
         arrived' \ outbox' \subseteq arrived \ outbox, NamesAreUnique'
  PROVE  UploadInv'
<1>1. Shape'
  <2>1. {g.name : g \in arrived} \subseteq {g.name : g \in arrived'}
    OBVIOUS
  <2>2. \A r \in Runs : run[r] \in [step : Stages, by : Contributors \union {"nobody"},
                                    todo : SUBSET {f.name : f \in arrived'},
                                    file : arrived' \union {NoFile}, now : Clock \union {0}]
    BY <2>1 DEF UploadInv, Shape
  <2> QED
    BY <2>2 DEF UploadInv, Shape
<1>2. WorkIsReal' /\ HasAccount'
  BY DEF UploadInv, WorkIsReal, HasAccount
<1>3. StoredFirst' /\ CoveredFirst' /\ CoveredOnceGone'
  BY DEF UploadInv, StoredFirst, CoveredFirst, CoveredOnceGone, Stored, Segment, Covered,
         Stamped, Rejects, InFuture
<1>4. SegmentsAreMade'
  BY DEF UploadInv, SegmentsAreMade, Stamped, Rejects, InFuture
<1> QED
  BY <1>1, <1>2, <1>3, <1>4 DEF UploadInv

LEMMA ArriveKeeps ==
  ASSUME FilesArrive, UploadInv, NEW f \in Files, Arrive(f)
  PROVE  FilesArrive' /\ UploadInv'
<1>1. /\ outbox' = outbox \union {f} /\ arrived' = arrived \union {f}
      /\ UNCHANGED <<bucket, aside, run>>
  BY DEF Arrive
<1>2. FilesArrive' /\ NamesAreUnique'
  BY <1>1, UploadAssumption DEF FilesArrive, NamesAreUnique, UploadAssumption
<1>3. UploadInv'
  BY <1>1, <1>2, ArrivalsKeep DEF UploadInv, Shape
<1> QED
  BY <1>2, <1>3

LEMMA UploadStarts == Init => FilesArrive /\ UploadInv
BY DEF Init, FilesArrive, UploadInv, Shape, NamesAreUnique, WorkIsReal, HasAccount, StoredFirst,
       CoveredFirst, CoveredOnceGone, SegmentsAreMade, Idle, Stages, Working

LEMMA StutterKeeps ==
  ASSUME FilesArrive, UploadInv, UNCHANGED vars
  PROVE  FilesArrive' /\ UploadInv'
BY DEF vars, FilesArrive, UploadInv, Shape, NamesAreUnique, WorkIsReal, HasAccount, StoredFirst,
       CoveredFirst, CoveredOnceGone, SegmentsAreMade, Stored, Segment, Covered, Stamped,
       Rejects, InFuture

(* The same for a module that composes the uploader with what fills its    *)
(* outbox.                                                                 *)
LEMMA UploadStep == UploadInv /\ UploadNext => UploadInv'
BY UploadKeeps

LEMMA ArrivalStep ==
  /\ UploadInv
  /\ UNCHANGED <<bucket, aside, run>>
  /\ arrived \subseteq arrived' /\ outbox' \subseteq arrived'
  /\ arrived' \ outbox' \subseteq arrived \ outbox
  /\ NamesAreUnique'
  => UploadInv'
BY ArrivalsKeep

(* The inductive invariant holds in every behaviour. *)
THEOREM UploadInvariant == Spec => [](FilesArrive /\ UploadInv)
<1>1. FilesArrive /\ UploadInv /\ [Next]_vars => FilesArrive' /\ UploadInv'
  <2> SUFFICES ASSUME FilesArrive, UploadInv, [Next]_vars
               PROVE  FilesArrive' /\ UploadInv'
    OBVIOUS
  <2>1. CASE UploadNext
    <3>1. UNCHANGED arrived
      BY <2>1 DEF UploadNext, RunStart, RunStep, NextFile, Put, Verify, SetAside, Remove, RunStops
    <3> QED
      BY <2>1, <3>1, UploadKeeps DEF FilesArrive
  <2>2. ASSUME NEW f \in Files, Arrive(f) PROVE FilesArrive' /\ UploadInv'
    BY <2>2, ArriveKeeps
  <2>3. CASE UNCHANGED vars
    BY <2>3, StutterKeeps
  <2> QED
    BY <2>1, <2>2, <2>3 DEF Next
<1> QED
  BY <1>1, UploadStarts, PTL DEF Spec

(* A file leaves the outbox only when each of its observations is in a     *)
(* segment of its name or set aside under its name (uploadOutboxFile of    *)
(* outbox-upload.ts): for any number of overlapping runs, any stops and    *)
(* any clocks.                                                             *)
THEOREM UploadLosesNothing == Spec => []NothingLostInUpload
<1>1. UploadInv => NothingLostInUpload
  BY DEF UploadInv, CoveredOnceGone, Covered, NothingLostInUpload
<1> QED
  BY <1>1, UploadInvariant, PTL

(* Runs of one account store one segment of a file whose observations are  *)
(* refused or accepted at all times alike (outboxSegment of                *)
(* outbox-upload.ts, putSegment of bucket-log.ts).                         *)
THEOREM RetriesAreIdempotent == Spec => []RetriesStoreOneSegment
<1>1. UploadInv => RetriesStoreOneSegment
  <2> SUFFICES ASSUME UploadInv, NEW f \in arrived,
                      \A m, n \in Clock : Rejections(f, m) = Rejections(f, n),
                      NEW s \in bucket, NEW t \in bucket,
                      s.name = f.name, t.name = f.name, s.by = t.by
               PROVE  s = t
    BY DEF RetriesStoreOneSegment
  <2>1. PICK g \in arrived, m \in Clock, by \in Contributors :
          s = [name |-> g.name, at |-> g.name[1], by |-> by, tweets |-> Stamped(g, m)]
    BY DEF UploadInv, SegmentsAreMade
  <2>2. PICK h \in arrived, n \in Clock, by2 \in Contributors :
          t = [name |-> h.name, at |-> h.name[1], by |-> by2, tweets |-> Stamped(h, n)]
    BY DEF UploadInv, SegmentsAreMade
  <2>3. g = f /\ h = f
    BY <2>1, <2>2 DEF UploadInv, NamesAreUnique
  <2>4. Stamped(f, m) = Stamped(f, n)
    BY DEF Stamped, Rejections
  <2> QED
    BY <2>1, <2>2, <2>3, <2>4
<1> QED
  BY <1>1, UploadInvariant, PTL

(* The state of the uploader keeps its types. *)
THEOREM UploadTypeCorrect == Spec => []TypeOK
<1>1. Init => TypeOK
  BY UploadAssumption DEF Init, TypeOK, Idle, UploadAssumption
<1>2. FilesArrive /\ UploadInv /\ UploadInv' /\ TypeOK /\ [Next]_vars => TypeOK'
  <2> SUFFICES ASSUME FilesArrive, UploadInv, UploadInv', TypeOK, [Next]_vars
               PROVE  TypeOK'
    OBVIOUS
  <2>1. /\ outbox' \subseteq arrived'
        /\ run' \in [Runs -> [step : Stages, by : Contributors \union {"nobody"},
                              todo : SUBSET {f.name : f \in arrived'},
                              file : arrived' \union {NoFile}, now : Clock \union {0}]]
    BY DEF UploadInv, Shape
  <2>2. \A f \in arrived : Members(f.content) \subseteq Tweets
    BY UploadAssumption DEF UploadAssumption, FilesArrive, Members
  <2>3. \A s \in bucket' : s.by \in Contributors /\ s.tweets \in (SUBSET Tweets) \ {{}}
    <3>1. CASE UNCHANGED bucket
      BY <3>1 DEF TypeOK
    <3>2. ASSUME NEW r \in Runs, Put(r), bucket' # bucket
          PROVE  \A s \in bucket' : s.by \in Contributors /\ s.tweets \in (SUBSET Tweets) \ {{}}
      <4>1. /\ bucket' = bucket \union {Segment(r)} /\ Segment(r).tweets # {}
            /\ run[r].file \in arrived /\ run[r].by \in Contributors
        BY <3>2 DEF Put, UploadInv, WorkIsReal, HasAccount, Working
      <4>2. Segment(r).by = run[r].by /\ Segment(r).tweets \subseteq Members(run[r].file.content)
        BY DEF Segment, Stamped
      <4> QED
        BY <2>2, <4>1, <4>2 DEF TypeOK
    <3> QED
      BY <3>1, <3>2 DEF Next, vars, UploadNext, RunStart, RunStep, NextFile, Verify, SetAside,
                        Remove, RunStops, Arrive
  <2>4. \A a \in aside' : a.tweets \subseteq Tweets
    <3>1. CASE UNCHANGED aside
      BY <3>1 DEF TypeOK
    <3>2. ASSUME NEW r \in Runs, SetAside(r), aside' # aside
          PROVE  \A a \in aside' : a.tweets \subseteq Tweets
      <4>1. Rejections(run[r].file, run[r].now) \subseteq Tweets
        BY <2>2, <3>2 DEF SetAside, Rejections, UploadInv, WorkIsReal, Working
      <4> QED
        BY <3>2, <4>1 DEF SetAside, TypeOK
    <3> QED
      BY <3>1, <3>2 DEF Next, vars, UploadNext, RunStart, RunStep, NextFile, Verify, Put,
                        Remove, RunStops, Arrive
  <2>5. stops' \in 0 .. MaxStops
    <3>1. stops \in Nat /\ MaxStops \in Nat /\ stops <= MaxStops
      BY UploadAssumption DEF UploadAssumption, TypeOK
    <3>2. CASE UNCHANGED stops
      BY <3>2 DEF TypeOK
    <3>3. CASE stops < MaxStops /\ stops' = stops + 1
      BY <3>1, <3>3
    <3>4. \A r \in Runs : RunStops(r) => stops < MaxStops /\ stops' = stops + 1
      BY DEF RunStops
    <3>5. \A r \in Runs : RunStep(r) => UNCHANGED stops
      BY DEF RunStep, NextFile, Put, Verify, SetAside, Remove
    <3> QED
      BY <3>2, <3>3, <3>4, <3>5 DEF Next, vars, UploadNext, RunStart, Arrive
  <2> QED
    BY <2>1, <2>3, <2>4, <2>5 DEF TypeOK, Stages
<1> QED
  BY <1>1, <1>2, UploadInvariant, PTL DEF Spec
=============================================================================
