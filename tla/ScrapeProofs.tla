---------------------------- MODULE ScrapeProofs ----------------------------
(***************************************************************************)
(* Proofs about ScrapeReceipts, for any number of runs, lists, tabs and     *)
(* ports, any lease and any responses: the limits of running runs, the     *)
(* numbers of receipts, the coverage a run reports and the stream a client *)
(* gets.                                                                   *)
(***************************************************************************)
EXTENDS ScrapeReceipts, FiniteSetTheorems, TLAPS

RunRecords ==
  [state : {"none", "running", "completed", "failed", "aborted"},
   stop : {"none", "lease-expired", "source-tab-closed"},
   list : Lists \union {NoList}, tab : Tabs \union {NoRun}, lease : 0 .. MaxTime + Lease,
   baseline : Nat, known : Nat, lastCursor : 0 .. MaxCursor]

PortRecords ==
  [step : {"closed", "opening", "begun", "read", "open", "refused"},
   run : Runs \union {NoRun}, from : 0 .. MaxCursor, sent : SUBSET (1 .. MaxCursor)]

Shape ==
  /\ runs \in [Runs -> RunRecords]
  /\ ports \in [Ports -> PortRecords]
  /\ now \in 0 .. MaxTime /\ cutover \in BOOLEAN /\ cleared \in BOOLEAN

(* Only a run that began has a list and anything to report. *)
Begun(r) == runs[r].state # "none"
BegunRuns ==
  \A r \in Runs :
    /\ <<runs[r].state, runs[r].stop>> \in Stops
    /\ IF Begun(r) THEN runs[r].list \in Lists /\ runs[r].baseline <= sequence
                   ELSE runs[r] = Absent

(* Receipts are numbered without repetition up to the sequence. *)
Numbered ==
  /\ sequence \in Nat
  /\ receipts \in [DOMAIN receipts -> 1 .. sequence] /\ DOMAIN receipts \subseteq Tweets
  /\ listReceipts \in [DOMAIN listReceipts -> 1 .. sequence]
  /\ DOMAIN listReceipts \subseteq Lists \X Tweets
  /\ SequencesAreUnique

(* The cursors of a run are exactly 1 to its last one. *)
CursorsAreDense ==
  DOMAIN observations = {k \in Runs \X (1 .. MaxCursor) : k[2] <= runs[k[1]].lastCursor}

ObservationsAreTyped ==
  observations \in [DOMAIN observations -> [tweet : Tweets, sequence : Nat, known : BOOLEAN]]

(* A port whose replay was read has all there is after its cursor, not     *)
(* only one whose request was answered.                                    *)
StreamsAreFed ==
  \A p \in Ports :
    /\ ports[p].step # "closed" => ports[p].run \in Runs
    /\ ports[p].step \in {"read", "open"} =>
         ports[p].from + 1 .. runs[ports[p].run].lastCursor \subseteq ports[p].sent

ScrapeInv ==
  /\ Shape /\ BegunRuns /\ Numbered /\ RunLimits
  /\ CursorsAreDense /\ ObservationsAreTyped /\ CoverageIsExact /\ StreamsAreFed

-----------------------------------------------------------------------------
(* The sequence after some posts of a response: it grows, and by each post *)
(* that is new.                                                            *)
LEMMA SequenceGrows ==
  ASSUME sequence \in Nat, NEW list, NEW ts, NEW i \in Nat, NEW j \in Nat, i <= j
  PROVE  /\ SequenceAfter(list, ts, i) \in Nat
         /\ sequence <= SequenceAfter(list, ts, i)
         /\ SequenceAfter(list, ts, i) <= SequenceAfter(list, ts, j)
         /\ i < j /\ IsNew(list, ts[j]) => SequenceAfter(list, ts, i) < SequenceAfter(list, ts, j)
<1> DEFINE New(n) == {k \in 1 .. n : IsNew(list, ts[k])}
<1>1. ASSUME NEW n \in Nat
      PROVE  IsFiniteSet(New(n)) /\ Cardinality(New(n)) \in Nat
  <2>1. IsFiniteSet(1 .. n)
    BY FS_Interval
  <2>2. New(n) \in SUBSET (1 .. n)
    OBVIOUS
  <2> HIDE DEF New
  <2>3. IsFiniteSet(New(n))
    BY <2>1, <2>2, FS_Subset
  <2> QED
    BY <2>3, FS_CardinalityType
<1>2. New(i) \in SUBSET New(j)
  OBVIOUS
<1>3. i < j /\ IsNew(list, ts[j]) => j \in New(j) /\ j \notin New(i)
  OBVIOUS
<1>4. \A n : SequenceAfter(list, ts, n) = sequence + Cardinality(New(n))
  BY DEF SequenceAfter
<1> HIDE DEF New
<1>5. Cardinality(New(i)) <= Cardinality(New(j))
  BY <1>1, <1>2, FS_Subset
<1>6. ASSUME i < j, IsNew(list, ts[j])
      PROVE  Cardinality(New(i)) < Cardinality(New(j))
  <2>1. Cardinality(New(j)) = Cardinality(New(i)) => New(j) = New(i)
    BY <1>1, <1>2, FS_Subset
  <2> QED
    BY <2>1, <1>1, <1>3, <1>5, <1>6
<1>7. Cardinality(New(i)) \in Nat /\ Cardinality(New(j)) \in Nat
  BY <1>1
<1> QED
  BY <1>4, <1>5, <1>6, <1>7

(* A response shows each of its posts once.                                *)
LEMMA PositionOfPost ==
  ASSUME NEW ts \in Responses, NEW t \in Posts(ts)
  PROVE  /\ ts \in Seq(Tweets) /\ t \in Tweets
         /\ LET n == CHOOSE i \in DOMAIN ts : ts[i] = t IN n \in 1 .. Len(ts) /\ ts[n] = t
<1>1. ts \in Seq(Tweets)
  BY ScrapeAssumption DEF ScrapeAssumption
<1>2. DOMAIN ts = 1 .. Len(ts)
  BY <1>1
<1>3. PICK i \in DOMAIN ts : ts[i] = t
  BY DEF Posts
<1> QED
  BY <1>1, <1>2, <1>3

(* A post that is new gets a number above the sequence, and no other new   *)
(* post of the response gets the same.                                     *)
LEMMA NumberOfNew ==
  ASSUME sequence \in Nat, NEW list, NEW ts \in Responses, NEW t \in Posts(ts), IsNew(list, t)
  PROVE  /\ Number(list, ts, t) \in sequence + 1 .. SequenceAfter(list, ts, Len(ts))
         /\ \A u \in Posts(ts) : IsNew(list, u) /\ Number(list, ts, u) = Number(list, ts, t) => u = t
<1> DEFINE Place(u) == CHOOSE i \in DOMAIN ts : ts[i] = u
<1>1. \A u \in Posts(ts) : Place(u) \in 1 .. Len(ts) /\ ts[Place(u)] = u
  BY PositionOfPost
<1>2. \A u : Number(list, ts, u) = SequenceAfter(list, ts, Place(u))
  BY DEF Number
<1>3. ts \in Seq(Tweets)
  BY PositionOfPost
<1>4. Len(ts) \in Nat
  BY <1>3
<1> HIDE DEF Place
<1>5. SequenceAfter(list, ts, Place(t)) <= SequenceAfter(list, ts, Len(ts))
  BY <1>1, <1>4, SequenceGrows
<1>6. SequenceAfter(list, ts, 0) < SequenceAfter(list, ts, Place(t))
  BY <1>1, SequenceGrows
<1>7. /\ SequenceAfter(list, ts, 0) \in Nat /\ sequence <= SequenceAfter(list, ts, 0)
      /\ SequenceAfter(list, ts, Place(t)) \in Nat /\ SequenceAfter(list, ts, Len(ts)) \in Nat
  BY <1>1, <1>4, SequenceGrows
<1>8. Number(list, ts, t) \in sequence + 1 .. SequenceAfter(list, ts, Len(ts))
  BY <1>2, <1>5, <1>6, <1>7
<1>9. ASSUME NEW u \in Posts(ts), IsNew(list, u), Number(list, ts, u) = Number(list, ts, t)
      PROVE  u = t
  <2>1. CASE Place(u) < Place(t)
    <3>1. SequenceAfter(list, ts, Place(u)) < SequenceAfter(list, ts, Place(t))
      BY <1>1, <2>1, SequenceGrows
    <3>2. SequenceAfter(list, ts, Place(u)) \in Nat
      BY <1>1, SequenceGrows
    <3> QED
      BY <1>2, <1>7, <1>9, <3>1, <3>2
  <2>2. CASE Place(t) < Place(u)
    <3>1. SequenceAfter(list, ts, Place(t)) < SequenceAfter(list, ts, Place(u))
      BY <1>1, <1>9, <2>2, SequenceGrows
    <3> QED
      BY <1>2, <1>7, <1>9, <3>1
  <2>3. CASE Place(t) = Place(u)
    BY <1>1, <2>3
  <2> QED
    BY <1>1, <2>1, <2>2, <2>3
<1> QED
  BY <1>8, <1>9

-----------------------------------------------------------------------------
(* What a step does to the receipts: those that are there stay as they     *)
(* are, and new ones are numbered above the sequence.                      *)
ReceiptsGrow ==
  /\ sequence <= sequence'
  /\ \A pair \in DOMAIN listReceipts :
       pair \in DOMAIN listReceipts' /\ listReceipts'[pair] = listReceipts[pair]
  /\ \A pair \in DOMAIN listReceipts' \ DOMAIN listReceipts : listReceipts'[pair] > sequence

LEMMA ReceiptsAdded ==
  ASSUME Numbered, NEW list \in Lists, NEW ts \in Responses, AddReceipts(list, ts)
  PROVE  /\ ReceiptsGrow /\ Numbered'
         /\ \A t \in Posts(ts) : t \in Tweets /\ <<list, t>> \in DOMAIN listReceipts'
<1> DEFINE num(t) == Number(list, ts, t)
<1>1. \A t \in Posts(ts) : t \in Tweets
  BY PositionOfPost
<1>2. /\ sequence \in Nat
      /\ receipts \in [DOMAIN receipts -> 1 .. sequence] /\ DOMAIN receipts \subseteq Tweets
      /\ listReceipts \in [DOMAIN listReceipts -> 1 .. sequence]
      /\ DOMAIN listReceipts \subseteq Lists \X Tweets
      /\ SequencesAreUnique
  BY DEF Numbered
<1>3. /\ receipts' = [t \in DOMAIN receipts \union Posts(ts) |->
                        IF t \in DOMAIN receipts THEN receipts[t] ELSE num(t)]
      /\ listReceipts' = [pair \in DOMAIN listReceipts \union {list} \X Posts(ts) |->
                            IF pair \in DOMAIN listReceipts THEN listReceipts[pair]
                                                            ELSE num(pair[2])]
      /\ sequence' = SequenceAfter(list, ts, Len(ts))
  BY DEF AddReceipts, Merged
<1>4. sequence' \in Nat /\ sequence <= sequence'
  <2>1. ts \in Seq(Tweets)
    BY ScrapeAssumption DEF ScrapeAssumption
  <2> QED
    BY <1>2, <1>3, <2>1, SequenceGrows
<1>5. \A t \in Posts(ts) : IsNew(list, t) => num(t) \in sequence + 1 .. sequence'
  BY <1>2, <1>3, NumberOfNew
<1>6. \A t, u \in Posts(ts) : IsNew(list, t) /\ IsNew(list, u) /\ num(t) = num(u) => t = u
  BY <1>2, NumberOfNew
<1> HIDE DEF num
<1>7. \A t \in Posts(ts) : t \notin DOMAIN receipts => num(t) \in sequence + 1 .. sequence'
  BY <1>5 DEF IsNew
<1>8. \A pair \in ({list} \X Posts(ts)) \ DOMAIN listReceipts :
        num(pair[2]) \in sequence + 1 .. sequence'
  BY <1>5 DEF IsNew
<1>9. \A t \in DOMAIN receipts' :
        IF t \in DOMAIN receipts THEN receipts'[t] = receipts[t] /\ receipts[t] \in 1 .. sequence
                                 ELSE t \in Posts(ts) /\ receipts'[t] = num(t)
  BY <1>2, <1>3
<1>10. \A pair \in DOMAIN listReceipts' :
         IF pair \in DOMAIN listReceipts
           THEN listReceipts'[pair] = listReceipts[pair] /\ listReceipts[pair] \in 1 .. sequence
           ELSE pair \in {list} \X Posts(ts) /\ listReceipts'[pair] = num(pair[2])
  BY <1>2, <1>3
<1>11. ReceiptsGrow
  BY <1>2, <1>3, <1>4, <1>8, <1>10 DEF ReceiptsGrow
<1>12. receipts' \in [DOMAIN receipts' -> 1 .. sequence'] /\ DOMAIN receipts' \subseteq Tweets
  <2>1. \A t \in DOMAIN receipts' : receipts'[t] \in 1 .. sequence'
    BY <1>2, <1>4, <1>7, <1>9
  <2>2. receipts' = [t \in DOMAIN receipts' |-> receipts'[t]]
    BY <1>3
  <2>3. DOMAIN receipts' \subseteq Tweets
    BY <1>1, <1>2, <1>3
  <2> QED
    BY <2>1, <2>2, <2>3
<1>13. /\ listReceipts' \in [DOMAIN listReceipts' -> 1 .. sequence']
       /\ DOMAIN listReceipts' \subseteq Lists \X Tweets
  <2>1. \A pair \in DOMAIN listReceipts' : listReceipts'[pair] \in 1 .. sequence'
    BY <1>2, <1>4, <1>8, <1>10
  <2>2. listReceipts' = [pair \in DOMAIN listReceipts' |-> listReceipts'[pair]]
    BY <1>3
  <2>3. DOMAIN listReceipts' \subseteq Lists \X Tweets
    BY <1>1, <1>2, <1>3
  <2> QED
    BY <2>1, <2>2, <2>3
<1>14. SequencesAreUnique'
  <2>1. ASSUME NEW t \in DOMAIN receipts', NEW u \in DOMAIN receipts', receipts'[t] = receipts'[u]
        PROVE  t = u
    <3>1. CASE t \in DOMAIN receipts /\ u \in DOMAIN receipts
      BY <1>2, <1>9, <2>1, <3>1 DEF SequencesAreUnique
    <3>2. CASE t \in DOMAIN receipts /\ u \notin DOMAIN receipts
      BY <1>2, <1>4, <1>7, <1>9, <2>1, <3>2
    <3>3. CASE t \notin DOMAIN receipts /\ u \in DOMAIN receipts
      BY <1>2, <1>4, <1>7, <1>9, <2>1, <3>3
    <3>4. CASE t \notin DOMAIN receipts /\ u \notin DOMAIN receipts
      BY <1>6, <1>9, <2>1, <3>4 DEF IsNew
    <3> QED
      BY <3>1, <3>2, <3>3, <3>4
  <2>2. ASSUME NEW a \in DOMAIN listReceipts', NEW b \in DOMAIN listReceipts',
               listReceipts'[a] = listReceipts'[b]
        PROVE  a = b
    <3>1. CASE a \in DOMAIN listReceipts /\ b \in DOMAIN listReceipts
      BY <1>2, <1>10, <2>2, <3>1 DEF SequencesAreUnique
    <3>2. CASE a \in DOMAIN listReceipts /\ b \notin DOMAIN listReceipts
      BY <1>2, <1>4, <1>8, <1>10, <2>2, <3>2
    <3>3. CASE a \notin DOMAIN listReceipts /\ b \in DOMAIN listReceipts
      BY <1>2, <1>4, <1>8, <1>10, <2>2, <3>3
    <3>4. CASE a \notin DOMAIN listReceipts /\ b \notin DOMAIN listReceipts
      <4>1. PICK t \in Posts(ts), u \in Posts(ts) : a = <<list, t>> /\ b = <<list, u>>
        BY <1>10, <3>4
      <4>2. IsNew(list, t) /\ IsNew(list, u) /\ num(t) = num(u)
        BY <1>10, <2>2, <3>4, <4>1 DEF IsNew
      <4> QED
        BY <1>6, <4>1, <4>2
    <3> QED
      BY <3>1, <3>2, <3>3, <3>4
  <2> QED
    BY <2>1, <2>2 DEF SequencesAreUnique
<1> QED
  BY <1>1, <1>3, <1>4, <1>11, <1>12, <1>13, <1>14 DEF Numbered

(* A step without receipts. *)
LEMMA ReceiptsStand ==
  ASSUME Numbered, UNCHANGED <<receipts, listReceipts, sequence>>
  PROVE  ReceiptsGrow /\ Numbered'
BY DEF Numbered, ReceiptsGrow, SequencesAreUnique

(* What a list had shown when a run began is not changed by later          *)
(* receipts.                                                               *)
LEMMA KnownStays ==
  ASSUME Numbered, Numbered', ReceiptsGrow, NEW r \in Runs, runs[r].baseline \in Nat,
         runs[r].baseline <= sequence,
         runs'[r].list = runs[r].list, runs'[r].baseline = runs[r].baseline
  PROVE  KnownAtBegin(r)' = KnownAtBegin(r)
<1>1. ASSUME NEW pair, pair \in DOMAIN listReceipts' \ DOMAIN listReceipts
      PROVE  ~(listReceipts'[pair] <= runs[r].baseline)
  <2>1. sequence \in Nat /\ sequence' \in Nat /\ listReceipts'[pair] > sequence
    BY <1>1 DEF Numbered, ReceiptsGrow
  <2>2. listReceipts'[pair] \in Nat
    BY <1>1 DEF Numbered
  <2> QED
    BY <2>1, <2>2
<1>2. ASSUME NEW pair \in DOMAIN listReceipts
      PROVE  pair \in DOMAIN listReceipts' /\ listReceipts'[pair] = listReceipts[pair]
  BY DEF ReceiptsGrow
<1> QED
  BY <1>1, <1>2 DEF KnownAtBegin

(* A step in which runs at most end, are renewed or go on elsewhere: what   *)
(* they report stays.                                                      *)
RunsContinue ==
  \A r \in Runs :
    /\ <<runs'[r].state, runs'[r].stop>> \in Stops
    /\ runs'[r].list = runs[r].list /\ runs'[r].baseline = runs[r].baseline
    /\ runs'[r].known = runs[r].known /\ runs'[r].lastCursor = runs[r].lastCursor
    /\ IF Begun(r) THEN Begun(r)' ELSE runs'[r] = runs[r]

LEMMA ReportsStay ==
  ASSUME ScrapeInv, Numbered', ReceiptsGrow, RunsContinue, UNCHANGED observations
  PROVE  BegunRuns' /\ CursorsAreDense' /\ ObservationsAreTyped' /\ CoverageIsExact'
<1>1. ASSUME NEW r \in Runs
      PROVE  /\ runs[r].baseline \in Nat /\ runs[r].baseline <= sequence
             /\ runs[r].baseline <= sequence'
  <2>1. runs[r].baseline \in Nat
    BY DEF ScrapeInv, Shape, RunRecords
  <2>2. sequence \in Nat /\ sequence' \in Nat /\ sequence <= sequence'
    BY DEF ScrapeInv, Numbered, ReceiptsGrow
  <2>3. runs[r].baseline <= sequence
    <3>1. CASE Begun(r)
      BY <3>1 DEF ScrapeInv, BegunRuns
    <3>2. CASE ~Begun(r)
      <4>1. runs[r] = Absent
        BY <3>2 DEF ScrapeInv, BegunRuns
      <4> QED
        BY <2>2, <4>1 DEF Absent
    <3> QED
      BY <3>1, <3>2
  <2> QED
    BY <2>1, <2>2, <2>3
<1>2. BegunRuns'
  BY <1>1 DEF RunsContinue, BegunRuns, Begun, ScrapeInv
<1>3. CursorsAreDense'
  BY DEF ScrapeInv, CursorsAreDense, RunsContinue
<1>4. ObservationsAreTyped'
  BY DEF ScrapeInv, ObservationsAreTyped
<1>5. \A r \in Runs : KnownAtBegin(r)' = KnownAtBegin(r)
  BY <1>1, KnownStays DEF ScrapeInv, RunsContinue
<1>6. CoverageIsExact'
  <2>1. \A r \in Runs : runs'[r].known = Cardinality(KnownAtBegin(r)')
    BY <1>5 DEF RunsContinue, ScrapeInv, CoverageIsExact
  <2>2. ASSUME NEW k \in DOMAIN observations
        PROVE  LET o == observations[k]  pair == <<runs'[k[1]].list, o.tweet>> IN
                 /\ pair \in DOMAIN listReceipts'
                 /\ o.sequence = listReceipts'[pair]
                 /\ o.known = (pair \in KnownAtBegin(k[1])')
    <3>1. k[1] \in Runs
      BY DEF ScrapeInv, CursorsAreDense
    <3>2. runs'[k[1]].list = runs[k[1]].list /\ KnownAtBegin(k[1])' = KnownAtBegin(k[1])
      BY <1>5, <3>1 DEF RunsContinue
    <3> QED
      BY <3>2 DEF ScrapeInv, CoverageIsExact, ReceiptsGrow
  <2> QED
    BY <2>1, <2>2 DEF CoverageIsExact
<1> QED
  BY <1>2, <1>3, <1>4, <1>6

(* Ports that stand lose nothing while no observation is recorded.         *)
LEMMA StreamsStand ==
  ASSUME ScrapeInv, RunsContinue, UNCHANGED ports
  PROVE  StreamsAreFed'
<1> SUFFICES ASSUME NEW p \in Ports
             PROVE  /\ ports[p].step # "closed" => ports[p].run \in Runs
                    /\ ports[p].step \in {"read", "open"} =>
                         ports[p].from + 1 .. runs'[ports[p].run].lastCursor \subseteq ports[p].sent
  BY DEF StreamsAreFed
<1>1. ports[p].step # "closed" => ports[p].run \in Runs
  BY DEF ScrapeInv, StreamsAreFed
<1> QED
  BY <1>1 DEF ScrapeInv, StreamsAreFed, RunsContinue

(* Fewer runs are within the limits.                                       *)
LEMMA RunningIsFinite ==
  ASSUME Shape
  PROVE  /\ IsFiniteSet(Running) /\ Cardinality(Running) \in Nat
         /\ IsFiniteSet(Active) /\ Cardinality(Active) \in Nat
<1>1. IsFiniteSet(Runs) /\ Running \in SUBSET Runs /\ Active \in SUBSET Runs
  BY ScrapeAssumption DEF ScrapeAssumption, Running, Active
<1> QED
  BY <1>1, FS_Subset, FS_CardinalityType

LEMMA FewerRuns ==
  ASSUME ScrapeInv, Running' \subseteq Running, \A r \in Running' : runs'[r].tab = runs[r].tab,
         cutover' => cutover \/ Running' = {}
  PROVE  RunLimits'
<1>1. Cardinality(Running') \in Nat /\ Cardinality(Running') <= Cardinality(Running)
  BY RunningIsFinite, FS_Subset, FS_CardinalityType DEF ScrapeInv
<1>2. Cardinality(Running) \in Nat /\ MaxActive \in Nat
  BY RunningIsFinite, ScrapeAssumption DEF ScrapeInv, ScrapeAssumption
<1>3. Cardinality(Running') <= MaxActive
  BY <1>1, <1>2 DEF ScrapeInv, RunLimits
<1>4. \A q, r \in Running' : runs'[q].tab = runs'[r].tab => q = r
  BY DEF ScrapeInv, RunLimits
<1>5. cutover' => Running' = {}
  BY DEF ScrapeInv, RunLimits
<1> QED
  BY <1>3, <1>4, <1>5 DEF RunLimits

-----------------------------------------------------------------------------
(* Steps of the worker, of the clock and of a port that leave the runs and *)
(* what was recorded alone.                                                *)
LEMMA DatabaseStands ==
  ASSUME ScrapeInv, UNCHANGED <<runs, recorded>>, cutover' => cutover, Shape', StreamsAreFed'
  PROVE  ScrapeInv'
<1>1. RunsContinue
  BY DEF RunsContinue, ScrapeInv, BegunRuns, Begun
<1>2. ReceiptsGrow /\ Numbered' /\ UNCHANGED observations
  BY ReceiptsStand DEF ScrapeInv, recorded
<1>3. RunLimits'
  BY FewerRuns DEF Running
<1> QED
  BY <1>1, <1>2, <1>3, ReportsStay DEF ScrapeInv

LEMMA WorkerKeeps ==
  ASSUME ScrapeInv, Tick \/ Stop \/ FinishCutover
  PROVE  ScrapeInv'
<1>1. UNCHANGED <<runs, recorded>> /\ (cutover' => cutover)
  BY DEF Tick, Stop, FinishCutover, database
<1>2. ASSUME Tick
      PROVE  Shape' /\ StreamsAreFed'
  <2>1. now' \in 0 .. MaxTime
    BY <1>2, ScrapeAssumption DEF Tick, ScrapeInv, Shape, ScrapeAssumption
  <2> QED
    BY <1>2, <2>1 DEF Tick, database, ScrapeInv, Shape, StreamsAreFed
<1>3. ASSUME Stop
      PROVE  Shape' /\ StreamsAreFed'
  <2>1. Closed \in PortRecords
    BY ScrapeAssumption DEF Closed, PortRecords, ScrapeAssumption
  <2> QED
    BY <1>3, <2>1 DEF Stop, Closed, database, ScrapeInv, Shape, StreamsAreFed
<1>4. ASSUME FinishCutover
      PROVE  Shape' /\ StreamsAreFed'
  BY <1>4 DEF FinishCutover, ScrapeInv, Shape, StreamsAreFed
<1> QED
  BY <1>1, <1>2, <1>3, <1>4, DatabaseStands

(* A port that moves to a step at which nothing was replayed yet. *)
LEMMA PortMoves ==
  ASSUME ScrapeInv, UNCHANGED <<database, cleared, now>>, NEW p \in Ports, NEW c \in PortRecords,
         ports' = [ports EXCEPT ![p] = c],
         c.step = "closed" \/ (c.run \in Runs /\ c.step \notin {"read", "open"})
  PROVE  ScrapeInv'
<1>1. Shape'
  BY DEF ScrapeInv, Shape, database
<1>2. StreamsAreFed'
  BY DEF ScrapeInv, StreamsAreFed, Shape, database
<1> QED
  BY <1>1, <1>2, DatabaseStands DEF database

LEMMA PortsTyped ==
  ASSUME ScrapeInv, NEW p \in Ports
  PROVE  /\ ports[p] \in PortRecords
         /\ ports[p].step # "closed" => ports[p].run \in Runs
         /\ Closed \in PortRecords
BY ScrapeAssumption DEF ScrapeInv, Shape, StreamsAreFed, Closed, PortRecords, ScrapeAssumption

LEMMA OpenKeeps ==
  ASSUME ScrapeInv, NEW p \in Ports, NEW r \in Runs, Open(p, r)
  PROVE  ScrapeInv'
<1> DEFINE c == [Closed EXCEPT !.step = "opening", !.run = r]
<1>1. c \in PortRecords /\ c.run \in Runs /\ c.step = "opening"
  <2>1. Closed \in PortRecords
    BY PortsTyped
  <2> QED
    BY <2>1 DEF PortRecords
<1>2. ports' = [ports EXCEPT ![p] = c] /\ UNCHANGED <<database, cleared, now>>
  BY DEF Open
<1> HIDE DEF c
<1> QED
  BY <1>1, <1>2, PortMoves

LEMMA DisconnectKeeps ==
  ASSUME ScrapeInv, NEW p \in Ports, Disconnect(p)
  PROVE  ScrapeInv'
BY PortMoves, PortsTyped DEF Disconnect, Closed

LEMMA AnswerTyped ==
  ASSUME ScrapeInv, NEW p \in Ports, ports[p].step # "closed",
         NEW step \in {"refused", "begun", "open"}, Answer(p, step)
  PROVE  LET c == [ports[p] EXCEPT !.step = step]
         IN /\ c \in PortRecords /\ c.run \in Runs /\ c.step = step
            /\ ports' = [ports EXCEPT ![p] = c]
<1>1. ports[p] \in PortRecords /\ ports[p].run \in Runs
  BY PortsTyped
<1> QED
  BY <1>1 DEF PortRecords, Answer

LEMMA RefusalKeeps ==
  ASSUME ScrapeInv, NEW p \in Ports,
         CaptureFails(p) \/ \E list \in Lists, tab \in Tabs : RefuseRun(p, list, tab)
  PROVE  ScrapeInv'
<1> DEFINE c == [ports[p] EXCEPT !.step = "refused"]
<1>1. ports[p].step # "closed" /\ Answer(p, "refused") /\ UNCHANGED <<database, cleared, now>>
  BY DEF CaptureFails, RefuseRun
<1>2. c \in PortRecords /\ c.run \in Runs /\ c.step = "refused" /\ ports' = [ports EXCEPT ![p] = c]
  BY <1>1, AnswerTyped
<1> HIDE DEF c
<1> QED
  BY <1>1, <1>2, PortMoves

(* The replay: every cursor up to the last one is stored.                  *)
LEMMA ReplayKeeps ==
  ASSUME ScrapeInv, NEW p \in Ports, NEW from \in 0 .. MaxCursor, ReadObservations(p, from)
  PROVE  ScrapeInv'
<1> DEFINE run == ports[p].run
           replay == {c \in Cursors(run) : c > from}
           last == runs[run].lastCursor
<1>1. run \in Runs /\ ports[p] \in PortRecords
  BY PortsTyped DEF ReadObservations
<1>2. /\ ports' = [ports EXCEPT ![p].step = "read", ![p].from = from,
                                ![p].sent = @ \union replay]
      /\ UNCHANGED <<database, cleared, now>>
  BY DEF ReadObservations
<1>3. last \in 0 .. MaxCursor /\ MaxCursor \in Nat
  BY <1>1, ScrapeAssumption DEF ScrapeInv, Shape, RunRecords, ScrapeAssumption
<1>4. Cursors(run) \subseteq 1 .. MaxCursor
  BY DEF Cursors, ScrapeInv, CursorsAreDense
<1>5. from + 1 .. last \subseteq replay
  <2>1. ASSUME NEW c \in from + 1 .. last
        PROVE  c \in replay
    <3>1. c \in 1 .. MaxCursor /\ c <= last /\ c > from
      BY <1>3
    <3>2. <<run, c>> \in DOMAIN observations
      BY <1>1, <3>1 DEF ScrapeInv, CursorsAreDense
    <3>3. c \in {k[2] : k \in {key \in DOMAIN observations : key[1] = run}}
      BY <3>2
    <3> QED
      BY <3>1, <3>3 DEF Cursors
  <2> QED
    BY <2>1
<1>6. replay \subseteq 1 .. MaxCursor
  BY <1>4
<1> HIDE DEF replay
<1>7. /\ ports'[p] \in PortRecords /\ ports'[p].run = run
      /\ ports'[p].from = from /\ replay \subseteq ports'[p].sent
      /\ \A q \in Ports \ {p} : ports'[q] = ports[q]
  BY <1>1, <1>2, <1>6 DEF PortRecords, ScrapeInv, Shape
<1>8. Shape'
  BY <1>2, <1>7 DEF ScrapeInv, Shape, database
<1>9. StreamsAreFed'
  BY <1>1, <1>2, <1>5, <1>7 DEF ScrapeInv, StreamsAreFed, database
<1> QED
  BY <1>2, <1>8, <1>9, DatabaseStands DEF database

LEMMA AnswerKeeps ==
  ASSUME ScrapeInv, NEW p \in Ports, AnswerOpened(p)
  PROVE  ScrapeInv'
<1> DEFINE c == [ports[p] EXCEPT !.step = "open"]
<1>1. ports[p].step = "read" /\ Answer(p, "open") /\ UNCHANGED <<database, cleared, now>>
  BY DEF AnswerOpened
<1>2. c \in PortRecords /\ c.run \in Runs /\ c.step = "open" /\ ports' = [ports EXCEPT ![p] = c]
  BY <1>1, AnswerTyped
<1>3. c.run = ports[p].run /\ c.from = ports[p].from /\ c.sent = ports[p].sent
  BY PortsTyped DEF PortRecords
<1> HIDE DEF c
<1>4. Shape'
  BY <1>1, <1>2 DEF ScrapeInv, Shape, database
<1>5. StreamsAreFed'
  BY <1>1, <1>2, <1>3 DEF ScrapeInv, StreamsAreFed, Shape, database
<1> QED
  BY <1>1, <1>4, <1>5, DatabaseStands DEF database

-----------------------------------------------------------------------------
(* Steps that end runs or renew a lease. *)
LEMMA RunsMove ==
  ASSUME ScrapeInv, Numbered', ReceiptsGrow, UNCHANGED <<observations, cleared, ports, now>>,
         runs' \in [Runs -> RunRecords], cutover' \in BOOLEAN,
         RunsContinue, Running' \subseteq Running, \A r \in Running' : runs'[r].tab = runs[r].tab,
         cutover' => cutover \/ Running' = {}
  PROVE  ScrapeInv'
<1>1. Shape'
  BY DEF ScrapeInv, Shape
<1>2. RunLimits'
  BY FewerRuns
<1>3. StreamsAreFed'
  BY StreamsStand
<1> QED
  BY <1>1, <1>2, <1>3, ReportsStay DEF ScrapeInv

(* Ending a run, or renewing it, leaves what it reports. *)
LEMMA EndedRun ==
  ASSUME ScrapeInv, NEW r \in Running,
         NEW state \in {"failed", "aborted"}, NEW stop,
         <<state, stop>> \in Stops
  PROVE  LET run == Ended(runs[r], state, stop) IN
           /\ run \in RunRecords /\ run.state = state /\ run.stop = stop
           /\ run.list = runs[r].list /\ run.baseline = runs[r].baseline
           /\ run.known = runs[r].known /\ run.lastCursor = runs[r].lastCursor
<1>1. r \in Runs /\ runs[r] \in RunRecords
  BY DEF Running, ScrapeInv, Shape
<1>2. stop \in {"none", "lease-expired", "source-tab-closed"}
  BY DEF Stops
<1> QED
  BY <1>1, <1>2 DEF Ended, RunRecords

LEMMA RenewedRun ==
  ASSUME ScrapeInv, NEW r \in Runs, NEW at \in 0 .. now
  PROVE  LET run == Renewed(runs[r], at) IN
           /\ run \in RunRecords /\ run.state = runs[r].state /\ run.stop = runs[r].stop
           /\ run.list = runs[r].list /\ run.tab = runs[r].tab /\ run.baseline = runs[r].baseline
           /\ run.known = runs[r].known /\ run.lastCursor = runs[r].lastCursor
<1>1. runs[r] \in RunRecords
  BY DEF ScrapeInv, Shape
<1>2. at + Lease \in 0 .. MaxTime + Lease
  BY ScrapeAssumption DEF ScrapeInv, Shape, ScrapeAssumption
<1> QED
  BY <1>1, <1>2 DEF Renewed, RunRecords

(* A step that ends some of the running runs.                              *)
LEMMA EndingKeeps ==
  ASSUME ScrapeInv, Numbered', ReceiptsGrow, UNCHANGED <<observations, cleared, ports, now>>,
         NEW Ending \in SUBSET Running, NEW state \in {"failed", "aborted"}, NEW stop,
         <<state, stop>> \in Stops,
         runs' = [r \in Runs |-> IF r \in Ending THEN Ended(runs[r], state, stop) ELSE runs[r]],
         cutover' \in BOOLEAN, cutover' => cutover \/ Ending = Running
  PROVE  ScrapeInv'
<1>1. ASSUME NEW r \in Ending
      PROVE  /\ r \in Runs /\ runs'[r] \in RunRecords
             /\ runs'[r].state = state /\ runs'[r].stop = stop
             /\ runs'[r].list = runs[r].list /\ runs'[r].baseline = runs[r].baseline
             /\ runs'[r].known = runs[r].known /\ runs'[r].lastCursor = runs[r].lastCursor
  <2>1. r \in Running /\ r \in Runs
    BY DEF Running
  <2>2. runs'[r] = Ended(runs[r], state, stop)
    BY <2>1
  <2> QED
    BY <2>1, <2>2, EndedRun
<1>2. \A r \in Runs \ Ending : runs'[r] = runs[r]
  OBVIOUS
<1>3. runs' \in [Runs -> RunRecords]
  <2>1. \A r \in Runs : runs'[r] \in RunRecords
    BY <1>1, <1>2 DEF ScrapeInv, Shape
  <2> QED
    BY <2>1
<1>4. RunsContinue
  <2>1. ASSUME NEW r \in Ending
        PROVE  Begun(r) /\ Begun(r)'
    BY <1>1 DEF Begun, Running
  <2>2. ASSUME NEW r \in Runs \ Ending
        PROVE  Begun(r)' = Begun(r) /\ <<runs[r].state, runs[r].stop>> \in Stops
    BY <1>2 DEF Begun, ScrapeInv, BegunRuns
  <2> QED
    BY <1>1, <1>2, <2>1, <2>2 DEF RunsContinue
<1>5. Running' = Running \ Ending
  BY <1>1, <1>2 DEF Running
<1>6. \A r \in Running' : runs'[r].tab = runs[r].tab
  BY <1>2, <1>5 DEF Running
<1> QED
  BY <1>3, <1>4, <1>5, <1>6, RunsMove

LEMMA CutoverKeeps ==
  ASSUME ScrapeInv, BeginCutover
  PROVE  ScrapeInv'
<1>1. ReceiptsGrow /\ Numbered'
  BY ReceiptsStand DEF ScrapeInv, BeginCutover, recorded
<1>2. <<"failed", "none">> \in Stops
  BY DEF Stops
<1> QED
  BY <1>1, <1>2, EndingKeeps DEF BeginCutover, recorded

LEMMA TabClosedKeeps ==
  ASSUME ScrapeInv, NEW tab \in Tabs, TabClosed(tab)
  PROVE  ScrapeInv'
<1> DEFINE Ending == {r \in Running : runs[r].tab = tab}
<1>1. ReceiptsGrow /\ Numbered' /\ UNCHANGED <<observations, cutover, cleared, ports, now>>
  BY ReceiptsStand DEF ScrapeInv, TabClosed, recorded
<1>2. <<"aborted", "source-tab-closed">> \in Stops
  BY DEF Stops
<1>3. runs' = [r \in Runs |-> IF r \in Ending THEN Ended(runs[r], "aborted", "source-tab-closed")
                                              ELSE runs[r]]
  BY DEF TabClosed
<1>4. cutover' \in BOOLEAN /\ (cutover' => cutover)
  BY <1>1 DEF ScrapeInv, Shape
<1>5. Ending \in SUBSET Running
  OBVIOUS
<1> HIDE DEF Ending
<1> QED
  BY <1>1, <1>2, <1>3, <1>4, <1>5, EndingKeeps

LEMMA OutsideKeeps ==
  ASSUME ScrapeInv, NEW tab \in Tabs, NEW list \in Lists \union {NoList}, NEW ts \in Responses,
         RecordOutside(tab, list, ts)
  PROVE  ScrapeInv'
<1> DEFINE Ending == {r \in Running : runs[r].tab = tab}
<1>1. ReceiptsGrow /\ Numbered'
  <2>1. CASE list = NoList
    BY <2>1, ReceiptsStand DEF ScrapeInv, RecordOutside
  <2>2. CASE list # NoList
    BY <2>2, ReceiptsAdded DEF ScrapeInv, RecordOutside
  <2> QED
    BY <2>1, <2>2
<1>2. <<"failed", "lease-expired">> \in Stops
  BY DEF Stops
<1>3. /\ runs' = [r \in Runs |-> IF r \in Ending THEN Ended(runs[r], "failed", "lease-expired")
                                                 ELSE runs[r]]
      /\ UNCHANGED <<observations, cutover, cleared, ports, now>>
  BY DEF RecordOutside, Expired
<1>4. cutover' \in BOOLEAN /\ (cutover' => cutover)
  BY <1>3 DEF ScrapeInv, Shape
<1>5. Ending \in SUBSET Running
  OBVIOUS
<1> HIDE DEF Ending
<1> QED
  BY <1>1, <1>2, <1>3, <1>4, <1>5, EndingKeeps

LEMMA HeartbeatKeeps ==
  ASSUME ScrapeInv, NEW p, NEW r \in Runs, NEW tab, NEW at \in 0 .. now, Heartbeat(p, r, tab, at)
  PROVE  ScrapeInv'
<1>1. /\ runs' = [runs EXCEPT ![r] = Renewed(@, at)] /\ r \in Running
      /\ UNCHANGED <<cutover, recorded, cleared, ports, now>>
  BY DEF Heartbeat
<1>2. runs \in [Runs -> RunRecords] /\ cutover' \in BOOLEAN
  BY <1>1 DEF ScrapeInv, Shape
<1>3. /\ runs'[r] \in RunRecords /\ runs'[r].state = runs[r].state /\ runs'[r].stop = runs[r].stop
      /\ runs'[r].list = runs[r].list /\ runs'[r].tab = runs[r].tab
      /\ runs'[r].baseline = runs[r].baseline
      /\ runs'[r].known = runs[r].known /\ runs'[r].lastCursor = runs[r].lastCursor
  BY <1>1, <1>2, RenewedRun
<1>4. runs' \in [Runs -> RunRecords] /\ \A q \in Runs \ {r} : runs'[q] = runs[q]
  BY <1>1, <1>2, <1>3
<1>5. RunsContinue
  BY <1>1, <1>3, <1>4 DEF RunsContinue, Begun, Running, ScrapeInv, BegunRuns
<1>6. Running' = Running /\ \A q \in Running : runs'[q].tab = runs[q].tab
  BY <1>3, <1>4 DEF Running
<1>7. ReceiptsGrow /\ Numbered'
  BY <1>1, ReceiptsStand DEF ScrapeInv, recorded
<1> QED
  BY <1>1, <1>2, <1>4, <1>5, <1>6, <1>7, RunsMove DEF recorded

LEMMA FinishKeeps ==
  ASSUME ScrapeInv, NEW p, NEW r \in Runs, NEW state \in {"aborted", "completed", "failed"},
         FinishRun(p, r, state)
  PROVE  ScrapeInv'
<1>1. /\ runs' = [runs EXCEPT ![r].state = state] /\ runs[r].state \in {"running", state}
      /\ UNCHANGED <<cutover, recorded, cleared, ports, now>>
  BY DEF FinishRun
<1>2. runs \in [Runs -> RunRecords] /\ cutover' \in BOOLEAN
  BY <1>1 DEF ScrapeInv, Shape
<1>3. /\ runs'[r] \in RunRecords /\ runs'[r].state = state /\ runs'[r].stop = runs[r].stop
      /\ runs'[r].list = runs[r].list /\ runs'[r].tab = runs[r].tab
      /\ runs'[r].baseline = runs[r].baseline
      /\ runs'[r].known = runs[r].known /\ runs'[r].lastCursor = runs[r].lastCursor
  BY <1>1, <1>2 DEF RunRecords
<1>4. runs' \in [Runs -> RunRecords] /\ \A q \in Runs \ {r} : runs'[q] = runs[q]
  BY <1>1, <1>2, <1>3
<1>5. <<state, runs[r].stop>> \in Stops
  BY <1>1 DEF ScrapeInv, BegunRuns, Stops
<1>6. Begun(r) /\ Begun(r)'
  BY <1>1, <1>3 DEF Begun
<1>7. RunsContinue
  BY <1>3, <1>4, <1>5, <1>6 DEF RunsContinue, Begun, ScrapeInv, BegunRuns
<1>8. Running' \subseteq Running /\ \A q \in Running' : runs'[q].tab = runs[q].tab
  BY <1>3, <1>4 DEF Running
<1>9. ReceiptsGrow /\ Numbered'
  BY <1>1, ReceiptsStand DEF ScrapeInv, recorded
<1> QED
  BY <1>1, <1>2, <1>4, <1>7, <1>8, <1>9, RunsMove DEF recorded

-----------------------------------------------------------------------------
(* beginRun: sweeping the expired runs, and the run that is opened. *)
LEMMA SweptRuns ==
  ASSUME ScrapeInv, NEW r \in Runs
  PROVE  /\ Swept \in [Runs -> RunRecords]
         /\ <<Swept[r].state, Swept[r].stop>> \in Stops
         /\ Swept[r].list = runs[r].list /\ Swept[r].baseline = runs[r].baseline
         /\ Swept[r].known = runs[r].known /\ Swept[r].lastCursor = runs[r].lastCursor
         /\ IF Begun(r) THEN Swept[r].state # "none" ELSE Swept[r] = runs[r]
         /\ Swept[r].state = "running" <=> r \in Active
         /\ r \in Active => Swept[r] = runs[r]
<1>1. /\ <<"failed", "lease-expired">> \in Stops
      /\ \A q \in Runs : runs[q] \in RunRecords
  BY DEF Stops, ScrapeInv, Shape
<1>2. ASSUME NEW q \in Running
      PROVE  /\ q \in Runs /\ Expired(runs[q]) \in RunRecords
             /\ Expired(runs[q]).state = "failed" /\ Expired(runs[q]).stop = "lease-expired"
             /\ Expired(runs[q]).list = runs[q].list
             /\ Expired(runs[q]).baseline = runs[q].baseline
             /\ Expired(runs[q]).known = runs[q].known
             /\ Expired(runs[q]).lastCursor = runs[q].lastCursor
  BY <1>1, <1>2, EndedRun DEF Expired, Running
<1>3. Active \subseteq Running
  BY DEF Active
<1>4. \A q \in Runs : Swept[q] = IF q \in Running \ Active THEN Expired(runs[q]) ELSE runs[q]
  BY DEF Swept
<1>5. Swept \in [Runs -> RunRecords]
  BY <1>1, <1>2 DEF Swept
<1>6. CASE r \in Running \ Active
  <2>1. Begun(r)
    BY <1>6 DEF Begun, Running
  <2> QED
    BY <1>1, <1>2, <1>4, <1>5, <1>6, <2>1
<1>7. CASE r \notin Running \ Active
  <2>1. Swept[r] = runs[r]
    BY <1>4, <1>7
  <2>2. runs[r].state = "running" <=> r \in Active
    BY <1>3, <1>7 DEF Running
  <2> QED
    BY <1>5, <2>1, <2>2 DEF Begun, ScrapeInv, BegunRuns
<1> QED
  BY <1>6, <1>7

(* A place is left for one run more. *)
LEMMA PlaceTaken ==
  ASSUME ScrapeInv, NEW r \in Runs, r \notin Active, HasPlace(runs'[r].tab), ~cutover',
         Running' = Active \union {r}, \A q \in Active : runs'[q].tab = runs[q].tab
  PROVE  RunLimits'
<1>1. /\ IsFiniteSet(Active) /\ Cardinality(Active) \in Nat
      /\ MaxActive \in Nat /\ Cardinality(Active) < MaxActive
  BY RunningIsFinite, ScrapeAssumption DEF ScrapeInv, ScrapeAssumption, HasPlace
<1>2. Cardinality(Running') = Cardinality(Active) + 1
  BY <1>1, FS_AddElement
<1>3. \A q \in Active : runs'[q].tab # runs'[r].tab
  BY DEF HasPlace
<1>4. \A q, s \in Active : runs'[q].tab = runs'[s].tab => q = s
  BY DEF ScrapeInv, RunLimits, Active
<1>5. Cardinality(Running') <= MaxActive
  BY <1>1, <1>2
<1>6. \A q, s \in Running' : runs'[q].tab = runs'[s].tab => q = s
  BY <1>3, <1>4
<1> QED
  BY <1>5, <1>6 DEF RunLimits

(* What the opening of a run does to the ports and to the other runs.      *)
LEMMA OpeningKeeps ==
  ASSUME ScrapeInv, NEW p \in Ports, ports[p].step = "opening", Answer(p, "begun"),
         UNCHANGED <<cutover, cleared, now>>,
         NEW r \in Runs, NEW run \in RunRecords, run.state = "running",
         run.lastCursor = runs[r].lastCursor, runs' = [Swept EXCEPT ![r] = run]
  PROVE  /\ Shape' /\ StreamsAreFed' /\ Running' = Active \union {r}
         /\ runs'[r] = run /\ \A q \in Runs \ {r} : runs'[q] = Swept[q]
<1> DEFINE c == [ports[p] EXCEPT !.step = "begun"]
<1>1. c \in PortRecords /\ c.run \in Runs /\ c.step = "begun" /\ ports' = [ports EXCEPT ![p] = c]
  BY AnswerTyped
<1> HIDE DEF c
<1>2. Swept \in [Runs -> RunRecords]
  BY SweptRuns
<1>3. runs'[r] = run /\ \A q \in Runs \ {r} : runs'[q] = Swept[q]
  BY <1>2
<1>4. Shape'
  BY <1>1, <1>2 DEF ScrapeInv, Shape
<1>5. \A q \in Runs : runs'[q].lastCursor = runs[q].lastCursor
  BY <1>3, SweptRuns
<1>6. StreamsAreFed'
  BY <1>1, <1>5 DEF ScrapeInv, StreamsAreFed, Shape
<1>7. Running' = Active \union {r}
  <2>1. Active \subseteq Runs
    BY DEF Active, Running
  <2>2. \A q \in Runs \ {r} : runs'[q].state = "running" <=> q \in Active
    BY <1>3, SweptRuns
  <2>3. Running' = {q \in Runs : runs'[q].state = "running"}
    BY DEF Running
  <2> QED
    BY <1>3, <2>1, <2>2, <2>3
<1> QED
  BY <1>3, <1>4, <1>6, <1>7

LEMMA ReopenKeeps ==
  ASSUME ScrapeInv, NEW p \in Ports, ports[p].step = "opening", Answer(p, "begun"), ~cutover,
         UNCHANGED <<cutover, recorded, cleared, now>>, NEW r \in Runs, NEW list, NEW tab \in Tabs,
         Reopen(r, list, tab) \/ Recover(r, list, tab)
  PROVE  ScrapeInv'
<1> DEFINE moved == [Ended(Swept[r], "running", "none") EXCEPT !.tab = tab]
           run == IF r \in Active THEN Renewed(Swept[r], now) ELSE Renewed(moved, now)
<1>1. Swept \in [Runs -> RunRecords]
  BY SweptRuns
<1>2. runs' = [Swept EXCEPT ![r] = run]
  <2>1. CASE Reopen(r, list, tab)
    BY <1>1, <2>1 DEF Reopen
  <2>2. CASE Recover(r, list, tab)
    <3>1. r \notin Active
      BY <2>2, SweptRuns DEF Recover
    <3> QED
      BY <1>1, <2>2, <3>1 DEF Recover
  <2> QED
    BY <2>1, <2>2
<1>3. now + Lease \in 0 .. MaxTime + Lease
  BY ScrapeAssumption DEF ScrapeInv, Shape, ScrapeAssumption
<1>4. /\ moved \in RunRecords /\ moved.state = "running" /\ moved.stop = "none"
      /\ moved.list = Swept[r].list /\ moved.tab = tab /\ moved.baseline = Swept[r].baseline
      /\ moved.known = Swept[r].known /\ moved.lastCursor = Swept[r].lastCursor
  BY <1>1 DEF Ended, RunRecords
<1> HIDE DEF moved
<1>5. /\ Renewed(moved, now) \in RunRecords
      /\ Renewed(moved, now).state = "running" /\ Renewed(moved, now).stop = "none"
      /\ Renewed(moved, now).list = Swept[r].list /\ Renewed(moved, now).tab = tab
      /\ Renewed(moved, now).baseline = Swept[r].baseline
      /\ Renewed(moved, now).known = Swept[r].known
      /\ Renewed(moved, now).lastCursor = Swept[r].lastCursor
  BY <1>3, <1>4 DEF Renewed, RunRecords
<1>6. r \in Active =>
        /\ Renewed(Swept[r], now) \in RunRecords
        /\ Renewed(Swept[r], now).state = "running" /\ Renewed(Swept[r], now).stop = "none"
        /\ Renewed(Swept[r], now).list = Swept[r].list
        /\ Renewed(Swept[r], now).tab = runs[r].tab
        /\ Renewed(Swept[r], now).baseline = Swept[r].baseline
        /\ Renewed(Swept[r], now).known = Swept[r].known
        /\ Renewed(Swept[r], now).lastCursor = Swept[r].lastCursor
  <2>1. r \in Active => Swept[r] = runs[r] /\ Swept[r].state = "running" /\ Swept[r].stop = "none"
    <3>1. <<Swept[r].state, Swept[r].stop>> \in Stops
      BY SweptRuns
    <3> QED
      BY <3>1, SweptRuns DEF Stops
  <2> QED
    BY <1>1, <1>3, <2>1 DEF Renewed, RunRecords
<1>7. /\ run \in RunRecords /\ run.state = "running" /\ run.stop = "none"
      /\ run.list = runs[r].list /\ run.baseline = runs[r].baseline
      /\ run.known = runs[r].known /\ run.lastCursor = runs[r].lastCursor
      /\ run.tab = IF r \in Active THEN runs[r].tab ELSE tab
  BY <1>5, <1>6, SweptRuns
<1> HIDE DEF run
<1>8. /\ Shape' /\ StreamsAreFed' /\ Running' = Active \union {r}
      /\ runs'[r] = run /\ \A q \in Runs \ {r} : runs'[q] = Swept[q]
  BY <1>2, <1>7, OpeningKeeps
<1>9. RunsContinue
  <2>1. <<"running", "none">> \in Stops
    BY DEF Stops
  <2>2. Begun(r) /\ Begun(r)'
    <3>1. Swept[r].state # "none"
      BY SweptRuns DEF Reopen, Recover
    <3>2. Begun(r)
      BY <3>1, SweptRuns DEF Begun
    <3> QED
      BY <1>7, <1>8, <3>2 DEF Begun
  <2>3. ASSUME NEW q \in Runs \ {r}
        PROVE  IF Begun(q) THEN Begun(q)' ELSE runs'[q] = runs[q]
    BY <1>8, SweptRuns DEF Begun
  <2>4. ASSUME NEW q \in Runs \ {r}
        PROVE  /\ <<runs'[q].state, runs'[q].stop>> \in Stops
               /\ runs'[q].list = runs[q].list /\ runs'[q].baseline = runs[q].baseline
               /\ runs'[q].known = runs[q].known /\ runs'[q].lastCursor = runs[q].lastCursor
    BY <1>8, SweptRuns
  <2> QED
    BY <1>7, <1>8, <2>1, <2>2, <2>3, <2>4 DEF RunsContinue
<1>10. \A q \in Active \ {r} : runs'[q].tab = runs[q].tab
  <2>1. \A q \in Active : q \in Runs
    BY DEF Active, Running
  <2> QED
    BY <1>8, <2>1, SweptRuns
<1>11. RunLimits'
  <2>1. CASE r \in Active
    BY <1>7, <1>8, <1>10, <2>1, FewerRuns DEF Active
  <2>2. CASE r \notin Active
    <3>1. HasPlace(runs'[r].tab)
      BY <1>7, <1>8, <2>2 DEF Reopen, Recover
    <3> QED
      BY <1>8, <1>10, <2>2, <3>1, PlaceTaken
  <2> QED
    BY <2>1, <2>2
<1>12. ReceiptsGrow /\ Numbered' /\ UNCHANGED observations
  BY ReceiptsStand DEF ScrapeInv, recorded
<1> QED
  BY <1>8, <1>9, <1>11, <1>12, ReportsStay DEF ScrapeInv

(* A new run knows all that its list has shown so far. *)
LEMMA FirstKnown ==
  ASSUME Numbered, NEW list
  PROVE  LET Shown == {pair \in DOMAIN listReceipts : pair[1] = list} IN
           /\ Cardinality(Shown) \in Nat
           /\ Shown = {pair \in DOMAIN listReceipts : pair[1] = list /\ listReceipts[pair] <= sequence}
<1> DEFINE Shown == {pair \in DOMAIN listReceipts : pair[1] = list}
<1>1. IsFiniteSet(Lists \X Tweets)
  BY ScrapeAssumption, FS_Product DEF ScrapeAssumption
<1>2. Shown \in SUBSET (Lists \X Tweets)
  BY DEF Numbered
<1>3. \A pair \in DOMAIN listReceipts : listReceipts[pair] <= sequence
  BY DEF Numbered
<1> HIDE DEF Shown
<1>4. Cardinality(Shown) \in Nat
  BY <1>1, <1>2, FS_Subset, FS_CardinalityType
<1> QED
  BY <1>3, <1>4 DEF Shown

LEMMA BeginKeeps ==
  ASSUME ScrapeInv, NEW p \in Ports, ports[p].step = "opening", Answer(p, "begun"), ~cutover,
         UNCHANGED <<cutover, recorded, cleared, now>>, NEW r \in Runs, NEW list \in Lists,
         NEW tab \in Tabs, Begin(r, list, tab)
  PROVE  ScrapeInv'
<1> DEFINE shown == Cardinality({pair \in DOMAIN listReceipts : pair[1] = list})
           run == [state |-> "running", stop |-> "none", list |-> list, tab |-> tab,
                   lease |-> now + Lease, baseline |-> sequence, known |-> shown, lastCursor |-> 0]
<1>1. /\ runs' = [Swept EXCEPT ![r] = run] /\ HasPlace(tab)
      /\ ~Begun(r) /\ runs[r] = Absent /\ r \notin Active
  BY DEF Begin, Begun, ScrapeInv, BegunRuns, Active, Running
<1>2. now + Lease \in 0 .. MaxTime + Lease /\ MaxCursor \in Nat /\ sequence \in Nat
  BY ScrapeAssumption DEF ScrapeInv, Shape, Numbered, ScrapeAssumption
<1>3. shown \in Nat
  BY FirstKnown DEF ScrapeInv
<1> HIDE DEF shown
<1>4. run \in RunRecords
  BY <1>2, <1>3 DEF RunRecords
<1>5. /\ run.state = "running" /\ run.stop = "none" /\ run.list = list /\ run.tab = tab
      /\ run.baseline = sequence /\ run.known = shown /\ run.lastCursor = 0
  OBVIOUS
<1> HIDE DEF run
<1>6. runs[r].lastCursor = 0
  BY <1>1 DEF Absent
<1>7. /\ Shape' /\ StreamsAreFed' /\ Running' = Active \union {r}
      /\ runs'[r] = run /\ \A q \in Runs \ {r} : runs'[q] = Swept[q]
  BY <1>1, <1>4, <1>5, <1>6, OpeningKeeps
<1>8. Numbered' /\ UNCHANGED <<receipts, listReceipts, observations, sequence>>
  BY ReceiptsStand DEF ScrapeInv, recorded
<1>9. BegunRuns'
  <2>1. <<run.state, run.stop>> \in Stops /\ run.baseline <= sequence
    BY <1>2, <1>5 DEF Stops
  <2>2. ASSUME NEW q \in Runs \ {r}
        PROVE  /\ <<runs'[q].state, runs'[q].stop>> \in Stops
               /\ IF Begun(q) THEN runs'[q].state # "none" ELSE runs'[q] = runs[q]
               /\ runs'[q].list = runs[q].list /\ runs'[q].baseline = runs[q].baseline
    BY <1>7, SweptRuns
  <2>3. ASSUME NEW q \in Runs \ {r}
        PROVE  IF Begun(q)' THEN runs'[q].list \in Lists /\ runs'[q].baseline <= sequence
                            ELSE runs'[q] = Absent
    <3>1. CASE Begun(q)
      BY <2>2, <3>1 DEF ScrapeInv, BegunRuns, Begun
    <3>2. CASE ~Begun(q)
      BY <2>2, <3>2 DEF ScrapeInv, BegunRuns, Begun
    <3> QED
      BY <3>1, <3>2
  <2>4. Begun(r)'
    BY <1>5, <1>7 DEF Begun
  <2> QED
    BY <1>5, <1>7, <1>8, <2>1, <2>2, <2>3, <2>4 DEF BegunRuns
<1>10. RunLimits'
  <2>1. \A q \in Active : runs'[q].tab = runs[q].tab
    <3>1. \A q \in Active : q \in Runs
      BY DEF Active, Running
    <3> QED
      BY <1>1, <1>7, <3>1, SweptRuns
  <2> QED
    BY <1>1, <1>5, <1>7, <2>1, PlaceTaken
<1>11. \A q \in Runs : runs'[q].lastCursor = runs[q].lastCursor
  BY <1>5, <1>6, <1>7, SweptRuns
<1>12. CursorsAreDense'
  BY <1>8, <1>11 DEF ScrapeInv, CursorsAreDense
<1>13. ObservationsAreTyped'
  BY <1>8 DEF ScrapeInv, ObservationsAreTyped
<1>14. \A q \in Runs \ {r} : /\ runs'[q].list = runs[q].list /\ runs'[q].known = runs[q].known
                             /\ KnownAtBegin(q)' = KnownAtBegin(q)
  <2>1. \A q \in Runs \ {r} : /\ runs'[q].list = runs[q].list /\ runs'[q].known = runs[q].known
                              /\ runs'[q].baseline = runs[q].baseline
    BY <1>7, SweptRuns
  <2> QED
    BY <1>8, <2>1 DEF KnownAtBegin
<1>15. CoverageIsExact'
  <2>1. runs'[r].known = Cardinality(KnownAtBegin(r)')
    <3>1. KnownAtBegin(r)' = {pair \in DOMAIN listReceipts :
                                pair[1] = list /\ listReceipts[pair] <= sequence}
      BY <1>5, <1>7, <1>8 DEF KnownAtBegin
    <3> QED
      BY <1>5, <1>7, <3>1, FirstKnown DEF ScrapeInv, shown
  <2>2. ASSUME NEW k \in DOMAIN observations
        PROVE  k[1] \in Runs \ {r}
    <3>1. k[1] \in Runs /\ k[2] \in 1 .. MaxCursor /\ k[2] <= runs[k[1]].lastCursor
      BY DEF ScrapeInv, CursorsAreDense
    <3> QED
      BY <1>6, <3>1
  <2> QED
    BY <1>8, <1>14, <2>1, <2>2 DEF ScrapeInv, CoverageIsExact
<1> QED
  BY <1>7, <1>8, <1>9, <1>10, <1>12, <1>13, <1>15 DEF ScrapeInv

LEMMA BeginRunKeeps ==
  ASSUME ScrapeInv, NEW p \in Ports, NEW list \in Lists, NEW tab \in Tabs, BeginRun(p, list, tab)
  PROVE  ScrapeInv'
<1>1. ports[p].run \in Runs
  BY PortsTyped DEF BeginRun
<1> QED
  BY <1>1, BeginKeeps, ReopenKeeps DEF BeginRun

-----------------------------------------------------------------------------
(* recordTimeline in a run: every post of the response gets the next       *)
(* cursor, and every port of the run gets the new observations.            *)
LEMMA RecordKeeps ==
  ASSUME ScrapeInv, NEW r \in Runs, NEW ts \in Responses, RecordInRun(r, ts)
  PROVE  ScrapeInv'
<1> DEFINE list == runs[r].list
           last == runs[r].lastCursor
           cursors == last + 1 .. last + Len(ts)
           post(c) == ts[c - last]
           num(c) == listReceipts'[<<list, post(c)>>]
           new == [k \in {r} \X cursors |->
                    [tweet |-> post(k[2]), sequence |-> num(k[2]),
                     known |-> num(k[2]) <= runs[r].baseline]]
<1>1. /\ r \in Active /\ last + Len(ts) <= MaxCursor /\ AddReceipts(list, ts)
      /\ observations' = Merged(new, observations)
      /\ runs' = [runs EXCEPT ![r].lastCursor = @ + Len(ts)]
      /\ ports' = [p \in Ports |-> IF Listening(p, r)
                                   THEN [ports[p] EXCEPT !.sent = @ \union cursors]
                                   ELSE ports[p]]
      /\ UNCHANGED <<cutover, cleared, now>>
  BY DEF RecordInRun
<1>2. /\ runs \in [Runs -> RunRecords] /\ runs[r] \in RunRecords
      /\ ts \in Seq(Tweets) /\ Len(ts) \in Nat /\ MaxCursor \in Nat /\ last \in 0 .. MaxCursor
  BY ScrapeAssumption DEF ScrapeAssumption, ScrapeInv, Shape, RunRecords
<1>3. Begun(r) /\ list \in Lists
  BY <1>1 DEF Active, Running, Begun, ScrapeInv, BegunRuns
<1>4. /\ ReceiptsGrow /\ Numbered'
      /\ \A t \in Posts(ts) : t \in Tweets /\ <<list, t>> \in DOMAIN listReceipts'
  BY <1>1, <1>3, ReceiptsAdded DEF ScrapeInv
<1>5. \A c \in cursors : post(c) \in Posts(ts)
  BY <1>2 DEF Posts
<1>6. /\ runs'[r] = [runs[r] EXCEPT !.lastCursor = last + Len(ts)]
      /\ \A q \in Runs \ {r} : runs'[q] = runs[q]
  BY <1>1, <1>2
<1>7. /\ runs'[r] \in RunRecords /\ runs'[r].lastCursor = last + Len(ts)
      /\ runs'[r].state = runs[r].state /\ runs'[r].stop = runs[r].stop
      /\ runs'[r].list = list /\ runs'[r].tab = runs[r].tab
      /\ runs'[r].baseline = runs[r].baseline /\ runs'[r].known = runs[r].known
  <2>1. last + Len(ts) \in 0 .. MaxCursor
    BY <1>1, <1>2
  <2> HIDE DEF last
  <2> QED
    BY <1>2, <1>6, <2>1 DEF RunRecords
<1>8. runs' \in [Runs -> RunRecords]
  BY <1>1, <1>2, <1>6, <1>7
<1> HIDE DEF new, post, num, cursors, last, list
<1>9. \A c : c \in cursors <=> c \in Nat /\ last < c /\ c <= last + Len(ts)
  BY <1>2 DEF cursors
<1>10. Shape'
  <2>1. cursors \subseteq 1 .. MaxCursor
    BY <1>1, <1>2 DEF cursors
  <2>2. ASSUME NEW p \in Ports
        PROVE  ports'[p] \in PortRecords
    BY <1>1, <2>1 DEF ScrapeInv, Shape, PortRecords
  <2> QED
    BY <1>1, <1>8, <2>2 DEF ScrapeInv, Shape
<1>11. BegunRuns'
  <2>1. sequence \in Nat /\ sequence' \in Nat /\ sequence <= sequence'
    BY <1>4 DEF ScrapeInv, Numbered, ReceiptsGrow
  <2>2. ASSUME NEW q \in Runs
        PROVE  /\ <<runs'[q].state, runs'[q].stop>> \in Stops
               /\ runs'[q].list = runs[q].list
               /\ runs'[q].baseline = runs[q].baseline /\ runs[q].baseline \in Nat
               /\ Begun(q)' <=> Begun(q)
               /\ ~Begun(q) => runs'[q] = runs[q]
    BY <1>3, <1>6, <1>7 DEF ScrapeInv, BegunRuns, Begun, list, Shape, RunRecords
  <2>3. ASSUME NEW q \in Runs, Begun(q)
        PROVE  runs'[q].list \in Lists /\ runs'[q].baseline <= sequence'
    <3>1. runs[q].list \in Lists /\ runs[q].baseline <= sequence
      BY <2>3 DEF ScrapeInv, BegunRuns
    <3>2. /\ runs'[q].list = runs[q].list /\ runs'[q].baseline = runs[q].baseline
          /\ runs[q].baseline \in Nat
      BY <2>2
    <3>3. runs[q].baseline <= sequence'
      BY <2>1, <3>1, <3>2
    <3> QED
      BY <3>1, <3>2, <3>3
  <2>4. ASSUME NEW q \in Runs, ~Begun(q)
        PROVE  runs'[q] = Absent
    BY <2>2, <2>4 DEF ScrapeInv, BegunRuns
  <2> QED
    BY <2>2, <2>3, <2>4 DEF BegunRuns
<1>12. RunLimits'
  <2>1. Running' = Running /\ \A q \in Running : runs'[q].tab = runs[q].tab
    BY <1>6, <1>7 DEF Running
  <2> QED
    BY <1>1, <2>1, FewerRuns
<1>13. DOMAIN new = {r} \X cursors
  BY DEF new
<1>14. ASSUME NEW k \in DOMAIN observations
       PROVE  k \notin DOMAIN new
  <2>1. k[2] \in Nat /\ (k[1] = r => k[2] <= last)
    BY DEF ScrapeInv, CursorsAreDense, last
  <2>2. k \in DOMAIN new => k[1] = r /\ last < k[2]
    BY <1>9, <1>13
  <2> QED
    BY <1>2, <2>1, <2>2
<1>15. /\ DOMAIN observations' = DOMAIN new \union DOMAIN observations
       /\ \A k \in DOMAIN new : observations'[k] = new[k]
       /\ \A k \in DOMAIN observations : observations'[k] = observations[k]
       /\ observations' = [k \in DOMAIN observations' |-> observations'[k]]
  <2>1. observations' = [k \in DOMAIN new \union DOMAIN observations |->
                           IF k \in DOMAIN new THEN new[k] ELSE observations[k]]
    BY <1>1 DEF Merged
  <2> QED
    BY <1>14, <2>1
<1>16. CursorsAreDense'
  <2>1. ASSUME NEW k \in Runs \X (1 .. MaxCursor)
        PROVE  k \in DOMAIN observations' <=> k[2] <= runs'[k[1]].lastCursor
    <3>1. CASE k[1] = r
      <4>1. k \in DOMAIN new <=> last < k[2] /\ k[2] <= last + Len(ts)
        BY <1>9, <1>13, <3>1
      <4>2. k \in DOMAIN observations <=> k[2] <= last
        BY <3>1 DEF ScrapeInv, CursorsAreDense, last
      <4>3. k[2] \in Nat
        OBVIOUS
      <4> QED
        BY <1>2, <1>7, <1>15, <3>1, <4>1, <4>2, <4>3
    <3>2. CASE k[1] # r
      <4>1. k \notin DOMAIN new
        BY <1>13, <3>2
      <4> QED
        BY <1>6, <1>15, <3>2, <4>1 DEF ScrapeInv, CursorsAreDense
    <3> QED
      BY <3>1, <3>2
  <2>2. DOMAIN observations' \subseteq Runs \X (1 .. MaxCursor)
    <3>1. cursors \subseteq 1 .. MaxCursor
      BY <1>1, <1>2 DEF cursors
    <3> QED
      BY <1>13, <1>15, <3>1 DEF ScrapeInv, CursorsAreDense
  <2> QED
    BY <2>1, <2>2 DEF CursorsAreDense
<1>17. ASSUME NEW k \in DOMAIN new
       PROVE  /\ k[1] = r /\ new[k].tweet \in Tweets
              /\ <<list, new[k].tweet>> \in DOMAIN listReceipts'
              /\ new[k].sequence = listReceipts'[<<list, new[k].tweet>>]
              /\ new[k].known = (new[k].sequence <= runs[r].baseline)
              /\ new[k] \in [tweet : Tweets, sequence : Nat, known : BOOLEAN]
  <2>1. k[1] = r /\ k[2] \in cursors
    BY <1>13, <1>17
  <2>2. new[k] = [tweet |-> post(k[2]), sequence |-> num(k[2]),
                  known |-> num(k[2]) <= runs[r].baseline]
    BY <1>13, <1>17 DEF new
  <2>3. post(k[2]) \in Tweets /\ <<list, post(k[2])>> \in DOMAIN listReceipts'
    BY <1>4, <1>5, <2>1
  <2>4. num(k[2]) = listReceipts'[<<list, post(k[2])>>]
    BY DEF num
  <2>5. num(k[2]) \in Nat
    BY <1>4, <2>3, <2>4 DEF Numbered
  <2> QED
    BY <2>1, <2>2, <2>3, <2>4, <2>5
<1>18. ObservationsAreTyped'
  <2>1. \A k \in DOMAIN observations' :
          observations'[k] \in [tweet : Tweets, sequence : Nat, known : BOOLEAN]
    BY <1>15, <1>17 DEF ScrapeInv, ObservationsAreTyped
  <2> QED
    BY <1>15, <2>1 DEF ObservationsAreTyped
<1>19. ASSUME NEW q \in Runs
       PROVE  /\ KnownAtBegin(q)' = KnownAtBegin(q)
              /\ runs'[q].list = runs[q].list /\ runs'[q].known = runs[q].known
  <2>1. /\ runs'[q].list = runs[q].list /\ runs'[q].known = runs[q].known
        /\ runs'[q].baseline = runs[q].baseline
    BY <1>6, <1>7 DEF list
  <2>2. runs[q].baseline \in Nat /\ runs[q].baseline <= sequence
    <3>1. sequence \in Nat /\ runs[q].baseline \in Nat
      BY DEF ScrapeInv, Shape, RunRecords, Numbered
    <3>2. CASE Begun(q)
      BY <3>1, <3>2 DEF ScrapeInv, BegunRuns
    <3>3. CASE ~Begun(q)
      <4>1. runs[q] = Absent
        BY <3>3 DEF ScrapeInv, BegunRuns
      <4> QED
        BY <3>1, <4>1 DEF Absent
    <3> QED
      BY <3>1, <3>2, <3>3
  <2> QED
    BY <1>4, <2>1, <2>2, KnownStays DEF ScrapeInv
<1>20. CoverageIsExact'
  <2>1. \A q \in Runs : runs'[q].known = Cardinality(KnownAtBegin(q)')
    BY <1>19 DEF ScrapeInv, CoverageIsExact
  <2>2. ASSUME NEW k \in DOMAIN observations
        PROVE  LET o == observations'[k]  pair == <<runs'[k[1]].list, o.tweet>> IN
                 /\ pair \in DOMAIN listReceipts'
                 /\ o.sequence = listReceipts'[pair]
                 /\ o.known = (pair \in KnownAtBegin(k[1])')
    <3>1. k[1] \in Runs
      BY DEF ScrapeInv, CursorsAreDense
    <3>2. observations'[k] = observations[k] /\ runs'[k[1]].list = runs[k[1]].list
      BY <1>15, <1>19, <3>1
    <3>3. KnownAtBegin(k[1])' = KnownAtBegin(k[1])
      BY <1>19, <3>1
    <3> QED
      BY <1>4, <3>2, <3>3 DEF ScrapeInv, CoverageIsExact, ReceiptsGrow
  <2>3. ASSUME NEW k \in DOMAIN new
        PROVE  LET o == observations'[k]  pair == <<runs'[k[1]].list, o.tweet>> IN
                 /\ pair \in DOMAIN listReceipts'
                 /\ o.sequence = listReceipts'[pair]
                 /\ o.known = (pair \in KnownAtBegin(k[1])')
    <3>1. observations'[k] = new[k] /\ k[1] = r /\ runs'[r].list = list
      BY <1>7, <1>15, <1>17, <2>3
    <3>2. \A pair \in DOMAIN listReceipts' :
            pair[1] = list => (pair \in KnownAtBegin(r)' <=> listReceipts'[pair] <= runs[r].baseline)
      BY <1>7 DEF KnownAtBegin
    <3>3. new[k].known \in BOOLEAN
      BY <1>17, <2>3
    <3> QED
      BY <1>17, <2>3, <3>1, <3>2, <3>3
  <2> QED
    BY <1>15, <2>1, <2>2, <2>3 DEF CoverageIsExact
<1>21. StreamsAreFed'
  <2> SUFFICES ASSUME NEW p \in Ports
               PROVE  /\ ports'[p].step # "closed" => ports'[p].run \in Runs
                      /\ ports'[p].step \in {"read", "open"} =>
                           ports'[p].from + 1 .. runs'[ports'[p].run].lastCursor \subseteq ports'[p].sent
    BY DEF StreamsAreFed
  <2>1. /\ ports[p] \in PortRecords
        /\ ports[p].step # "closed" => ports[p].run \in Runs
        /\ ports[p].step \in {"read", "open"} =>
             ports[p].from + 1 .. runs[ports[p].run].lastCursor \subseteq ports[p].sent
    BY DEF ScrapeInv, Shape, StreamsAreFed
  <2>2. CASE Listening(p, r)
    <3>1. /\ ports'[p].step = ports[p].step /\ ports'[p].run = r /\ ports[p].run = r
          /\ ports'[p].from = ports[p].from /\ ports[p].from \in Nat
          /\ ports'[p].sent = ports[p].sent \union cursors
      BY <1>1, <2>1, <2>2 DEF Listening, PortRecords
    <3>2. ASSUME NEW c \in ports[p].from + 1 .. runs'[r].lastCursor
          PROVE  c \in ports[p].from + 1 .. last \/ c \in cursors
      BY <1>2, <1>7, <1>9, <3>1
    <3> QED
      BY <2>1, <3>1, <3>2 DEF last
  <2>3. CASE ~Listening(p, r)
    <3>1. ports'[p] = ports[p]
      BY <1>1, <2>3
    <3>2. ports[p].step # "closed" => ports[p].run \in Runs \ {r}
      BY <2>1, <2>3 DEF Listening
    <3> QED
      BY <1>6, <2>1, <3>1, <3>2
  <2> QED
    BY <2>2, <2>3
<1> QED
  BY <1>4, <1>10, <1>11, <1>12, <1>16, <1>18, <1>20, <1>21 DEF ScrapeInv

-----------------------------------------------------------------------------
(* The invariant. *)
LEMMA InitScrape == Init => ScrapeInv
<1> SUFFICES ASSUME Init
             PROVE  ScrapeInv
  OBVIOUS
<1>1. /\ runs = [r \in Runs |-> Absent] /\ ports = [p \in Ports |-> Closed]
      /\ receipts = <<>> /\ listReceipts = <<>> /\ observations = <<>>
      /\ sequence = 0 /\ cutover = FALSE /\ cleared = FALSE /\ now = 0
  BY DEF Init
<1>2. MaxActive \in Nat /\ Lease \in Nat /\ MaxTime \in Nat /\ MaxCursor \in Nat
  BY ScrapeAssumption DEF ScrapeAssumption
<1>3. DOMAIN receipts = {} /\ DOMAIN listReceipts = {} /\ DOMAIN observations = {}
  BY <1>1
<1>4. Shape
  <2>1. Absent \in RunRecords
    BY <1>2 DEF Absent, RunRecords
  <2>2. Closed \in PortRecords
    BY <1>2 DEF Closed, PortRecords
  <2>3. runs \in [Runs -> RunRecords] /\ ports \in [Ports -> PortRecords]
    BY <1>1, <2>1, <2>2
  <2>4. now \in 0 .. MaxTime
    BY <1>1, <1>2
  <2> QED
    BY <1>1, <2>3, <2>4 DEF Shape
<1>5. BegunRuns
  BY <1>1 DEF BegunRuns, Begun, Absent, Stops
<1>6. Numbered
  BY <1>1, <1>3 DEF Numbered, SequencesAreUnique
<1>7. RunLimits
  <2>1. Running = {}
    BY <1>1 DEF Running, Absent
  <2> QED
    BY <1>2, <2>1, FS_EmptySet DEF RunLimits
<1>8. CursorsAreDense
  BY <1>1, <1>3 DEF CursorsAreDense, Absent
<1>9. ObservationsAreTyped
  BY <1>1, <1>3 DEF ObservationsAreTyped
<1>10. CoverageIsExact
  <2>1. \A r \in Runs : KnownAtBegin(r) = {} /\ runs[r].known = 0
    BY <1>1, <1>3 DEF KnownAtBegin, Absent
  <2> QED
    BY <1>3, <2>1, FS_EmptySet DEF CoverageIsExact
<1>11. StreamsAreFed
  BY <1>1 DEF StreamsAreFed, Closed
<1> QED
  BY <1>4, <1>5, <1>6, <1>7, <1>8, <1>9, <1>10, <1>11 DEF ScrapeInv

LEMMA PortStepKeeps ==
  ASSUME ScrapeInv, NEW p \in Ports, PortStep(p)
  PROVE  ScrapeInv'
BY OpenKeeps, DisconnectKeeps, RefusalKeeps, BeginRunKeeps, ReplayKeeps, AnswerKeeps, HeartbeatKeeps,
   FinishKeeps DEF PortStep

LEMMA StepKeeps ==
  ASSUME ScrapeInv, [Next]_vars
  PROVE  ScrapeInv'
<1>1. CASE UNCHANGED vars
  <2>1. UNCHANGED <<runs, recorded, cutover, ports, now, cleared>>
    BY <1>1 DEF vars, database
  <2>2. Shape' /\ StreamsAreFed'
    BY <2>1 DEF ScrapeInv, Shape, StreamsAreFed
  <2> QED
    BY <2>1, <2>2, DatabaseStands
<1>2. CASE Record
  BY <1>2, RecordKeeps, OutsideKeeps DEF Record
<1>3. CASE Tick \/ Stop \/ FinishCutover
  BY <1>3, WorkerKeeps
<1>4. CASE BeginCutover
  BY <1>4, CutoverKeeps
<1>5. CASE \E p \in Ports : PortStep(p)
  BY <1>5, PortStepKeeps
<1>6. CASE \E tab \in Tabs : TabClosed(tab)
  BY <1>6, TabClosedKeeps
<1> QED
  BY <1>1, <1>2, <1>3, <1>4, <1>5, <1>6 DEF Next

(* The inductive invariant holds in every behaviour. *)
THEOREM ScrapeInvariant == Spec => []ScrapeInv
<1>1. Init => ScrapeInv
  BY InitScrape
<1>2. ScrapeInv /\ [Next]_vars => ScrapeInv'
  BY StepKeeps
<1> QED
  BY <1>1, <1>2, PTL DEF Spec

(* At most MAX_ACTIVE_RUNS runs run, each on a tab of its own, and none     *)
(* during a cutover, whatever leases run out and runs are recovered.       *)
THEOREM LimitsHold == Spec => []RunLimits
<1>1. ScrapeInv => RunLimits
  BY DEF ScrapeInv
<1> QED
  BY <1>1, ScrapeInvariant, PTL

(* What a run reports as known is exactly what its list had shown when it  *)
(* began, whatever other runs and lists record.                            *)
THEOREM CoverageHolds == Spec => []CoverageIsExact
<1>1. ScrapeInv => CoverageIsExact
  BY DEF ScrapeInv
<1> QED
  BY <1>1, ScrapeInvariant, PTL

(* No capture sequence is given twice: the unique indexes of the receipt   *)
(* stores never abort a transaction.                                       *)
THEOREM SequencesHold == Spec => []SequencesAreUnique
<1>1. ScrapeInv => SequencesAreUnique
  BY DEF ScrapeInv, Numbered
<1> QED
  BY <1>1, ScrapeInvariant, PTL

(* A client whose request was answered has every observation of its run    *)
(* after the cursor it named.                                              *)
THEOREM StreamsAreComplete == Spec => []StreamIsComplete
<1>1. ScrapeInv => StreamIsComplete
  BY DEF ScrapeInv, StreamsAreFed, StreamIsComplete
<1> QED
  BY <1>1, ScrapeInvariant, PTL

(* A list shows at most as many posts as there are sequences. *)
LEMMA KnownIsBounded ==
  ASSUME ScrapeInv, NEW r \in Runs
  PROVE  runs[r].known \in 0 .. sequence
<1> DEFINE K == KnownAtBegin(r)
           f == [pair \in K |-> listReceipts[pair]]
<1>1. sequence \in Nat /\ IsFiniteSet(1 .. sequence) /\ Cardinality(1 .. sequence) = sequence
  <2>1. sequence \in Nat
    BY DEF ScrapeInv, Numbered
  <2> QED
    BY <2>1, FS_Interval
<1>2. K \subseteq DOMAIN listReceipts
  BY DEF KnownAtBegin
<1>3. f \in Injection(K, 1 .. sequence)
  <2>1. f \in [K -> 1 .. sequence]
    BY <1>2 DEF ScrapeInv, Numbered
  <2>2. \A a, b \in K : f[a] = f[b] => a = b
    BY <1>2 DEF ScrapeInv, Numbered, SequencesAreUnique
  <2> QED
    BY <2>1, <2>2 DEF Injection, IsInjective
<1>4. Cardinality(K) <= sequence /\ Cardinality(K) \in Nat
  BY <1>1, <1>3, FS_Injection, FS_CardinalityType
<1>5. runs[r].known = Cardinality(K)
  BY DEF ScrapeInv, CoverageIsExact
<1> QED
  BY <1>1, <1>4, <1>5

(* The types of the variables. *)
THEOREM ScrapeTypeCorrect == Spec => []TypeOK
<1>1. ASSUME ScrapeInv
      PROVE  TypeOK
  <2>1. sequence \in Nat
    BY <1>1 DEF ScrapeInv, Numbered
  <2>2. ASSUME NEW r \in Runs
        PROVE  /\ <<runs[r].state, runs[r].stop>> \in Stops
               /\ runs[r].list \in Lists \union {NoList} /\ runs[r].tab \in Tabs \union {NoRun}
               /\ runs[r].lease \in 0 .. MaxTime + Lease /\ runs[r].lastCursor \in 0 .. MaxCursor
               /\ {runs[r].baseline, runs[r].known} \subseteq 0 .. sequence
    <3>1. runs[r] \in RunRecords /\ <<runs[r].state, runs[r].stop>> \in Stops
      BY <1>1 DEF ScrapeInv, Shape, BegunRuns
    <3>2. runs[r].known \in 0 .. sequence
      BY <1>1, KnownIsBounded
    <3>3. runs[r].baseline \in 0 .. sequence
      <4>1. runs[r].baseline \in Nat
        BY <3>1 DEF RunRecords
      <4>2. runs[r].baseline <= sequence
        <5>1. CASE Begun(r)
          BY <1>1, <5>1 DEF ScrapeInv, BegunRuns
        <5>2. CASE ~Begun(r)
          <6>1. runs[r] = Absent
            BY <1>1, <5>2 DEF ScrapeInv, BegunRuns
          <6> QED
            BY <2>1, <6>1 DEF Absent
        <5> QED
          BY <5>1, <5>2
      <4> QED
        BY <2>1, <4>1, <4>2
    <3> QED
      BY <3>1, <3>2, <3>3 DEF RunRecords
  <2>3. /\ receipts \in [DOMAIN receipts -> 1 .. sequence] /\ DOMAIN receipts \subseteq Tweets
        /\ listReceipts \in [DOMAIN listReceipts -> 1 .. sequence]
        /\ DOMAIN listReceipts \subseteq Lists \X Tweets
    BY <1>1 DEF ScrapeInv, Numbered
  <2>4. observations \in [DOMAIN observations ->
                            [tweet : Tweets, sequence : 1 .. sequence, known : BOOLEAN]]
    <3>1. ASSUME NEW k \in DOMAIN observations
          PROVE  observations[k] \in [tweet : Tweets, sequence : 1 .. sequence, known : BOOLEAN]
      <4>1. observations[k] \in [tweet : Tweets, sequence : Nat, known : BOOLEAN]
        BY <1>1 DEF ScrapeInv, ObservationsAreTyped
      <4>2. PICK pair \in DOMAIN listReceipts : observations[k].sequence = listReceipts[pair]
        BY <1>1 DEF ScrapeInv, CoverageIsExact
      <4>3. observations[k].sequence \in 1 .. sequence
        BY <2>3, <4>2
      <4> QED
        BY <4>1, <4>3
    <3> QED
      BY <1>1, <3>1 DEF ScrapeInv, ObservationsAreTyped
  <2>5. DOMAIN observations \subseteq Runs \X (1 .. MaxCursor)
    BY <1>1 DEF ScrapeInv, CursorsAreDense
  <2>6. /\ cutover \in BOOLEAN /\ cleared \in BOOLEAN /\ now \in 0 .. MaxTime
        /\ \A p \in Ports :
             /\ ports[p].step \in {"closed", "opening", "begun", "read", "open", "refused"}
             /\ ports[p].run \in Runs \union {NoRun}
             /\ ports[p].from \in 0 .. MaxCursor /\ ports[p].sent \subseteq 1 .. MaxCursor
    BY <1>1 DEF ScrapeInv, Shape, PortRecords
  <2> QED
    BY <2>1, <2>2, <2>3, <2>4, <2>5, <2>6 DEF TypeOK
<1> QED
  BY <1>1, ScrapeInvariant, PTL

-----------------------------------------------------------------------------
(* The action properties. *)
FinalStands(r) == Final(r) => Final(r)' /\ runs'[r].state = runs[r].state

(* beginRun refuses a final run, and sweeps only running ones. *)
LEMMA FinalAtBegin ==
  ASSUME ScrapeInv, NEW p, NEW list, NEW tab, BeginRun(p, list, tab), NEW r \in Runs
  PROVE  FinalStands(r)
<1> SUFFICES ASSUME Final(r)
             PROVE  Final(r)' /\ runs'[r].state = runs[r].state
  BY DEF FinalStands
<1> DEFINE q == ports[p].run
<1>1. r \notin Running /\ r \notin Active /\ Swept[r] = runs[r]
  BY DEF Final, Running, Active, Swept
<1>2. q # r
  BY <1>1 DEF BeginRun, Begin, Reopen, Recover, Final, Recoverable
<1>3. runs'[r] = Swept[r]
  <2>1. PICK run : runs' = [Swept EXCEPT ![q] = run]
    BY DEF BeginRun, Begin, Reopen, Recover
  <2>2. Swept \in [Runs -> RunRecords]
    BY SweptRuns
  <2> QED
    BY <1>2, <2>1, <2>2
<1> QED
  BY <1>1, <1>3 DEF Final

LEMMA FinalAtEnding ==
  ASSUME ScrapeInv, NEW r \in Runs,
         \/ BeginCutover
         \/ \E tab \in Tabs : TabClosed(tab)
         \/ \E tab, list, ts : RecordOutside(tab, list, ts)
  PROVE  FinalStands(r)
<1> SUFFICES ASSUME Final(r)
             PROVE  runs'[r] = runs[r]
  BY DEF FinalStands, Final
<1>1. r \notin Running
  BY DEF Final, Running
<1> QED
  BY <1>1 DEF BeginCutover, TabClosed, RecordOutside

(* A run that its client or a cutover ended while it was running, and that *)
(* therefore has no reason to be recovered from, keeps its outcome.        *)
THEOREM OutcomesAreFinal == Spec => FinalRunsStayFinal
<1>1. ASSUME ScrapeInv, Next, NEW r \in Runs
      PROVE  FinalStands(r)
  <2>0. runs \in [Runs -> RunRecords]
    BY <1>1 DEF ScrapeInv, Shape
  <2>1. CASE UNCHANGED runs
    BY <2>1 DEF FinalStands, Final
  <2>2. ASSUME NEW p \in Ports, PortStep(p)
        PROVE  FinalStands(r)
    <3>1. ASSUME NEW q \in Runs, NEW tab, NEW at, Heartbeat(p, q, tab, at)
          PROVE  FinalStands(r)
      <4>1. q \in Running /\ runs' = [runs EXCEPT ![q] = Renewed(@, at)]
        BY <3>1 DEF Heartbeat
      <4>2. Final(r) => r # q
        BY <4>1 DEF Final, Running
      <4> QED
        BY <2>0, <4>1, <4>2 DEF FinalStands, Final
    <3>2. ASSUME NEW q \in Runs, NEW state \in {"aborted", "completed", "failed"},
                 FinishRun(p, q, state)
          PROVE  FinalStands(r)
      <4>1. runs' = [runs EXCEPT ![q].state = state] /\ runs[q].state \in {"running", state}
        BY <3>2 DEF FinishRun
      <4> QED
        BY <2>0, <4>1 DEF FinalStands, Final, RunRecords
    <3>3. ASSUME NEW list, NEW tab, BeginRun(p, list, tab)
          PROVE  FinalStands(r)
      BY <1>1, <3>3, FinalAtBegin
    <3>4. ASSUME \/ \E q \in Runs : Open(p, q)
                 \/ Disconnect(p) \/ CaptureFails(p) \/ AnswerOpened(p)
                 \/ \E list \in Lists, tab \in Tabs : RefuseRun(p, list, tab)
                 \/ \E from \in 0 .. MaxCursor : ReadObservations(p, from)
          PROVE  UNCHANGED runs
      BY <3>4 DEF Open, Disconnect, CaptureFails, AnswerOpened, RefuseRun, ReadObservations, database
    <3> QED
      BY <2>1, <2>2, <3>1, <3>2, <3>3, <3>4 DEF PortStep
  <2>3. ASSUME NEW q \in Runs, NEW ts, RecordInRun(q, ts)
        PROVE  FinalStands(r)
    <3>1. q \in Running /\ runs' = [runs EXCEPT ![q].lastCursor = @ + Len(ts)]
      BY <2>3 DEF RecordInRun, Active
    <3>2. Final(r) => r # q
      BY <3>1 DEF Final, Running
    <3> QED
      BY <2>0, <3>1, <3>2 DEF FinalStands, Final
  <2>4. ASSUME Tick \/ Stop \/ FinishCutover
        PROVE  UNCHANGED runs
    BY <2>4 DEF Tick, Stop, FinishCutover, database
  <2> QED
    BY <1>1, <2>1, <2>2, <2>3, <2>4, FinalAtEnding DEF Next, Record
<1>2. ScrapeInv /\ [Next]_vars => [\A r \in Runs : Final(r) => Final(r)' /\ runs'[r].state = runs[r].state]_vars
  BY <1>1 DEF FinalStands
<1> QED
  BY <1>2, ScrapeInvariant, PTL DEF Spec, FinalRunsStayFinal

CursorsGrow ==
  /\ \A k \in DOMAIN observations :
       k \in DOMAIN observations' /\ observations'[k] = observations[k]
  /\ \A k \in DOMAIN observations' \ DOMAIN observations : k[2] > runs[k[1]].lastCursor
  /\ \A r \in Runs : runs'[r].lastCursor >= runs[r].lastCursor

(* A response that is recorded takes the cursors after the last one, where *)
(* nothing is stored: putting its observations replaces none.              *)
LEMMA CursorsGrowInRun ==
  ASSUME ScrapeInv, NEW r \in Runs, NEW ts \in Responses, RecordInRun(r, ts)
  PROVE  CursorsGrow
<1> DEFINE last == runs[r].lastCursor
           cursors == last + 1 .. last + Len(ts)
<1>1. PICK new : DOMAIN new = {r} \X cursors /\ observations' = Merged(new, observations)
  BY DEF RecordInRun
<1>2. runs' = [runs EXCEPT ![r].lastCursor = @ + Len(ts)]
  BY DEF RecordInRun
<1>3. /\ runs \in [Runs -> RunRecords] /\ Len(ts) \in Nat
      /\ \A q \in Runs : runs[q].lastCursor \in Nat
  BY ScrapeAssumption DEF ScrapeAssumption, ScrapeInv, Shape, RunRecords
<1>4. ASSUME NEW k \in DOMAIN observations
      PROVE  k[1] = r => k[2] <= last
  BY DEF ScrapeInv, CursorsAreDense
<1>5. \A k \in DOMAIN observations : k[2] \in Nat
  BY DEF ScrapeInv, CursorsAreDense
<1>6. \A c \in cursors : c > last /\ c \in Nat
  BY <1>3
<1>7. last \in Nat /\ \A q \in Runs : runs'[q].lastCursor = IF q = r THEN last + Len(ts)
                                                                   ELSE runs[q].lastCursor
  BY <1>2, <1>3 DEF RunRecords
<1> HIDE DEF cursors
<1>8. \A k \in DOMAIN new : k[1] = r /\ k[2] > last /\ k[2] \in Nat
  BY <1>1, <1>6
<1> HIDE DEF last
<1>9. \A k \in DOMAIN observations : k \notin DOMAIN new
  BY <1>4, <1>5, <1>7, <1>8
<1>10. \A k \in DOMAIN observations : k \in DOMAIN observations' /\ observations'[k] = observations[k]
  BY <1>1, <1>9 DEF Merged
<1>11. \A k \in DOMAIN observations' \ DOMAIN observations : k[2] > runs[k[1]].lastCursor
  BY <1>1, <1>8 DEF Merged, last
<1>12. \A q \in Runs : runs'[q].lastCursor >= runs[q].lastCursor
  BY <1>3, <1>7 DEF last
<1> QED
  BY <1>10, <1>11, <1>12 DEF CursorsGrow

(* No observation is replaced, and the cursors of a run only grow.         *)
THEOREM CursorsAreStable == Spec => CursorsOnlyGrow
<1>1. ASSUME ScrapeInv, UNCHANGED observations,
             \A r \in Runs : runs'[r].lastCursor = runs[r].lastCursor
      PROVE  CursorsGrow
  <2>1. \A r \in Runs : runs[r].lastCursor \in Nat
    BY <1>1 DEF ScrapeInv, Shape, RunRecords
  <2> QED
    BY <1>1, <2>1 DEF CursorsGrow
<1>2. ASSUME ScrapeInv, Next
      PROVE  CursorsGrow
  <2>0. runs \in [Runs -> RunRecords]
    BY <1>2 DEF ScrapeInv, Shape
  <2>1. ASSUME UNCHANGED database
        PROVE  CursorsGrow
    BY <1>1, <1>2, <2>1 DEF database, recorded
  <2>2. ASSUME NEW p \in Ports, PortStep(p)
        PROVE  CursorsGrow
    <3>1. ASSUME NEW q \in Runs, NEW tab, NEW at, Heartbeat(p, q, tab, at)
          PROVE  CursorsGrow
      BY <1>1, <1>2, <2>0, <3>1 DEF Heartbeat, Renewed, recorded, RunRecords
    <3>2. ASSUME NEW q \in Runs, NEW state, FinishRun(p, q, state)
          PROVE  CursorsGrow
      BY <1>1, <1>2, <2>0, <3>2 DEF FinishRun, recorded, RunRecords
    <3>3. ASSUME NEW list, NEW tab, BeginRun(p, list, tab)
          PROVE  CursorsGrow
      <4> DEFINE q == ports[p].run
      <4>1. q \in Runs
        BY <1>2, <3>3, PortsTyped DEF BeginRun
      <4>2. Swept \in [Runs -> RunRecords] /\ \A r \in Runs : Swept[r].lastCursor = runs[r].lastCursor
        BY <1>2, <4>1, SweptRuns
      <4> HIDE DEF q
      <4>3. ASSUME Begin(q, list, tab)
            PROVE  runs'[q].lastCursor = runs[q].lastCursor
        <5>1. runs[q] = Absent
          BY <1>2, <4>1, <4>3 DEF Begin, ScrapeInv, BegunRuns, Begun
        <5> QED
          BY <4>1, <4>2, <4>3, <5>1 DEF Begin, Absent
      <4>4. ASSUME Reopen(q, list, tab) \/ Recover(q, list, tab)
            PROVE  runs'[q].lastCursor = runs[q].lastCursor
        <5>1. \/ runs' = [Swept EXCEPT ![q] = Renewed(@, now)]
              \/ runs' = [Swept EXCEPT ![q] =
                           Renewed([Ended(@, "running", "none") EXCEPT !.tab = tab], now)]
          BY <4>4 DEF Reopen, Recover
        <5>2. \/ runs'[q] = Renewed(Swept[q], now)
              \/ runs'[q] = Renewed([Ended(Swept[q], "running", "none") EXCEPT !.tab = tab], now)
          BY <4>1, <4>2, <5>1
        <5>3. runs'[q].lastCursor = Swept[q].lastCursor
          BY <4>1, <4>2, <5>2 DEF Renewed, Ended, RunRecords
        <5> QED
          BY <4>1, <4>2, <5>3
      <4>5. \A r \in Runs \ {q} : runs'[r] = Swept[r]
        <5>1. PICK run : runs' = [Swept EXCEPT ![q] = run]
          BY <3>3 DEF BeginRun, Begin, Reopen, Recover, q
        <5> QED
          BY <4>2, <5>1
      <4>6. \A r \in Runs : runs'[r].lastCursor = runs[r].lastCursor
        BY <3>3, <4>2, <4>3, <4>4, <4>5 DEF BeginRun, q
      <4> QED
        BY <1>1, <1>2, <3>3, <4>6 DEF BeginRun, recorded
    <3>4. ASSUME \/ \E q \in Runs : Open(p, q)
                 \/ Disconnect(p) \/ CaptureFails(p) \/ AnswerOpened(p)
                 \/ \E list \in Lists, tab \in Tabs : RefuseRun(p, list, tab)
                 \/ \E from \in 0 .. MaxCursor : ReadObservations(p, from)
          PROVE  UNCHANGED database
      BY <3>4 DEF Open, Disconnect, CaptureFails, AnswerOpened, RefuseRun, ReadObservations
    <3> QED
      BY <2>1, <2>2, <3>1, <3>2, <3>3, <3>4 DEF PortStep
  <2>3. ASSUME NEW Ending \in SUBSET Running, NEW state, NEW stop,
               runs' = [r \in Runs |-> IF r \in Ending THEN Ended(runs[r], state, stop)
                                                       ELSE runs[r]],
               UNCHANGED observations
        PROVE  CursorsGrow
    BY <1>1, <1>2, <2>0, <2>3 DEF Ended, RunRecords
  <2>4. ASSUME BeginCutover
        PROVE  CursorsGrow
    BY <2>3, <2>4 DEF BeginCutover, recorded
  <2>5. ASSUME NEW tab, TabClosed(tab)
        PROVE  CursorsGrow
    <3> DEFINE Ending == {r \in Running : runs[r].tab = tab}
    <3>1. /\ runs' = [r \in Runs |-> IF r \in Ending THEN Ended(runs[r], "aborted", "source-tab-closed")
                                                    ELSE runs[r]]
          /\ UNCHANGED observations /\ Ending \in SUBSET Running
      BY <2>5 DEF TabClosed, recorded
    <3> HIDE DEF Ending
    <3> QED
      BY <2>3, <3>1
  <2>6. ASSUME NEW tab, NEW list, NEW ts, RecordOutside(tab, list, ts)
        PROVE  CursorsGrow
    <3> DEFINE Ending == {r \in Running : runs[r].tab = tab}
    <3>1. /\ runs' = [r \in Runs |-> IF r \in Ending THEN Ended(runs[r], "failed", "lease-expired")
                                                    ELSE runs[r]]
          /\ UNCHANGED observations /\ Ending \in SUBSET Running
      BY <2>6 DEF RecordOutside, Expired
    <3> HIDE DEF Ending
    <3> QED
      BY <2>3, <3>1
  <2>7. ASSUME Tick \/ Stop
        PROVE  UNCHANGED database
    BY <2>7 DEF Tick, Stop
  <2>8. ASSUME FinishCutover
        PROVE  CursorsGrow
    BY <1>1, <1>2, <2>8 DEF FinishCutover, recorded
  <2> QED
    BY <1>2, <2>1, <2>2, <2>4, <2>5, <2>6, <2>7, <2>8, CursorsGrowInRun DEF Next, Record
<1>3. ScrapeInv /\ [Next]_vars =>
        [/\ \A k \in DOMAIN observations :
              k \in DOMAIN observations' /\ observations'[k] = observations[k]
         /\ \A k \in DOMAIN observations' \ DOMAIN observations :
              k[2] > runs[k[1]].lastCursor
         /\ \A r \in Runs : runs'[r].lastCursor >= runs[r].lastCursor]_vars
  BY <1>2 DEF CursorsGrow
<1> QED
  BY <1>3, ScrapeInvariant, PTL DEF Spec, CursorsOnlyGrow
=============================================================================
