--------------------------- MODULE ScrapeReceipts ---------------------------
(***************************************************************************)
(* Receipts of scrape runs: extension/lib/scrape-receipts.js, the IndexedDB *)
(* store, and extension/lib/scrape-bridge.js, its port to the scroller.    *)
(*                                                                         *)
(* A client opens a run for a list on a source tab and keeps it alive by   *)
(* heartbeats.  Timeline responses of that tab become observations of the  *)
(* run, numbered by a cursor, and receipts: which list showed which post,  *)
(* numbered by a capture sequence.  Clients, responses, closed tabs, the   *)
(* cutover page and worker restarts interleave at every transaction.       *)
(* Every operation of the store is one IndexedDB transaction over the runs *)
(* and is atomic; the handler of an open request is four steps.            *)
(***************************************************************************)
EXTENDS Integers, Sequences, FiniteSets

CONSTANTS
  Runs,       \* run IDs clients use
  Lists,      \* what fixes the parameters of a run: listId and startedAtMs
  Tabs,       \* source tabs
  Tweets,     \* posts
  Responses,  \* the posts of a timeline response, each once
  Ports,      \* connections of clients
  MaxActive,  \* MAX_ACTIVE_RUNS
  Lease,      \* SCRAPE_RUN_LEASE_MS
  NoList,     \* stands for a request that names no list
  NoRun,      \* stands for a port that asked for nothing yet
  MaxTime,    \* bound of the model: the clock stops here
  MaxCursor   \* bound of the model: observations of one run

ASSUME ScrapeAssumption ==
  /\ IsFiniteSet(Runs) /\ IsFiniteSet(Lists) /\ IsFiniteSet(Tweets)
  /\ NoList \notin Lists /\ NoRun \notin Runs
  /\ \A ts \in Responses : ts \in Seq(Tweets) /\ \A i, j \in DOMAIN ts : ts[i] = ts[j] => i = j
  /\ MaxActive \in Nat /\ Lease \in Nat /\ MaxTime \in Nat /\ MaxCursor \in Nat

VARIABLES
  \* the database, which survives the worker
  runs,          \* store runs
  receipts,      \* store receipts: post -> sequence of its first receipt
  listReceipts,  \* store listReceipts: <<list, post>> -> sequence
  observations,  \* store observations: <<run, cursor>> -> observation
  sequence,      \* meta captureSequence
  cutover,       \* meta cutoverInProgress
  \* the worker
  cleared,       \* cutoverClearPromise has resolved
  ports,         \* connections
  \* the environment
  now

recorded == <<receipts, listReceipts, observations, sequence>>
database == <<runs, cutover, recorded>>
vars == <<database, cleared, ports, now>>

-----------------------------------------------------------------------------
Absent ==
  [state |-> "none", stop |-> "none", list |-> NoList, tab |-> NoRun, lease |-> 0,
   baseline |-> 0, known |-> 0, lastCursor |-> 0]

Closed == [step |-> "closed", run |-> NoRun, from |-> 0, sent |-> {}]

Running == {r \in Runs : runs[r].state = "running"}

HasLiveLease(r) == runs[r].lease > now
Active == {r \in Running : HasLiveLease(r)}

Ended(run, state, stop) == [run EXCEPT !.state = state, !.stop = stop]
Renewed(run, at) == [run EXCEPT !.lease = at + Lease]
Expired(run) == Ended(run, "failed", "lease-expired")

(* Mutant: every run that did not complete can go on. *)
RecoverableUnlessDone(run) == run.state # "completed"

Recoverable(run) == run.stop \in {"lease-expired", "source-tab-closed"}

(* A new run, or a recovered one, needs a tab of its own and a place. *)
HasPlace(tab) ==
  /\ \A r \in Active : runs[r].tab # tab
  /\ Cardinality(Active) < MaxActive

-----------------------------------------------------------------------------
Init ==
  /\ runs = [r \in Runs |-> Absent]
  /\ receipts = <<>> /\ listReceipts = <<>> /\ observations = <<>>
  /\ sequence = 0 /\ cutover = FALSE
  /\ cleared = FALSE /\ ports = [p \in Ports |-> Closed]
  /\ now = 0

Tick == now < MaxTime /\ now' = now + 1 /\ UNCHANGED <<database, cleared, ports>>

(* The worker is stopped, or the cutover page reloads the extension. *)
Stop ==
  /\ cleared' = FALSE
  /\ ports' = [p \in Ports |-> Closed]
  /\ UNCHANGED <<database, now>>

(* A new worker clears the cutover once, before it handles any message. *)
FinishCutover ==
  /\ ~cleared
  /\ cleared' = TRUE
  /\ cutover' = FALSE
  /\ UNCHANGED <<runs, recorded, ports, now>>

BeginCutover ==
  /\ cutover' = TRUE
  /\ runs' = [r \in Runs |-> IF r \in Running THEN Ended(runs[r], "failed", "none") ELSE runs[r]]
  /\ UNCHANGED <<recorded, cleared, ports, now>>

-----------------------------------------------------------------------------
(* Opening a run: the port asks, capture is attached to the tab, the run   *)
(* begins, and what it observed already is sent.  The port gets live       *)
(* observations from the moment it asked.                                  *)
Open(p, r) ==
  /\ cleared
  /\ ports[p].step \in {"closed", "refused", "open"}
  /\ ports' = [ports EXCEPT ![p] = [Closed EXCEPT !.step = "opening", !.run = r]]
  /\ UNCHANGED <<database, cleared, now>>

Disconnect(p) ==
  /\ ports[p].step # "closed"
  /\ ports' = [ports EXCEPT ![p] = Closed]
  /\ UNCHANGED <<database, cleared, now>>

(* Mutant: a port is known by its run only after the replay. *)
ListeningOnceOpen(p, r) == ports[p].step = "open" /\ ports[p].run = r

Listening(p, r) == ports[p].step # "closed" /\ ports[p].run = r

Answer(p, step) == ports' = [ports EXCEPT ![p].step = step]

CaptureFails(p) ==
  /\ ports[p].step = "opening"
  /\ Answer(p, "refused")
  /\ UNCHANGED <<database, cleared, now>>

(* beginRun expires every run whose lease has run out, and aborts with the *)
(* whole transaction if it refuses.                                        *)
Swept == [r \in Runs |-> IF r \in Running \ Active THEN Expired(runs[r]) ELSE runs[r]]

Begin(r, list, tab) ==
  /\ runs[r].state = "none"
  /\ HasPlace(tab)
  /\ runs' = [Swept EXCEPT ![r] =
       [state |-> "running", stop |-> "none", list |-> list, tab |-> tab,
        lease |-> now + Lease, baseline |-> sequence,
        known |-> Cardinality({pair \in DOMAIN listReceipts : pair[1] = list}),
        lastCursor |-> 0]]

Reopen(r, list, tab) ==
  /\ r \in Active /\ runs[r].list = list /\ runs[r].tab = tab
  /\ runs' = [Swept EXCEPT ![r] = Renewed(@, now)]

(* Mutant: a recovered run numbers its observations anew. *)
RecoverFromZero(r, list, tab) ==
  /\ Swept[r].state \notin {"none", "running"} /\ Recoverable(Swept[r])
  /\ runs[r].list = list
  /\ HasPlace(tab)
  /\ runs' = [Swept EXCEPT ![r] =
       Renewed([Ended(@, "running", "none") EXCEPT !.tab = tab, !.lastCursor = 0], now)]

(* Mutant: the limits are forgotten when a run is recovered. *)
RecoverWithoutPlace(r, list, tab) ==
  /\ Swept[r].state \notin {"none", "running"} /\ Recoverable(Swept[r])
  /\ runs[r].list = list
  /\ runs' = [Swept EXCEPT ![r] = Renewed([Ended(@, "running", "none") EXCEPT !.tab = tab], now)]

Recover(r, list, tab) ==
  /\ Swept[r].state \notin {"none", "running"} /\ Recoverable(Swept[r])
  /\ runs[r].list = list
  /\ HasPlace(tab)
  /\ runs' = [Swept EXCEPT ![r] = Renewed([Ended(@, "running", "none") EXCEPT !.tab = tab], now)]

BeginRun(p, list, tab) ==
  /\ ports[p].step = "opening"
  /\ ~cutover
  /\ \/ Begin(ports[p].run, list, tab)
     \/ Reopen(ports[p].run, list, tab)
     \/ Recover(ports[p].run, list, tab)
  /\ Answer(p, "begun")
  /\ UNCHANGED <<cutover, recorded, cleared, now>>

(* The transaction is aborted: cutover, another tab or other parameters, a *)
(* terminal run, no place.                                                 *)
RefuseRun(p, list, tab) ==
  /\ ports[p].step = "opening"
  /\ LET r == ports[p].run IN
       \/ cutover
       \/ Swept[r].state # "none" /\ runs[r].list # list
       \/ Swept[r].state = "running" /\ runs[r].tab # tab
       \/ Swept[r].state \notin {"none", "running"} /\ ~Recoverable(Swept[r])
       \/ Swept[r].state # "running" /\ ~HasPlace(tab)
  /\ Answer(p, "refused")
  /\ UNCHANGED <<database, cleared, now>>

Cursors(r) == {k[2] : k \in {key \in DOMAIN observations : key[1] = r}}

(* readObservations: responses can be recorded before it is answered. *)
ReadObservations(p, from) ==
  /\ ports[p].step = "begun"
  /\ ports' = [ports EXCEPT ![p].step = "read", ![p].from = from,
                            ![p].sent = @ \union {c \in Cursors(ports[p].run) : c > from}]
  /\ UNCHANGED <<database, cleared, now>>

AnswerOpened(p) ==
  /\ ports[p].step = "read"
  /\ Answer(p, "open")
  /\ UNCHANGED <<database, cleared, now>>

(* A heartbeat carries the client's time, and may be late. *)
Heartbeat(p, r, tab, at) ==
  /\ cleared /\ ports[p].step # "closed"
  /\ r \in Running /\ runs[r].tab = tab
  /\ runs' = [runs EXCEPT ![r] = Renewed(@, at)]
  /\ UNCHANGED <<cutover, recorded, cleared, ports, now>>

FinishRun(p, r, state) ==
  /\ cleared /\ ports[p].step # "closed"
  /\ runs[r].state \in {"running", state}
  /\ runs' = [runs EXCEPT ![r].state = state]
  /\ UNCHANGED <<cutover, recorded, cleared, ports, now>>

(* finishRunsForSourceTab: the browser closed the tab. *)
TabClosed(tab) ==
  /\ \E r \in Running : runs[r].tab = tab
  /\ runs' = [r \in Runs |-> IF r \in Running /\ runs[r].tab = tab
                             THEN Ended(runs[r], "aborted", "source-tab-closed") ELSE runs[r]]
  /\ UNCHANGED <<cutover, recorded, cleared, ports, now>>

-----------------------------------------------------------------------------
(* recordTimeline, live or when a staged response is recovered.            *)
Posts(ts) == {ts[i] : i \in DOMAIN ts}

(* Mutant: only a post that no list has shown moves the sequence.         *)
IsNewAnywhere(list, t) == t \notin DOMAIN receipts

IsNew(list, t) == t \notin DOMAIN receipts \/ <<list, t>> \notin DOMAIN listReceipts

(* The sequence after the first n posts of a response. *)
SequenceAfter(list, ts, n) == sequence + Cardinality({i \in 1 .. n : IsNew(list, ts[i])})

(* Two sets of entries in one store, where the first has precedence: a     *)
(* receipt is only added, an observation is put over what is there.        *)
Merged(first, second) ==
  [k \in DOMAIN first \union DOMAIN second |->
     IF k \in DOMAIN first THEN first[k] ELSE second[k]]

(* What a post that is new gets. *)
Number(list, ts, t) == SequenceAfter(list, ts, CHOOSE i \in DOMAIN ts : ts[i] = t)

AddReceipts(list, ts) ==
  /\ receipts' = Merged(receipts, [t \in Posts(ts) |-> Number(list, ts, t)])
  /\ listReceipts' =
       Merged(listReceipts, [pair \in {list} \X Posts(ts) |-> Number(list, ts, pair[2])])
  /\ sequence' = SequenceAfter(list, ts, Len(ts))

(* A response of a tab that an active run is bound to, whatever list the   *)
(* request names.                                                          *)
RecordInRun(r, ts) ==
  LET cursors == runs[r].lastCursor + 1 .. runs[r].lastCursor + Len(ts)
      post(c) == ts[c - runs[r].lastCursor]
      number(c) == listReceipts'[<<runs[r].list, post(c)>>]
  IN /\ r \in Active
     /\ runs[r].lastCursor + Len(ts) <= MaxCursor
     /\ AddReceipts(runs[r].list, ts)
     /\ observations' = Merged(
          [k \in {r} \X cursors |->
            [tweet |-> post(k[2]), sequence |-> number(k[2]),
             known |-> number(k[2]) <= runs[r].baseline]], observations)
     /\ runs' = [runs EXCEPT ![r].lastCursor = @ + Len(ts)]
     /\ ports' = [p \in Ports |-> IF Listening(p, r)
                                  THEN [ports[p] EXCEPT !.sent = @ \union cursors]
                                  ELSE ports[p]]
     /\ UNCHANGED <<cutover, cleared, now>>

(* A response of another tab, or of one whose run has lost its lease. *)
RecordOutside(tab, list, ts) ==
  /\ \A r \in Active : runs[r].tab # tab
  /\ runs' = [r \in Runs |-> IF r \in Running /\ runs[r].tab = tab THEN Expired(runs[r])
                                                                   ELSE runs[r]]
  /\ IF list = NoList THEN UNCHANGED <<receipts, listReceipts, sequence>>
                      ELSE AddReceipts(list, ts)
  /\ UNCHANGED <<observations, cutover, cleared, ports, now>>

-----------------------------------------------------------------------------
PortStep(p) ==
  \/ \E r \in Runs : Open(p, r)
  \/ Disconnect(p)
  \/ CaptureFails(p)
  \/ \E list \in Lists, tab \in Tabs : BeginRun(p, list, tab) \/ RefuseRun(p, list, tab)
  \/ \E from \in 0 .. MaxCursor : ReadObservations(p, from)
  \/ AnswerOpened(p)
  \/ \E r \in Runs, tab \in Tabs, at \in 0 .. now : Heartbeat(p, r, tab, at)
  \/ \E r \in Runs, state \in {"aborted", "completed", "failed"} : FinishRun(p, r, state)

Record ==
  \E ts \in Responses :
    \/ \E r \in Runs : RecordInRun(r, ts)
    \/ \E tab \in Tabs, list \in Lists \union {NoList} : RecordOutside(tab, list, ts)

Next ==
  \/ Tick \/ Stop \/ FinishCutover \/ BeginCutover
  \/ \E p \in Ports : PortStep(p)
  \/ \E tab \in Tabs : TabClosed(tab)
  \/ Record

Spec == Init /\ [][Next]_vars

-----------------------------------------------------------------------------
Stops == {<<"none", "none">>, <<"running", "none">>, <<"completed", "none">>,
          <<"failed", "none">>, <<"failed", "lease-expired">>,
          <<"aborted", "none">>, <<"aborted", "source-tab-closed">>}

(* The types of the variables; only a run that has ended has a reason why  *)
(* it stopped.                                                             *)
TypeOK ==
  /\ \A r \in Runs :
       /\ <<runs[r].state, runs[r].stop>> \in Stops
       /\ runs[r].list \in Lists \union {NoList} /\ runs[r].tab \in Tabs \union {NoRun}
       /\ runs[r].lease \in 0 .. MaxTime + Lease /\ runs[r].lastCursor \in 0 .. MaxCursor
       /\ {runs[r].baseline, runs[r].known} \subseteq 0 .. sequence
  /\ receipts \in [DOMAIN receipts -> 1 .. sequence] /\ DOMAIN receipts \subseteq Tweets
  /\ listReceipts \in [DOMAIN listReceipts -> 1 .. sequence]
  /\ DOMAIN listReceipts \subseteq Lists \X Tweets
  /\ observations \in [DOMAIN observations ->
                         [tweet : Tweets, sequence : 1 .. sequence, known : BOOLEAN]]
  /\ DOMAIN observations \subseteq Runs \X (1 .. MaxCursor)
  /\ sequence \in Nat /\ cutover \in BOOLEAN /\ cleared \in BOOLEAN
  /\ \A p \in Ports :
       /\ ports[p].step \in {"closed", "opening", "begun", "read", "open", "refused"}
       /\ ports[p].run \in Runs \union {NoRun}
       /\ ports[p].from \in 0 .. MaxCursor /\ ports[p].sent \subseteq 1 .. MaxCursor
  /\ now \in 0 .. MaxTime

(* At most MAX_ACTIVE_RUNS runs are running, each on a source tab of its   *)
(* own, and none during a cutover, through renewals of leases that have    *)
(* run out, recoveries on other tabs and expired runs nobody swept yet     *)
(* (beginRun and renewRun of scrape-receipts.js).                          *)
RunLimits ==
  /\ Cardinality(Running) <= MaxActive
  /\ \A q, r \in Running : runs[q].tab = runs[r].tab => q = r
  /\ cutover => Running = {}

(* A run that its client or a cutover ended while it was running never     *)
(* runs again and keeps its outcome, whatever client or heartbeat asks for *)
(* it later (run-terminal in scrape-receipts.js).  A run that lost its     *)
(* lease or its tab first is not final: it keeps the reason it can be      *)
(* recovered from, also when its client closes it afterwards.              *)
Final(r) == runs[r].state \notin {"none", "running"} /\ runs[r].stop = "none"
FinalRunsStayFinal ==
  [][\A r \in Runs : Final(r) => Final(r)' /\ runs'[r].state = runs[r].state]_vars

(* What a run counts as known is exactly what its list had shown when the  *)
(* run began: the number it reports, and the flag of each observation,     *)
(* also when another tab or another list shows the post during the run     *)
(* (recordTimeline of scrape-receipts.js).                                 *)
KnownAtBegin(r) ==
  {pair \in DOMAIN listReceipts : pair[1] = runs[r].list /\ listReceipts[pair] <= runs[r].baseline}
CoverageIsExact ==
  /\ \A r \in Runs : runs[r].known = Cardinality(KnownAtBegin(r))
  /\ \A k \in DOMAIN observations :
       LET o == observations[k]  pair == <<runs[k[1]].list, o.tweet>> IN
         /\ pair \in DOMAIN listReceipts
         /\ o.sequence = listReceipts[pair]
         /\ o.known = (pair \in KnownAtBegin(k[1]))

(* Two posts never get one capture sequence: the unique index on the       *)
(* receipts would abort the transaction, and a list could not tell which   *)
(* of its posts came before a run (createSchema, recordTimeline).          *)
SequencesAreUnique ==
  /\ \A t, u \in DOMAIN receipts : receipts[t] = receipts[u] => t = u
  /\ \A a, b \in DOMAIN listReceipts : listReceipts[a] = listReceipts[b] => a = b

(* An observation is never replaced, and the next one of its run has the   *)
(* next cursor, also after the run was recovered on another tab: a client  *)
(* that asks for what is after its cursor skips nothing (readObservations) *)
CursorsOnlyGrow ==
  [][/\ \A k \in DOMAIN observations :
          k \in DOMAIN observations' /\ observations'[k] = observations[k]
     /\ \A k \in DOMAIN observations' \ DOMAIN observations :
          k[2] > runs[k[1]].lastCursor
     /\ \A r \in Runs : runs'[r].lastCursor >= runs[r].lastCursor]_vars

(* A client whose open request was answered has been sent every            *)
(* observation after the cursor it named, whatever was recorded while the  *)
(* request was handled and since (handleMessage and recordGraphqlResponse  *)
(* of scrape-bridge.js).                                                   *)
StreamIsComplete ==
  \A p \in Ports : ports[p].step = "open" =>
    ports[p].from + 1 .. runs[ports[p].run].lastCursor \subseteq ports[p].sent
=============================================================================
