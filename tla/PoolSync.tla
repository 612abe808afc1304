------------------------------ MODULE PoolSync ------------------------------
(***************************************************************************)
(* From a captured response to a sealed batch on the local disk.           *)
(*                                                                         *)
(* The extension's service worker stages every response in a write-ahead   *)
(* log, admits its observations to a persistent queue, seals a prefix of   *)
(* the queue under a fresh name and hands it to the local daemon, which    *)
(* keeps it as a file of the pool outbox (extension/background.js,         *)
(* extension/lib/pool-sync.js, extension/native-host/xtap_daemon.py).      *)
(*                                                                         *)
(* The worker can be stopped between any two steps; storage writes, saves  *)
(* and requests can fail; an answer can be lost; a request the worker gave *)
(* up can still reach the daemon later.  The uploader that empties the     *)
(* outbox is the environment here; module OutboxUpload models it.          *)
(***************************************************************************)
EXTENDS Integers, Sequences, FiniteSets

CONSTANTS
  Tweets,         \* captured posts; an observation is an accepted tweet
  Payloads,       \* the responses: non-empty sequences of tweets
  Prepare(_, _),  \* prepareObservations (see Sampling)
  Covers(_, _),   \* an observation stands for a tweet (see Sampling)
  SampleStates,   \* what Prepare keeps between responses
  InitialSamples,      \* the sample state of a fresh installation
  Oversized,      \* tweets whose line alone exceeds MAX_HANDOFF_BYTES
  Clock,          \* values Date.now() can return when a batch is sealed
  MaxQueue,       \* MAX_QUEUE
  MaxBatch,       \* MAX_BATCH
  MaxStages,      \* bound of the model: responses staged
  MaxSeals,       \* bound of the model: batches sealed
  MaxFaults       \* bound of the model: stops, failures, losses and pauses

ASSUME PoolAssumption ==
  /\ Payloads \subseteq Seq(Tweets) \ {<<>>}
  /\ Oversized \subseteq Tweets
  /\ InitialSamples \in SampleStates
  /\ \A ts \in Payloads, s \in SampleStates :
       /\ Prepare(ts, s).accepted \in Seq(Tweets)
       /\ Prepare(ts, s).samples \in SampleStates
  /\ Clock \subseteq Nat
  /\ MaxQueue \in Nat \ {0} /\ MaxBatch \in Nat \ {0}
  /\ MaxStages \in Nat /\ MaxSeals \in Nat /\ MaxFaults \in Nat

Elements(q) == {q[i] : i \in DOMAIN q}

(* The sampling state stands for nothing but kept observations: whatever   *)
(* Prepare leaves out of a response, a kept observation covers it.         *)
Backed(samples, kept) ==
  \A ts \in Payloads : \A t \in Elements(ts) :
    \E o \in kept \union Elements(Prepare(ts, samples).accepted) : Covers(o, t)

(* The sampling rule loses nothing as long as what it accepts is kept.     *)
ASSUME SamplingIsBacked ==
  /\ Backed(InitialSamples, {})
  /\ \A s \in SampleStates, kept \in SUBSET Tweets, ts \in Payloads :
       Backed(s, kept) =>
         Backed(Prepare(ts, s).samples, kept \union Elements(Prepare(ts, s).accepted))

VARIABLES
  \* chrome.storage.local, which survives the worker
  wal,       \* keys of the staged responses (stg_*)
  store,     \* the pool state: queue, samples, sealed batch, last seal time
  \* the worker
  phase,     \* "down", "starting" (restoring and recovering) or "ready"
  mem,       \* the worker's copy of the pool state
  handler,   \* per key, the step of the handler of its live response
  sweep,     \* the recovery of staged responses
  write,     \* the operation that holds the queue write lock
  flush,     \* the step of the hand-off loop
  paused,    \* hand-off paused: the worker's flag and the stored one
  request,   \* the hand-off request the worker is waiting for
  \* the network and the daemon
  late,      \* requests the worker gave up that can still arrive
  outbox,    \* the files of the pool outbox
  \* history, and bounds
  payloads,  \* the response staged under each key
  landed,    \* the batches that reached the outbox, once per name, in order
  dropped,   \* the oversized observations dropped
  issued,    \* the number of batch names issued
  faults     \* the number of faults so far

durable == <<wal, store>>
worker == <<phase, mem, handler, sweep, write, flush, paused, request>>
daemon == <<late, outbox>>
history == <<payloads, landed, dropped, issued, faults>>
vars == <<wal, store, phase, mem, handler, sweep, write, flush, paused, request,
          late, outbox, payloads, landed, dropped, issued, faults>>

-----------------------------------------------------------------------------
Keys == 1 .. MaxStages

(* The recovery runs the handler's steps under the number 0. *)
Sweep == 0
Callers == Keys \union {Sweep}

Names == Nat \X Nat  \* <<seal time, random part>>
Batch == [name : Names, count : Nat]
NoBatch == [name |-> <<0, 0>>, count |-> 0]

PoolState == [queue : Seq(Tweets), samples : SampleStates, sealed : Batch, lastSeal : Nat]
EmptyPool == [queue |-> <<>>, samples |-> InitialSamples, sealed |-> NoBatch, lastSeal |-> 0]

File == [name : Names, content : Seq(Tweets)]
NoRequest == [name |-> <<0, 0>>, content |-> <<>>]

NoWrite == [op |-> "none", by |-> Sweep]

First(q, n) == SubSeq(q, 1, n)
AfterFirst(q, n) == SubSeq(q, n + 1, Len(q))

(* A sealed batch larger than the restored queue is not valid. *)
ValidSealed(batch, q) == batch.count > 0 /\ batch.count <= Len(q)

Fault == faults < MaxFaults /\ faults' = faults + 1

-----------------------------------------------------------------------------
Init ==
  /\ wal = {}
  /\ store = EmptyPool
  /\ phase = "down"
  /\ mem = EmptyPool
  /\ handler = [k \in Keys |-> "idle"]
  /\ sweep = [step |-> "off", todo |-> {}, key |-> 0]
  /\ write = NoWrite
  /\ flush = "idle"
  /\ paused = [mem |-> FALSE, stored |-> FALSE]
  /\ request = NoRequest
  /\ late = {}
  /\ outbox = {}
  /\ payloads = <<>>
  /\ landed = <<>>
  /\ dropped = {}
  /\ issued = 0
  /\ faults = 0

-----------------------------------------------------------------------------
(* The life of the worker.                                                 *)

(* Mutant: a restart forgets the sealed batch. *)
StartWithoutSeal ==
  /\ phase = "down"
  /\ phase' = "starting"
  /\ mem' = [store EXCEPT !.sealed = NoBatch]
  /\ paused' = [paused EXCEPT !.mem = paused.stored]
  /\ sweep' = [step |-> "next", todo |-> wal, key |-> 0]
  /\ UNCHANGED <<durable, handler, write, flush, request, daemon, history>>

(* initPoolSync restores the pool state, then the staged responses of the  *)
(* previous worker are recovered before any new response is handled,       *)
(* unless the log cannot be read.                                          *)
Start ==
  /\ phase = "down"
  /\ mem' = [store EXCEPT !.sealed =
               IF ValidSealed(store.sealed, store.queue) THEN @ ELSE NoBatch]
  /\ paused' = [paused EXCEPT !.mem = paused.stored]
  /\ \/ /\ phase' = "starting"
        /\ sweep' = [step |-> "next", todo |-> wal, key |-> 0]
        /\ UNCHANGED faults
     \/ phase' = "ready" /\ Fault /\ UNCHANGED sweep
  /\ UNCHANGED <<durable, handler, write, flush, request, daemon,
                 payloads, landed, dropped, issued>>

(* The browser stops the worker: what it held in memory is gone, and a     *)
(* request it was waiting for can still reach the daemon.                  *)
Stop ==
  /\ phase # "down"
  /\ Fault
  /\ phase' = "down"
  /\ mem' = EmptyPool
  /\ handler' = [k \in Keys |-> "idle"]
  /\ sweep' = [step |-> "off", todo |-> {}, key |-> 0]
  /\ write' = NoWrite
  /\ flush' = "idle"
  /\ paused' = [paused EXCEPT !.mem = FALSE]
  /\ request' = NoRequest
  /\ late' = IF flush = "wait" THEN late \union {request} ELSE late
  /\ UNCHANGED <<durable, outbox, payloads, landed, dropped, issued>>

(* poolTogglePause: the worker's flag changes even if storing it fails.  A *)
(* pause counts as a fault, so that it ends the hand-off a bounded number  *)
(* of times.                                                               *)
TogglePause ==
  /\ phase # "down"
  /\ \E saved \in BOOLEAN :
       /\ paused' = [mem |-> ~paused.mem,
                     stored |-> IF saved THEN ~paused.mem ELSE paused.stored]
       /\ IF saved /\ paused.mem THEN UNCHANGED faults ELSE Fault
  /\ UNCHANGED <<durable, phase, mem, handler, sweep, write, flush, request, daemon,
                 payloads, landed, dropped, issued>>

-----------------------------------------------------------------------------
(* Responses: stage, admit, clear.  A caller is the handler of a live      *)
(* response or the recovery sweep; both run the same steps.                *)

(* handleGraphqlResponse writes the response to the log before anything    *)
(* else.  Its key is active until the handler ends.                        *)
Stage(tweets) ==
  /\ phase = "ready"
  /\ Len(payloads) < MaxStages
  /\ LET key == Len(payloads) + 1 IN
       /\ payloads' = Append(payloads, tweets)
       /\ wal' = wal \union {key}
       /\ handler' = [handler EXCEPT ![key] = "enqueue"]
  /\ UNCHANGED <<store, phase, mem, sweep, write, flush, paused, request, daemon,
                 landed, dropped, issued, faults>>

Active(key) == handler[key] # "idle"

(* A later sweep, from the periodic alarm.  It reads the log once.         *)
SweepStart ==
  /\ phase = "ready" /\ sweep.step = "off" /\ wal # {}
  /\ sweep' = [sweep EXCEPT !.step = "next", !.todo = wal]
  /\ UNCHANGED <<durable, phase, mem, handler, write, flush, paused, request, daemon, history>>

(* The oldest response of the snapshot; a live handler keeps its own.      *)
SweepNext ==
  /\ sweep.step = "next"
  /\ IF sweep.todo = {}
     THEN /\ sweep' = [step |-> "off", todo |-> {}, key |-> 0]
          /\ phase' = "ready"
     ELSE \E key \in sweep.todo :
            /\ \A other \in sweep.todo : key <= other
            /\ sweep' = [step |-> IF Active(key) THEN "next" ELSE "enqueue",
                         todo |-> sweep.todo \ {key},
                         key |-> key]
            /\ UNCHANGED phase
  /\ UNCHANGED <<durable, mem, handler, write, flush, paused, request, daemon, history>>

AtStep(c, step) == IF c = Sweep THEN sweep.step = step ELSE handler[c] = step
KeyOf(c) == IF c = Sweep THEN sweep.key ELSE c

(* The caller goes to a step; "done" ends a handler and lets the sweep go  *)
(* on with its next response.                                              *)
GoTo(c, step) ==
  IF c = Sweep
  THEN /\ sweep' = [sweep EXCEPT !.step = IF step = "done" THEN "next" ELSE step]
       /\ UNCHANGED handler
  ELSE /\ handler' = [handler EXCEPT ![c] = IF step = "done" THEN "idle" ELSE step]
       /\ UNCHANGED sweep

Prepared(c) == Prepare(payloads[KeyOf(c)], mem.samples)
(* Mutant: the response itself is not counted. *)
FullBefore(c) == Len(mem.queue) > MaxQueue
Full(c) == Len(mem.queue) + Len(Prepared(c).accepted) > MaxQueue

(* poolEnqueue refuses a response that does not fit; it stays staged.      *)
EnqueueFull(c) ==
  /\ AtStep(c, "enqueue") /\ write = NoWrite /\ Full(c)
  /\ GoTo(c, "done")
  /\ UNCHANGED <<durable, phase, mem, write, flush, paused, request, daemon, history>>

(* Queue and samples are stored in one write. *)
EnqueueWrite(c) ==
  /\ AtStep(c, "enqueue") /\ write = NoWrite /\ ~Full(c)
  /\ store' = [mem EXCEPT !.queue = mem.queue \o Prepared(c).accepted,
                          !.samples = Prepared(c).samples]
  /\ write' = [op |-> "enqueue", by |-> c]
  /\ GoTo(c, "writing")
  /\ UNCHANGED <<wal, phase, mem, flush, paused, request, daemon, history>>

(* Mutant: a failed admission is cleared like a done one. *)
EnqueueFailsAndClears(c) ==
  /\ AtStep(c, "enqueue") /\ write = NoWrite
  /\ Fault
  /\ GoTo(c, "clear")
  /\ UNCHANGED <<durable, phase, mem, write, flush, paused, request, daemon,
                 payloads, landed, dropped, issued>>

EnqueueFails(c) ==
  /\ AtStep(c, "enqueue") /\ write = NoWrite
  /\ Fault
  /\ GoTo(c, "done")
  /\ UNCHANGED <<durable, phase, mem, write, flush, paused, request, daemon,
                 payloads, landed, dropped, issued>>

(* The storage answered: the worker's copy follows. *)
EnqueueDone(c) ==
  /\ write = [op |-> "enqueue", by |-> c]
  /\ mem' = store
  /\ write' = NoWrite
  /\ GoTo(c, "clear")
  /\ UNCHANGED <<durable, phase, flush, paused, request, daemon, history>>

(* After saveState the log entry is removed; if either fails it stays. *)
Clear(c) ==
  /\ AtStep(c, "clear")
  /\ \/ wal' = wal \ {KeyOf(c)} /\ UNCHANGED faults
     \/ Fault /\ UNCHANGED wal
  /\ GoTo(c, "done")
  /\ UNCHANGED <<store, phase, mem, write, flush, paused, request, daemon,
                 payloads, landed, dropped, issued>>

-----------------------------------------------------------------------------
(* poolFlush: seal, hand off, acknowledge, until the queue is empty.       *)

FlushStart ==
  /\ phase # "down" /\ flush = "idle" /\ ~paused.mem /\ mem.queue # <<>>
  /\ flush' = "seal"
  /\ UNCHANGED <<durable, phase, mem, handler, sweep, write, paused, request, daemon, history>>

(* A batch sealed before is handed off again under its name. *)
SealSkip ==
  /\ flush = "seal" /\ write = NoWrite /\ mem.sealed # NoBatch
  /\ flush' = "send"
  /\ UNCHANGED <<durable, phase, mem, handler, sweep, write, paused, request, daemon, history>>

(* The leading observations of the queue that can never be handed off. *)
LeadingOversized(q, n) ==
  /\ \A i \in 1 .. n : q[i] \in Oversized
  /\ n < Len(q) => q[n + 1] \notin Oversized

(* The batches the byte and count limits allow after n dropped ones: the   *)
(* bytes of a line are abstracted to "never fits" and "fits, and the batch *)
(* may end after it".                                                      *)
BatchSizes(q, n) ==
  IF n = Len(q)
  THEN {0}
  ELSE {count \in 1 .. MaxBatch :
          /\ n + count <= Len(q)
          /\ \A i \in n + 1 .. n + count : q[i] \notin Oversized}

(* Mutant: the clock alone names the batch. *)
ClockTime(now) == now

(* The seal time is later than every earlier one, whatever the clock says. *)
SealTime(now) == IF now > mem.lastSeal THEN now ELSE mem.lastSeal + 1

Seal(n, count, now) ==
  /\ flush = "seal" /\ write = NoWrite /\ mem.sealed = NoBatch
  /\ issued < MaxSeals
  /\ LeadingOversized(mem.queue, n)
  /\ store' = [mem EXCEPT
       !.queue = AfterFirst(mem.queue, n),
       !.sealed = IF count > 0 THEN [name |-> <<SealTime(now), issued + 1>>, count |-> count]
                               ELSE NoBatch,
       !.lastSeal = IF count > 0 THEN SealTime(now) ELSE @]
  /\ dropped' = dropped \union Elements(First(mem.queue, n))
  /\ issued' = issued + 1
  /\ write' = [op |-> "seal", by |-> Sweep]
  /\ flush' = "sealing"
  /\ UNCHANGED <<wal, phase, mem, handler, sweep, paused, request, daemon,
                 payloads, landed, faults>>

SealSome == \E n \in 0 .. Len(mem.queue) :
              \E count \in BatchSizes(mem.queue, n), now \in Clock : Seal(n, count, now)

SealFails ==
  /\ flush = "seal" /\ write = NoWrite /\ mem.sealed = NoBatch
  /\ Fault
  /\ flush' = "idle"
  /\ UNCHANGED <<durable, phase, mem, handler, sweep, write, paused, request, daemon,
                 payloads, landed, dropped, issued>>

SealDone ==
  /\ write.op = "seal"
  /\ mem' = store
  /\ write' = NoWrite
  /\ flush' = IF store.sealed = NoBatch THEN "idle" ELSE "send"
  /\ UNCHANGED <<durable, phase, handler, sweep, paused, request, daemon, history>>

(* Mutant: everything queued is sent under the sealed name. *)
SendWholeQueue ==
  /\ flush = "send" /\ phase = "ready"
  /\ request' = [name |-> mem.sealed.name, content |-> mem.queue]
  /\ flush' = "wait"
  /\ UNCHANGED <<durable, phase, mem, handler, sweep, write, paused, daemon, history>>

(* The bytes sent are the sealed prefix of the queue as it is now. *)
Send ==
  /\ flush = "send" /\ phase = "ready"
  /\ request' = [name |-> mem.sealed.name, content |-> First(mem.queue, mem.sealed.count)]
  /\ flush' = "wait"
  /\ UNCHANGED <<durable, phase, mem, handler, sweep, write, paused, daemon, history>>

(* The daemon is looked up after the recovery, at the end of the start. *)
NoTransport == flush = "send" /\ phase = "starting"

(* Mutant: the flag that a flush is running is not reset. *)
HandoffFailsForGood ==
  /\ flush \in {"send", "wait", "refused"}
  /\ IF flush = "refused" \/ NoTransport THEN UNCHANGED faults ELSE Fault
  /\ flush' = "acking"
  /\ request' = NoRequest
  /\ UNCHANGED <<durable, phase, mem, handler, sweep, write, paused, daemon,
                 payloads, landed, dropped, issued>>

(* No daemon, a refused token, or an error answer, 409 among them: the     *)
(* worker retries later.                                                   *)
HandoffFails ==
  /\ flush \in {"send", "wait", "refused"}
  /\ IF flush = "refused" \/ NoTransport THEN UNCHANGED faults ELSE Fault
  /\ flush' = "idle"
  /\ request' = NoRequest
  /\ UNCHANGED <<durable, phase, mem, handler, sweep, write, paused, daemon,
                 payloads, landed, dropped, issued>>

(* The worker gives up after ten seconds; the request may still arrive. *)
Timeout ==
  /\ flush = "wait"
  /\ Fault
  /\ flush' = "idle"
  /\ late' = late \union {request}
  /\ request' = NoRequest
  /\ UNCHANGED <<durable, phase, mem, handler, sweep, write, paused, outbox,
                 payloads, landed, dropped, issued>>

(* The daemon stored the batch, but the answer is lost. *)
LoseAnswer ==
  /\ flush \in {"stored", "refused"}
  /\ Fault
  /\ flush' = "idle"
  /\ request' = NoRequest
  /\ UNCHANGED <<durable, phase, mem, handler, sweep, write, paused, daemon,
                 payloads, landed, dropped, issued>>

(* Mutant: a full batch leaves the queue, however many were sealed.         *)
AckWriteFullBatch ==
  /\ flush = "stored" /\ write = NoWrite
  /\ store' = [mem EXCEPT !.queue = AfterFirst(mem.queue, MaxBatch),
                          !.sealed = NoBatch]
  /\ write' = [op |-> "ack", by |-> Sweep]
  /\ flush' = "acking"
  /\ request' = NoRequest
  /\ UNCHANGED <<wal, phase, mem, handler, sweep, paused, daemon, history>>

(* Mutant: the seal outlives its batch while the queue allows it.         *)
AckWriteKeepsSeal ==
  /\ flush = "stored" /\ write = NoWrite
  /\ LET rest == AfterFirst(mem.queue, mem.sealed.count)
     IN store' = [mem EXCEPT !.queue = rest,
                             !.sealed = IF ValidSealed(@, rest) THEN @ ELSE NoBatch]
  /\ write' = [op |-> "ack", by |-> Sweep]
  /\ flush' = "acking"
  /\ request' = NoRequest
  /\ UNCHANGED <<wal, phase, mem, handler, sweep, paused, daemon, history>>

(* The acknowledged prefix leaves the queue and the seal is lifted, in one *)
(* write.                                                                  *)
AckWrite ==
  /\ flush = "stored" /\ write = NoWrite
  /\ store' = [mem EXCEPT !.queue = AfterFirst(mem.queue, mem.sealed.count),
                          !.sealed = NoBatch]
  /\ write' = [op |-> "ack", by |-> Sweep]
  /\ flush' = "acking"
  /\ request' = NoRequest
  /\ UNCHANGED <<wal, phase, mem, handler, sweep, paused, daemon, history>>

AckFails ==
  /\ flush = "stored" /\ write = NoWrite
  /\ Fault
  /\ flush' = "idle"
  /\ request' = NoRequest
  /\ UNCHANGED <<durable, phase, mem, handler, sweep, write, paused, daemon,
                 payloads, landed, dropped, issued>>

AckDone ==
  /\ write.op = "ack"
  /\ mem' = store
  /\ write' = NoWrite
  /\ flush' = IF store.queue = <<>> THEN "idle" ELSE "seal"
  /\ UNCHANGED <<durable, phase, handler, sweep, paused, request, daemon, history>>

-----------------------------------------------------------------------------
(* The daemon.  Requests are served one at a time under its state lock.    *)

HasFile(name) == \E f \in outbox : f.name = name
HasLanded(name) == \E i \in DOMAIN landed : landed[i].name = name

(* write_outbox_file: a new name is written, the same bytes are accepted,  *)
(* other bytes under an existing name are refused.                         *)
WriteOutboxFile(r) ==
  IF HasFile(r.name)
  THEN UNCHANGED <<outbox, landed>>
  ELSE /\ outbox' = outbox \union {r}
       /\ landed' = IF HasLanded(r.name) THEN landed ELSE Append(landed, r)

Conflicts(r) == HasFile(r.name) /\ r \notin outbox

DaemonStore ==
  /\ flush = "wait"
  /\ WriteOutboxFile(request)
  /\ flush' = IF Conflicts(request) THEN "refused" ELSE "stored"
  /\ UNCHANGED <<durable, phase, mem, handler, sweep, write, paused, request, late,
                 payloads, dropped, issued, faults>>

(* A request the worker gave up is served all the same. *)
LateArrives(r) ==
  /\ r \in late
  /\ late' = late \ {r}
  /\ WriteOutboxFile(r)
  /\ UNCHANGED <<durable, worker, payloads, dropped, issued, faults>>

(* The environment: the uploader removes a file it has stored elsewhere. *)
TakeFile(f) ==
  /\ f \in outbox
  /\ outbox' = outbox \ {f}
  /\ UNCHANGED <<durable, worker, late, history>>

-----------------------------------------------------------------------------
CallerStep(c) ==
  \/ EnqueueFull(c) \/ EnqueueWrite(c) \/ EnqueueFails(c) \/ EnqueueDone(c) \/ Clear(c)

SweepStep == SweepStart \/ SweepNext

FlushStep ==
  \/ FlushStart \/ SealSkip \/ SealSome \/ SealFails \/ SealDone
  \/ Send \/ HandoffFails \/ Timeout \/ LoseAnswer
  \/ AckWrite \/ AckFails \/ AckDone

DaemonStep == DaemonStore \/ \E r \in late : LateArrives(r)

(* Everything but the uploader. *)
PoolNext ==
  \/ Start \/ Stop \/ TogglePause
  \/ \E tweets \in Payloads : Stage(tweets)
  \/ SweepStep
  \/ \E c \in Callers : CallerStep(c)
  \/ FlushStep
  \/ DaemonStep

Next == PoolNext \/ \E f \in outbox : TakeFile(f)

Spec == Init /\ [][Next]_vars

-----------------------------------------------------------------------------
TypeOK ==
  /\ wal \subseteq DOMAIN payloads
  /\ store \in PoolState /\ Len(store.queue) <= MaxQueue
  /\ phase \in {"down", "starting", "ready"}
  /\ mem \in PoolState
  /\ handler \in [Keys -> {"idle", "enqueue", "writing", "clear"}]
  /\ sweep \in [step : {"off", "next", "enqueue", "writing", "clear"},
                todo : SUBSET DOMAIN payloads,
                key : {0} \union DOMAIN payloads]
  /\ write \in [op : {"none", "enqueue", "seal", "ack"}, by : Callers]
  /\ flush \in {"idle", "seal", "sealing", "send", "wait", "stored", "refused", "acking"}
  /\ paused \in [mem : BOOLEAN, stored : BOOLEAN]
  /\ request \in File
  /\ late \subseteq File
  /\ outbox \subseteq File
  /\ payloads \in Seq(Payloads) /\ Len(payloads) <= MaxStages
  /\ landed \in Seq(File)
  /\ dropped \subseteq Tweets
  /\ issued \in 0 .. MaxSeals
  /\ faults \in 0 .. MaxFaults

(* Every observation that is kept: queued, handed off, or dropped because  *)
(* no batch can hold it.                                                   *)
Kept == Elements(store.queue) \union dropped
          \union UNION {Elements(landed[i].content) : i \in DOMAIN landed}

Covered(k) == \A t \in Elements(payloads[k]) : \E o \in Kept : Covers(o, t)

(* Nothing captured is lost: the response is still staged, or each of its  *)
(* posts is covered by an observation in the stored queue, in a batch that *)
(* reached the outbox, or dropped as oversized (background.js clears the   *)
(* log entry only after the queue is stored).                              *)
NothingLost == \A k \in DOMAIN payloads \ wal : Covered(k)

(* Everything under a batch name that has left the worker, or is leaving. *)
Sent == late \union outbox \union Elements(landed)
          \union (IF request = NoRequest THEN {} ELSE {request})

(* A sealed batch never changes: every request, every late request, every  *)
(* file and every landed batch of one name has the same content, and the   *)
(* content of the sealed batch is still the prefix of the stored queue.    *)
SealedBytesAreStable ==
  /\ \A f, g \in Sent : f.name = g.name => f.content = g.content
  /\ store.sealed # NoBatch =>
       \A f \in Sent : f.name = store.sealed.name =>
         f.content = First(store.queue, store.sealed.count)

(* The daemon never answers 409: the outbox never holds other bytes under  *)
(* the name of a request (_handle_pool_outbox).                            *)
NoConflict == flush # "refused"

(* A batch is acknowledged to the queue only once it is in the outbox or   *)
(* was there: what leaves the stored queue outside a seal has landed.      *)
LeavesOnlyAfterLanding ==
  [][ Len(store'.queue) < Len(store.queue) /\ flush # "seal" =>
        \E i \in DOMAIN landed :
          /\ landed[i].name = store.sealed.name
          /\ store.queue = landed[i].content \o store'.queue ]_vars

(* Seal times, which become the created_at of the raw segments, follow the *)
(* order of the seals through restarts and backward steps of the clock.    *)
SealTimesFollowSealOrder ==
  \A i, j \in DOMAIN landed : i < j => landed[i].name[1] < landed[j].name[1]

(* The hand-off implements BatchHandoff: a sealed batch that has landed is *)
(* delivered, although the worker may not know it yet.                     *)
SealedLanded == store.sealed # NoBatch /\ HasLanded(store.sealed.name)

Handoff == INSTANCE BatchHandoff WITH
  pending <- IF SealedLanded THEN AfterFirst(store.queue, store.sealed.count)
                             ELSE store.queue,
  delivered <- [i \in DOMAIN landed |-> landed[i].content]

ImplementsHandoff == Handoff!Spec
=============================================================================
