--------------------------- MODULE PoolSyncProofs ---------------------------
(***************************************************************************)
(* Proofs about PoolSync, for every value of its constants, and in the     *)
(* last part about its composition with the uploader (PoolDelivery).       *)
(*                                                                         *)
(* TypeInv adds to TypeOK what each step of the protocol may assume about  *)
(* the worker (who holds the write lock, whose key is in use).  HandoffInv *)
(* is the inductive invariant of the hand-off: what memory, storage, the   *)
(* network and the outbox know of the sealed batch.  The theorems at the   *)
(* end of each part follow from the two.                                   *)
(*                                                                         *)
(* The handoff loses no captured post: Kept only grows, since what leaves  *)
(* the queue was dropped or has landed.  So it suffices that a response is *)
(* covered when its observations are stored, which follows from the        *)
(* sampling state standing for nothing but kept observations, and that a   *)
(* response is cleared by a caller that has stored it.                     *)
(*                                                                         *)
(* In the composition the uploader is the environment of PoolSync, which   *)
(* removes files, and the worker and the daemon are the environment of     *)
(* OutboxUpload, from which files arrive.  So the invariants of both hold  *)
(* of it, and a batch that landed is in the outbox or covered by the raw   *)
(* Bucket.                                                                 *)
(***************************************************************************)
EXTENDS PoolDelivery, SequenceTheorems, TLAPS

(* Facts about the prefix and the rest of a queue. *)
LEMMA FirstIsSeq ==
  ASSUME NEW S, NEW q \in Seq(S), NEW n \in 0 .. Len(q)
  PROVE  /\ First(q, n) \in Seq(S)
         /\ Len(First(q, n)) = n
         /\ \A i \in 1 .. n : First(q, n)[i] = q[i]
BY DEF First

(* What follows a prefix is a queue again. *)
LEMMA AfterFirstIsSeq ==
  ASSUME NEW S, NEW q \in Seq(S), NEW n \in 0 .. Len(q)
  PROVE  /\ AfterFirst(q, n) \in Seq(S)
         /\ Len(AfterFirst(q, n)) = Len(q) - n
BY DEF AfterFirst

(* An admission leaves the prefixes of the queue alone. *)
LEMMA FirstOfConcat ==
  ASSUME NEW S, NEW q \in Seq(S), NEW r \in Seq(S), NEW n \in 0 .. Len(q)
  PROVE  First(q \o r, n) = First(q, n)
BY DEF First

(* A prefix of a prefix. *)
LEMMA FirstOfFirst ==
  ASSUME NEW S, NEW q \in Seq(S), NEW m \in 0 .. Len(q), NEW n \in 0 .. m
  PROVE  First(First(q, m), n) = First(q, n)
BY DEF First

(* A prefix and the rest make up the queue. *)
LEMMA FirstAndRest ==
  ASSUME NEW S, NEW q \in Seq(S), NEW n \in 0 .. Len(q)
  PROVE  First(q, n) \o AfterFirst(q, n) = q
<1>1. Len(q) \in Nat /\ 1 \in 1 .. Len(q) + 1 /\ n \in 1 - 1 .. Len(q) /\ Len(q) \in n .. Len(q)
  OBVIOUS
<1>2. SubSeq(q, 1, n) \o SubSeq(q, n + 1, Len(q)) = SubSeq(q, 1, Len(q))
  BY <1>1, ConcatAdjacentSubSeq
<1> QED
  BY <1>2, SubSeqFull DEF First, AfterFirst

(* The elements of a queue of observations are observations. *)
LEMMA ElementsOfSeq ==
  ASSUME NEW S, NEW q \in Seq(S)
  PROVE  Elements(q) \subseteq S
BY DEF Elements

(* A batch appended to those that landed adds one element. *)
LEMMA ElementsOfAppend ==
  ASSUME NEW S, NEW q \in Seq(S), NEW x \in S
  PROVE  Elements(Append(q, x)) = Elements(q) \union {x}
<1> DEFINE r == Append(q, x)
<1>1. /\ DOMAIN q = 1 .. Len(q)
      /\ DOMAIN r = 1 .. Len(q) + 1
      /\ \A i \in 1 .. Len(q) : r[i] = q[i]
      /\ r[Len(q) + 1] = x
  OBVIOUS
<1>2. ASSUME NEW y \in Elements(r) PROVE y \in Elements(q) \union {x}
  BY <1>1, <1>2 DEF Elements
<1>3. ASSUME NEW y \in Elements(q) \union {x} PROVE y \in Elements(r)
  BY <1>1, <1>3 DEF Elements
<1> QED
  BY <1>2, <1>3

-----------------------------------------------------------------------------
(* Type correctness.  The sealed batch must fit the queue in storage and   *)
(* in memory, or the bytes sent would not be a sequence of tweets; callers *)
(* must work on staged keys, or they would prepare nothing.                *)

Fits(pool) == pool.sealed = NoBatch \/ pool.sealed.count \in 1 .. Len(pool.queue)

SealsFit == Fits(store) /\ Fits(mem)

CallersHaveKeys ==
  /\ \A k \in Keys : handler[k] # "idle" => k \in DOMAIN payloads
  /\ sweep.step \notin {"off", "next"} => sweep.key \in DOMAIN payloads

WriteHasItsCaller == write.op = "enqueue" => AtStep(write.by, "writing")

StoppedWorkerIsIdle ==
  phase = "down" =>
    /\ \A k \in Keys : handler[k] = "idle"
    /\ sweep.step = "off"
    /\ write = NoWrite
    /\ flush = "idle"

TypeInv ==
  /\ TypeOK
  /\ Len(mem.queue) <= MaxQueue
  /\ SealsFit
  /\ CallersHaveKeys
  /\ WriteHasItsCaller
  /\ StoppedWorkerIsIdle

(* The pool state of a fresh installation is well formed. *)
LEMMA EmptyPoolFits ==
  /\ EmptyPool \in PoolState
  /\ Len(EmptyPool.queue) = 0
  /\ Fits(EmptyPool)
BY PoolAssumption DEF EmptyPool, PoolState, NoBatch, Batch, Names, Fits

(* The absent request has the type of a request. *)
LEMMA NoRequestIsFile == NoRequest \in File
BY DEF NoRequest, File, Names

(* A sealed count is never larger than its queue. *)
LEMMA CountInQueue ==
  ASSUME NEW pool \in PoolState, Fits(pool)
  PROVE  /\ pool.queue \in Seq(Tweets)
         /\ pool.sealed.count \in 0 .. Len(pool.queue)
BY DEF PoolState, Fits, NoBatch

(* The initial state is well typed. *)
LEMMA TypeInit == Init => TypeInv
<1> SUFFICES ASSUME Init PROVE TypeInv
  OBVIOUS
<1> USE PoolAssumption DEF Init
<1>1. TypeOK
  BY EmptyPoolFits, NoRequestIsFile DEF TypeOK, NoWrite, Callers, Sweep, Keys
<1>2. Len(mem.queue) <= MaxQueue
  BY EmptyPoolFits
<1>3. SealsFit /\ CallersHaveKeys /\ WriteHasItsCaller /\ StoppedWorkerIsIdle
  BY EmptyPoolFits DEF SealsFit, CallersHaveKeys, WriteHasItsCaller, StoppedWorkerIsIdle, NoWrite
<1> QED
  BY <1>1, <1>2, <1>3 DEF TypeInv

(* Moving a caller to a step keeps the types of handlers and sweep. *)
LEMMA GoToType ==
  ASSUME TypeInv, NEW c \in Callers, NEW step \in {"enqueue", "writing", "clear", "done"},
         GoTo(c, step), UNCHANGED payloads,
         sweep.step \notin {"off", "next"} \/ c # Sweep,
         handler[c] # "idle" \/ c = Sweep
  PROVE  /\ handler' \in [Keys -> {"idle", "enqueue", "writing", "clear"}]
         /\ sweep' \in [step : {"off", "next", "enqueue", "writing", "clear"},
                         todo : SUBSET DOMAIN payloads',
                         key : {0} \union DOMAIN payloads']
         /\ CallersHaveKeys'
         /\ step # "done" => AtStep(c, step)'
<1> DEFINE Steps == {"enqueue", "writing", "clear"}
           Sweeps == [step : {"off", "next"} \union Steps,
                      todo : SUBSET DOMAIN payloads,
                      key : {0} \union DOMAIN payloads]
<1>1. /\ handler \in [Keys -> {"idle"} \union Steps]
      /\ sweep \in Sweeps
      /\ payloads' = payloads
  BY DEF TypeInv, TypeOK
<1>2. CASE c = Sweep
  <2>1. /\ sweep' = [sweep EXCEPT !.step = IF step = "done" THEN "next" ELSE step]
        /\ handler' = handler
        /\ sweep.step \notin {"off", "next"}
    BY <1>2 DEF GoTo
  <2>2. sweep.key \in DOMAIN payloads
    BY <2>1 DEF TypeInv, CallersHaveKeys
  <2>3. sweep' \in Sweeps
    BY <1>1, <2>1
  <2>4. CallersHaveKeys'
    BY <1>1, <2>1, <2>2 DEF TypeInv, CallersHaveKeys
  <2>5. step # "done" => AtStep(c, step)'
    BY <1>1, <1>2, <2>1 DEF AtStep
  <2> QED
    BY <1>1, <2>1, <2>3, <2>4, <2>5
<1>3. CASE c # Sweep
  <2>1. /\ handler' = [handler EXCEPT ![c] = IF step = "done" THEN "idle" ELSE step]
        /\ sweep' = sweep
        /\ c \in Keys
    BY <1>3 DEF GoTo, Callers
  <2>2. CallersHaveKeys'
    BY <1>1, <1>3, <2>1 DEF TypeInv, CallersHaveKeys
  <2>3. step # "done" => AtStep(c, step)'
    BY <1>1, <1>3, <2>1 DEF AtStep
  <2>4. handler' \in [Keys -> {"idle"} \union Steps]
    BY <1>1, <2>1
  <2> QED
    BY <1>1, <2>1, <2>2, <2>3, <2>4
<1> QED
  BY <1>2, <1>3

(* The steps of the callers keep the types. *)
LEMMA CallerType ==
  ASSUME TypeInv, NEW c \in Callers, CallerStep(c)
  PROVE  TypeInv'
<1> DEFINE MoveType ==
      /\ handler' \in [Keys -> {"idle", "enqueue", "writing", "clear"}]
      /\ sweep' \in [step : {"off", "next", "enqueue", "writing", "clear"},
                      todo : SUBSET DOMAIN payloads',
                      key : {0} \union DOMAIN payloads']
      /\ CallersHaveKeys'
<1>1. ASSUME NEW step \in {"enqueue", "writing", "clear"}, AtStep(c, step)
      PROVE  /\ handler[c] # "idle" \/ c = Sweep
             /\ sweep.step \notin {"off", "next"} \/ c # Sweep
             /\ phase # "down"
  BY <1>1 DEF AtStep, TypeInv, StoppedWorkerIsIdle, Callers
<1>2. ASSUME NEW step \in {"enqueue", "writing", "clear"}, AtStep(c, step),
             NEW next \in {"enqueue", "writing", "clear", "done"}, GoTo(c, next),
             UNCHANGED payloads
      PROVE  MoveType /\ (next # "done" => AtStep(c, next)')
  BY <1>1, <1>2, GoToType
<1>3. CASE EnqueueFull(c)
  <2>1. MoveType /\ phase # "down"
    BY <1>1, <1>2, <1>3 DEF EnqueueFull, history
  <2> QED
    BY <1>3, <2>1 DEF EnqueueFull, TypeInv, TypeOK, SealsFit, WriteHasItsCaller,
                      StoppedWorkerIsIdle, NoWrite, durable, daemon, history
<1>4. CASE EnqueueWrite(c)
  <2> DEFINE p == Prepared(c)
  <2>1. MoveType /\ phase # "down" /\ AtStep(c, "writing")'
    BY <1>1, <1>2, <1>4 DEF EnqueueWrite, history
  <2>2. payloads[KeyOf(c)] \in Payloads
    <3>1. AtStep(c, "enqueue")
      BY <1>4 DEF EnqueueWrite
    <3>2. KeyOf(c) \in DOMAIN payloads
      BY <3>1 DEF AtStep, KeyOf, TypeInv, CallersHaveKeys, Callers
    <3> QED
      BY <3>2 DEF TypeInv, TypeOK
  <2>3. mem \in PoolState /\ Fits(mem)
    BY DEF TypeInv, TypeOK, SealsFit
  <2>4. p.accepted \in Seq(Tweets) /\ p.samples \in SampleStates
    BY <2>2, <2>3, PoolAssumption DEF Prepared, PoolState
  <2> HIDE DEF p
  <2>5. mem.queue \o p.accepted \in Seq(Tweets)
    BY <2>3, <2>4 DEF PoolState
  <2>6. Len(mem.queue \o p.accepted) = Len(mem.queue) + Len(p.accepted)
    BY <2>3, <2>4 DEF PoolState
  <2>7. Len(mem.queue \o p.accepted) <= MaxQueue
    BY <1>4, <2>3, <2>4, <2>6, PoolAssumption DEF EnqueueWrite, Full, p, PoolState
  <2>8. store' = [mem EXCEPT !.queue = mem.queue \o p.accepted, !.samples = p.samples]
    BY <1>4 DEF EnqueueWrite, p
  <2>9. /\ store' \in PoolState
        /\ store'.queue = mem.queue \o p.accepted
        /\ store'.sealed = mem.sealed
    BY <2>3, <2>4, <2>5, <2>8 DEF PoolState
  <2>10. Fits(store')
    BY <2>3, <2>4, <2>6, <2>9 DEF Fits, PoolState
  <2> QED
    BY <1>4, <2>1, <2>7, <2>9, <2>10 DEF EnqueueWrite, TypeInv, TypeOK, SealsFit, WriteHasItsCaller,
                            StoppedWorkerIsIdle, daemon, history
<1>5. CASE EnqueueFails(c)
  <2>1. MoveType /\ phase # "down"
    BY <1>1, <1>2, <1>5 DEF EnqueueFails
  <2> QED
    BY <1>5, <2>1, PoolAssumption DEF EnqueueFails, Fault, TypeInv, TypeOK, SealsFit, WriteHasItsCaller,
                      StoppedWorkerIsIdle, NoWrite, durable, daemon
<1>6. CASE EnqueueDone(c)
  <2>1. AtStep(c, "writing")
    BY <1>6 DEF EnqueueDone, TypeInv, WriteHasItsCaller
  <2>2. MoveType /\ phase # "down"
    BY <1>1, <1>2, <1>6, <2>1 DEF EnqueueDone, history
  <2>3. NoWrite \in [op : {"none", "enqueue", "seal", "ack"}, by : Callers]
    BY DEF NoWrite, Callers
  <2> QED
    BY <1>6, <2>2, <2>3 DEF EnqueueDone, TypeInv, TypeOK, SealsFit, WriteHasItsCaller,
                            StoppedWorkerIsIdle, NoWrite, durable, daemon, history
<1>7. CASE Clear(c)
  <2>1. MoveType /\ phase # "down"
    BY <1>1, <1>2, <1>7 DEF Clear
  <2>2. wal' \subseteq DOMAIN payloads' /\ faults' \in 0 .. MaxFaults
    BY <1>7, PoolAssumption DEF Clear, Fault, TypeInv, TypeOK
  <2>3. WriteHasItsCaller'
    <3>1. write.op = "enqueue" => write.by # c
      BY <1>7 DEF Clear, TypeInv, WriteHasItsCaller, AtStep
    <3> QED
      BY <1>7, <3>1 DEF Clear, GoTo, TypeInv, TypeOK, WriteHasItsCaller, AtStep, Callers, Keys, Sweep
  <2> QED
    BY <1>7, <2>1, <2>2, <2>3 DEF Clear, TypeInv, TypeOK, SealsFit, StoppedWorkerIsIdle, daemon
<1> QED
  BY <1>3, <1>4, <1>5, <1>6, <1>7 DEF CallerStep

(* Sealing keeps the types: dropped and sealed prefixes fit the queue. *)
LEMMA SealType ==
  ASSUME TypeInv, SealSome
  PROVE  TypeInv'
<1> DEFINE q == mem.queue
<1>0. PICK n \in 0 .. Len(q) :
        \E count \in BatchSizes(q, n), now \in Clock : Seal(n, count, now)
  BY DEF SealSome
<1>1. PICK count \in BatchSizes(q, n), now \in Clock : Seal(n, count, now)
  BY <1>0
<1>2. /\ q \in Seq(Tweets)
      /\ mem.lastSeal \in Nat
      /\ now \in Nat
      /\ Len(q) <= MaxQueue
      /\ issued \in Nat /\ MaxSeals \in Nat /\ MaxQueue \in Nat
      /\ mem \in PoolState
  BY PoolAssumption DEF PoolState, TypeInv, TypeOK
<1>3. /\ AfterFirst(q, n) \in Seq(Tweets)
      /\ Len(AfterFirst(q, n)) = Len(q) - n
      /\ First(q, n) \in Seq(Tweets)
  BY <1>2, AfterFirstIsSeq, FirstIsSeq
<1>4. count \in 0 .. Len(q) - n
  BY <1>2 DEF BatchSizes
<1>5. SealTime(now) \in Nat
  BY <1>2 DEF SealTime
<1>6. store'.queue = AfterFirst(q, n) /\ store' \in PoolState /\ Fits(store')
  <2>1. CASE count > 0
    <3> DEFINE batch == [name |-> <<SealTime(now), issued + 1>>, count |-> count]
    <3>1. store' = [mem EXCEPT !.queue = AfterFirst(q, n), !.sealed = batch,
                               !.lastSeal = SealTime(now)]
      BY <1>1, <2>1 DEF Seal
    <3>2. batch \in Batch /\ batch.count \in 1 .. Len(q) - n
      BY <1>2, <1>4, <1>5, <2>1 DEF Batch, Names
    <3> HIDE DEF batch, q
    <3> QED
      BY <1>2, <1>3, <1>5, <3>1, <3>2 DEF PoolState, Fits
  <2>2. CASE count = 0
    <3>1. store' = [mem EXCEPT !.queue = AfterFirst(q, n), !.sealed = NoBatch,
                               !.lastSeal = mem.lastSeal]
      BY <1>1, <2>2 DEF Seal
    <3> HIDE DEF q
    <3> QED
      BY <1>2, <1>3, <3>1 DEF PoolState, Fits, NoBatch, Batch, Names
  <2> QED
    BY <1>2, <1>4, <2>1, <2>2
<1>7. /\ dropped' \subseteq Tweets
      /\ issued' \in 0 .. MaxSeals
      /\ write' \in [op : {"none", "enqueue", "seal", "ack"}, by : Callers]
      /\ write'.op = "seal"
  <2>1. dropped' = dropped \union Elements(First(q, n)) /\ dropped \subseteq Tweets
    BY <1>1 DEF Seal, TypeInv, TypeOK
  <2>2. Elements(First(q, n)) \subseteq Tweets
    BY <1>3, ElementsOfSeq
  <2>3. issued' \in 0 .. MaxSeals
    BY <1>1, <1>2 DEF Seal, TypeInv, TypeOK
  <2>4. write' \in [op : {"none", "enqueue", "seal", "ack"}, by : Callers] /\ write'.op = "seal"
    BY <1>1 DEF Seal, Callers
  <2> QED
    BY <2>1, <2>2, <2>3, <2>4
<1>8. Len(store'.queue) <= MaxQueue
  BY <1>2, <1>3, <1>6
<1> QED
  BY <1>1, <1>6, <1>7, <1>8, SMTT(30) DEF Seal, daemon, AtStep, TypeInv, TypeOK, SealsFit,
     CallersHaveKeys, WriteHasItsCaller, StoppedWorkerIsIdle

(* Every step keeps the types. *)
LEMMA TypeNext ==
  ASSUME TypeInv, [Next]_vars
  PROVE  TypeInv'
<1> USE PoolAssumption DEF TypeInv, TypeOK, SealsFit, CallersHaveKeys, WriteHasItsCaller,
               StoppedWorkerIsIdle
<1>1. CASE Start
  <2>1. /\ mem' \in PoolState
        /\ mem'.queue = store.queue
        /\ Fits(mem')
    <3>1. CASE ValidSealed(store.sealed, store.queue)
      <4>1. mem' = [store EXCEPT !.sealed = store.sealed]
        BY <1>1, <3>1 DEF Start
      <4> QED
        BY <4>1 DEF PoolState, Fits
    <3>2. CASE ~ValidSealed(store.sealed, store.queue)
      <4>1. mem' = [store EXCEPT !.sealed = NoBatch]
        BY <1>1, <3>2 DEF Start
      <4> QED
        BY <4>1 DEF PoolState, Fits, NoBatch, Batch, Names
    <3> QED
      BY <3>1, <3>2
  <2>2. paused' \in [mem : BOOLEAN, stored : BOOLEAN]
    BY <1>1, Zenon DEF Start
  <2> QED
    <3>1. CASE sweep' = [step |-> "next", todo |-> wal, key |-> 0] /\ UNCHANGED faults
      BY <1>1, <2>1, <2>2, <3>1 DEF Start, durable, daemon, AtStep, NoWrite
    <3>2. CASE phase' = "ready" /\ Fault /\ UNCHANGED sweep
      BY <1>1, <2>1, <2>2, <3>2, SMTT(30) DEF Start, durable, daemon, AtStep, NoWrite, Fault
    <3> QED
      BY <1>1, <3>1, <3>2 DEF Start
<1>2. CASE Stop
  <2>1. late' \subseteq File
    BY <1>2 DEF Stop
  <2>2. mem' \in PoolState /\ Len(mem'.queue) <= MaxQueue /\ Fits(mem')
    BY <1>2, EmptyPoolFits DEF Stop
  <2>3. request' \in File
    BY <1>2, NoRequestIsFile DEF Stop
  <2>4. paused' \in [mem : BOOLEAN, stored : BOOLEAN]
    BY <1>2, Zenon DEF Stop
  <2> QED
    BY <1>2, <2>1, <2>2, <2>3, <2>4, SMTT(60) DEF Stop, durable, Fault, NoWrite, Callers, Sweep
<1>3. CASE TogglePause
  <2>1. paused' \in [mem : BOOLEAN, stored : BOOLEAN]
    <3>1. PICK saved \in BOOLEAN :
            paused' = [mem |-> ~paused.mem,
                       stored |-> IF saved THEN ~paused.mem ELSE paused.stored]
      BY <1>3, Zenon DEF TogglePause
    <3>2. (~paused.mem) \in BOOLEAN
      BY Zenon
    <3>3. paused.stored \in BOOLEAN
      OBVIOUS
    <3>4. CASE saved
      BY <3>1, <3>2, <3>4, Zenon
    <3>5. CASE ~saved
      BY <3>1, <3>2, <3>3, <3>5, Zenon
    <3> QED
      BY <3>4, <3>5
  <2>2. faults' \in 0 .. MaxFaults
    BY <1>3 DEF TogglePause, Fault
  <2>3. UNCHANGED <<durable, phase, mem, handler, sweep, write, flush, request, daemon,
                    payloads, landed, dropped, issued>>
    BY <1>3 DEF TogglePause
  <2> QED
    BY <2>1, <2>2, <2>3, SMTT(60) DEF durable, daemon, AtStep
<1>4. ASSUME NEW tweets \in Payloads, Stage(tweets) PROVE TypeInv'
  <2> DEFINE key == Len(payloads) + 1
  <2>1. payloads' \in Seq(Payloads) /\ Len(payloads') = key /\ key \in Keys
    BY <1>4 DEF Stage, Keys
  <2>2. /\ DOMAIN payloads' = 1 .. key /\ DOMAIN payloads = 1 .. Len(payloads)
        /\ 1 .. Len(payloads) \subseteq 1 .. key /\ key \in 1 .. key
    BY <2>1
  <2>3. /\ wal' = wal \union {key}
        /\ handler' = [handler EXCEPT ![key] = "enqueue"]
        /\ phase' = "ready" /\ Len(payloads') <= MaxStages
    BY <1>4, <2>1 DEF Stage
  <2>4. UNCHANGED <<store, phase, mem, sweep, write, flush, paused, request, daemon,
                    landed, dropped, issued, faults>>
    BY <1>4 DEF Stage
  <2> HIDE DEF key
  <2>5. DOMAIN payloads \subseteq DOMAIN payloads' /\ key \in DOMAIN payloads'
    BY <2>2
  <2>6. handler' \in [Keys -> {"idle", "enqueue", "writing", "clear"}]
    BY <2>1, <2>3
  <2>7. sweep' \in [step : {"off", "next", "enqueue", "writing", "clear"},
                    todo : SUBSET DOMAIN payloads', key : {0} \union DOMAIN payloads']
    BY <2>4, <2>5
  <2>8. CallersHaveKeys'
    BY <2>1, <2>3, <2>4, <2>5
  <2>9. WriteHasItsCaller'
    <3>1. handler[key] # "writing" \/ handler[key] = "writing"
      OBVIOUS
    <3>2. key \notin DOMAIN payloads
      BY <2>1, <2>2 DEF key, Keys
    <3>3. handler[key] = "idle"
      BY <2>1, <3>2
    <3> QED
      BY <2>1, <2>3, <2>4, <3>3 DEF AtStep
  <2>10. wal' \subseteq DOMAIN payloads'
    BY <2>3, <2>5
  <2> QED
    BY <2>1, <2>3, <2>4, <2>6, <2>7, <2>8, <2>9, <2>10, SMTT(60) DEF daemon
<1>5. CASE SweepStart
  <2>1. UNCHANGED <<durable, phase, mem, handler, write, flush, paused, request, daemon, history>>
    BY <1>5 DEF SweepStart
  <2>2. phase # "down" /\ sweep.step = "off" /\ sweep' = [sweep EXCEPT !.step = "next", !.todo = wal]
    BY <1>5 DEF SweepStart
  <2>3. sweep' \in [step : {"off", "next", "enqueue", "writing", "clear"},
                    todo : SUBSET DOMAIN payloads, key : {0} \union DOMAIN payloads]
    BY <2>2
  <2> QED
    BY <2>1, <2>2, <2>3, SMTT(60) DEF durable, daemon, history, AtStep
<1>6. CASE SweepNext
  <2>1. UNCHANGED <<durable, mem, handler, write, flush, paused, request, daemon, history>>
    BY <1>6 DEF SweepNext
  <2>2. phase # "down" /\ sweep.step = "next" /\ phase' \in {phase, "ready"}
    BY <1>6 DEF SweepNext
  <2>3. /\ sweep' \in [step : {"off", "next", "enqueue", "writing", "clear"},
                       todo : SUBSET DOMAIN payloads, key : {0} \union DOMAIN payloads]
        /\ sweep'.step # "writing"
        /\ sweep'.step \notin {"off", "next"} => sweep'.key \in DOMAIN payloads
    BY <1>6 DEF SweepNext
  <2> QED
    BY <2>1, <2>2, <2>3, SMTT(60) DEF durable, daemon, history, AtStep
<1>7. CASE FlushStart
  BY <1>7, SMTT(60) DEF FlushStart, durable, daemon, history, AtStep
<1>8. CASE SealSkip
  BY <1>8, SMTT(60) DEF SealSkip, durable, daemon, history, AtStep
<1>9. CASE SealFails
  BY <1>9, SMTT(60) DEF SealFails, durable, daemon, history, AtStep, Fault
<1>10. CASE SealDone
  BY <1>10, SMTT(60) DEF SealDone, durable, daemon, history, AtStep, Fits, PoolState, NoWrite, Callers
<1>11. CASE Send
  <2>1. request' \in File
    <3>1. First(mem.queue, mem.sealed.count) \in Seq(Tweets)
      BY CountInQueue, FirstIsSeq
    <3> QED
      BY <1>11, <3>1 DEF Send, PoolState, Batch, File
  <2> QED
    BY <1>11, <2>1, SMTT(60) DEF Send, durable, daemon, history, AtStep
<1>12. CASE HandoffFails
  <2>1. faults' \in 0 .. MaxFaults
    BY <1>12 DEF HandoffFails, Fault
  <2>2. request' \in File
    BY <1>12, NoRequestIsFile DEF HandoffFails
  <2> QED
    BY <1>12, <2>1, <2>2, SMTT(60) DEF HandoffFails, durable, daemon, AtStep
<1>13. CASE Timeout
  <2>1. faults' \in 0 .. MaxFaults
    BY <1>13 DEF Timeout, Fault
  <2>2. request' \in File
    BY <1>13, NoRequestIsFile DEF Timeout
  <2>3. late' \subseteq File
    BY <1>13 DEF Timeout
  <2> QED
    BY <1>13, <2>1, <2>2, <2>3, SMTT(60) DEF Timeout, durable, AtStep
<1>14. CASE LoseAnswer
  <2>1. request' \in File
    BY <1>14, NoRequestIsFile DEF LoseAnswer
  <2> QED
    BY <1>14, <2>1, SMTT(60) DEF LoseAnswer, durable, daemon, AtStep, Fault
<1>15. CASE AckWrite
  <2> DEFINE rest == AfterFirst(mem.queue, mem.sealed.count)
  <2>1. rest \in Seq(Tweets) /\ Len(rest) <= MaxQueue
    BY CountInQueue, AfterFirstIsSeq
  <2>2. store' = [mem EXCEPT !.queue = rest, !.sealed = NoBatch]
    BY <1>15 DEF AckWrite
  <2> HIDE DEF rest
  <2>3. store' \in PoolState /\ Len(store'.queue) <= MaxQueue /\ Fits(store')
    BY <2>1, <2>2 DEF PoolState, Fits, NoBatch, Batch, Names
  <2>4. request' \in File
    BY <1>15, NoRequestIsFile DEF AckWrite
  <2> QED
    BY <1>15, <2>3, <2>4, SMTT(60) DEF AckWrite, daemon, history, AtStep, Callers
<1>16. CASE AckFails
  BY <1>16, SMTT(60) DEF AckFails, durable, daemon, history, AtStep, Fault, NoRequest, File, Names
<1>17. CASE AckDone
  BY <1>17, SMTT(60) DEF AckDone, durable, daemon, history, AtStep, Fits, PoolState, NoWrite, Callers
<1>18. ASSUME NEW r \in File, WriteOutboxFile(r)
       PROVE  outbox' \subseteq File /\ landed' \in Seq(File)
  <2>1. CASE HasFile(r.name)
    BY <1>18, <2>1 DEF WriteOutboxFile
  <2>2. CASE ~HasFile(r.name)
    <3>1. /\ outbox' = outbox \union {r}
          /\ landed' = landed \/ landed' = Append(landed, r)
      BY <1>18, <2>2 DEF WriteOutboxFile
    <3>2. outbox' \subseteq File
      BY <3>1
    <3>3. Append(landed, r) \in Seq(File) /\ landed \in Seq(File)
      OBVIOUS
    <3> QED
      BY <3>1, <3>2, <3>3
  <2> QED
    BY <2>1, <2>2
<1>19. CASE DaemonStore
  <2>1. outbox' \subseteq File /\ landed' \in Seq(File)
    BY <1>18, <1>19 DEF DaemonStore
  <2> QED
    BY <1>19, <2>1, SMTT(60) DEF DaemonStore, durable, AtStep
<1>20. ASSUME NEW r \in late, LateArrives(r) PROVE TypeInv'
  <2>1. outbox' \subseteq File /\ landed' \in Seq(File)
    BY <1>18, <1>20 DEF LateArrives
  <2> QED
    BY <1>20, <2>1, SMTT(60) DEF LateArrives, durable, worker, AtStep
<1>21. ASSUME NEW f \in outbox, TakeFile(f) PROVE TypeInv'
  BY <1>21, SMTT(60) DEF TakeFile, durable, worker, history, AtStep
<1>22. CASE SealSome
  BY <1>22, SealType
<1>23. ASSUME NEW c \in Callers, CallerStep(c) PROVE TypeInv'
  BY <1>23, CallerType
<1>24. CASE UNCHANGED vars
  BY <1>24, SMTT(60) DEF vars, AtStep
<1> QED
  BY <1>1, <1>2, <1>3, <1>4, <1>5, <1>6, <1>7, <1>8, <1>9, <1>10, <1>11, <1>12, <1>13,
     <1>14, <1>15, <1>16, <1>17, <1>19, <1>20, <1>21, <1>22, <1>23, <1>24
     DEF Next, PoolNext, SweepStep, FlushStep, DaemonStep

(* The types and the shape of the worker hold in every reachable state. *)
THEOREM TypeInvariant == Spec => []TypeInv
BY TypeInit, TypeNext, PTL DEF Spec

(* The pool state, the queue and everything handed off keep their types,   *)
(* and the stored queue never grows beyond MAX_QUEUE (poolEnqueue).        *)
THEOREM TypeCorrect == Spec => []TypeOK
<1>1. TypeInv => TypeOK
  BY DEF TypeInv
<1> QED
  BY <1>1, TypeInvariant, PTL

-----------------------------------------------------------------------------
(* The inductive invariant of the hand-off.  The worker's copy agrees with *)
(* storage except while a write is pending; what is being sent is the      *)
(* sealed prefix; every name was issued; and every batch that was ever     *)
(* sent has landed, the sealed one excepted, in the order of seal times.   *)

MemoryFollowsStorage ==
  /\ phase # "down" /\ write = NoWrite => mem = store
  /\ write.op = "none" => write = NoWrite
  /\ write.op = "enqueue" =>
       /\ mem.sealed = store.sealed
       /\ mem.lastSeal = store.lastSeal
       /\ Len(mem.queue) <= Len(store.queue)
       /\ First(store.queue, Len(mem.queue)) = mem.queue
  /\ write.op = "seal" => flush = "sealing"
  /\ write.op = "ack" => flush = "acking"

SealedFile == [name |-> store.sealed.name, content |-> First(store.queue, store.sealed.count)]

RequestIsSealed ==
  /\ flush \in {"send", "wait", "stored"} => store.sealed # NoBatch
  /\ flush \in {"wait", "stored"} => request = SealedFile
  /\ flush \notin {"wait", "stored"} => request = NoRequest

NamesAreIssued ==
  /\ \A f \in Sent : f.name[2] \in 1 .. issued
  /\ store.sealed # NoBatch => store.sealed.name[2] \in 1 .. issued

AllButSealedLanded ==
  /\ \A f \in Sent :
       HasLanded(f.name) \/ (store.sealed # NoBatch /\ f.name = store.sealed.name)
  /\ \A f \in outbox : HasLanded(f.name)
  /\ flush = "stored" => HasLanded(store.sealed.name)

SealTimesAscend ==
  /\ store.sealed # NoBatch => store.sealed.name[1] = store.lastSeal
  /\ \A i \in DOMAIN landed :
       \/ landed[i].name[1] < store.lastSeal
       \/ landed[i].name[1] = store.lastSeal /\ store.sealed = NoBatch
       \/ store.sealed # NoBatch /\ landed[i].name = store.sealed.name

HandoffInv ==
  /\ MemoryFollowsStorage
  /\ RequestIsSealed
  /\ NamesAreIssued
  /\ SealedBytesAreStable
  /\ NoConflict
  /\ AllButSealedLanded
  /\ SealTimesAscend
  /\ SealTimesFollowSealOrder
  /\ store.sealed.count <= MaxBatch

(* The hand-off invariant holds before anything was captured. *)
LEMMA HandoffInit == Init => HandoffInv
<1> SUFFICES ASSUME Init PROVE HandoffInv
  OBVIOUS
<1>1. store = EmptyPool /\ mem = EmptyPool /\ store.sealed = NoBatch /\ NoBatch.count = 0
  BY DEF Init, EmptyPool, NoBatch
<1>2. Sent = {} /\ landed = <<>> /\ outbox = {} /\ request = NoRequest /\ flush = "idle" /\ write = NoWrite
  BY DEF Init, Sent, Elements
<1>3. MemoryFollowsStorage /\ RequestIsSealed /\ NoConflict
  BY <1>1, <1>2 DEF Init, MemoryFollowsStorage, RequestIsSealed, NoConflict, NoWrite
<1>4. NamesAreIssued /\ SealedBytesAreStable /\ AllButSealedLanded
  BY <1>1, <1>2 DEF NamesAreIssued, SealedBytesAreStable, AllButSealedLanded
<1>5. SealTimesAscend /\ SealTimesFollowSealOrder
  BY <1>1, <1>2 DEF SealTimesAscend, SealTimesFollowSealOrder
<1>6. store.sealed.count <= MaxBatch
  BY <1>1, PoolAssumption
<1> QED
  BY <1>3, <1>4, <1>5, <1>6 DEF HandoffInv

(* A step that changes neither the stored pool state nor what has landed   *)
(* can only disturb the worker's copy and the request.                     *)
LEMMA HandoffQuiet ==
  ASSUME HandoffInv, UNCHANGED <<store, landed, issued>>, Sent' \subseteq Sent,
         outbox' \subseteq outbox,
         MemoryFollowsStorage', RequestIsSealed', NoConflict',
         flush' = "stored" => flush = "stored"
  PROVE  HandoffInv'
<1>1. NamesAreIssued'
  BY DEF HandoffInv, NamesAreIssued
<1>2. SealedBytesAreStable'
  BY DEF HandoffInv, SealedBytesAreStable
<1>3. AllButSealedLanded'
  BY DEF HandoffInv, AllButSealedLanded, HasLanded
<1>4. SealTimesAscend' /\ SealTimesFollowSealOrder'
  BY DEF HandoffInv, SealTimesAscend, SealTimesFollowSealOrder
<1> QED
  BY <1>1, <1>2, <1>3, <1>4 DEF HandoffInv

(* The same for a step that leaves the hand-off alone altogether. *)
LEMMA HandoffFrame ==
  ASSUME HandoffInv, UNCHANGED <<store, mem, write, flush, request, late, landed, issued>>,
         outbox' \subseteq outbox, phase' # "down" => phase # "down"
  PROVE  HandoffInv'
<1>1. Sent' \subseteq Sent
  BY DEF Sent
<1>2. MemoryFollowsStorage' /\ RequestIsSealed' /\ NoConflict'
  BY DEF HandoffInv, MemoryFollowsStorage, RequestIsSealed, SealedFile, NoConflict
<1> QED
  BY <1>1, <1>2, HandoffQuiet

(* The hand-off gives up or goes on without a request. *)
LEMMA HandoffMoves ==
  ASSUME HandoffInv, UNCHANGED <<store, mem, write, phase, outbox, landed, issued>>,
         late' \subseteq late \union {request}, flush = "wait" \/ late' \subseteq late,
         request' = NoRequest, flush \notin {"sealing", "acking"},
         flush' \in {"idle", "seal", "send"},
         flush' = "send" => store.sealed # NoBatch
  PROVE  HandoffInv'
<1>1. Sent' \subseteq Sent
  <2>1. late' \subseteq Sent
    <3>1. flush = "wait" => late \union {request} \subseteq Sent
      BY DEF HandoffInv, RequestIsSealed, SealedFile, NamesAreIssued, Sent, NoRequest
    <3> QED
      BY <3>1 DEF Sent
  <2> QED
    BY <2>1 DEF Sent
<1>2. MemoryFollowsStorage' /\ RequestIsSealed' /\ NoConflict'
  BY DEF HandoffInv, MemoryFollowsStorage, RequestIsSealed, SealedFile, NoConflict
<1> QED
  BY <1>1, <1>2, HandoffQuiet

(* A pending write is answered: memory and storage agree again. *)
LEMMA HandoffAnswered ==
  ASSUME TypeInv, HandoffInv, UNCHANGED <<store, phase, request, late, outbox, landed, issued>>,
         mem' = store, write' = NoWrite,
         \/ flush' = flush
         \/ write.op = "seal" /\ flush' = IF store.sealed = NoBatch THEN "idle" ELSE "send"
         \/ write.op = "ack" /\ flush' \in {"idle", "seal"}
  PROVE  HandoffInv'
<1>1. Sent' \subseteq Sent
  BY DEF Sent
<1>2. MemoryFollowsStorage' /\ RequestIsSealed' /\ NoConflict'
  BY DEF HandoffInv, MemoryFollowsStorage, RequestIsSealed, SealedFile, NoConflict, NoWrite
<1>3. flush' = "stored" => flush = "stored"
  OBVIOUS
<1> QED
  BY <1>1, <1>2, <1>3, HandoffQuiet

(* The daemon serves a request that was sent: if it lands now, it is the   *)
(* sealed batch, later than every batch that landed before.                *)
LEMMA HandoffLands ==
  ASSUME TypeInv, HandoffInv, NEW r \in Sent, WriteOutboxFile(r),
         UNCHANGED <<store, mem, write, phase, request, issued>>,
         late' \subseteq late,
         flush' # flush => flush = "wait" /\ flush' = "stored" /\ r = request
  PROVE  HandoffInv'
<1>1. r \in File /\ landed \in Seq(File) /\ outbox \subseteq File
  BY ElementsOfSeq DEF Sent, TypeInv, TypeOK
<1>2. Sent' \subseteq Sent
  <2>1. CASE outbox' = outbox /\ landed' = landed
    BY <2>1 DEF Sent
  <2>2. CASE outbox' = outbox \union {r} /\ landed' = landed
    BY <2>2 DEF Sent
  <2>3. CASE outbox' = outbox \union {r} /\ landed' = Append(landed, r)
    <3>1. Elements(landed') = Elements(landed) \union {r}
      BY <1>1, <2>3, ElementsOfAppend
    <3> QED
      BY <2>3, <3>1 DEF Sent
  <2> QED
    BY <2>1, <2>2, <2>3 DEF WriteOutboxFile
<1>3. MemoryFollowsStorage' /\ RequestIsSealed' /\ NoConflict'
  BY DEF HandoffInv, MemoryFollowsStorage, RequestIsSealed, SealedFile, NoConflict
<1>4. NamesAreIssued' /\ SealedBytesAreStable'
  BY <1>2 DEF HandoffInv, NamesAreIssued, SealedBytesAreStable
<1>5. CASE landed' = landed /\ HasLanded(r.name)
  <2>1. AllButSealedLanded'
    <3>1. \A f \in outbox' : f \in outbox \/ f = r
      BY DEF WriteOutboxFile
    <3> QED
      BY <1>2, <1>5, <3>1 DEF HandoffInv, AllButSealedLanded, HasLanded, RequestIsSealed, SealedFile
  <2>2. SealTimesAscend' /\ SealTimesFollowSealOrder'
    BY <1>5 DEF HandoffInv, SealTimesAscend, SealTimesFollowSealOrder
  <2> QED
    BY <1>3, <1>4, <2>1, <2>2 DEF HandoffInv
<1>6. CASE ~HasLanded(r.name) /\ landed' = Append(landed, r)
  <2>1. store.sealed # NoBatch /\ r.name = store.sealed.name /\ r.name[1] = store.lastSeal
    BY <1>6 DEF HandoffInv, AllButSealedLanded, SealTimesAscend
  <2>2. /\ DOMAIN landed = 1 .. Len(landed)
        /\ DOMAIN landed' = 1 .. Len(landed) + 1
        /\ \A i \in 1 .. Len(landed) : landed'[i] = landed[i]
        /\ landed'[Len(landed) + 1] = r
        /\ Len(landed) \in Nat
    BY <1>1, <1>6
  <2>3. \A i \in DOMAIN landed : landed[i].name[1] < r.name[1]
    BY <1>6, <2>1 DEF HandoffInv, SealTimesAscend, HasLanded
  <2>4. \A i \in 1 .. Len(landed) + 1 : i \in 1 .. Len(landed) \/ i = Len(landed) + 1
    BY <2>2
  <2>5. SealTimesFollowSealOrder'
    <3>1. ASSUME NEW i \in DOMAIN landed', NEW j \in DOMAIN landed', i < j
          PROVE  landed'[i].name[1] < landed'[j].name[1]
      <4>1. i \in 1 .. Len(landed)
        BY <2>2, <3>1
      <4>2. CASE j \in 1 .. Len(landed)
        BY <2>2, <3>1, <4>1, <4>2 DEF HandoffInv, SealTimesFollowSealOrder
      <4>3. CASE j = Len(landed) + 1
        BY <2>2, <2>3, <4>1, <4>3
      <4> QED
        BY <2>2, <2>4, <4>2, <4>3
    <3> QED
      BY <3>1 DEF SealTimesFollowSealOrder
  <2>6. SealTimesAscend'
    <3>1. ASSUME NEW i \in DOMAIN landed'
          PROVE  landed'[i].name[1] < store.lastSeal \/ landed'[i].name = store.sealed.name
      BY <2>1, <2>2, <2>3, <2>4
    <3> QED
      BY <2>1, <3>1 DEF HandoffInv, SealTimesAscend
  <2>7. AllButSealedLanded'
    <3>1. \A n : HasLanded(n) => HasLanded(n)'
      BY <2>2 DEF HasLanded
    <3>2. HasLanded(r.name)'
      BY <2>2 DEF HasLanded
    <3> QED
      <4>1. \A f \in outbox' : f \in outbox \/ f = r
        BY DEF WriteOutboxFile
      <4>2. flush' = "stored" => HasLanded(store.sealed.name)'
        BY <2>1, <3>1, <3>2 DEF HandoffInv, AllButSealedLanded
      <4> QED
        BY <1>2, <2>1, <3>1, <3>2, <4>1, <4>2 DEF HandoffInv, AllButSealedLanded
  <2> QED
    BY <1>3, <1>4, <2>5, <2>6, <2>7 DEF HandoffInv
<1> QED
  <2>1. HasFile(r.name) => HasLanded(r.name)
    BY DEF HasFile, HandoffInv, AllButSealedLanded
  <2> QED
    BY <1>5, <1>6, <2>1 DEF WriteOutboxFile

(* Memory and storage agree whenever the queue write lock is free. *)
LEMMA MemoryIsStorage ==
  ASSUME TypeInv, HandoffInv, write = NoWrite,
         flush # "idle" \/ \E c \in Callers : AtStep(c, "enqueue")
  PROVE  mem = store /\ phase # "down"
BY DEF TypeInv, StoppedWorkerIsIdle, AtStep, Callers, HandoffInv, MemoryFollowsStorage

(* What the worker is about to send is the sealed prefix of storage, also  *)
(* while an admission is being stored.                                     *)
LEMMA SendsSealed ==
  ASSUME TypeInv, HandoffInv, flush = "send"
  PROVE  /\ mem.sealed = store.sealed
         /\ First(mem.queue, mem.sealed.count) = First(store.queue, store.sealed.count)
<1>1. phase # "down" /\ write.op \in {"none", "enqueue"}
  BY DEF TypeInv, TypeOK, StoppedWorkerIsIdle, HandoffInv, MemoryFollowsStorage
<1>2. CASE write.op = "none"
  BY <1>1, <1>2 DEF HandoffInv, MemoryFollowsStorage
<1>3. CASE write.op = "enqueue"
  <2>1. /\ mem.sealed = store.sealed
        /\ Len(mem.queue) <= Len(store.queue)
        /\ First(store.queue, Len(mem.queue)) = mem.queue
    BY <1>3 DEF HandoffInv, MemoryFollowsStorage
  <2>2. /\ store.queue \in Seq(Tweets)
        /\ mem.queue \in Seq(Tweets)
        /\ mem.sealed.count \in 0 .. Len(mem.queue)
    BY CountInQueue DEF TypeInv, TypeOK, SealsFit
  <2>3. Len(mem.queue) \in 0 .. Len(store.queue)
    BY <2>1, <2>2
  <2> QED
    BY <2>1, <2>2, <2>3, FirstOfFirst
<1> QED
  BY <1>1, <1>2, <1>3

(* An admission only makes the queue longer. *)
LEMMA Admission ==
  ASSUME TypeInv, HandoffInv, NEW c \in Callers, EnqueueWrite(c)
  PROVE  /\ mem = store /\ phase # "down"
         /\ Prepared(c).accepted \in Seq(Tweets)
         /\ store' = [store EXCEPT !.queue = store.queue \o Prepared(c).accepted,
                                   !.samples = Prepared(c).samples]
<1>1. AtStep(c, "enqueue") /\ write = NoWrite
  BY DEF EnqueueWrite
<1>2. mem = store /\ phase # "down"
  BY <1>1, MemoryIsStorage
<1>3. payloads[KeyOf(c)] \in Payloads
  BY <1>1 DEF AtStep, KeyOf, TypeInv, TypeOK, CallersHaveKeys, Callers
<1>4. mem.samples \in SampleStates
  BY DEF TypeInv, TypeOK, PoolState
<1> QED
  BY <1>2, <1>3, <1>4, PoolAssumption DEF EnqueueWrite, Prepared

(* An admission keeps the hand-off invariant: the sealed prefix stays. *)
LEMMA HandoffAdmits ==
  ASSUME TypeInv, HandoffInv, NEW c \in Callers, EnqueueWrite(c)
  PROVE  HandoffInv'
<1> DEFINE new == Prepared(c).accepted
<1>1. /\ mem = store /\ phase # "down"
      /\ new \in Seq(Tweets)
      /\ store' = [store EXCEPT !.queue = store.queue \o new, !.samples = Prepared(c).samples]
  BY Admission
<1> HIDE DEF new
<1>2. /\ write'.op = "enqueue"
      /\ UNCHANGED <<mem, phase, flush, request, late, outbox, landed, issued>>
  BY DEF EnqueueWrite, daemon, history
<1>3. /\ store.queue \in Seq(Tweets)
      /\ store.sealed.count \in 0 .. Len(store.queue)
  BY CountInQueue DEF TypeInv, TypeOK, SealsFit
<1>4. /\ store'.queue = store.queue \o new
      /\ store'.sealed = store.sealed
      /\ store'.lastSeal = store.lastSeal
  BY <1>1 DEF TypeInv, TypeOK, PoolState
<1>5. /\ First(store'.queue, store.sealed.count) = First(store.queue, store.sealed.count)
      /\ First(store'.queue, Len(store.queue)) = store.queue
      /\ Len(store.queue) <= Len(store'.queue)
  BY <1>1, <1>3, <1>4, FirstOfConcat DEF First
<1>6. Sent' = Sent
  BY <1>2 DEF Sent
<1>7. write.op = "none"
  BY DEF EnqueueWrite, NoWrite
<1>8. MemoryFollowsStorage' /\ NoConflict'
  BY <1>1, <1>2, <1>4, <1>5 DEF HandoffInv, MemoryFollowsStorage, NoConflict, NoWrite
<1>9. RequestIsSealed'
  BY <1>2, <1>4, <1>5 DEF HandoffInv, RequestIsSealed, SealedFile
<1>10. NamesAreIssued' /\ SealedBytesAreStable'
  BY <1>2, <1>4, <1>5, <1>6 DEF HandoffInv, NamesAreIssued, SealedBytesAreStable
<1>11. AllButSealedLanded'
  BY <1>2, <1>4, <1>6 DEF HandoffInv, AllButSealedLanded, HasLanded
<1>12. SealTimesAscend' /\ SealTimesFollowSealOrder'
  BY <1>2, <1>4 DEF HandoffInv, SealTimesAscend, SealTimesFollowSealOrder
<1> QED
  BY <1>4, <1>8, <1>9, <1>10, <1>11, <1>12 DEF HandoffInv

(* Every step keeps the hand-off invariant. *)
LEMMA HandoffNext ==
  ASSUME TypeInv, HandoffInv, [Next]_vars
  PROVE  HandoffInv'
<1>1. CASE Start
  <2>1. mem' = store
    <3>1. store.sealed # NoBatch => ValidSealed(store.sealed, store.queue)
      BY DEF TypeInv, TypeOK, SealsFit, Fits, ValidSealed, PoolState
    <3>2. mem' = [store EXCEPT !.sealed = store.sealed]
      BY <1>1, <3>1 DEF Start
    <3> QED
      BY <3>2 DEF TypeInv, TypeOK, PoolState
  <2>2. UNCHANGED <<store, write, flush, request, late, outbox, landed, issued>>
    BY <1>1 DEF Start, durable, daemon, history
  <2>3. Sent' \subseteq Sent
    BY <2>2 DEF Sent
  <2>4. write = NoWrite /\ flush = "idle"
    BY <1>1 DEF Start, TypeInv, StoppedWorkerIsIdle
  <2>5. MemoryFollowsStorage' /\ RequestIsSealed' /\ NoConflict'
    BY <2>1, <2>2, <2>4 DEF HandoffInv, MemoryFollowsStorage, RequestIsSealed, NoConflict, NoWrite
  <2> QED
    BY <2>2, <2>3, <2>5, HandoffQuiet
<1>2. CASE Stop
  <2>1. /\ UNCHANGED <<store, outbox, landed, issued>>
        /\ write' = NoWrite /\ flush' = "idle" /\ request' = NoRequest /\ phase' = "down"
        /\ late' = IF flush = "wait" THEN late \union {request} ELSE late
    BY <1>2 DEF Stop, durable
  <2>2. Sent' \subseteq Sent
    <3>1. flush = "wait" => request \in Sent
      BY DEF HandoffInv, RequestIsSealed, SealedFile, NamesAreIssued, Sent, NoRequest
    <3>2. late' \subseteq Sent
      BY <2>1, <3>1 DEF Sent
    <3> QED
      BY <2>1, <3>2 DEF Sent
  <2>3. MemoryFollowsStorage' /\ RequestIsSealed' /\ NoConflict'
    BY <2>1 DEF HandoffInv, MemoryFollowsStorage, RequestIsSealed, NoConflict, NoWrite
  <2> QED
    BY <2>1, <2>2, <2>3, HandoffQuiet
<1>3. CASE TogglePause
  BY <1>3, HandoffFrame DEF TogglePause, durable, daemon
<1>4. ASSUME NEW tweets \in Payloads, Stage(tweets) PROVE HandoffInv'
  BY <1>4, HandoffFrame DEF Stage, daemon
<1>5. CASE SweepStart
  BY <1>5, HandoffFrame DEF SweepStart, durable, daemon, history
<1>6. CASE SweepNext
  <2>1. phase # "down"
    BY <1>6 DEF SweepNext, TypeInv, StoppedWorkerIsIdle
  <2> QED
    BY <1>6, <2>1, HandoffFrame DEF SweepNext, durable, daemon, history
<1>7. CASE FlushStart
  <2>1. request = NoRequest /\ flush \notin {"sealing", "acking"}
    BY <1>7 DEF FlushStart, HandoffInv, RequestIsSealed
  <2> QED
    BY <1>7, <2>1, HandoffMoves DEF FlushStart, durable, daemon, history
<1>8. CASE SealSkip
  <2>1. mem = store
    BY <1>8 DEF HandoffInv, SealSkip, MemoryFollowsStorage, TypeInv, StoppedWorkerIsIdle
  <2>2. request = NoRequest
    BY <1>8 DEF SealSkip, HandoffInv, RequestIsSealed
  <2> QED
    BY <1>8, <2>1, <2>2, HandoffMoves DEF SealSkip, durable, daemon, history
<1>9. CASE SealFails
  <2>1. request = NoRequest
    BY <1>9 DEF SealFails, HandoffInv, RequestIsSealed
  <2> QED
    BY <1>9, <2>1, HandoffMoves DEF SealFails, durable, daemon
<1>10. CASE SealDone
  BY <1>10, HandoffAnswered DEF SealDone, durable, daemon, history
<1>11. CASE HandoffFails
  BY <1>11, HandoffMoves DEF HandoffFails, durable, daemon
<1>12. CASE Timeout
  BY <1>12, HandoffMoves DEF Timeout, durable
<1>13. CASE LoseAnswer
  BY <1>13, HandoffMoves DEF LoseAnswer, durable, daemon
<1>14. CASE AckFails
  BY <1>14, HandoffMoves DEF AckFails, durable, daemon
<1>15. CASE AckDone
  BY <1>15, HandoffAnswered DEF AckDone, durable, daemon, history
<1>16. CASE Send
  <2>1. /\ UNCHANGED <<store, mem, write, phase, late, outbox, landed, issued>>
        /\ flush = "send" /\ flush' = "wait"
        /\ request' = [name |-> mem.sealed.name, content |-> First(mem.queue, mem.sealed.count)]
    BY <1>16 DEF Send, durable, daemon, history
  <2>2. request' = SealedFile
    BY <2>1, SendsSealed DEF SealedFile
  <2>3. store.sealed # NoBatch /\ request = NoRequest
    BY <2>1 DEF HandoffInv, RequestIsSealed
  <2>4. \A f \in Sent' : f \in Sent \/ f = SealedFile
    BY <2>1, <2>2, <2>3 DEF Sent
  <2>5. MemoryFollowsStorage' /\ RequestIsSealed' /\ NoConflict'
    BY <2>1, <2>2, <2>3 DEF HandoffInv, MemoryFollowsStorage, RequestIsSealed, SealedFile,
                            NoConflict
  <2>6. NamesAreIssued'
    BY <2>1, <2>3, <2>4 DEF HandoffInv, NamesAreIssued, SealedFile
  <2>7. SealedBytesAreStable'
    BY <2>1, <2>3, <2>4 DEF HandoffInv, SealedBytesAreStable, SealedFile
  <2>8. AllButSealedLanded'
    BY <2>1, <2>3, <2>4 DEF HandoffInv, AllButSealedLanded, HasLanded, SealedFile
  <2>9. SealTimesAscend' /\ SealTimesFollowSealOrder'
    BY <2>1 DEF HandoffInv, SealTimesAscend, SealTimesFollowSealOrder
  <2> QED
    BY <2>1, <2>5, <2>6, <2>7, <2>8, <2>9 DEF HandoffInv
<1>17. CASE AckWrite
  <2>1. mem = store /\ phase # "down"
    BY <1>17, MemoryIsStorage DEF AckWrite
  <2>2. /\ store'.sealed = NoBatch
        /\ store'.lastSeal = store.lastSeal
        /\ write'.op = "ack"
        /\ flush = "stored" /\ flush' = "acking" /\ request' = NoRequest
        /\ UNCHANGED <<mem, phase, late, outbox, landed, issued>>
    BY <1>17, <2>1 DEF AckWrite, daemon, history, TypeInv, TypeOK, PoolState
  <2>3. Sent' \subseteq Sent
    BY <2>2 DEF Sent
  <2>4. MemoryFollowsStorage' /\ RequestIsSealed' /\ NoConflict'
    BY <2>2 DEF MemoryFollowsStorage, RequestIsSealed, NoConflict, NoWrite
  <2>5. NamesAreIssued' /\ SealedBytesAreStable'
    BY <2>2, <2>3 DEF HandoffInv, NamesAreIssued, SealedBytesAreStable
  <2>6. AllButSealedLanded'
    BY <2>2, <2>3 DEF HandoffInv, AllButSealedLanded, HasLanded
  <2>7. SealTimesAscend' /\ SealTimesFollowSealOrder'
    BY <2>2 DEF HandoffInv, SealTimesAscend, SealTimesFollowSealOrder
  <2>8. store'.sealed.count <= MaxBatch
    BY <2>2, PoolAssumption DEF NoBatch
  <2> QED
    BY <2>4, <2>5, <2>6, <2>7, <2>8 DEF HandoffInv
<1>18. CASE SealSome
  <2>1. PICK n \in 0 .. Len(mem.queue) :
          \E count \in BatchSizes(mem.queue, n), now \in Clock : Seal(n, count, now)
    BY <1>18 DEF SealSome
  <2>2. PICK count \in BatchSizes(mem.queue, n), now \in Clock : Seal(n, count, now)
    BY <2>1
  <2>3. mem = store /\ phase # "down" /\ store.sealed = NoBatch
    BY <2>2, MemoryIsStorage DEF Seal
  <2>4. /\ store.lastSeal \in Nat /\ now \in Nat /\ issued \in Nat
        /\ count \in Nat /\ count <= MaxBatch
    BY <2>3, PoolAssumption DEF TypeInv, TypeOK, PoolState, BatchSizes
  <2>5. SealTime(now) \in Nat /\ SealTime(now) > store.lastSeal
    BY <2>3, <2>4 DEF SealTime
  <2>6. /\ flush = "seal" /\ flush' = "sealing" /\ write'.op = "seal"
        /\ issued' = issued + 1
        /\ UNCHANGED <<mem, phase, request, late, outbox, landed>>
    BY <2>2 DEF Seal, daemon
  <2>7. \/ /\ store'.sealed = [name |-> <<SealTime(now), issued + 1>>, count |-> count]
           /\ store'.lastSeal = SealTime(now)
        \/ store'.sealed = NoBatch /\ store'.lastSeal = store.lastSeal
    BY <2>2, <2>3 DEF Seal, TypeInv, TypeOK, PoolState
  <2>8. Sent' = Sent
    BY <2>6 DEF Sent
  <2>9. \A f \in Sent : f.name[2] \in 1 .. issued /\ HasLanded(f.name)
    BY <2>3 DEF HandoffInv, NamesAreIssued, AllButSealedLanded
  <2>10. \A i \in DOMAIN landed : landed[i].name[1] \in Nat /\ landed[i].name[1] <= store.lastSeal
    <3>1. ASSUME NEW i \in DOMAIN landed PROVE landed[i].name[1] \in Nat
      <4>1. landed[i] \in File
        BY DEF TypeInv, TypeOK
      <4>2. landed[i].name \in Nat \X Nat
        BY <4>1 DEF File, Names
      <4> QED
        BY <4>2
    <3> QED
      BY <2>3, <2>4, <3>1 DEF HandoffInv, SealTimesAscend
  <2>11. MemoryFollowsStorage' /\ RequestIsSealed' /\ NoConflict'
    BY <2>6 DEF HandoffInv, MemoryFollowsStorage, RequestIsSealed, NoConflict, NoWrite
  <2>12. NamesAreIssued'
    BY <2>4, <2>6, <2>7, <2>8, <2>9 DEF NamesAreIssued
  <2>13. SealedBytesAreStable'
    <3>1. \A f \in Sent' : store'.sealed # NoBatch => f.name # store'.sealed.name
      BY <2>4, <2>7, <2>8, <2>9
    <3> QED
      BY <2>8, <3>1 DEF HandoffInv, SealedBytesAreStable
  <2>14. AllButSealedLanded'
    BY <2>6, <2>8, <2>9 DEF HandoffInv, AllButSealedLanded, HasLanded
  <2>15. SealTimesAscend' /\ SealTimesFollowSealOrder'
    BY <2>3, <2>4, <2>5, <2>6, <2>7, <2>10 DEF HandoffInv, SealTimesAscend, SealTimesFollowSealOrder
  <2>16. store'.sealed.count <= MaxBatch
    BY <2>4, <2>7, PoolAssumption DEF NoBatch
  <2> QED
    BY <2>11, <2>12, <2>13, <2>14, <2>15, <2>16 DEF HandoffInv
<1>19. CASE DaemonStore
  <2>1. request \in Sent /\ request = SealedFile
    BY <1>19 DEF HandoffInv, DaemonStore, RequestIsSealed, SealedFile, NamesAreIssued, Sent, NoRequest
  <2>2. ~Conflicts(request)
    <3>1. ASSUME NEW f \in outbox, f.name = request.name PROVE f = request
      <4>1. f.content = request.content
        BY <2>1, <3>1 DEF HandoffInv, SealedBytesAreStable, Sent
      <4> QED
        BY <3>1, <4>1 DEF TypeInv, TypeOK, File
    <3> QED
      BY <3>1 DEF Conflicts, HasFile
  <2> QED
    BY <1>19, <2>1, <2>2, HandoffLands DEF DaemonStore, durable
<1>20. ASSUME NEW r \in late, LateArrives(r) PROVE HandoffInv'
  <2>1. r \in Sent
    BY DEF Sent
  <2> QED
    <3>1. /\ WriteOutboxFile(r)
          /\ UNCHANGED <<store, mem, write, phase, request, issued>>
          /\ late' \subseteq late
          /\ flush' = flush
      BY <1>20 DEF LateArrives, durable, worker
    <3> QED
      BY <2>1, <3>1, HandoffLands
<1>21. ASSUME NEW f \in outbox, TakeFile(f) PROVE HandoffInv'
  BY <1>21, HandoffFrame DEF TakeFile, durable, worker, history
<1>22. ASSUME NEW c \in Callers, CallerStep(c) PROVE HandoffInv'
  <2>1. CASE EnqueueFull(c)
    BY <2>1, HandoffFrame DEF EnqueueFull, durable, daemon, history
  <2>2. CASE EnqueueWrite(c)
    BY <2>2, HandoffAdmits
  <2>3. CASE EnqueueFails(c)
    BY <2>3, HandoffFrame DEF EnqueueFails, durable, daemon
  <2>4. CASE EnqueueDone(c)
    BY <2>4, HandoffAnswered DEF EnqueueDone, durable, daemon, history
  <2>5. CASE Clear(c)
    BY <2>5, HandoffFrame DEF Clear, daemon
  <2> QED
    BY <1>22, <2>1, <2>2, <2>3, <2>4, <2>5 DEF CallerStep
<1>23. CASE UNCHANGED vars
  BY <1>23, HandoffFrame DEF vars
<1> QED
  BY <1>1, <1>2, <1>3, <1>4, <1>5, <1>6, <1>7, <1>8, <1>9, <1>10, <1>11, <1>12, <1>13,
     <1>14, <1>15, <1>16, <1>17, <1>18, <1>19, <1>20, <1>21, <1>22, <1>23
     DEF Next, PoolNext, SweepStep, FlushStep, DaemonStep

(* Memory, storage, requests, files and landed batches agree about every   *)
(* batch name in every reachable state, through stops, losses and retries. *)
THEOREM HandoffInvariant == Spec => []HandoffInv
<1>1. Init => TypeInv /\ HandoffInv
  BY TypeInit, HandoffInit
<1>2. TypeInv /\ HandoffInv /\ [Next]_vars => (TypeInv /\ HandoffInv)'
  BY TypeNext, HandoffNext
<1> QED
  BY <1>1, <1>2, PTL DEF Spec

(* A sealed batch never changes, whatever is stopped, lost or repeated: a  *)
(* batch name has one content wherever it is found.                        *)
THEOREM SealedBytesNeverChange == Spec => []SealedBytesAreStable
<1>1. HandoffInv => SealedBytesAreStable
  BY DEF HandoffInv
<1> QED
  BY <1>1, HandoffInvariant, PTL

(* The daemon never has a reason to refuse a batch. *)
THEOREM DaemonNeverRefuses == Spec => []NoConflict
<1>1. HandoffInv => NoConflict
  BY DEF HandoffInv
<1> QED
  BY <1>1, HandoffInvariant, PTL

(* Batches land in the order of their seal times, whatever the clock does. *)
THEOREM SealTimesOrdered == Spec => []SealTimesFollowSealOrder
<1>1. HandoffInv => SealTimesFollowSealOrder
  BY DEF HandoffInv
<1> QED
  BY <1>1, HandoffInvariant, PTL

-----------------------------------------------------------------------------
(* The steps that touch the stored pool state or what has landed. *)
LEMMA Effects ==
  ASSUME TypeInv, HandoffInv, [Next]_vars
  PROVE  \/ UNCHANGED <<store, landed>>
         \/ \E c \in Callers : EnqueueWrite(c)
         \/ SealSome
         \/ AckWrite
         \/ \E r \in Sent : WriteOutboxFile(r) /\ UNCHANGED <<store, flush>>
         \/ \E r \in Sent : WriteOutboxFile(r) /\ UNCHANGED store /\ flush = "wait"
<1>1. CASE Start
  BY <1>1 DEF Start, durable, history
<1>2. CASE Stop
  BY <1>2 DEF Stop, durable
<1>3. CASE TogglePause
  BY <1>3 DEF TogglePause, durable
<1>4. ASSUME NEW tweets \in Payloads, Stage(tweets) PROVE UNCHANGED <<store, landed>>
  BY <1>4 DEF Stage
<1>5. CASE SweepStep
  BY <1>5 DEF SweepStep, SweepStart, SweepNext, durable, history
<1>6. CASE FlushStart \/ SealSkip \/ SealFails \/ SealDone
  BY <1>6 DEF FlushStart, SealSkip, SealFails, SealDone, durable, history
<1>7. CASE Send \/ HandoffFails \/ Timeout \/ LoseAnswer
  BY <1>7 DEF Send, HandoffFails, Timeout, LoseAnswer, durable, history
<1>8. CASE AckFails \/ AckDone
  BY <1>8 DEF AckFails, AckDone, durable, history
<1>9. CASE DaemonStore
  <2>1. request \in Sent
    BY <1>9 DEF DaemonStore, HandoffInv, RequestIsSealed, SealedFile, NamesAreIssued, Sent, NoRequest
  <2> QED
    BY <1>9, <2>1 DEF DaemonStore, durable
<1>10. ASSUME NEW r \in late, LateArrives(r)
       PROVE  r \in Sent /\ WriteOutboxFile(r) /\ UNCHANGED <<store, flush>>
  BY <1>10 DEF LateArrives, durable, worker, Sent
<1>11. ASSUME NEW f \in outbox, TakeFile(f) PROVE UNCHANGED <<store, landed>>
  BY <1>11 DEF TakeFile, durable, history
<1>12. ASSUME NEW c \in Callers, CallerStep(c)
       PROVE  EnqueueWrite(c) \/ UNCHANGED <<store, landed>>
  BY <1>12 DEF CallerStep, EnqueueFull, EnqueueFails, EnqueueDone, Clear, durable, history
<1>13. CASE UNCHANGED vars
  BY <1>13 DEF vars
<1> QED
  BY <1>1, <1>2, <1>3, <1>4, <1>5, <1>6, <1>7, <1>8, <1>9, <1>10, <1>11, <1>12, <1>13
     DEF Next, PoolNext, FlushStep, DaemonStep

(* The acknowledgement: what leaves the queue is the batch that landed.    *)
LEMMA Acknowledgement ==
  ASSUME TypeInv, HandoffInv, AckWrite
  PROVE  /\ UNCHANGED landed
         /\ SealedLanded
         /\ store.queue \in Seq(Tweets)
         /\ store.sealed.count \in 1 .. Len(store.queue)
         /\ store'.queue = AfterFirst(store.queue, store.sealed.count)
         /\ store'.sealed = NoBatch
         /\ store'.samples = store.samples
         /\ \E i \in DOMAIN landed :
              /\ landed[i].name = store.sealed.name
              /\ landed[i].content = First(store.queue, store.sealed.count)
<1>1. mem = store
  BY MemoryIsStorage DEF AckWrite
<1>2. flush = "stored" /\ store.sealed # NoBatch
  BY DEF AckWrite, HandoffInv, RequestIsSealed
<1>3. store \in PoolState /\ Fits(store)
  BY DEF TypeInv, TypeOK, SealsFit
<1>4. /\ store'.queue = AfterFirst(store.queue, store.sealed.count)
      /\ store'.sealed = NoBatch
      /\ store'.samples = store.samples
      /\ UNCHANGED landed
  BY <1>1, <1>3 DEF AckWrite, PoolState, history
<1>5. PICK i \in DOMAIN landed : landed[i].name = store.sealed.name
  BY <1>2 DEF HandoffInv, AllButSealedLanded, HasLanded
<1>6. landed[i] \in Sent
  BY DEF Sent, Elements
<1>7. landed[i].content = First(store.queue, store.sealed.count)
  BY <1>2, <1>5, <1>6 DEF HandoffInv, SealedBytesAreStable
<1>8. store.queue \in Seq(Tweets) /\ store.sealed.count \in 1 .. Len(store.queue)
  BY <1>2, <1>3 DEF PoolState, Fits
<1> QED
  BY <1>2, <1>4, <1>5, <1>7, <1>8 DEF SealedLanded, HasLanded

(* Appending never shortens a queue. *)
LEMMA AppendingGrows ==
  ASSUME NEW S, NEW p \in Seq(S), NEW q \in Seq(S)
  PROVE  ~(Len(p \o q) < Len(p))
<1>1. Len(p \o q) = Len(p) + Len(q)
  BY ConcatProperties
<1>2. Len(p) \in Nat /\ Len(q) \in Nat
  OBVIOUS
<1> QED
  BY <1>1, <1>2

(* What leaves the stored queue, except at a seal, has landed. *)
THEOREM NothingLeavesBeforeLanding == Spec => LeavesOnlyAfterLanding
<1> DEFINE Leaves ==
      Len(store'.queue) < Len(store.queue) /\ flush # "seal" =>
        \E i \in DOMAIN landed :
          /\ landed[i].name = store.sealed.name
          /\ store.queue = landed[i].content \o store'.queue
<1>1. TypeInv => store.queue \in Seq(Tweets)
  BY DEF TypeInv, TypeOK, PoolState
<1>2. ASSUME TypeInv, UNCHANGED store PROVE Leaves
  BY <1>1, <1>2
<1>3. ASSUME TypeInv, HandoffInv, NEW c \in Callers, EnqueueWrite(c) PROVE Leaves
  <2>1. /\ Prepared(c).accepted \in Seq(Tweets)
        /\ store' = [store EXCEPT !.queue = store.queue \o Prepared(c).accepted,
                                  !.samples = Prepared(c).samples]
    BY <1>3, Admission
  <2>2. store \in PoolState
    BY <1>3 DEF TypeInv, TypeOK
  <2>3. store'.queue = store.queue \o Prepared(c).accepted
    BY <2>1, <2>2 DEF PoolState
  <2>4. ~(Len(store.queue \o Prepared(c).accepted) < Len(store.queue))
    BY <1>1, <1>3, <2>1, AppendingGrows, Zenon
  <2>5. ~(Len(store'.queue) < Len(store.queue))
    BY <2>3, <2>4, Zenon
  <2> QED
    BY <2>5, Zenon
<1>4. ASSUME SealSome PROVE Leaves
  BY <1>4 DEF SealSome, Seal
<1>5. ASSUME TypeInv, HandoffInv, AckWrite PROVE Leaves
  <2> DEFINE n == store.sealed.count
  <2>1. /\ store.queue \in Seq(Tweets) /\ n \in 1 .. Len(store.queue)
        /\ store'.queue = AfterFirst(store.queue, n)
    BY <1>5, Acknowledgement
  <2>2. PICK i \in DOMAIN landed :
          landed[i].name = store.sealed.name /\ landed[i].content = First(store.queue, n)
    BY <1>5, Acknowledgement
  <2>3. First(store.queue, n) \o AfterFirst(store.queue, n) = store.queue
    <3>1. n \in 0 .. Len(store.queue)
      BY <2>1
    <3> HIDE DEF n
    <3> QED
      BY <2>1, <3>1, FirstAndRest
  <2> QED
    BY <2>1, <2>2, <2>3
<1>6. ASSUME TypeInv, HandoffInv, [Next]_vars PROVE Leaves
  BY <1>2, <1>3, <1>4, <1>5, <1>6, Effects
<1> QED
  BY <1>6, TypeInvariant, HandoffInvariant, PTL DEF Spec, LeavesOnlyAfterLanding

-----------------------------------------------------------------------------
(* PoolSync implements BatchHandoff: an admission is Admit, a seal is      *)
(* Drop, a batch that lands is Deliver, and every other step, the          *)
(* acknowledgement among them, is invisible.                               *)

(* Concatenation with a common prefix is injective. *)
LEMMA CancelLeft ==
  ASSUME NEW S, NEW p \in Seq(S), NEW q \in Seq(S), NEW r \in Seq(S), p \o q = p \o r
  PROVE  q = r
BY ConcatSimplifications, Zenon

(* What follows a prefix of the whole, after an admission. *)
LEMMA AfterFirstOfConcat ==
  ASSUME NEW S, NEW q \in Seq(S), NEW r \in Seq(S), NEW n \in 0 .. Len(q)
  PROVE  AfterFirst(q \o r, n) = AfterFirst(q, n) \o r
<1>1. First(q, n) \in Seq(S) /\ AfterFirst(q, n) \in Seq(S) /\ q \o r \in Seq(S)
  BY FirstIsSeq, AfterFirstIsSeq, ConcatProperties
<1>2. First(q \o r, n) \o AfterFirst(q \o r, n) = q \o r
  <2>1. n \in 0 .. Len(q \o r)
    BY ConcatProperties
  <2> QED
    BY <1>1, <2>1, FirstAndRest
<1>3. First(q, n) \o (AfterFirst(q, n) \o r) = q \o r
  <2>1. First(q, n) \o (AfterFirst(q, n) \o r) = (First(q, n) \o AfterFirst(q, n)) \o r
    <3>1. \A a, b \in Seq(S) : (a \o b) \o r = a \o (b \o r)
      OBVIOUS
    <3> QED
      BY <1>1, <3>1, Zenon
  <2>2. First(q, n) \o AfterFirst(q, n) = q
    BY FirstAndRest
  <2> QED
    BY <2>1, <2>2, Zenon
<1>4. First(q \o r, n) = First(q, n)
  BY FirstOfConcat
<1>5. AfterFirst(q \o r, n) \in Seq(S) /\ AfterFirst(q, n) \o r \in Seq(S)
  <2>1. n \in 0 .. Len(q \o r)
    BY ConcatProperties
  <2> QED
    BY <1>1, <2>1, AfterFirstIsSeq, ConcatProperties
<1>6. First(q, n) \o AfterFirst(q \o r, n) = First(q, n) \o (AfterFirst(q, n) \o r)
  BY <1>2, <1>3, <1>4, Zenon
<1> QED
  BY <1>1, <1>5, <1>6, CancelLeft, Zenon

(* Nothing of a queue is dropped by dropping nothing. *)
LEMMA AfterNone ==
  ASSUME NEW S, NEW q \in Seq(S)
  PROVE  AfterFirst(q, 0) = q
BY SubSeqFull DEF AfterFirst

(* An admission keeps the queue as a prefix. *)
LEMMA PrefixOfConcat ==
  ASSUME NEW S, NEW q \in Seq(S), NEW r \in Seq(S)
  PROVE  /\ First(q \o r, Len(q)) = q
         /\ r # <<>> => Len(q \o r) > Len(q)
<1>1. Len(q) \in 0 .. Len(q)
  OBVIOUS
<1>2. First(q \o r, Len(q)) = First(q, Len(q))
  BY <1>1, FirstOfConcat
<1>3. First(q, Len(q)) = q
  BY SubSeqFull DEF First
<1>4. ASSUME r # <<>> PROVE Len(q \o r) > Len(q)
  <2>1. Len(r) \in Nat \ {0} /\ Len(q) \in Nat
    BY <1>4, EmptySeq
  <2>2. Len(q \o r) = Len(q) + Len(r)
    BY ConcatProperties
  <2> QED
    BY <2>1, <2>2
<1> QED
  BY <1>2, <1>3, <1>4

(* The contents of the landed batches, after one more has landed. *)
LEMMA ContentsOfAppend ==
  ASSUME NEW q \in Seq(File), NEW f \in File
  PROVE  LET r == Append(q, f)
         IN [i \in DOMAIN r |-> r[i].content] = Append([i \in DOMAIN q |-> q[i].content], f.content)
<1> DEFINE r == Append(q, f)
           before == [i \in 1 .. Len(q) |-> q[i].content]
           after == [i \in 1 .. Len(q) + 1 |-> r[i].content]
<1>1. /\ Len(q) \in Nat /\ DOMAIN q = 1 .. Len(q)
      /\ DOMAIN r = 1 .. Len(q) + 1
      /\ \A i \in 1 .. Len(q) : r[i] = q[i] /\ q[i] \in File
      /\ r[Len(q) + 1] = f
  OBVIOUS
<1>2. f.content \in Seq(Tweets) /\ \A i \in 1 .. Len(q) : q[i].content \in Seq(Tweets)
  BY <1>1 DEF File
<1>3. before \in Seq(Seq(Tweets)) /\ Len(before) = Len(q)
  BY <1>1, <1>2
<1>4. \A i \in 1 .. Len(q) + 1 : r[i].content \in Seq(Tweets)
  BY <1>1, <1>2
<1>5. after \in Seq(Seq(Tweets)) /\ Len(after) = Len(q) + 1
  BY <1>1, <1>4
<1>6. \A i \in 1 .. Len(q) + 1 : after[i] = Append(before, f.content)[i]
  BY <1>1, <1>2, <1>3
<1>7. Append(before, f.content) \in Seq(Seq(Tweets)) /\ Len(Append(before, f.content)) = Len(q) + 1
  BY <1>2, <1>3
<1>8. after = Append(before, f.content)
  <2> HIDE DEF after, before
  <2> QED
    BY <1>5, <1>6, <1>7, SeqEqual
<1> QED
  BY <1>1, <1>8

-----------------------------------------------------------------------------
(* The refinement mapping. *)
Pending == IF SealedLanded THEN AfterFirst(store.queue, store.sealed.count) ELSE store.queue
Batches == [i \in DOMAIN landed |-> landed[i].content]

(* The mapped initial state is the abstract one. *)
LEMMA HandoffStarts == Init => Handoff!Init
<1> SUFFICES ASSUME Init PROVE Handoff!Init
  OBVIOUS
<1>1. store.queue = <<>> /\ ~SealedLanded
  BY DEF Init, EmptyPool, SealedLanded
<1>2. landed = <<>>
  BY DEF Init
<1>3. [i \in DOMAIN landed |-> landed[i].content] = <<>>
  BY <1>2
<1> QED
  BY <1>1, <1>3 DEF Handoff!Init

(* What is pending is a queue of observations. *)
LEMMA PendingIsSeq ==
  ASSUME TypeInv
  PROVE  /\ store.queue \in Seq(Tweets)
         /\ store.sealed.count \in 0 .. Len(store.queue)
         /\ Pending \in Seq(Tweets)
<1>1. store.queue \in Seq(Tweets) /\ store.sealed.count \in 0 .. Len(store.queue)
  BY CountInQueue DEF TypeInv, TypeOK, SealsFit
<1> QED
  BY <1>1, AfterFirstIsSeq DEF Pending

(* An admission appends to what is pending. *)
LEMMA AdmissionAdmits ==
  ASSUME TypeInv, HandoffInv, NEW c \in Callers, EnqueueWrite(c)
  PROVE  /\ Pending' = Pending \o Prepared(c).accepted
         /\ Prepared(c).accepted \in Seq(Tweets)
         /\ Batches' = Batches
<1>1. /\ Prepared(c).accepted \in Seq(Tweets)
      /\ store' = [store EXCEPT !.queue = store.queue \o Prepared(c).accepted,
                                !.samples = Prepared(c).samples]
  BY Admission
<1>2. store \in PoolState
  BY DEF TypeInv, TypeOK
<1>3. /\ store'.queue = store.queue \o Prepared(c).accepted
      /\ store'.sealed = store.sealed
  BY <1>1, <1>2 DEF PoolState
<1>4. landed' = landed
  BY DEF EnqueueWrite, history
<1>5. SealedLanded' = SealedLanded
  BY <1>3, <1>4 DEF SealedLanded, HasLanded
<1>6. AfterFirst(store.queue \o Prepared(c).accepted, store.sealed.count)
        = AfterFirst(store.queue, store.sealed.count) \o Prepared(c).accepted
  BY <1>1, PendingIsSeq, AfterFirstOfConcat
<1>7. Pending' = Pending \o Prepared(c).accepted
  BY <1>3, <1>5, <1>6 DEF Pending
<1> QED
  BY <1>1, <1>4, <1>7 DEF Batches

(* A seal drops a prefix of what is pending: the new batch has a name that *)
(* nothing has landed under.                                               *)
LEMMA SealDrops ==
  ASSUME TypeInv, HandoffInv, SealSome
  PROVE  /\ \E n \in 0 .. Len(Pending) :
              /\ \A i \in 1 .. n : Pending[i] \in Oversized
              /\ Pending' = AfterFirst(Pending, n)
         /\ Batches' = Batches
<1>1. PICK n \in 0 .. Len(mem.queue) :
        \E count \in BatchSizes(mem.queue, n), now \in Clock : Seal(n, count, now)
  BY DEF SealSome
<1>2. PICK count \in BatchSizes(mem.queue, n), now \in Clock : Seal(n, count, now)
  BY <1>1
<1>3. mem = store
  BY <1>2, MemoryIsStorage DEF Seal
<1>4. store \in PoolState /\ issued \in Nat
  BY PoolAssumption DEF TypeInv, TypeOK
<1>5. /\ store.sealed = NoBatch
      /\ \A i \in 1 .. n : store.queue[i] \in Oversized
      /\ landed' = landed
  BY <1>2, <1>3 DEF Seal, LeadingOversized
<1>6. Pending = store.queue
  BY <1>5 DEF Pending, SealedLanded
<1>7. store'.queue = AfterFirst(store.queue, n)
  BY <1>2, <1>3, <1>4 DEF Seal, PoolState
<1>8. store'.sealed = NoBatch \/ store'.sealed.name[2] = issued + 1
  BY <1>2, <1>3, <1>4 DEF Seal, PoolState
<1>9. \A i \in DOMAIN landed : landed[i].name[2] \in 1 .. issued
  BY DEF HandoffInv, NamesAreIssued, Sent, Elements
<1>10. ~SealedLanded'
  BY <1>4, <1>5, <1>8, <1>9 DEF SealedLanded, HasLanded
<1>11. Pending' = AfterFirst(Pending, n)
  BY <1>6, <1>7, <1>10 DEF Pending
<1> QED
  BY <1>1, <1>3, <1>5, <1>6, <1>11 DEF Batches

(* The acknowledgement is invisible. *)
LEMMA AckStutters ==
  ASSUME TypeInv, HandoffInv, AckWrite
  PROVE  Pending' = Pending /\ Batches' = Batches
<1>1. /\ UNCHANGED landed
      /\ SealedLanded
      /\ store'.queue = AfterFirst(store.queue, store.sealed.count)
      /\ store'.sealed = NoBatch
  BY Acknowledgement
<1>2. ~SealedLanded'
  BY <1>1 DEF SealedLanded
<1> QED
  BY <1>1, <1>2 DEF Pending, Batches

(* A batch that lands is the sealed prefix of what is pending. *)
LEMMA LandingDelivers ==
  ASSUME TypeInv, HandoffInv, NEW r \in Sent, WriteOutboxFile(r), UNCHANGED store
  PROVE  \/ Pending' = Pending /\ Batches' = Batches
         \/ \E n \in 1 .. Len(Pending) :
              /\ n <= MaxBatch
              /\ Batches' = Append(Batches, First(Pending, n))
              /\ Pending' = AfterFirst(Pending, n)
<1>1. CASE UNCHANGED landed
  <2>1. SealedLanded' = SealedLanded
    BY <1>1 DEF SealedLanded, HasLanded
  <2> QED
    BY <1>1, <2>1 DEF Pending, Batches
<1>2. CASE landed' = Append(landed, r) /\ ~HasLanded(r.name)
  <2> DEFINE n == store.sealed.count
  <2>1. store.sealed # NoBatch /\ r.name = store.sealed.name
    BY <1>2 DEF HandoffInv, AllButSealedLanded
  <2>2. r.content = First(store.queue, n)
    BY <2>1 DEF HandoffInv, SealedBytesAreStable
  <2>3. Pending = store.queue
    BY <1>2, <2>1 DEF Pending, SealedLanded
  <2>4. n \in 1 .. Len(store.queue) /\ n <= MaxBatch
    BY <2>1 DEF TypeInv, SealsFit, Fits, HandoffInv
  <2>5. landed \in Seq(File)
    BY DEF TypeInv, TypeOK
  <2>6. r \in File
    <3>1. Elements(landed) \subseteq File
      BY <2>5, ElementsOfSeq
    <3> QED
      BY <3>1 DEF Sent, TypeInv, TypeOK
  <2>7. SealedLanded'
    <3>1. Len(landed) + 1 \in DOMAIN landed' /\ landed'[Len(landed) + 1] = r
      BY <1>2, <2>5, <2>6
    <3> QED
      BY <2>1, <3>1 DEF SealedLanded, HasLanded
  <2>8. Pending' = AfterFirst(Pending, n)
    BY <2>3, <2>7 DEF Pending
  <2>9. Batches' = Append(Batches, r.content)
    BY <1>2, <2>5, <2>6, ContentsOfAppend DEF Batches
  <2> HIDE DEF n
  <2> QED
    BY <2>2, <2>3, <2>4, <2>8, <2>9
<1> QED
  BY <1>1, <1>2 DEF WriteOutboxFile

(* Every step is a step of BatchHandoff or invisible. *)
LEMMA HandoffSimulates ==
  ASSUME TypeInv, HandoffInv, [Next]_vars
  PROVE  \/ Pending' = Pending /\ Batches' = Batches
         \/ /\ Pending' \in Seq(Tweets)
            /\ Len(Pending') > Len(Pending)
            /\ SubSeq(Pending', 1, Len(Pending)) = Pending
            /\ Batches' = Batches
         \/ \E n \in 1 .. Len(Pending) :
              /\ \A i \in 1 .. n : Pending[i] \in Oversized
              /\ Pending' = SubSeq(Pending, n + 1, Len(Pending))
              /\ Batches' = Batches
         \/ \E n \in 1 .. Len(Pending) :
              /\ n <= MaxBatch
              /\ Batches' = Append(Batches, SubSeq(Pending, 1, n))
              /\ Pending' = SubSeq(Pending, n + 1, Len(Pending))
<1> DEFINE Stutters == Pending' = Pending /\ Batches' = Batches
           Admits == /\ Pending' \in Seq(Tweets)
                     /\ Len(Pending') > Len(Pending)
                     /\ SubSeq(Pending', 1, Len(Pending)) = Pending
                     /\ Batches' = Batches
           Drops == \E n \in 1 .. Len(Pending) :
                      /\ \A i \in 1 .. n : Pending[i] \in Oversized
                      /\ Pending' = SubSeq(Pending, n + 1, Len(Pending))
                      /\ Batches' = Batches
           Delivers == \E n \in 1 .. Len(Pending) :
                         /\ n <= MaxBatch
                         /\ Batches' = Append(Batches, SubSeq(Pending, 1, n))
                         /\ Pending' = SubSeq(Pending, n + 1, Len(Pending))
<1>1. Pending \in Seq(Tweets)
  BY PendingIsSeq
<1>2. ASSUME UNCHANGED <<store, landed>> PROVE Stutters
  <2>1. SealedLanded' = SealedLanded
    BY <1>2 DEF SealedLanded, HasLanded
  <2> QED
    BY <1>2, <2>1 DEF Pending, Batches
<1>3. ASSUME NEW c \in Callers, EnqueueWrite(c) PROVE Stutters \/ Admits
  <2> DEFINE new == Prepared(c).accepted
  <2>1. Pending' = Pending \o new /\ new \in Seq(Tweets) /\ Batches' = Batches
    BY <1>3, AdmissionAdmits
  <2> HIDE DEF new
  <2>2. CASE new = <<>>
    BY <1>1, <2>1, <2>2, ConcatEmptySeq
  <2>3. CASE new # <<>>
    <3>1. First(Pending \o new, Len(Pending)) = Pending /\ Len(Pending \o new) > Len(Pending)
      BY <1>1, <2>1, <2>3, PrefixOfConcat
    <3>2. Pending \o new \in Seq(Tweets)
      BY <1>1, <2>1, ConcatProperties
    <3> QED
      BY <2>1, <3>1, <3>2, Zenon DEF First
  <2> QED
    BY <2>2, <2>3
<1>4. ASSUME SealSome PROVE Stutters \/ Drops
  <2>1. PICK n \in 0 .. Len(Pending) :
          /\ \A i \in 1 .. n : Pending[i] \in Oversized
          /\ Pending' = AfterFirst(Pending, n)
          /\ Batches' = Batches
    BY <1>4, SealDrops
  <2>2. CASE n = 0
    BY <1>1, <2>1, <2>2, AfterNone
  <2>3. CASE n \in 1 .. Len(Pending)
    BY <2>1, <2>3 DEF AfterFirst
  <2> QED
    BY <1>1, <2>1, <2>2, <2>3, SMTT(30)
<1>5. ASSUME AckWrite PROVE Stutters
  BY <1>5, AckStutters
<1>6. ASSUME NEW r \in Sent, WriteOutboxFile(r), UNCHANGED store PROVE Stutters \/ Delivers
  BY <1>6, LandingDelivers DEF First, AfterFirst
<1> HIDE DEF Stutters, Admits, Drops, Delivers
<1>7. Stutters \/ Admits \/ Drops \/ Delivers
  BY <1>2, <1>3, <1>4, <1>5, <1>6, Effects
<1> QED
  BY <1>7 DEF Stutters, Admits, Drops, Delivers

(* The hand-off keeps its promise: admitted observations reach the outbox  *)
(* in their order, without gaps or repetitions, each batch once, and only  *)
(* what can never fit a batch is dropped.                                  *)
THEOREM HandoffIsImplemented == Spec => ImplementsHandoff
<1>1. ASSUME TypeInv, HandoffInv, [Next]_vars PROVE [Handoff!Next]_(Handoff!vars)
  BY <1>1, HandoffSimulates DEF Handoff!Next, Handoff!Admit, Handoff!Drop, Handoff!Deliver,
     Handoff!vars, Pending, Batches
<1> QED
  BY <1>1, HandoffStarts, TypeInvariant, HandoffInvariant, PTL
     DEF Spec, ImplementsHandoff, Handoff!Spec

-----------------------------------------------------------------------------
(* The elements of a concatenation. *)
LEMMA ElementsOfConcat ==
  ASSUME NEW S, NEW p \in Seq(S), NEW q \in Seq(S)
  PROVE  Elements(p \o q) = Elements(p) \union Elements(q)
<1> DEFINE r == p \o q
<1>1. /\ Len(r) = Len(p) + Len(q)
      /\ \A i \in 1 .. Len(r) : r[i] = IF i <= Len(p) THEN p[i] ELSE q[i - Len(p)]
      /\ r \in Seq(S)
  BY ConcatProperties
<1>2. Len(p) \in Nat /\ Len(q) \in Nat /\ DOMAIN p = 1 .. Len(p) /\ DOMAIN q = 1 .. Len(q)
      /\ DOMAIN r = 1 .. Len(r)
  BY <1>1
<1> HIDE DEF r
<1>3. ASSUME NEW x \in Elements(r) PROVE x \in Elements(p) \union Elements(q)
  <2>1. PICK i \in 1 .. Len(r) : x = r[i]
    BY <1>2 DEF Elements
  <2>2. CASE i <= Len(p)
    <3>1. i \in 1 .. Len(p) /\ x = p[i]
      BY <1>1, <1>2, <2>1, <2>2
    <3> QED
      BY <1>2, <3>1 DEF Elements
  <2>3. CASE ~(i <= Len(p))
    <3>1. i - Len(p) \in 1 .. Len(q)
      BY <1>1, <1>2, <2>1, <2>3
    <3> QED
      BY <1>1, <1>2, <2>1, <2>3, <3>1 DEF Elements
  <2> QED
    BY <2>2, <2>3
<1>4. ASSUME NEW i \in 1 .. Len(p) PROVE p[i] \in Elements(r)
  <2>1. i \in 1 .. Len(r) /\ i <= Len(p)
    BY <1>1, <1>2
  <2> QED
    BY <1>1, <1>2, <2>1 DEF Elements
<1>5. ASSUME NEW i \in 1 .. Len(q) PROVE q[i] \in Elements(r)
  <2>1. Len(p) + i \in 1 .. Len(r) /\ ~(Len(p) + i <= Len(p)) /\ (Len(p) + i) - Len(p) = i
    BY <1>1, <1>2
  <2>2. r[Len(p) + i] = q[i]
    BY <1>1, <2>1
  <2> QED
    BY <1>2, <2>1, <2>2 DEF Elements
<1>6. Elements(p) \union Elements(q) \subseteq Elements(r)
  BY <1>2, <1>4, <1>5 DEF Elements
<1> QED
  BY <1>3, <1>6 DEF r

(* A prefix and the rest hold every element of the queue. *)
LEMMA ElementsOfParts ==
  ASSUME NEW S, NEW q \in Seq(S), NEW n \in 0 .. Len(q)
  PROVE  Elements(q) = Elements(First(q, n)) \union Elements(AfterFirst(q, n))
<1>1. First(q, n) \in Seq(S) /\ AfterFirst(q, n) \in Seq(S)
  BY FirstIsSeq, AfterFirstIsSeq
<1>2. Elements(First(q, n) \o AfterFirst(q, n))
        = Elements(First(q, n)) \union Elements(AfterFirst(q, n))
  BY <1>1, ElementsOfConcat
<1> QED
  BY <1>2, FirstAndRest

-----------------------------------------------------------------------------
Delivered == UNION {Elements(landed[i].content) : i \in DOMAIN landed}

(* What is kept are observations. *)
LEMMA KeptIsTweets == TypeInv => Kept \subseteq Tweets
<1> SUFFICES ASSUME TypeInv PROVE Kept \subseteq Tweets
  OBVIOUS
<1>1. Elements(store.queue) \subseteq Tweets
  <2>1. store.queue \in Seq(Tweets)
    BY DEF TypeInv, TypeOK, PoolState
  <2> QED
    BY <2>1, ElementsOfSeq
<1>2. dropped \subseteq Tweets
  BY DEF TypeInv, TypeOK
<1>3. ASSUME NEW i \in DOMAIN landed PROVE Elements(landed[i].content) \subseteq Tweets
  <2>1. landed \in Seq(File)
    BY DEF TypeInv, TypeOK
  <2>2. landed[i] \in File
    BY <2>1
  <2>3. landed[i].content \in Seq(Tweets)
    BY <2>2 DEF File
  <2> QED
    BY <2>3, ElementsOfSeq
<1> QED
  BY <1>1, <1>2, <1>3 DEF Kept

(* A batch that lands leaves the batches before it where they are. *)
LEMMA DeliveredGrows ==
  ASSUME TypeInv, NEW r \in File, WriteOutboxFile(r)
  PROVE  Delivered \subseteq Delivered'
<1>1. CASE UNCHANGED landed
  BY <1>1 DEF Delivered
<1>2. CASE landed' = Append(landed, r)
  <2>1. landed \in Seq(File)
    BY DEF TypeInv, TypeOK
  <2>2. /\ DOMAIN landed \subseteq DOMAIN landed'
        /\ \A i \in DOMAIN landed : landed'[i] = landed[i]
    BY <1>2, <2>1
  <2> QED
    BY <2>2 DEF Delivered
<1> QED
  BY <1>1, <1>2 DEF WriteOutboxFile

(* An observation that was dropped stays dropped. *)
LEMMA DroppedGrows ==
  ASSUME [Next]_vars
  PROVE  dropped \subseteq dropped'
<1>1. CASE Start \/ Stop \/ TogglePause \/ SweepStep
  BY <1>1 DEF Start, Stop, TogglePause, SweepStep, SweepStart, SweepNext, history
<1>2. ASSUME NEW tweets \in Payloads, Stage(tweets) PROVE dropped \subseteq dropped'
  BY <1>2 DEF Stage
<1>3. ASSUME NEW c \in Callers, CallerStep(c) PROVE dropped \subseteq dropped'
  BY <1>3 DEF CallerStep, EnqueueFull, EnqueueWrite, EnqueueFails, EnqueueDone, Clear, history
<1>4. CASE SealSome
  BY <1>4 DEF SealSome, Seal
<1>5. CASE FlushStep /\ ~SealSome
  BY <1>5 DEF FlushStep, FlushStart, SealSkip, SealFails, SealDone, Send, HandoffFails,
     Timeout, LoseAnswer, AckWrite, AckFails, AckDone, history
<1>6. CASE DaemonStep
  BY <1>6 DEF DaemonStep, DaemonStore, LateArrives
<1>7. ASSUME NEW f \in outbox, TakeFile(f) PROVE dropped \subseteq dropped'
  BY <1>7 DEF TakeFile, history
<1>8. CASE UNCHANGED vars
  BY <1>8 DEF vars
<1> QED
  BY <1>1, <1>2, <1>3, <1>4, <1>5, <1>6, <1>7, <1>8 DEF Next, PoolNext

(* A seal drops what it takes off the front of the queue. *)
LEMMA SealKeeps ==
  ASSUME TypeInv, HandoffInv, SealSome
  PROVE  /\ Elements(store.queue) \subseteq Elements(store'.queue) \union dropped'
         /\ UNCHANGED landed
         /\ store'.samples = store.samples
<1>1. PICK n \in 0 .. Len(mem.queue) :
        \E count \in BatchSizes(mem.queue, n), now \in Clock : Seal(n, count, now)
  BY DEF SealSome
<1>2. mem = store
  BY <1>1, MemoryIsStorage DEF Seal
<1>3. store \in PoolState
  BY DEF TypeInv, TypeOK
<1>4. /\ store'.queue = AfterFirst(store.queue, n)
      /\ store'.samples = store.samples
      /\ dropped' = dropped \union Elements(First(store.queue, n))
      /\ UNCHANGED landed
  BY <1>1, <1>2, <1>3 DEF Seal, PoolState
<1>5. store.queue \in Seq(Tweets) /\ n \in 0 .. Len(store.queue)
  BY <1>2, <1>3 DEF PoolState
<1>6. Elements(store.queue) = Elements(First(store.queue, n)) \union Elements(AfterFirst(store.queue, n))
  BY <1>5, ElementsOfParts
<1> QED
  BY <1>4, <1>6

(* An acknowledgement takes off the queue what has landed. *)
LEMMA AckKeeps ==
  ASSUME TypeInv, HandoffInv, AckWrite
  PROVE  /\ Elements(store.queue) \subseteq Elements(store'.queue) \union Delivered
         /\ UNCHANGED landed
         /\ store'.samples = store.samples
<1> DEFINE n == store.sealed.count
<1>1. /\ UNCHANGED landed
      /\ store.queue \in Seq(Tweets)
      /\ n \in 1 .. Len(store.queue)
      /\ store'.queue = AfterFirst(store.queue, n)
      /\ store'.samples = store.samples
  BY Acknowledgement
<1>2. PICK i \in DOMAIN landed : landed[i].content = First(store.queue, n)
  BY Acknowledgement
<1>3. n \in 0 .. Len(store.queue)
  BY <1>1
<1> HIDE DEF n
<1>4. Elements(store.queue) = Elements(First(store.queue, n)) \union Elements(AfterFirst(store.queue, n))
  BY <1>1, <1>3, ElementsOfParts
<1>5. Elements(First(store.queue, n)) \subseteq Delivered
  BY <1>2 DEF Delivered
<1> QED
  BY <1>1, <1>4, <1>5

(* An admission adds what was accepted. *)
LEMMA AdmissionKeeps ==
  ASSUME TypeInv, HandoffInv, NEW c \in Callers, EnqueueWrite(c)
  PROVE  /\ Elements(store'.queue) = Elements(store.queue) \union Elements(Prepared(c).accepted)
         /\ UNCHANGED landed
         /\ store'.samples = Prepared(c).samples
<1>1. /\ Prepared(c).accepted \in Seq(Tweets)
      /\ store' = [store EXCEPT !.queue = store.queue \o Prepared(c).accepted,
                                !.samples = Prepared(c).samples]
  BY Admission
<1>2. store \in PoolState /\ store.queue \in Seq(Tweets)
  BY DEF TypeInv, TypeOK, PoolState
<1>3. /\ store'.queue = store.queue \o Prepared(c).accepted
      /\ store'.samples = Prepared(c).samples
  BY <1>1, <1>2 DEF PoolState
<1>4. Elements(store.queue \o Prepared(c).accepted)
        = Elements(store.queue) \union Elements(Prepared(c).accepted)
  BY <1>1, <1>2, ElementsOfConcat, ZenonT(30)
<1>5. UNCHANGED landed
  BY DEF EnqueueWrite, history
<1> QED
  BY <1>3, <1>4, <1>5

(* Whatever happens, what is kept stays kept. *)
LEMMA KeptGrows ==
  ASSUME TypeInv, HandoffInv, [Next]_vars
  PROVE  Kept \subseteq Kept'
<1>1. Kept = Elements(store.queue) \union dropped \union Delivered
      /\ Kept' = Elements(store'.queue) \union dropped' \union Delivered'
  BY DEF Kept, Delivered
<1>2. dropped \subseteq dropped'
  BY DroppedGrows
<1>3. ASSUME UNCHANGED <<store, landed>> PROVE Kept \subseteq Kept'
  BY <1>2, <1>3 DEF Kept
<1>4. UNCHANGED landed => Delivered' = Delivered
  BY DEF Delivered
<1>5. ASSUME NEW c \in Callers, EnqueueWrite(c) PROVE Kept \subseteq Kept'
  BY <1>1, <1>2, <1>4, <1>5, AdmissionKeeps
<1>6. CASE SealSome
  BY <1>1, <1>2, <1>4, <1>6, SealKeeps
<1>7. CASE AckWrite
  BY <1>1, <1>2, <1>4, <1>7, AckKeeps
<1>8. ASSUME NEW r \in Sent, WriteOutboxFile(r), UNCHANGED store PROVE Kept \subseteq Kept'
  <2>1. Sent \subseteq File
    <3>1. landed \in Seq(File)
      BY DEF TypeInv, TypeOK
    <3>2. Elements(landed) \subseteq File
      BY <3>1, ElementsOfSeq
    <3> QED
      BY <3>2 DEF Sent, TypeInv, TypeOK
  <2>2. Delivered \subseteq Delivered'
    BY <1>8, <2>1, DeliveredGrows
  <2> QED
    BY <1>1, <1>2, <1>8, <2>2
<1> QED
  BY <1>3, <1>5, <1>6, <1>7, <1>8, Effects

-----------------------------------------------------------------------------
(* The sampling state is backed by what is kept, and a caller that has     *)
(* stored its response, or is storing it, has covered it.                  *)

SamplesAreBacked == Backed(store.samples, Kept)

StoredIsCovered ==
  \A c \in Callers : AtStep(c, "writing") \/ AtStep(c, "clear") => Covered(KeyOf(c))

KeptInv == SamplesAreBacked /\ StoredIsCovered /\ NothingLost

(* More kept observations back the same sampling state. *)
LEMMA BackedMonotone ==
  ASSUME NEW s, NEW K, NEW L, K \subseteq L, Backed(s, K)
  PROVE  Backed(s, L)
BY DEF Backed

(* At the start nothing is staged, stored or sampled. *)
LEMMA KeptInit == Init => KeptInv
<1> SUFFICES ASSUME Init PROVE KeptInv
  OBVIOUS
<1>1. SamplesAreBacked
  <2>1. Backed(InitialSamples, {})
    BY SamplingIsBacked
  <2>2. store.samples = InitialSamples
    BY DEF Init, EmptyPool
  <2> QED
    BY <2>1, <2>2, BackedMonotone DEF SamplesAreBacked
<1>2. StoredIsCovered
  BY DEF Init, StoredIsCovered, AtStep, Callers
<1>3. NothingLost
  BY DEF Init, NothingLost
<1> QED
  BY <1>1, <1>2, <1>3 DEF KeptInv

(* A response keeps the key it was staged under. *)
LEMMA PayloadsStay ==
  ASSUME TypeInv, [Next]_vars, NEW k \in DOMAIN payloads
  PROVE  k \in DOMAIN payloads' /\ payloads'[k] = payloads[k]
<1>1. ASSUME NEW tweets \in Payloads, Stage(tweets)
      PROVE  k \in DOMAIN payloads' /\ payloads'[k] = payloads[k]
  <2>1. payloads \in Seq(Payloads) /\ payloads' = Append(payloads, tweets)
    BY <1>1 DEF Stage, TypeInv, TypeOK
  <2> QED
    BY <2>1
<1>2. CASE Start \/ Stop \/ TogglePause \/ SweepStep
  BY <1>2 DEF Start, Stop, TogglePause, SweepStep, SweepStart, SweepNext, history
<1>3. ASSUME NEW c \in Callers, CallerStep(c) PROVE UNCHANGED payloads
  BY <1>3 DEF CallerStep, EnqueueFull, EnqueueWrite, EnqueueFails, EnqueueDone, Clear, history
<1>4. CASE FlushStep
  BY <1>4 DEF FlushStep, FlushStart, SealSkip, SealSome, Seal, SealFails, SealDone, Send,
     HandoffFails, Timeout, LoseAnswer, AckWrite, AckFails, AckDone, history
<1>5. CASE DaemonStep
  BY <1>5 DEF DaemonStep, DaemonStore, LateArrives
<1>6. ASSUME NEW f \in outbox, TakeFile(f) PROVE UNCHANGED payloads
  BY <1>6 DEF TakeFile, history
<1>7. CASE UNCHANGED vars
  BY <1>7 DEF vars
<1> QED
  BY <1>1, <1>2, <1>3, <1>4, <1>5, <1>6, <1>7 DEF Next, PoolNext

(* A covered response stays covered. *)
LEMMA CoverageStays ==
  ASSUME TypeInv, HandoffInv, [Next]_vars, NEW k \in DOMAIN payloads, Covered(k)
  PROVE  Covered(k)'
<1>1. Kept \subseteq Kept'
  BY KeptGrows
<1>2. payloads'[k] = payloads[k]
  BY PayloadsStay
<1> QED
  BY <1>1, <1>2 DEF Covered

(* Backing survives every step: an admission keeps what it accepts. *)
LEMMA BackingStays ==
  ASSUME TypeInv, HandoffInv, SamplesAreBacked, [Next]_vars
  PROVE  SamplesAreBacked'
<1>1. Kept \subseteq Kept'
  BY KeptGrows
<1>2. ASSUME store'.samples = store.samples PROVE SamplesAreBacked'
  BY <1>1, <1>2, BackedMonotone DEF SamplesAreBacked
<1>3. ASSUME NEW c \in Callers, EnqueueWrite(c) PROVE SamplesAreBacked'
  <2> DEFINE ts == payloads[KeyOf(c)]
  <2>1. mem = store
    BY <1>3, Admission
  <2>2. store.samples \in SampleStates /\ Kept \in SUBSET Tweets
    BY KeptIsTweets DEF TypeInv, TypeOK, PoolState
  <2>3. ts \in Payloads
    BY <1>3 DEF EnqueueWrite, AtStep, KeyOf, TypeInv, TypeOK, CallersHaveKeys, Callers
  <2> HIDE DEF ts
  <2>4. Backed(Prepare(ts, store.samples).samples,
               Kept \union Elements(Prepare(ts, store.samples).accepted))
    BY <2>2, <2>3, SamplingIsBacked DEF SamplesAreBacked
  <2>5. Prepared(c) = Prepare(ts, store.samples)
    BY <2>1 DEF Prepared, ts
  <2>6. Elements(Prepared(c).accepted) \subseteq Kept'
    <3>1. Elements(Prepared(c).accepted) \subseteq Elements(store'.queue)
      BY <1>3, AdmissionKeeps
    <3> QED
      BY <3>1 DEF Kept
  <2>7. store'.samples = Prepared(c).samples
    BY <1>3, AdmissionKeeps
  <2>8. Kept \union Elements(Prepared(c).accepted) \subseteq Kept'
    BY <1>1, <2>6
  <2>9. Backed(Prepared(c).samples, Kept \union Elements(Prepared(c).accepted))
    BY <2>4, <2>5
  <2>10. Backed(store'.samples, Kept')
    BY <2>7, <2>8, <2>9, BackedMonotone
  <2> QED
    BY <2>10 DEF SamplesAreBacked, Backed
<1> QED
  BY <1>2, <1>3, SealKeeps, AckKeeps, Effects

(* A caller covers its response when it stores the observations. *)
LEMMA StoringCovers ==
  ASSUME TypeInv, HandoffInv, SamplesAreBacked, NEW c \in Callers, EnqueueWrite(c)
  PROVE  Covered(KeyOf(c))'
<1> DEFINE ts == payloads[KeyOf(c)]
<1>1. mem = store
  BY Admission
<1>2. ts \in Payloads
  BY DEF EnqueueWrite, AtStep, KeyOf, TypeInv, TypeOK, CallersHaveKeys, Callers
<1>3. \A t \in Elements(ts) :
        \E o \in Kept \union Elements(Prepare(ts, store.samples).accepted) : Covers(o, t)
  BY <1>2 DEF SamplesAreBacked, Backed
<1>4. Kept \union Elements(Prepared(c).accepted) \subseteq Kept'
  <2>1. Elements(store'.queue) = Elements(store.queue) \union Elements(Prepared(c).accepted)
        /\ UNCHANGED landed
    BY AdmissionKeeps
  <2>2. dropped' = dropped
    BY DEF EnqueueWrite, history
  <2> QED
    BY <2>1, <2>2 DEF Kept
<1>5. Prepared(c) = Prepare(ts, store.samples)
  BY <1>1 DEF Prepared
<1>6. payloads'[KeyOf(c)'] = ts
  BY DEF EnqueueWrite, history, KeyOf, GoTo, TypeInv, TypeOK
<1> HIDE DEF ts
<1>7. \A t \in Elements(ts) : \E o \in Kept' : Covers(o, t)
  BY <1>3, <1>4, <1>5
<1> QED
  BY <1>6, <1>7 DEF Covered

(* Moving one caller leaves the others where they are. *)
LEMMA OnlyOneMoves ==
  ASSUME TypeInv, NEW c \in Callers, NEW step, GoTo(c, step),
         NEW d \in Callers, NEW at \in {"writing", "clear"}, AtStep(d, at)'
  PROVE  /\ KeyOf(d)' = KeyOf(d)
         /\ AtStep(d, at) \/ (d = c /\ at = step)
<1>1. /\ handler \in [Keys -> {"idle", "enqueue", "writing", "clear"}]
      /\ sweep \in [step : {"off", "next", "enqueue", "writing", "clear"},
                    todo : SUBSET DOMAIN payloads,
                    key : {0} \union DOMAIN payloads]
  BY DEF TypeInv, TypeOK
<1>2. CASE c = Sweep
  <2>1. /\ sweep' = [sweep EXCEPT !.step = IF step = "done" THEN "next" ELSE step]
        /\ handler' = handler
    BY <1>2 DEF GoTo
  <2>2. sweep'.key = sweep.key
        /\ sweep'.step = IF step = "done" THEN "next" ELSE step
    BY <1>1, <2>1
  <2> QED
    BY <1>2, <2>1, <2>2 DEF AtStep, KeyOf
<1>3. CASE c # Sweep
  <2>1. /\ handler' = [handler EXCEPT ![c] = IF step = "done" THEN "idle" ELSE step]
        /\ sweep' = sweep
        /\ c \in Keys
    BY <1>3 DEF GoTo, Callers
  <2> QED
    BY <1>1, <1>3, <2>1 DEF AtStep, KeyOf, Callers
<1> QED
  BY <1>2, <1>3

(* Only a caller that has covered its response clears it. *)
LEMMA CallersCover ==
  ASSUME TypeInv, HandoffInv, KeptInv, [Next]_vars, NEW c \in Callers, CallerStep(c)
  PROVE  StoredIsCovered' /\ NothingLost'
<1>1. \A k \in DOMAIN payloads : Covered(k) => Covered(k)'
  BY CoverageStays
<1>2. \A d \in Callers : AtStep(d, "writing") \/ AtStep(d, "clear") =>
        KeyOf(d) \in DOMAIN payloads /\ Covered(KeyOf(d))
  <2>1. ASSUME NEW d \in Callers, AtStep(d, "writing") \/ AtStep(d, "clear")
        PROVE  KeyOf(d) \in DOMAIN payloads
    BY <2>1 DEF TypeInv, CallersHaveKeys, AtStep, KeyOf, Callers
  <2> QED
    BY <2>1 DEF KeptInv, StoredIsCovered
<1>3. payloads' = payloads
  BY DEF CallerStep, EnqueueFull, EnqueueWrite, EnqueueFails, EnqueueDone, Clear, history
<1>4. PICK step : /\ GoTo(c, step)
                  /\ step \in {"writing", "clear"} => Covered(KeyOf(c))'
  <2>1. CASE EnqueueFull(c) \/ EnqueueFails(c) \/ Clear(c)
    BY <2>1 DEF EnqueueFull, EnqueueFails, Clear
  <2>2. CASE EnqueueWrite(c)
    <3>1. Covered(KeyOf(c))'
      BY <2>2, StoringCovers DEF KeptInv
    <3> QED
      BY <2>2, <3>1 DEF EnqueueWrite
  <2>3. CASE EnqueueDone(c)
    <3>1. AtStep(c, "writing")
      BY <2>3 DEF EnqueueDone, TypeInv, WriteHasItsCaller
    <3>2. KeyOf(c)' = KeyOf(c) /\ GoTo(c, "clear")
      BY <2>3 DEF EnqueueDone, GoTo, KeyOf, TypeInv, TypeOK
    <3>3. Covered(KeyOf(c))'
      BY <1>1, <1>2, <3>1, <3>2
    <3> QED
      BY <3>2, <3>3
  <2> QED
    BY <2>1, <2>2, <2>3 DEF CallerStep
<1>5. StoredIsCovered'
  <2>1. ASSUME NEW d \in Callers, NEW at \in {"writing", "clear"}, AtStep(d, at)'
        PROVE  Covered(KeyOf(d))'
    <3>1. KeyOf(d)' = KeyOf(d) /\ (AtStep(d, at) \/ (d = c /\ at = step))
      BY <1>4, <2>1, OnlyOneMoves
    <3>2. CASE AtStep(d, at)
      BY <1>1, <1>2, <3>1, <3>2
    <3>3. CASE d = c /\ at = step
      BY <1>4, <3>3
    <3> QED
      BY <3>1, <3>2, <3>3
  <2>2. Callers' = Callers
    BY DEF Callers
  <2> QED
    BY <2>1, <2>2 DEF StoredIsCovered
<1>6. NothingLost'
  <2>1. ASSUME NEW k \in DOMAIN payloads' \ wal' PROVE Covered(k)'
    <3>1. CASE k \notin wal
      BY <1>1, <1>3, <2>1, <3>1 DEF KeptInv, NothingLost
    <3>2. CASE k \in wal
      <4>1. AtStep(c, "clear") /\ k = KeyOf(c)
        BY <2>1, <3>2 DEF CallerStep, EnqueueFull, EnqueueWrite, EnqueueFails, EnqueueDone,
           Clear, durable
      <4> QED
        BY <1>1, <1>2, <4>1
    <3> QED
      BY <3>1, <3>2
  <2> QED
    BY <2>1 DEF NothingLost
<1> QED
  BY <1>5, <1>6

(* The steps that neither clear a response nor move a caller towards it. *)
LEMMA OthersCover ==
  ASSUME TypeInv, HandoffInv, KeptInv, [Next]_vars,
         wal \subseteq wal',
         \A k \in DOMAIN payloads' : k \in DOMAIN payloads \/ k \in wal',
         \A d \in Callers : \A at \in {"writing", "clear"} :
           AtStep(d, at)' => AtStep(d, at) /\ KeyOf(d)' = KeyOf(d)
  PROVE  StoredIsCovered' /\ NothingLost'
<1>1. \A k \in DOMAIN payloads : Covered(k) => Covered(k)'
  BY CoverageStays
<1>2. ASSUME NEW d \in Callers, AtStep(d, "writing") \/ AtStep(d, "clear")
      PROVE  KeyOf(d) \in DOMAIN payloads
  BY <1>2 DEF TypeInv, CallersHaveKeys, AtStep, KeyOf, Callers
<1>3. StoredIsCovered'
  <2>1. Callers' = Callers
    BY DEF Callers
  <2>2. ASSUME NEW d \in Callers, AtStep(d, "writing")' \/ AtStep(d, "clear")'
        PROVE  Covered(KeyOf(d))'
    <3>1. (AtStep(d, "writing") \/ AtStep(d, "clear")) /\ KeyOf(d)' = KeyOf(d)
      BY <2>2
    <3>2. Covered(KeyOf(d)) /\ KeyOf(d) \in DOMAIN payloads
      BY <1>2, <3>1 DEF KeptInv, StoredIsCovered
    <3> QED
      BY <1>1, <3>1, <3>2
  <2> QED
    BY <2>1, <2>2 DEF StoredIsCovered
<1>4. NothingLost'
  <2>1. ASSUME NEW k \in DOMAIN payloads' \ wal' PROVE Covered(k)'
    BY <1>1, <2>1 DEF KeptInv, NothingLost
  <2> QED
    BY <2>1 DEF NothingLost
<1> QED
  BY <1>3, <1>4

(* Every step keeps what is kept, and keeps it for the right responses. *)
LEMMA KeptNext ==
  ASSUME TypeInv, HandoffInv, KeptInv, [Next]_vars
  PROVE  KeptInv'
<1>1. SamplesAreBacked'
  BY BackingStays DEF KeptInv
<1>2. ASSUME NEW c \in Callers, CallerStep(c) PROVE StoredIsCovered' /\ NothingLost'
  BY <1>2, CallersCover
<1>3. ASSUME UNCHANGED <<wal, payloads, handler, sweep>>
      PROVE  StoredIsCovered' /\ NothingLost'
  <2>1. \A d \in Callers : \A at \in {"writing", "clear"} :
          AtStep(d, at)' => AtStep(d, at) /\ KeyOf(d)' = KeyOf(d)
    BY <1>3 DEF AtStep, KeyOf
  <2> QED
    BY <1>3, <2>1, OthersCover
<1>4. ASSUME UNCHANGED <<wal, payloads>>,
             \A d \in Callers : ~AtStep(d, "writing")' /\ ~AtStep(d, "clear")'
      PROVE  StoredIsCovered' /\ NothingLost'
  BY <1>4, OthersCover
<1>5. CASE Start
  <2>1. \A d \in Callers : ~AtStep(d, "writing")' /\ ~AtStep(d, "clear")'
    BY <1>5 DEF Start, TypeInv, StoppedWorkerIsIdle, AtStep, Callers
  <2> QED
    <3>1. UNCHANGED <<wal, payloads>>
      BY <1>5 DEF Start, durable
    <3> QED
      BY <1>1, <1>4, <2>1, <3>1 DEF KeptInv
<1>6. CASE Stop
  <2>1. \A d \in Callers : ~AtStep(d, "writing")' /\ ~AtStep(d, "clear")'
    BY <1>6 DEF Stop, AtStep, Callers
  <2> QED
    <3>1. UNCHANGED <<wal, payloads>>
      BY <1>6 DEF Stop, durable
    <3> QED
      BY <1>1, <1>4, <2>1, <3>1 DEF KeptInv
<1>7. CASE TogglePause
  <2>1. UNCHANGED <<wal, payloads, handler, sweep>>
    BY <1>7 DEF TogglePause, durable
  <2> QED
    BY <1>1, <1>3, <2>1 DEF KeptInv
<1>8. ASSUME NEW tweets \in Payloads, Stage(tweets) PROVE StoredIsCovered' /\ NothingLost'
  <2> DEFINE key == Len(payloads) + 1
  <2>1. /\ payloads' = Append(payloads, tweets)
        /\ wal' = wal \union {key}
        /\ handler' = [handler EXCEPT ![key] = "enqueue"]
        /\ sweep' = sweep
    BY <1>8 DEF Stage
  <2>2. /\ payloads \in Seq(Payloads)
        /\ handler \in [Keys -> {"idle", "enqueue", "writing", "clear"}]
    BY DEF TypeInv, TypeOK
  <2>3. \A k \in DOMAIN payloads' : k \in DOMAIN payloads \/ k \in wal'
    BY <2>1, <2>2
  <2> HIDE DEF key
  <2>4. \A d \in Callers : \A at \in {"writing", "clear"} :
          AtStep(d, at)' => AtStep(d, at) /\ KeyOf(d)' = KeyOf(d)
    BY <2>1, <2>2 DEF AtStep, KeyOf, Callers
  <2> QED
    BY <2>1, <2>3, <2>4, OthersCover
<1>9. CASE SweepStep
  <2>1. ASSUME NEW d \in Callers, NEW at \in {"writing", "clear"}, AtStep(d, at)'
        PROVE  AtStep(d, at) /\ KeyOf(d)' = KeyOf(d)
    <3>1. sweep \in [step : {"off", "next", "enqueue", "writing", "clear"},
                     todo : SUBSET DOMAIN payloads,
                     key : {0} \union DOMAIN payloads]
      BY DEF TypeInv, TypeOK
    <3>2. handler' = handler
      BY <1>9 DEF SweepStep, SweepStart, SweepNext
    <3>3. CASE SweepStart
      BY <3>1, <3>3, <2>1, <3>2 DEF SweepStart, AtStep, KeyOf
    <3>4. CASE SweepNext
      <4>1. sweep'.step \in {"off", "next", "enqueue"}
        BY <3>4 DEF SweepNext
      <4> QED
        BY <2>1, <3>2, <4>1 DEF AtStep, KeyOf
    <3> QED
      BY <1>9, <3>3, <3>4 DEF SweepStep
  <2>2. UNCHANGED <<wal, payloads>>
    BY <1>9 DEF SweepStep, SweepStart, SweepNext, durable, history
  <2>3. wal \subseteq wal' /\ \A k \in DOMAIN payloads' : k \in DOMAIN payloads \/ k \in wal'
    BY <2>2
  <2> QED
    BY <1>1, <2>1, <2>3, OthersCover DEF KeptInv
<1>10. CASE FlushStep
  <2>1. UNCHANGED <<wal, payloads, handler, sweep>>
    BY <1>10 DEF FlushStep, FlushStart, SealSkip, SealSome, Seal, SealFails, SealDone,
       Send, HandoffFails, Timeout, LoseAnswer, AckWrite, AckFails, AckDone, history, durable
  <2> QED
    BY <1>1, <1>3, <2>1 DEF KeptInv
<1>11. CASE DaemonStep
  <2>1. UNCHANGED <<wal, payloads, handler, sweep>>
    BY <1>11 DEF DaemonStep, DaemonStore, LateArrives, durable, worker
  <2> QED
    BY <1>1, <1>3, <2>1 DEF KeptInv
<1>12. ASSUME NEW f \in outbox, TakeFile(f) PROVE StoredIsCovered' /\ NothingLost'
  BY <1>3, <1>12 DEF TakeFile, durable, worker, history
<1>13. CASE UNCHANGED vars
  <2>1. UNCHANGED <<wal, payloads, handler, sweep>>
    BY <1>13 DEF vars
  <2> QED
    BY <1>1, <1>3, <2>1 DEF KeptInv
<1> QED
  BY <1>1, <1>2, <1>5, <1>6, <1>7, <1>8, <1>9, <1>10, <1>11, <1>12, <1>13
     DEF Next, PoolNext, KeptInv

(* What is kept, sampled and stored agree in every reachable state. *)
THEOREM KeptInvariant == Spec => []KeptInv
<1>1. Init => TypeInv /\ HandoffInv /\ KeptInv
  BY TypeInit, HandoffInit, KeptInit
<1>2. TypeInv /\ HandoffInv /\ KeptInv /\ [Next]_vars => (TypeInv /\ HandoffInv /\ KeptInv)'
  BY TypeNext, HandoffNext, KeptNext
<1> QED
  BY <1>1, <1>2, PTL DEF Spec

(* No captured post is lost, whatever is stopped, refused, lost or         *)
(* repeated: its response is staged, or an observation that covers it is   *)
(* queued, was handed off, or was dropped as oversized.                    *)
THEOREM NothingIsLost == Spec => []NothingLost
<1>1. KeptInv => NothingLost
  BY DEF KeptInv
<1> QED
  BY <1>1, KeptInvariant, PTL

-----------------------------------------------------------------------------
(* The composition with the uploader (PoolDelivery).                       *)
UP == INSTANCE UploadProofs WITH Files <- {}, arrived <- Elements(landed)

(* A batch name is the name of one file, which has landed. *)
FilesAgree ==
  /\ \A f, g \in Elements(landed) : f.name = g.name => f = g
  /\ outbox \subseteq Elements(landed)

(* What UploadProofs assumes of its constants holds of the composition. *)
LEMMA Assumed == UP!UploadAssumption
BY PoolAssumption, DeliveryAssumption DEF UP!UploadAssumption, PoolAssumption, DeliveryAssumption

DeliveryInv ==
  /\ TypeInv /\ HandoffInv /\ KeptInv
  /\ UP!UploadInv

-----------------------------------------------------------------------------
(* A batch name has one content wherever it is found. *)
LEMMA OneFilePerName == TypeInv /\ HandoffInv => FilesAgree
<1> SUFFICES ASSUME TypeInv, HandoffInv PROVE FilesAgree
  OBVIOUS
<1>1. outbox \union Elements(landed) \subseteq Sent
  BY DEF Sent
<1>2. outbox \union Elements(landed) \subseteq File
  BY ElementsOfSeq DEF TypeInv, TypeOK
<1>3. ASSUME NEW f \in outbox \union Elements(landed),
             NEW g \in outbox \union Elements(landed), f.name = g.name
      PROVE  f = g
  <2>1. f.content = g.content
    BY <1>1, <1>3 DEF HandoffInv, SealedBytesAreStable
  <2>2. f \in File /\ g \in File
    BY <1>2
  <2> QED
    BY <1>3, <2>1, <2>2 DEF File
<1>4. ASSUME NEW f \in outbox PROVE f \in Elements(landed)
  <2>1. PICK i \in DOMAIN landed : landed[i].name = f.name
    BY DEF HandoffInv, AllButSealedLanded, HasLanded
  <2>2. landed[i] \in Elements(landed)
    BY DEF Elements
  <2> QED
    BY <1>3, <2>1, <2>2
<1> QED
  BY <1>3, <1>4 DEF FilesAgree

(* What the worker and the daemon do to the outbox and to what landed. *)
LEMMA DaemonFiles ==
  ASSUME TypeInv, NEW r \in File, WriteOutboxFile(r), HandoffInv
  PROVE  /\ Elements(landed) \subseteq Elements(landed')
         /\ outbox \subseteq outbox'
         /\ Elements(landed') \subseteq Elements(landed) \union outbox'
<1>1. CASE UNCHANGED <<outbox, landed>>
  BY <1>1
<1>2. CASE outbox' = outbox \union {r} /\ landed' = landed
  BY <1>2
<1>3. CASE outbox' = outbox \union {r} /\ landed' = Append(landed, r)
  <2>1. Elements(landed') = Elements(landed) \union {r}
    BY <1>3, ElementsOfAppend DEF TypeInv, TypeOK
  <2> QED
    BY <1>3, <2>1
<1> QED
  BY <1>1, <1>2, <1>3 DEF WriteOutboxFile

LEMMA PoolFiles ==
  ASSUME TypeInv, HandoffInv, PoolNext
  PROVE  /\ Elements(landed) \subseteq Elements(landed')
         /\ outbox \subseteq outbox'
         /\ Elements(landed') \subseteq Elements(landed) \union outbox'
<1>1. CASE DaemonStore
  BY <1>1, DaemonFiles DEF DaemonStore, TypeInv, TypeOK
<1>2. ASSUME NEW r \in late, LateArrives(r)
      PROVE  /\ Elements(landed) \subseteq Elements(landed')
             /\ outbox \subseteq outbox'
             /\ Elements(landed') \subseteq Elements(landed) \union outbox'
  BY <1>2, DaemonFiles DEF LateArrives, TypeInv, TypeOK
<1>3. ASSUME UNCHANGED <<outbox, landed>>
      PROVE  /\ Elements(landed) \subseteq Elements(landed')
             /\ outbox \subseteq outbox'
             /\ Elements(landed') \subseteq Elements(landed) \union outbox'
  BY <1>3
<1>4. Start \/ Stop \/ TogglePause \/ (\E tweets \in Payloads : Stage(tweets)) \/ SweepStep
        => UNCHANGED <<outbox, landed>>
  BY DEF Start, Stop, TogglePause, Stage, SweepStep, SweepStart, SweepNext, daemon, history
<1>5. (\E c \in Callers : CallerStep(c)) => UNCHANGED <<outbox, landed>>
  BY DEF CallerStep, EnqueueFull, EnqueueWrite, EnqueueFails, EnqueueDone, Clear, daemon, history
<1>6. FlushStep => UNCHANGED <<outbox, landed>>
  BY DEF FlushStep, FlushStart, SealSkip, SealSome, Seal, SealFails, SealDone, Send, HandoffFails,
         Timeout, LoseAnswer, AckWrite, AckFails, AckDone, daemon, history
<1> QED
  BY <1>1, <1>2, <1>3, <1>4, <1>5, <1>6 DEF PoolNext, DaemonStep

-----------------------------------------------------------------------------
(* The two environments. *)

(* The definitions of the two instances of OutboxUpload are the same. *)
LEMMA SameUploader == Upload!UploadNext <=> UP!UploadNext
BY DEF Upload!UploadNext, UP!UploadNext, Upload!RunStart, UP!RunStart, Upload!RunStep, UP!RunStep,
       Upload!RunStops, UP!RunStops, Upload!NextFile, UP!NextFile, Upload!Put, UP!Put,
       Upload!Verify, UP!Verify, Upload!SetAside, UP!SetAside, Upload!Remove, UP!Remove,
       Upload!Idle, UP!Idle, Upload!NoFile, UP!NoFile, Upload!Before, UP!Before,
       Upload!Segment, UP!Segment, Upload!Stamped, UP!Stamped, Upload!Rejections, UP!Rejections,
       Upload!Rejects, UP!Rejects, Upload!InFuture, UP!InFuture, Upload!Members, UP!Members

(* To PoolSync the uploader removes a file, or does nothing. *)
LEMMA UploaderTakesFiles ==
  ASSUME TypeInv, HandoffInv, UP!UploadNext, UNCHANGED <<durable, worker, late, history>>
  PROVE  [Next]_vars
<1>1. CASE UNCHANGED outbox
  BY <1>1 DEF vars, durable, worker, history
<1>2. ASSUME NEW name, outbox' = {f \in outbox : f.name # name}, outbox' # outbox
      PROVE  Next
  <2>1. PICK f \in outbox : f.name = name
    BY <1>2
  <2>2. outbox' = outbox \ {f}
    BY <1>2, <2>1, OneFilePerName DEF FilesAgree
  <2>3. TakeFile(f)
    BY <2>2 DEF TakeFile
  <2> QED
    BY <2>3 DEF Next
<1>3. PICK r \in Runs : \/ \E by \in Contributors : UP!RunStart(r, by)
                        \/ UP!RunStep(r)
                        \/ UP!RunStops(r)
  BY DEF UP!UploadNext
<1>4. UNCHANGED outbox \/ \E name : outbox' = {f \in outbox : f.name # name}
  BY <1>3 DEF UP!RunStart, UP!RunStep, UP!NextFile, UP!Put, UP!Verify, UP!SetAside, UP!Remove,
              UP!RunStops
<1> QED
  BY <1>1, <1>2, <1>4

(* To the uploader the worker and the daemon let files arrive. *)
LEMMA PoolArrives ==
  ASSUME DeliveryInv, PoolNext, UNCHANGED uploader
  PROVE  UP!UploadInv'
<1>1. TypeInv' /\ HandoffInv'
  BY TypeNext, HandoffNext DEF DeliveryInv, Next
<1>2. FilesAgree'
  <2>1. (TypeInv /\ HandoffInv => FilesAgree)'
    BY OneFilePerName, PTL
  <2> QED
    BY <1>1, <2>1
<1>3. UP!NamesAreUnique' /\ outbox' \subseteq Elements(landed)'
  BY <1>2 DEF UP!NamesAreUnique, FilesAgree
<1>4. /\ Elements(landed) \subseteq Elements(landed)'
      /\ Elements(landed)' \ outbox' \subseteq Elements(landed) \ outbox
  BY PoolFiles DEF DeliveryInv
<1>5. UNCHANGED <<bucket, aside, run>>
  BY DEF uploader
<1>6. UP!UploadInv
  BY DEF DeliveryInv
<1> QED
  BY <1>3, <1>4, <1>5, <1>6, Assumed, UP!ArrivalStep DEF UP!ArrivalStep

-----------------------------------------------------------------------------
LEMMA DeliveryStarts == DeliveryInit => DeliveryInv
<1> SUFFICES ASSUME DeliveryInit PROVE DeliveryInv
  OBVIOUS
<1>1. TypeInv /\ HandoffInv /\ KeptInv
  BY TypeInit, HandoffInit, KeptInit DEF DeliveryInit
<1>2. Elements(landed) = {} /\ outbox = {}
  BY DEF DeliveryInit, Init, Elements
<1>3. UP!Shape /\ UP!NamesAreUnique
  BY <1>2 DEF DeliveryInit, UP!Shape, UP!NamesAreUnique, UP!Stages, Upload!Idle, Upload!NoFile,
              UP!NoFile
<1>4. /\ UP!WorkIsReal /\ UP!HasAccount /\ UP!StoredFirst /\ UP!CoveredFirst
      /\ UP!CoveredOnceGone /\ UP!SegmentsAreMade
  BY <1>2 DEF DeliveryInit, Upload!Idle, UP!Working, UP!WorkIsReal, UP!HasAccount, UP!StoredFirst,
              UP!CoveredFirst, UP!CoveredOnceGone, UP!SegmentsAreMade
<1> QED
  BY <1>1, <1>3, <1>4 DEF DeliveryInv, UP!UploadInv

(* Every step of the composition is a step of both parts. *)
LEMMA DeliverySteps ==
  ASSUME DeliveryInv, [DeliveryNext]_allVars
  PROVE  [Next]_vars /\ DeliveryInv'
<1>1. CASE PoolNext /\ UNCHANGED uploader
  <2>1. [Next]_vars
    BY <1>1 DEF Next
  <2>2. UP!UploadInv'
    BY <1>1, PoolArrives
  <2> QED
    BY <2>1, <2>2, TypeNext, HandoffNext, KeptNext DEF DeliveryInv
<1>2. CASE UNCHANGED <<durable, worker, late, history>> /\ Upload!UploadNext
  <2>1. UP!UploadNext
    BY <1>2, SameUploader
  <2>2. [Next]_vars
    BY <1>2, <2>1, UploaderTakesFiles DEF DeliveryInv
  <2>3. UP!UploadInv'
    BY <2>1, Assumed, UP!UploadStep DEF UP!UploadStep, DeliveryInv
  <2> QED
    BY <2>2, <2>3, TypeNext, HandoffNext, KeptNext DEF DeliveryInv
<1>3. CASE UNCHANGED allVars
  <2>1. UNCHANGED vars /\ UNCHANGED <<bucket, aside, run>>
    BY <1>3 DEF allVars, uploader
  <2>2. UP!UploadInv'
    <3>1. /\ UP!NamesAreUnique' /\ Elements(landed)' = Elements(landed) /\ outbox' = outbox
          /\ outbox \subseteq Elements(landed) /\ UP!UploadInv
      BY <2>1 DEF DeliveryInv, UP!UploadInv, UP!NamesAreUnique, UP!Shape, vars, Elements
    <3> QED
      BY <2>1, <3>1, Assumed, UP!ArrivalStep DEF UP!ArrivalStep
  <2> QED
    BY <2>1, <2>2, TypeNext, HandoffNext, KeptNext DEF DeliveryInv
<1> QED
  BY <1>1, <1>2, <1>3 DEF DeliveryNext

(* The invariants of both parts hold of the composition. *)
THEOREM DeliveryInvariant == DeliverySpec => []DeliveryInv
BY DeliveryStarts, DeliverySteps, PTL DEF DeliverySpec

(* The composition implements PoolSync: the uploader of OutboxUpload does  *)
(* to the outbox nothing but what the environment of PoolSync may do, so   *)
(* what is proved of PoolSync holds with the real uploader.                *)
THEOREM DeliveryImplementsSync == DeliverySpec => Spec
<1>1. DeliveryInit => Init
  BY DEF DeliveryInit
<1>2. DeliveryInv /\ [DeliveryNext]_allVars => [Next]_vars
  BY DeliverySteps
<1> QED
  BY <1>1, <1>2, DeliveryInvariant, PTL DEF DeliverySpec, Spec

(* No captured post is lost on the way from the browser to the raw Bucket, *)
(* whatever is stopped, lost, repeated or late on either side of the       *)
(* outbox: an observation that covers it is queued, in the outbox, in a    *)
(* segment, set aside or dropped as oversized.                             *)
THEOREM NothingIsLostInDelivery == DeliverySpec => []NoPostLost
<1>1. DeliveryInv => NoPostLost
  <2> SUFFICES ASSUME DeliveryInv, NEW k \in DOMAIN payloads \ wal,
                      NEW t \in Elements(payloads[k])
               PROVE  \E o \in (Elements(store.queue) \union dropped)
                               \union (UNION {Elements(f.content) : f \in outbox})
                               \union (UNION {s.tweets : s \in bucket \union aside}) : Covers(o, t)
    BY DEF NoPostLost
  <2>1. PICK o \in Kept : Covers(o, t)
    BY DEF DeliveryInv, KeptInv, NothingLost, Covered
  <2>2. CASE o \in Elements(store.queue) \union dropped
    BY <2>1, <2>2
  <2>3. ASSUME NEW i \in DOMAIN landed, o \in Elements(landed[i].content)
        PROVE  \/ \E f \in outbox : o \in Elements(f.content)
               \/ \E s \in bucket \union aside : o \in s.tweets
    <3>1. CASE landed[i] \in outbox
      BY <2>3, <3>1
    <3>2. CASE landed[i] \notin outbox
      <4>1. landed[i] \in Elements(landed) \ outbox
        BY <3>2 DEF Elements
      <4>2. UP!Covered(landed[i])
        BY <4>1 DEF DeliveryInv, UP!UploadInv, UP!CoveredOnceGone
      <4>3. o \in UP!Members(landed[i].content)
        BY <2>3 DEF UP!Members, Elements
      <4> QED
        BY <4>2, <4>3 DEF UP!Covered
    <3> QED
      BY <3>1, <3>2
  <2> QED
    BY <2>1, <2>2, <2>3 DEF Kept
<1> QED
  BY <1>1, DeliveryInvariant, PTL

(* As long as one account uploads and no observation is dated ahead of the *)
(* uploader's clock by more than the slack, the raw Bucket holds each      *)
(* sealed batch at most once and whole, but for what it refuses.           *)
THEOREM BatchesAreStoredOnce ==
  ASSUME \A a, b \in Contributors : a = b,
         \A t \in Tweets, now \in Clock : ~Upload!InFuture(t, now)
  PROVE  DeliverySpec => []EachBatchOnce
<1>1. DeliveryInv => EachBatchOnce
  <2> SUFFICES ASSUME DeliveryInv PROVE EachBatchOnce
    OBVIOUS
  <2>1. ASSUME NEW f \in Elements(landed), NEW n \in Clock
        PROVE  UP!Stamped(f, n) = Elements(f.content) \ Invalid
    <3>1. Elements(f.content) \subseteq Tweets
      <4>1. Elements(landed) \subseteq File
        BY ElementsOfSeq DEF DeliveryInv, TypeInv, TypeOK
      <4>2. f.content \in Seq(Tweets)
        BY <4>1 DEF File
      <4> QED
        BY <4>2, ElementsOfSeq
    <3>2. \A t \in Elements(f.content) : UP!Rejects(t, n) <=> t \in Invalid
      BY <3>1 DEF UP!Rejects, UP!InFuture, Upload!InFuture
    <3> QED
      BY <3>2 DEF UP!Stamped, UP!Members, Elements
  <2>2. ASSUME NEW s \in bucket
        PROVE  \E f \in Elements(landed), by \in Contributors :
                 s = [name |-> f.name, at |-> f.name[1], by |-> by,
                      tweets |-> Elements(f.content) \ Invalid]
    BY <2>1 DEF DeliveryInv, UP!UploadInv, UP!SegmentsAreMade
  <2>3. \A f, g \in Elements(landed) : f.name = g.name => f = g
    BY OneFilePerName DEF DeliveryInv, FilesAgree
  <2>4. ASSUME NEW s \in bucket, NEW t \in bucket, s.name = t.name
        PROVE  s = t
    <3>1. PICK f \in Elements(landed), a \in Contributors :
            s = [name |-> f.name, at |-> f.name[1], by |-> a,
                 tweets |-> Elements(f.content) \ Invalid]
      BY <2>2
    <3>2. PICK g \in Elements(landed), b \in Contributors :
            t = [name |-> g.name, at |-> g.name[1], by |-> b,
                 tweets |-> Elements(g.content) \ Invalid]
      BY <2>2
    <3>3. f = g /\ a = b
      BY <2>3, <2>4, <3>1, <3>2
    <3> QED
      BY <3>1, <3>2, <3>3
  <2>5. ASSUME NEW s \in bucket
        PROVE  \E i \in DOMAIN landed :
                 landed[i].name = s.name /\ s.tweets = Elements(landed[i].content) \ Invalid
    BY <2>2 DEF Elements
  <2> QED
    BY <2>4, <2>5 DEF EachBatchOnce
<1> QED
  BY <1>1, DeliveryInvariant, PTL
=============================================================================
