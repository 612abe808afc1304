---------------------------- MODULE PoolDelivery ----------------------------
(***************************************************************************)
(* The whole way of an observation: PoolSync up to the pool outbox,        *)
(* OutboxUpload from there to the raw Bucket.  The two components share    *)
(* the outbox directory and nothing else; each replaces the environment    *)
(* the other is checked with.                                              *)
(***************************************************************************)
EXTENDS PoolSync

CONSTANTS Invalid, Contributors, FutureSlack, Runs, MaxStops

ASSUME DeliveryAssumption ==
  /\ Invalid \subseteq Tweets
  /\ FutureSlack \in Nat /\ MaxStops \in Nat

VARIABLES bucket, aside, run, stops

uploader == <<bucket, aside, run, stops>>
allVars == <<vars, uploader>>

Upload == INSTANCE OutboxUpload WITH Files <- {}, arrived <- Elements(landed)

DeliveryInit ==
  /\ Init
  /\ bucket = {}
  /\ aside = {}
  /\ run = [r \in Runs |-> Upload!Idle]
  /\ stops = 0

DeliveryNext ==
  \/ PoolNext /\ UNCHANGED uploader
  \/ UNCHANGED <<durable, worker, late, history>> /\ Upload!UploadNext

DeliverySpec == DeliveryInit /\ [][DeliveryNext]_allVars

(* The browser wakes the worker (the alarms fire every minute), the steps  *)
(* of the worker and of the daemon end, and the operator uploads again.    *)
(* Stops, failures and pauses are not fair: MaxFaults and MaxStops bound   *)
(* them.                                                                   *)
DeliveryFairness ==
  /\ WF_allVars(Start /\ UNCHANGED uploader)
  /\ WF_allVars(SweepStep /\ UNCHANGED uploader)
  /\ \A c \in Callers : WF_allVars(CallerStep(c) /\ UNCHANGED uploader)
  /\ WF_allVars(FlushStep /\ UNCHANGED uploader)
  /\ WF_allVars(DaemonStore /\ UNCHANGED uploader)
  /\ \A r \in Runs :
       /\ WF_allVars(/\ UNCHANGED <<durable, worker, late, history>>
                     /\ \E by \in Contributors : Upload!RunStart(r, by))
       /\ WF_allVars(/\ UNCHANGED <<durable, worker, late, history>>
                     /\ Upload!RunStep(r))

FairDeliverySpec == DeliverySpec /\ DeliveryFairness

-----------------------------------------------------------------------------
(* No captured post is lost on the way from the browser to the raw Bucket: *)
(* while its response is not staged any more, an observation that covers   *)
(* it is queued, in the outbox, in a segment, set aside or dropped.        *)
NoPostLost ==
  LET queued == Elements(store.queue) \union dropped
      filed == UNION {Elements(f.content) : f \in outbox}
      pooled == UNION {s.tweets : s \in bucket \union aside}
  IN \A k \in DOMAIN payloads \ wal :
       \A t \in Elements(payloads[k]) :
         \E o \in queued \union filed \union pooled : Covers(o, t)

(* The raw Bucket holds each sealed batch at most once, and whole: the     *)
(* refused observations alone are missing.  A hand-off that was repeated,  *)
(* arrived late or came back after the upload changes nothing.             *)
EachBatchOnce ==
  \A s \in bucket :
    /\ \A t \in bucket : s.name = t.name => s = t
    /\ \E i \in DOMAIN landed :
         /\ landed[i].name = s.name
         /\ s.tweets = Elements(landed[i].content) \ Invalid

(* Once faults and pauses have ended and the operator keeps uploading,     *)
(* every captured post leaves the machine.                                 *)
EverythingLeaves ==
  <>[](~paused.mem) => <>[](wal = {} /\ store.queue = <<>> /\ outbox = {})
=============================================================================
