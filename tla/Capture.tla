------------------------------ MODULE Capture ------------------------------
(* The capture buffer of the extension (extension/background.js): the way of *)
(* a post from the response it arrived in to the archive of the local        *)
(* daemon. A response is staged in local storage, its tweets enter the       *)
(* buffer, the buffer and the seen identities are saved in one write, the    *)
(* staged copy is cleared; a flush posts the front of the buffer and removes *)
(* what the daemon took. The service worker may be killed at any step, its   *)
(* responses are handled concurrently with a flush and with the recovery of  *)
(* staged responses, a save may fail, the daemon may be down, forget its     *)
(* token, refuse a body as too large or lose an answer.                      *)
(*                                                                           *)
(* A tweet is [post, article, photo, size]; image download and capture are   *)
(* on. The object identity by which a flush removes what it sent is the mark *)
(* `sending` of a buffer entry.                                              *)
EXTENDS Integers, Sequences, FiniteSets

CONSTANTS
  Content,      \* the tweets of each response X sends, in order
  BodyLimit,    \* MAX_BODY_SIZE of the daemon, in units of tweet size
  MaxPost,      \* MAX_TWEETS_PER_POST
  MaxBuffer,    \* MAX_BUFFER_SIZE
  MaxDeaths,    \* bound: how often the service worker is killed
  MaxFaults     \* bound: failures of storage, hand-off, daemon and its answers

Elements(s) == {s[i] : i \in DOMAIN s}
ContentTweets == UNION {Elements(Content[r]) : r \in DOMAIN Content}

ASSUME CaptureAssumption ==
  /\ Content \in Seq(Seq(ContentTweets))
  /\ MaxPost \in Nat \ {0}

VARIABLES
  staged,       \* chrome.storage.local: the stg_ entries
  saved,        \* chrome.storage.local: seenIds and tweetBuffer
  worker,       \* the service worker: "dead", "starting" or "ready"
  handler,      \* per response: where handleGraphqlResponse is
  sweep,        \* recoverStagedPayloads: entries left of those it read, and where it is
  buffer, seen, checked, \* buffer, seenIds, imageCheckedIds
  saves, snapshot,       \* _saveChain: who waits, and what the write under way holds
  flush,        \* flush: where it is, postCap, splitRemaining
  transport,    \* "http" or "none"
  credential,   \* whether the token and port the extension holds are the daemon's
  daemon,       \* whether the daemon runs
  archive,      \* the keys in the daemon's tweets-*.jsonl files
  dropped, cleared,  \* history: keys given up, keys whose staged copy is gone
  deaths, faults

disk   == <<staged, saved, cleared>>
memory == <<buffer, seen, checked, dropped>>
saving == <<saves, snapshot>>
remote == <<credential, daemon, archive>>
bounds == <<deaths, faults>>
vars   == <<disk, worker, handler, sweep, memory, saving, flush, transport, remote, bounds>>

Responses == DOMAIN Content

(* The identities dedup works with: the post's and, for an article, its own. *)
Keys(t) == {<<"post", t.post>>} \cup IF t.article THEN {<<"article", t.post>>} ELSE {}
KeysOf(tweets) == UNION {Keys(tweets[i]) : i \in DOMAIN tweets}
Contained(entries) == UNION {Keys(entries[i].tweet) : i \in DOMAIN entries}

(* Deduplication in the extension: an article passes once more than its      *)
(* post, a photo once per session so that its image can be fetched.          *)
Repeats(t, s) == Keys(t) \subseteq s.seen
WantsImage(t, s) == t.photo /\ t.post \notin s.checked

AddTweet(s, t) ==
  IF Repeats(t, s) /\ ~WantsImage(t, s) THEN s
  ELSE [seen    |-> s.seen \cup Keys(t),
        checked |-> s.checked \cup IF WantsImage(t, s) THEN {t.post} ELSE {},
        buffer  |-> Append(s.buffer,
                      [tweet |-> t, sending |-> FALSE,
                       backfill |-> <<"post", t.post>> \in s.seen /\ ~t.article])]

(* The tweets of a response go through the dedup one after the other. *)
AddTweets(s, tweets) ==
  LET after[n \in 0 .. Len(tweets)] ==
        IF n = 0 THEN s ELSE AddTweet(after[n - 1], tweets[n])
  IN after[Len(tweets)]

(* What a sequence holds at these positions, in order. *)
Only(s, positions) ==
  LET part[n \in 0 .. Len(s)] ==
        IF n = 0 THEN <<>>
        ELSE IF n \in positions THEN Append(part[n - 1], s[n])
        ELSE part[n - 1]
  IN part[Len(s)]

(* Over its cap the buffer gives up image backfills first, then its oldest.  *)
GivenUpBefore(b, j, i) ==
  IF b[j].backfill = b[i].backfill THEN j < i ELSE b[j].backfill
Evicted(b) ==
  {i \in DOMAIN b :
     Cardinality({j \in DOMAIN b : GivenUpBefore(b, j, i)}) < Len(b) - MaxBuffer}

(* The synchronous part of enqueueTweets, followed by the call of saveState. *)
Plain(b) == [i \in DOMAIN b |-> [b[i] EXCEPT !.sending = FALSE]]
NoSnapshot == [seen |-> {}, buffer |-> <<>>]

SaveState(w, ids, entries) ==
  /\ saves' = Append(saves, w)
  /\ snapshot' = IF saves = <<>> THEN [seen |-> ids, buffer |-> Plain(entries)] ELSE snapshot

EnqueueTweets(w, tweets) ==
  \E s \in {AddTweets([seen |-> seen, checked |-> checked, buffer |-> buffer], tweets)} :
  \E out \in {Evicted(s.buffer)} :
    /\ seen' = s.seen
    /\ buffer' = Only(s.buffer, DOMAIN s.buffer \ out)
    /\ checked' = s.checked \ {s.buffer[i].tweet.post : i \in {j \in out : s.buffer[j].backfill}}
    /\ dropped' = dropped \cup UNION {Keys(s.buffer[i].tweet) : i \in {j \in out : ~s.buffer[j].backfill}}
    /\ SaveState(w, seen', buffer')

Fault == /\ faults < MaxFaults
         /\ faults' = faults + 1
         /\ UNCHANGED deaths

(***************************************************************************)
(* A response: stage, enqueue, save, clear.                                *)
(***************************************************************************)
Active(r) == handler[r] \in {"staged", "saving", "clearing"}

Capture(r) ==
  /\ worker = "ready"
  /\ handler[r] = "new"
  /\ \A q \in Responses : q < r => handler[q] # "new"
  /\ staged' = staged \cup {r}
  /\ handler' = [handler EXCEPT ![r] = "staged"]
  /\ UNCHANGED <<saved, cleared, worker, sweep, memory, saving, flush, transport, remote, bounds>>

HandlerEnqueues(r) ==
  /\ handler[r] = "staged"
  /\ EnqueueTweets(<<"handler", r>>, Content[r])
  /\ handler' = [handler EXCEPT ![r] = "saving"]
  /\ UNCHANGED <<disk, worker, sweep, flush, transport, remote, bounds>>

ClearStaged(r) ==
  /\ staged' = staged \ {r}
  /\ cleared' = cleared \cup KeysOf(Content[r])

HandlerClears(r) ==
  /\ handler[r] = "clearing"
  /\ ClearStaged(r)
  /\ handler' = [handler EXCEPT ![r] = "done"]
  /\ UNCHANGED <<saved, worker, sweep, memory, saving, flush, transport, remote, bounds>>

(* The pool hand-off or the removal fails: the staged copy stays.            *)
HandlerFails(r) ==
  /\ Fault
  /\ handler[r] \in {"staged", "clearing"}
  /\ handler' = [handler EXCEPT ![r] = "done"]
  /\ UNCHANGED <<disk, worker, sweep, memory, saving, flush, transport, remote>>

(***************************************************************************)
(* Recovery of staged responses, at start-up and by the minute's alarm.    *)
(***************************************************************************)
ReadStaged == [todo |-> Only([r \in Responses |-> r], staged), at |-> "next"]
Proceed == [todo |-> Tail(sweep.todo), at |-> "next"]

SweepStarts ==
  /\ worker = "ready" /\ sweep.at = "idle" /\ staged # {}
  /\ sweep' = ReadStaged
  /\ UNCHANGED <<disk, worker, handler, memory, saving, flush, transport, remote, bounds>>

SweepNext ==
  /\ sweep.at = "next"
  /\ sweep' = CASE sweep.todo = <<>>         -> [sweep EXCEPT !.at = "idle"]
                [] sweep.todo # <<>> /\ Active(Head(sweep.todo)) -> Proceed
                [] OTHER                     -> [sweep EXCEPT !.at = "enqueueing"]
  /\ UNCHANGED <<disk, worker, handler, memory, saving, flush, transport, remote, bounds>>

SweepEnqueues ==
  /\ sweep.at = "enqueueing"
  /\ EnqueueTweets(<<"sweep", 0>>, Content[Head(sweep.todo)])
  /\ sweep' = [sweep EXCEPT !.at = "saving"]
  /\ UNCHANGED <<disk, worker, handler, flush, transport, remote, bounds>>

SweepClears ==
  /\ sweep.at = "clearing"
  /\ ClearStaged(Head(sweep.todo))
  /\ sweep' = Proceed
  /\ UNCHANGED <<saved, worker, handler, memory, saving, flush, transport, remote, bounds>>

SweepFails ==
  /\ Fault
  /\ sweep.at \in {"enqueueing", "clearing"}
  /\ sweep' = Proceed
  /\ UNCHANGED <<disk, worker, handler, memory, saving, flush, transport, remote>>

(***************************************************************************)
(* saveState: one write at a time, with what memory held when it began.    *)
(***************************************************************************)
Resume(ok) ==
  \E w \in {Head(saves)} :
    CASE w[1] = "sweep" -> /\ sweep' = IF ok THEN [sweep EXCEPT !.at = "clearing"] ELSE Proceed
                           /\ UNCHANGED <<handler, flush>>
      [] w[1] = "flush" -> /\ flush' = [flush EXCEPT !.at = "next"]
                           /\ UNCHANGED <<handler, sweep>>
      [] OTHER          -> /\ handler' = [handler EXCEPT ![w[2]] = IF ok THEN "clearing" ELSE "done"]
                           /\ UNCHANGED <<sweep, flush>>

SaveEnds(ok) ==
  /\ saves # <<>>
  /\ saved' = IF ok THEN snapshot ELSE saved
  /\ saves' = Tail(saves)
  /\ snapshot' = IF Tail(saves) = <<>> THEN NoSnapshot
                 ELSE [seen |-> seen, buffer |-> Plain(buffer)]
  /\ Resume(ok)
  /\ UNCHANGED <<staged, cleared, worker, memory, transport, remote>>

Saves     == SaveEnds(TRUE) /\ UNCHANGED bounds
SaveFails == SaveEnds(FALSE) /\ Fault

(***************************************************************************)
(* Flush: the front of the buffer is posted and removed once it was taken. *)
(***************************************************************************)
Idle == [at |-> "idle", cap |-> MaxPost, split |-> 0, sent |-> <<>>]

Size(tweets) ==
  LET total[n \in 0 .. Len(tweets)] == IF n = 0 THEN 0 ELSE total[n - 1] + tweets[n].size
  IN total[Len(tweets)]
(* Mutant: a batch refused as too large is sent again as it was.             *)
NotHalved(n) == n
Halved(n) == n \div 2

(* Mutant: as many entries as were sent are cut off the front.               *)
UnsentByPosition(entries) ==
  SubSeq(entries, Len(flush.sent) + 1, Len(entries))
(* What stays in the buffer: everything but the entries that were sent.      *)
Unsent(entries) == Only(entries, {i \in DOMAIN entries : ~entries[i].sending})

Send(cap, split) ==
  /\ buffer' = [i \in DOMAIN buffer |-> [buffer[i] EXCEPT !.sending = i <= cap]]
  /\ flush' = [at |-> "sending", cap |-> cap, split |-> split,
               sent |-> [i \in {j \in DOMAIN buffer : j <= cap} |-> buffer[i].tweet]]

FlushSends ==
  /\ worker = "ready" /\ transport = "http"
  /\ flush.at \in {"idle", "next"} /\ buffer # <<>>
  /\ Send(flush.cap, flush.split)
  /\ UNCHANGED <<disk, worker, handler, sweep, seen, checked, dropped, saving, transport, remote, bounds>>

FlushEnds ==
  /\ flush.at = "next" /\ buffer = <<>>
  /\ flush' = Idle
  /\ UNCHANGED <<disk, worker, handler, sweep, memory, saving, transport, remote, bounds>>

Reached == flush.at = "sending" /\ daemon
Fits == Size(flush.sent) <= BodyLimit

(* The batch, evicted entries included, is in the archive; a split batch     *)
(* restores the full cap once all of it went through.                        *)
FlushIsTaken ==
  /\ Reached /\ credential /\ Fits
  /\ archive' = archive \cup KeysOf(flush.sent)
  /\ buffer' = Unsent(buffer)
  /\ \E left \in {flush.split - Len(flush.sent)} :
       flush' = IF left > 0
                THEN [flush EXCEPT !.at = "saving", !.split = left, !.sent = <<>>]
                ELSE [flush EXCEPT !.at = "saving", !.split = 0, !.sent = <<>>,
                                   !.cap = IF flush.split > 0 THEN MaxPost ELSE @]
  /\ SaveState(<<"flush", 0>>, seen, buffer')
  /\ UNCHANGED <<disk, worker, handler, sweep, seen, checked, dropped, transport, credential, daemon, bounds>>

FlushIsTooLarge ==
  /\ Reached /\ credential /\ ~Fits
  /\ IF Len(flush.sent) > 1
     THEN Send(Halved(Len(flush.sent)), Len(flush.sent)) /\ UNCHANGED <<saving, dropped>>
     ELSE /\ buffer' = Unsent(buffer)
          /\ dropped' = dropped \cup KeysOf(flush.sent)
          /\ flush' = [Idle EXCEPT !.at = "saving"]
          /\ SaveState(<<"flush", 0>>, seen, buffer')
  /\ UNCHANGED <<disk, worker, handler, sweep, seen, checked, transport, remote, bounds>>

(* Every other answer leaves the batch in the buffer; a refused token or no  *)
(* answer also gives up the transport.                                       *)
FlushStops(next) ==
  /\ flush' = Idle
  /\ buffer' = Plain(buffer)
  /\ transport' = next
  /\ UNCHANGED <<disk, worker, handler, sweep, seen, checked, dropped, saving, credential, daemon>>

FlushIsRefused ==
  /\ Reached /\ ~credential
  /\ FlushStops("none") /\ UNCHANGED <<archive, bounds>>

FlushIsUnreachable ==
  /\ flush.at = "sending" /\ ~daemon
  /\ FlushStops("none") /\ UNCHANGED <<archive, bounds>>

(* The daemon wrote the batch and its answer is lost, or it failed to write. *)
FlushIsUnanswered ==
  /\ Reached /\ credential /\ Fits
  /\ Fault
  /\ archive' = archive \cup KeysOf(flush.sent)
  /\ FlushStops("none")

FlushIsRejected ==
  /\ Reached /\ credential /\ Fits
  /\ Fault
  /\ FlushStops("http") /\ UNCHANGED archive

(* A flush without transport probes the daemon again, with the credentials   *)
(* at hand, the native host's or the stored ones.                            *)
ReprobeTransport ==
  /\ worker = "ready" /\ transport = "none" /\ buffer # <<>>
  /\ daemon
  /\ transport' = "http"
  /\ credential' = TRUE
  /\ UNCHANGED <<disk, worker, handler, sweep, memory, saving, flush, daemon, archive, bounds>>

(***************************************************************************)
(* The service worker and the daemon.                                      *)
(***************************************************************************)
WorkerDies ==
  /\ worker # "dead" /\ deaths < MaxDeaths
  /\ deaths' = deaths + 1
  /\ worker' = "dead"
  /\ handler' = [r \in Responses |-> IF Active(r) THEN "done" ELSE handler[r]]
  /\ sweep' = [todo |-> <<>>, at |-> "idle"]
  /\ buffer' = <<>> /\ seen' = {} /\ checked' = {}
  /\ saves' = <<>> /\ snapshot' = NoSnapshot
  /\ flush' = Idle
  /\ transport' = "none"
  /\ UNCHANGED <<disk, dropped, remote, faults>>

(* Start-up, woken by an alarm: restoreState, then the recovery sweep.       *)
WorkerStarts ==
  /\ worker = "dead"
  /\ worker' = "starting"
  /\ buffer' = saved.buffer /\ seen' = saved.seen
  /\ sweep' = ReadStaged
  /\ UNCHANGED <<disk, handler, checked, dropped, saving, flush, transport, remote, bounds>>

InitTransport ==
  /\ worker = "starting" /\ sweep.at = "idle"
  /\ worker' = "ready"
  /\ transport' = IF daemon THEN "http" ELSE "none"
  /\ credential' = (daemon \/ credential)
  /\ UNCHANGED <<disk, handler, sweep, memory, saving, flush, daemon, archive, bounds>>

(* The native host does not answer and the cached token is not the daemon's. *)
InitTransportFails ==
  /\ worker = "starting" /\ sweep.at = "idle" /\ ~credential
  /\ Fault
  /\ worker' = "ready"
  /\ UNCHANGED <<disk, handler, sweep, memory, saving, flush, transport, remote>>

DaemonStops ==
  /\ daemon /\ Fault
  /\ daemon' = FALSE
  /\ UNCHANGED <<disk, worker, handler, sweep, memory, saving, flush, transport, credential, archive>>

DaemonStarts ==
  /\ ~daemon
  /\ daemon' = TRUE
  /\ UNCHANGED <<disk, worker, handler, sweep, memory, saving, flush, transport, credential, archive, bounds>>

(* A reinstallation gives the daemon another token.                          *)
TokenIsReplaced ==
  /\ credential /\ Fault
  /\ credential' = FALSE
  /\ UNCHANGED <<disk, worker, handler, sweep, memory, saving, flush, transport, daemon, archive>>

(***************************************************************************)
(* Specification.                                                          *)
(***************************************************************************)
Init ==
  /\ staged = {} /\ saved = NoSnapshot /\ cleared = {}
  /\ worker = "starting"
  /\ handler = [r \in Responses |-> "new"]
  /\ sweep = [todo |-> <<>>, at |-> "idle"]
  /\ buffer = <<>> /\ seen = {} /\ checked = {} /\ dropped = {}
  /\ saves = <<>> /\ snapshot = NoSnapshot
  /\ flush = Idle
  /\ transport = "none" /\ credential = FALSE /\ daemon = TRUE
  /\ archive = {}
  /\ deaths = 0 /\ faults = 0

Handle == \E r \in Responses : HandlerEnqueues(r) \/ HandlerClears(r)
Sweep  == SweepNext \/ SweepEnqueues \/ SweepClears
Flush  == \/ FlushSends \/ FlushEnds \/ FlushIsTaken \/ FlushIsTooLarge
          \/ FlushIsRefused \/ FlushIsUnreachable \/ ReprobeTransport
Run    == WorkerStarts \/ InitTransport \/ DaemonStarts
Fails  == \/ SweepFails \/ SaveFails \/ FlushIsUnanswered \/ FlushIsRejected
          \/ InitTransportFails \/ DaemonStops \/ TokenIsReplaced \/ WorkerDies
          \/ \E r \in Responses : HandlerFails(r)

Next == \/ \E r \in Responses : Capture(r)
        \/ SweepStarts
        \/ Handle \/ Sweep \/ Saves \/ Flush \/ Run \/ Fails

(* Handlers, saves and requests run to their end while the worker lives; the *)
(* minute's alarm wakes it, sweeps and flushes; the daemon is started again. *)
Spec == /\ Init /\ [][Next]_vars
        /\ WF_vars(Handle) /\ WF_vars(Saves) /\ WF_vars(Sweep \/ SweepStarts)
        /\ WF_vars(Flush) /\ WF_vars(Run)

(***************************************************************************)
(* Properties.                                                             *)
(***************************************************************************)

(* A post whose staged response is gone, or which the saved identities call  *)
(* seen (so that it is never accepted again), is in the daemon's archive, in *)
(* the saved buffer, or was given up by the overflow or as too large: the    *)
(* death of the worker at any step, a failed save, an eviction during a      *)
(* request and a lost answer lose nothing (enqueueTweets, saveState, flush). *)
NothingLostBeforeDaemon ==
  cleared \cup saved.seen \subseteq archive \cup Contained(saved.buffer) \cup dropped

(* Every staged response reaches the daemon's archive, but for posts given   *)
(* up: one tweet that never fits, a failed save, a dead worker, a replaced   *)
(* token or a daemon that was down do not hold up the others (flush,         *)
(* reprobeTransport, recoverStagedPayloads).                                 *)
StagedIsArchived ==
  \A r \in Responses :
    r \in staged ~> KeysOf(Content[r]) \subseteq archive \cup dropped
=============================================================================
