---------------------------- MODULE ConsumerFeed ----------------------------
(***************************************************************************)
(* The incremental consumer API: space/src/consumer-runtime.ts and what it *)
(* calls (consumer-changes, consumer-privacy, consumer-post-access,        *)
(* consumer-observations, source-effect-store, historical-unit-reader),    *)
(* with one consumer that follows docs/2026-09-07-consumer-http-handoff.md. *)
(*                                                                         *)
(* The server keeps nothing about a consumer: a signed cursor names the    *)
(* pinned source it reads (target), the one it compares with (base), a     *)
(* position, and the source up to which removals were applied (privacy).   *)
(* The source only grows, so a pinned source is a prefix of the log of     *)
(* writes, named by its length; 0 stands for none.  A request holds the    *)
(* application mutex from the boundary it reads to its answer, so it is    *)
(* one step; a request that fails, or whose answer is lost, changes        *)
(* nothing and is sent again.  A page holds one item: a larger page is     *)
(* several steps without a write in between.                               *)
(***************************************************************************)
EXTENDS Integers, Sequences, FiniteSets

CONSTANTS
  Posts, Units,    \* positive numbers, ordered as the code orders identifiers
  Writes,          \* what captures, enrichment and approvals may add
  FirstLog,        \* the log when the consumer starts
  MaxLog,          \* bound of the model: length of the log
  MaxWithdrawals,  \* bound of the model: captures that find a post restricted
  Overlap          \* whether the consumer polls while a history read is open

(* An entry of the log.  The place `at` of a capture is the one it has in  *)
(* the code's order of the captures of a post: by time, then those that    *)
(* restrict it first, then by hash, so that no two are at one place.       *)
IsEntry(e) ==
  \/ /\ e.kind = "post" /\ e.post \in Posts /\ e.unit \in Units
     /\ e.content.open \in BOOLEAN /\ e.at \in Int
  \/ e.kind = "result" /\ e.unit \in Units /\ DOMAIN e.covers # {}
  \/ e.kind = "registry" /\ e.approved \in BOOLEAN

Ordered(entries) ==
  \A i, j \in DOMAIN entries : entries[i].kind = "post" /\ entries[j].kind = "post" =>
    /\ -Len(entries) < entries[i].at /\ entries[i].at < Len(entries)
    /\ entries[i].post = entries[j].post /\ entries[i].at = entries[j].at => i = j

IsWrite(w) ==
  \/ w.kind = "post" /\ w.post \in Posts /\ w.unit \in Units /\ {w.open, w.late} \subseteq BOOLEAN
  \/ w.kind = "result" /\ w.unit \in Units
  \/ w.kind = "registry" /\ w.approved \in BOOLEAN

(* The consumer bootstraps from a source that holds something.             *)
ASSUME ConsumerAssumption ==
  /\ IsFiniteSet(Posts) /\ Posts \subseteq Nat \ {0}
  /\ IsFiniteSet(Units) /\ Units \subseteq Nat \ {0}
  /\ FirstLog \in Seq({FirstLog[i] : i \in DOMAIN FirstLog}) /\ Len(FirstLog) > 0
  /\ \A i \in DOMAIN FirstLog : IsEntry(FirstLog[i])
  /\ Ordered(FirstLog)
  /\ \A w \in Writes : IsWrite(w)

VARIABLES
  log,      \* the indexed source
  streams,  \* the consumer's cursors: the changes and one history read
  receipt,  \* privacy receipt of the last history read that reconciled, or 0
  asked,    \* source of the last history read
  units,    \* the consumer's copy: unit -> content of its posts
  samples   \* the consumer's observations, as positions in the log

vars == <<log, streams, receipt, asked, units, samples>>

Nothing == <<>>   \* the content of a unit that is not there
None ==
  [pos |-> "none", target |-> 0, base |-> 0, after |-> 0, sent |-> FALSE, privacy |-> 0,
   rec |-> 0, removal |-> <<0, 0>>]

Now == Len(log)
Larger(m, n) == IF m > n THEN m ELSE n
Least(S) == CHOOSE x \in S : \A y \in S : x <= y
Newest(S) == CHOOSE x \in S : \A y \in S : y <= x

-----------------------------------------------------------------------------
(* What a prefix n of the log says.                                        *)

Observed(p, n) == {i \in 1..n : log[i].kind = "post" /\ log[i].post = p}

(* The newest copy by capture time, whatever the order of arrival.         *)
Latest(p, n) == CHOOSE i \in Observed(p, n) : \A j \in Observed(p, n) : log[j].at <= log[i].at

Known(n) == {p \in Posts : Observed(p, n) # {}}
Open(p, n) == log[Latest(p, n)].content.open
UnitsOf(p, n) == {log[i].unit : i \in Observed(p, n)}

(* The members of a unit with their semantic content.                      *)
Current(u, n) ==
  [p \in {q \in Known(n) : log[Latest(q, n)].unit = u} |-> log[Latest(p, n)].content]

ResultsOf(u, n) == {i \in 1..n : log[i].kind = "result" /\ log[i].unit = u}

Fits(covered, now) == \A p \in DOMAIN covered : p \in DOMAIN now /\ covered[p] = now[p]

(* A result for exactly these members, or else the newest one if the unit  *)
(* only gained members since.                                              *)
Published(u, n) ==
  LET now     == Current(u, n)
      covered == {log[i].covers : i \in ResultsOf(u, n)}
      newest  == Newest(ResultsOf(u, n))
  IN  IF covered = {} THEN Nothing
      ELSE IF now \in covered THEN now
      ELSE IF Fits(log[newest].covers, now) THEN log[newest].covers
      ELSE Nothing

(* The label of the selection is approved.                                 *)
Approved(n) ==
  LET decisions == {i \in 1..n : log[i].kind = "registry"}
  IN  decisions = {} \/ log[Newest(decisions)].approved

Restrictions == {i \in 1..Now : log[i].kind = "post" /\ ~log[i].content.open}

Visible(u, n) ==
  LET content == Published(u, n)
  IN  IF Approved(n) /\ \A p \in DOMAIN content : content[p].open THEN content ELSE Nothing

(* ConsumerPostAccess: a pinned page never shows what is restricted now.   *)
Publishable(u, n) ==
  LET content == Visible(u, n)
  IN  IF \A p \in DOMAIN content : Open(p, Now) THEN content ELSE Nothing

Permitted(p, n) == \E u \in Units : p \in DOMAIN Publishable(u, n)

-----------------------------------------------------------------------------
(* Withdrawals: posts of an exposed source that a write after one source   *)
(* and up to another restricts, also when a later write opens them again.  *)

Withdrawn(from, through, exposed) ==
  {p \in Known(exposed) : \E i \in Observed(p, through) : i > from /\ ~log[i].content.open}

(* The source up to which the consumer of a cursor knows the withdrawals.  *)
Baseline(c) == Larger(c.target, c.privacy)

MustReconcile(c) == Withdrawn(Baseline(c), Now, c.target) # {}

Removals(c) ==
  UNION {{p} \X (UnitsOf(p, c.target) \union {0}) : p \in Withdrawn(Baseline(c), c.rec, c.target)}

Precedes(r, s) == r[1] < s[1] \/ (r[1] = s[1] /\ r[2] < s[2])

-----------------------------------------------------------------------------
(* The comparison of two sources.                                          *)

Version(p, n) == <<log[Latest(p, n)].unit, log[Latest(p, n)].content>>

ChangedPosts(b, t) ==
  {p \in Known(t) : \E i \in Observed(p, t) :
     i > b /\ (p \in Known(b) => Version(p, b) # Version(p, t))}

Affected(b, t) ==
  (UNION {UnitsOf(p, t) : p \in ChangedPosts(b, t)})
    \union {u \in Units : \E i \in ResultsOf(u, t) : i > b}
    \union {u \in Units : Approved(b) # Approved(t) /\ ResultsOf(u, t) # {}}

(* Removals the consumer applied for a comparison that suppresses equal    *)
(* content: their units are sent again once they are open.                 *)
Reconciled(c) == Withdrawn(c.base, c.privacy, c.target)

Restored(c) == UNION {UnitsOf(p, c.target) : p \in {q \in Reconciled(c) : Open(q, Now)}}

BootstrapUnits(t) == UNION {UnitsOf(p, t) : p \in Known(t)}

Candidates(c) ==
  IF c.base = 0 THEN BootstrapUnits(c.target)
  ELSE Affected(c.base, c.target) \union Restored(c)

Before(c, u) ==
  LET content == Visible(u, c.base)
  IN  IF c.base = 0 \/ DOMAIN content \intersect Reconciled(c) # {} THEN Nothing ELSE content

NewlyVisibleSinceBase(c, u) == DOMAIN Publishable(u, c.target) \ DOMAIN Visible(u, c.base)
NewlyVisible(c, u) == DOMAIN Publishable(u, c.target) \ DOMAIN Before(c, u)

-----------------------------------------------------------------------------
(* Cursors.                                                                *)

Start(target, base, pos, privacy) ==
  [None EXCEPT !.pos = pos, !.target = target, !.base = base, !.privacy = privacy]

(* The receipt of another stream counts when it goes further.              *)
Receipt(c) == Larger(c.privacy, receipt)

(* A poll pins the current source and compares it with the consumed one.   *)
Sequence(c) ==
  IF c.pos = "idle" THEN Start(Now, c.target, "content", Receipt(c)) ELSE c

NeedsBoundaryAgain(c) ==
  c.base = 0 \/ c.base # c.target \/ Approved(c.base) # Approved(c.target)

NeedsBoundaryPage(c) ==
  /\ ~c.sent
  /\ c.base = 0 \/ c.base # c.target \/ Approved(c.base) # Approved(c.target)

ToIdleKnown(c) == Start(c.target, 0, "idle", 0)

(* ConsumerChangeEngine.move: a consumed source that contains the applied  *)
(* removals needs no further repair.                                       *)
ToIdle(c) == Start(c.target, 0, "idle", IF c.privacy <= c.target THEN 0 ELSE c.privacy)

Move(c, pos, after) == [c EXCEPT !.pos = pos, !.after = after]

AfterUnits(c) ==
  IF c.pos = "bootstrap" \/ c.base = c.target THEN ToIdle(c)
  ELSE Move(c, "observations", c.base)

-----------------------------------------------------------------------------
(* The consumer's transactions.  Observations go with the last unit that   *)
(* holds their post.                                                       *)

Save(content, new) ==
  /\ units' = content
  /\ samples' = {i \in samples \union new : \E u \in Units : log[i].post \in DOMAIN content[u]}

SamplesOf(p, n) == {i \in Observed(p, n) : log[i].content.open}
SamplesAdded(i, n) ==
  {j \in {i} : log[j].kind = "post" /\ log[j].content.open /\ Permitted(log[j].post, n)}

Init ==
  /\ log = FirstLog
  /\ streams = [s \in {"changes", "history"} |->
       IF s = "changes" THEN [Start(Now, 0, "bootstrap", 0) EXCEPT !.sent = TRUE] ELSE None]
  /\ receipt = 0 /\ asked = 0
  /\ units = [u \in Units |-> Nothing] /\ samples = {}

-----------------------------------------------------------------------------
(* A capture, possibly an older one that arrives late; a result for the    *)
(* present members of a unit; a decision about the label.                  *)
Write(w) ==
  /\ Now < MaxLog
  /\ \/ /\ w.kind = "post"
        /\ w.open \/ Cardinality(Restrictions) < MaxWithdrawals
        /\ log' = Append(log, [kind |-> "post", post |-> w.post, unit |-> w.unit,
                               content |-> [text |-> w.text, open |-> w.open],
                               at |-> IF w.late THEN -Now ELSE Now])
     \/ /\ w.kind = "result" /\ Current(w.unit, Now) # Nothing
        /\ log' = Append(log, [kind |-> "result", unit |-> w.unit, covers |-> Current(w.unit, Now)])
     \/ /\ w.kind = "registry" /\ Approved(Now) # w.approved
        /\ log' = Append(log, w)
  /\ UNCHANGED <<streams, receipt, asked, units, samples>>

(* 409 privacy_changed: the answer pins the current source as the range of *)
(* removals, and keeps the position.                                       *)
Refuse(s) ==
  LET c == streams[s]
  IN  /\ c.pos \notin {"none", "idle"} /\ c.rec = 0 /\ MustReconcile(c)
      /\ streams' = [streams EXCEPT ![s] = [c EXCEPT !.rec = Now, !.removal = <<0, 0>>]]
      /\ UNCHANGED <<log, receipt, asked, units, samples>>

AfterRangeAtOnce(c) == [c EXCEPT !.privacy = Now, !.rec = 0, !.removal = <<0, 0>>]

(* /api/reconcile: one removal, and after the last one of the range either *)
(* a further range, when the source has grown, or the way back.            *)
AfterRange(c) ==
  [c EXCEPT !.privacy = c.rec, !.rec = IF c.rec = Now THEN 0 ELSE Now, !.removal = <<0, 0>>]

Remove(r) ==
  Save([u \in Units |-> IF r[2] \in {0, u} /\ r[1] \in DOMAIN units[u] THEN Nothing ELSE units[u]], {})

Reconcile(s) ==
  LET c    == streams[s]
      rest == {r \in Removals(c) : Precedes(c.removal, r)}
      next == CHOOSE r \in rest : \A q \in rest : r = q \/ Precedes(r, q)
      then == IF Cardinality(rest) > 1 THEN [c EXCEPT !.removal = next] ELSE AfterRange(c)
  IN  /\ c.rec # 0
      /\ IF rest = {} THEN UNCHANGED <<units, samples>> ELSE Remove(next)
      /\ streams' = [streams EXCEPT ![s] = then]
      /\ receipt' = IF s = "history" /\ then.rec = 0 THEN then.privacy ELSE receipt
      /\ UNCHANGED <<log, asked>>

-----------------------------------------------------------------------------
(* Pages of /api/units and /api/changes.  An idle cursor begins a          *)
(* comparison; the consumer does so when no history read is open, unless   *)
(* its streams overlap.                                                    *)
Answer(c) ==
  /\ streams.changes.pos \notin {"none"} /\ streams.changes.rec = 0
  /\ streams.changes.pos = "idle" => Overlap \/ streams.history.pos = "none"
  /\ ~MustReconcile(c)

Reply(c) ==
  /\ streams' = [streams EXCEPT !.changes = c]
  /\ UNCHANGED <<log, receipt, asked>>

BoundaryPage ==
  \E c \in {Sequence(streams.changes)} :
     /\ Answer(c) /\ NeedsBoundaryPage(c)
     /\ Reply([c EXCEPT !.sent = TRUE])
     /\ UNCHANGED <<units, samples>>

UnitsPage(c) ==
  \E rest \in {{u \in Candidates(c) : u > c.after}} :
     \/ /\ rest = {}
        /\ Reply(AfterUnits(c)) /\ UNCHANGED <<units, samples>>
     \/ \E u \in rest : \E new \in {Publishable(u, c.target)} :
        /\ \A v \in rest : u <= v
        /\ IF new = Before(c, u) THEN UNCHANGED <<units, samples>>
           ELSE Save([units EXCEPT ![u] = new], {})
        /\ Reply(IF c.pos = "content" /\ NewlyVisible(c, u) # {} THEN Move(c, "activation", u)
                 ELSE IF rest = {u} THEN AfterUnits(c)
                 ELSE Move(c, c.pos, u))

UnitPage ==
  \E c \in {Sequence(streams.changes)} :
     /\ Answer(c) /\ ~NeedsBoundaryPage(c) /\ c.pos \in {"bootstrap", "content"}
     /\ UnitsPage(c)

(* The retained observations of posts the consumer sees for the first time. *)
ActivationPage ==
  LET c == streams.changes
  IN  /\ c.pos = "activation" /\ Answer(c)
      /\ IF Publishable(c.after, c.target) = Nothing
         THEN Save([units EXCEPT ![c.after] = Nothing], {})
         ELSE Save(units, UNION {SamplesOf(p, c.target) : p \in NewlyVisible(c, c.after)})
      /\ Reply(Move(c, "content", c.after))

(* The observations of one added segment.                                  *)
SamplePage ==
  LET c == streams.changes
      i == c.after + 1
  IN  /\ c.pos = "observations" /\ Answer(c)
      /\ Save(units, SamplesAdded(i, c.target))
      /\ Reply(IF i = c.target THEN ToIdle(c) ELSE Move(c, "observations", i))

-----------------------------------------------------------------------------
(* /api/observations at a consumed source, once for each source.           *)
OpenHistory ==
  LET c == streams.changes
  IN  /\ c.pos = "idle" /\ streams.history.pos = "none" /\ asked < c.target
      /\ asked' = c.target
      /\ streams' = [streams EXCEPT !.history =
           Start(c.target, 0, "history", Receipt(c))]
      /\ UNCHANGED <<log, receipt, units, samples>>

HistoryPage ==
  LET c    == streams.history
      rest == {p \in Known(c.target) : p > c.after}
      p    == Least(rest)
  IN  /\ c.pos = "history" /\ c.rec = 0 /\ ~MustReconcile(c)
      /\ IF rest # {} /\ Permitted(p, c.target) THEN Save(units, SamplesOf(p, c.target))
         ELSE UNCHANGED <<units, samples>>
      /\ streams' = [streams EXCEPT !.history =
           IF Cardinality(rest) <= 1 THEN None ELSE Move(c, "history", p)]
      /\ UNCHANGED <<log, receipt, asked>>

Request ==
  \/ \E s \in {"changes", "history"} : Refuse(s) \/ Reconcile(s)
  \/ BoundaryPage \/ UnitPage \/ ActivationPage \/ SamplePage
  \/ OpenHistory \/ HistoryPage

Next == (\E w \in Writes : Write(w)) \/ Request

(* The consumer sends some request as long as there is one to send.        *)
Spec == Init /\ [][Next]_vars /\ WF_vars(Request)

-----------------------------------------------------------------------------
(* The consumer has consumed a source, and no removal awaits its repair.   *)
Settled ==
  LET c == streams.changes
  IN  c.pos = "idle" /\ c.privacy = 0 /\ receipt <= c.target /\ streams.history.pos = "none"

(* A consumer that has consumed a source holds every unit visible in it,   *)
(* in its newest version, through late captures, edits, moved posts,       *)
(* withdrawals that stop its pages and posts that are opened again.        *)
VisibleIsHeld ==
  Settled => \A u \in Units : LET content == Visible(u, streams.changes.target)
                              IN  content # Nothing => units[u] = content

(* It also has every open observation of the posts it shall hold since its *)
(* bootstrap, those received while a post was not visible included.        *)
ObservationsComplete ==
  Settled =>
    LET t == streams.changes.target
    IN  \A u \in Units : \A p \in DOMAIN Visible(u, t) : \A i \in SamplesOf(p, t) :
          i > Len(FirstLog) => i \in samples

(* Whatever happened to a post while its pages were read: when a stream    *)
(* comes to rest, no unit that it knew the consumer to hold, and after a   *)
(* bootstrap no unit at all, contains a post that is restricted by then.   *)
NothingWithdrawnIsKept ==
  [][(streams'.changes # streams.changes /\ streams'.changes.pos = "idle")
       => LET c == streams.changes
          IN  \A u \in Units : (c.base = 0 \/ Before(c, u) # Nothing)
                => \A p \in DOMAIN units'[u] : Open(p, Now)]_vars

(* The same for every unit: a consumed cursor acknowledges a source only   *)
(* after all its removals have been returned.                              *)
RemovalsAreAcknowledged ==
  [][(streams'.changes # streams.changes /\ streams'.changes.pos = "idle")
       => \A u \in Units : \A p \in DOMAIN units'[u] : Open(p, Now)]_vars

(* The consumer reaches the current source once writes stop, however many  *)
(* of its pages were refused.                                              *)
CatchesUp == <>[](streams.changes.pos = "idle" /\ streams.changes.target = Now)
=============================================================================
