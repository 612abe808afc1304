---------------------------- MODULE ConsumerProofs ----------------------------
(***************************************************************************)
(* Proofs about ConsumerFeed, for any posts, units, writes, first log and  *)
(* length of the log, and a consumer that does not poll while a history    *)
(* read is open (Overlap = FALSE).                                         *)
(*                                                                         *)
(* What a prefix of the log says does not change when the log grows, so a  *)
(* page says the same of a pinned source whenever it is read.  A consumer  *)
(* holds what is visible at the source it has consumed, or, in the middle  *)
(* of a comparison, at the old source for the units it has yet to be sent  *)
(* and at the new one for the others, but for units of which it was told   *)
(* that a post was withdrawn since: those it is excused from holding.      *)
(* The comparison visits each unit that differs, and each one it was       *)
(* excused from when all posts of it are open again; a unit it does not    *)
(* visit is the same at both sources or stays excused.                     *)
(***************************************************************************)
EXTENDS ConsumerFeed, FiniteSetTheorems, SequenceTheorems, WellFoundedInduction, TLAPS

(* The length of the log when the consumer starts.                         *)
F == Len(FirstLog)

LogInv ==
  /\ log \in Seq({log[i] : i \in DOMAIN log})
  /\ \A i \in DOMAIN log : IsEntry(log[i])
  /\ F <= Now
  /\ Ordered(log)

-----------------------------------------------------------------------------
(* What the model's operators say of the log.                              *)

(* The log is a sequence that holds something.                             *)
LEMMA LogFacts ==
  ASSUME LogInv
  PROVE  /\ Now \in Nat /\ DOMAIN log = 1 .. Now /\ F \in Nat /\ F > 0 /\ F <= Now
BY ConsumerAssumption DEF LogInv, Now, F

(* A nonempty set of natural numbers has a least element.  *)
LEMMA LeastExists ==
  ASSUME NEW S \in SUBSET Nat, S # {}
  PROVE  \E m \in S : \A n \in S : m <= n
<1> DEFINE T == {1 .. m : m \in S}
<1>1. T \subseteq FiniteSubsetsOf(Nat) /\ T # {}
  <2>1. \A m \in S : IsFiniteSet(1 .. m) /\ 1 .. m \subseteq Nat
    BY FS_Interval
  <2> QED
    BY <2>1 DEF FiniteSubsetsOf
<1> HIDE DEF T
<1>2. PICK x \in T : \A y \in T : ~ (<<y, x>> \in StrictSubsetOrdering(Nat))
  BY <1>1, FS_StrictSubsetOrderingWellFounded, WFMin
<1>3. PICK m \in S : x = 1 .. m
  BY <1>2 DEF T
<1>4. ASSUME NEW n \in S, n < m
      PROVE  FALSE
  <2>1. 1 .. n \in T
    BY DEF T
  <2>2. 1 .. n \subseteq 1 .. m /\ m \in 1 .. m /\ m \notin 1 .. n
    BY <1>4
  <2>3. <<1 .. n, 1 .. m>> \in StrictSubsetOrdering(Nat)
    BY <2>2 DEF StrictSubsetOrdering
  <2> QED
    BY <1>2, <1>3, <2>1, <2>3
<1>5. \A n \in S : m <= n
  BY <1>4
<1> QED
  BY <1>5

(* A nonempty set of integers with a bound has a greatest element.         *)
LEMMA GreatestExists ==
  ASSUME NEW b \in Int, NEW S \in SUBSET Int, S # {}, \A x \in S : x <= b
  PROVE  \E m \in S : \A x \in S : x <= m
<1>1. PICK T : T = {b - x : x \in S}
  OBVIOUS
<1>2. T \in SUBSET Nat /\ T # {}
  <2>1. \A x \in S : b - x \in Nat
    OBVIOUS
  <2> QED
    BY <1>1, <2>1
<1>3. PICK t \in T : \A y \in T : t <= y
  BY <1>2, LeastExists
<1>4. PICK m \in S : t = b - m
  BY <1>1
<1>5. ASSUME NEW x \in S
      PROVE  x <= m
  <2>1. b - m <= b - x
    BY <1>1, <1>3, <1>4
  <2> QED
    BY <2>1
<1> QED
  BY <1>5

(* The newest of some entries is one of them.                              *)
LEMMA NewestIs ==
  ASSUME NEW n \in Nat, NEW S \in SUBSET (1 .. n), S # {}
  PROVE  Newest(S) \in S /\ \A x \in S : x <= Newest(S)
<1>1. n \in Int /\ S \in SUBSET Int /\ \A x \in S : x <= n
  OBVIOUS
<1>2. \E m \in S : \A x \in S : x <= m
  BY <1>1, GreatestExists
<1> QED
  BY <1>2 DEF Newest

(* What Least and its relatives choose.                                    *)
LEMMA LeastIs ==
  ASSUME NEW S \in SUBSET Nat, S # {}
  PROVE  Least(S) \in S /\ \A x \in S : Least(S) <= x
<1>1. \E m \in S : \A x \in S : m <= x
  BY LeastExists
<1> QED
  BY <1>1 DEF Least

(* Of some captures at different places, one is the latest.                *)
LatestOf(S, entries) == CHOOSE i \in S : \A j \in S : entries[j].at <= entries[i].at

(* Captures are at different places, so one is the newest.                 *)
LEMMA LatestOfIs ==
  ASSUME NEW S, S # {}, NEW entries, NEW b \in Int,
         \A i \in S : entries[i].at \in Int /\ entries[i].at <= b,
         \A i, j \in S : entries[i].at = entries[j].at => i = j
  PROVE  /\ LatestOf(S, entries) \in S
         /\ \A j \in S : entries[j].at <= entries[LatestOf(S, entries)].at
         /\ \A i \in S : (\A j \in S : entries[j].at <= entries[i].at) => i = LatestOf(S, entries)
<1>1. PICK T : T = {entries[i].at : i \in S}
  OBVIOUS
<1>2. T \in SUBSET Int /\ T # {} /\ \A x \in T : x <= b
  BY <1>1
<1>3. PICK m \in T : \A x \in T : x <= m
  BY <1>2, GreatestExists
<1>4. PICK i \in S : entries[i].at = m
  BY <1>1
<1>5. \A j \in S : entries[j].at <= entries[i].at
  BY <1>1, <1>3, <1>4
<1>6. PICK l : l = LatestOf(S, entries)
  OBVIOUS
<1>7. l \in S /\ \A j \in S : entries[j].at <= entries[l].at
  BY <1>5, <1>6 DEF LatestOf
<1>8. ASSUME NEW k \in S, \A j \in S : entries[j].at <= entries[k].at
      PROVE  k = l
  <2>1. entries[k].at = entries[l].at
    <3>1. entries[k].at <= entries[l].at /\ entries[l].at <= entries[k].at
      BY <1>7, <1>8
    <3> QED
      BY <1>7, <3>1
  <2> QED
    BY <1>7, <2>1
<1> QED
  BY <1>6, <1>7, <1>8

(* The captures of a post are at different places.                         *)
LEMMA ObservedAre ==
  ASSUME LogInv, NEW n \in 0 .. Now, NEW p
  PROVE  /\ Observed(p, n) \subseteq 1 .. n
         /\ \A i \in Observed(p, n) : log[i].kind = "post" /\ log[i].post = p
         /\ \A i \in Observed(p, n) : log[i].at \in Int /\ log[i].at <= Now
         /\ \A i, j \in Observed(p, n) : log[i].at = log[j].at => i = j
<1>1. /\ Observed(p, n) \subseteq 1 .. n /\ Observed(p, n) \subseteq DOMAIN log
      /\ \A i \in Observed(p, n) : log[i].kind = "post" /\ log[i].post = p
  BY LogFacts DEF Observed
<1>2. \A i \in DOMAIN log : log[i].kind = "post" => log[i].at \in Int /\ log[i].at < Now
  BY DEF LogInv, IsEntry, Ordered, Now
<1>3. \A i, j \in Observed(p, n) : log[i].at = log[j].at => i = j
  BY <1>1 DEF LogInv, Ordered
<1> QED
  BY <1>1, <1>2, <1>3, LogFacts

(* The newest copy of a post is the one capture at the latest place.       *)
LEMMA LatestIs ==
  ASSUME LogInv, NEW n \in 0 .. Now, NEW p \in Known(n)
  PROVE  /\ Latest(p, n) \in Observed(p, n)
         /\ \A j \in Observed(p, n) : log[j].at <= log[Latest(p, n)].at
         /\ \A i \in Observed(p, n) :
              (\A j \in Observed(p, n) : log[j].at <= log[i].at) => i = Latest(p, n)
<1>1. PICK S, b : S = Observed(p, n) /\ b = Now
  OBVIOUS
<1>2. /\ S # {} /\ b \in Int
      /\ \A i \in S : log[i].at \in Int /\ log[i].at <= b
      /\ \A i, j \in S : log[i].at = log[j].at => i = j
  BY <1>1, ObservedAre, LogFacts DEF Known
<1>3. Latest(p, n) = LatestOf(S, log)
  BY <1>1 DEF Latest, LatestOf
<1> QED
  BY <1>1, <1>2, <1>3, LatestOfIs

-----------------------------------------------------------------------------
(* A source is a prefix of the log: what it says never changes.            *)

LogGrows == LogInv /\ Now' \in Nat /\ Now <= Now' /\ \A i \in 1 .. Now : log'[i] = log[i]

(* A prefix has the same captures when the log grows.                      *)
LEMMA ObservedStays ==
  ASSUME LogGrows, NEW n \in 0 .. Now, NEW p
  PROVE  /\ Observed(p, n)' = Observed(p, n)
         /\ UnitsOf(p, n)' = UnitsOf(p, n)
         /\ SamplesOf(p, n)' = SamplesOf(p, n)
         /\ Known(n)' = Known(n)
<1>1. \A i \in 1 .. n : log'[i] = log[i]
  BY LogFacts DEF LogGrows
<1>2. \A q : Observed(q, n)' = Observed(q, n)
  BY <1>1 DEF Observed
<1>3. Observed(p, n) \subseteq 1 .. n
  BY DEF Observed
<1> QED
  BY <1>1, <1>2, <1>3 DEF UnitsOf, SamplesOf, Known

(* And the same newest copy of a post.                                     *)
LEMMA LatestStays ==
  ASSUME LogGrows, NEW n \in 0 .. Now, NEW p \in Known(n)
  PROVE  /\ Latest(p, n)' = Latest(p, n)
         /\ log'[Latest(p, n)] = log[Latest(p, n)]
         /\ Open(p, n)' = Open(p, n)
         /\ Version(p, n)' = Version(p, n)
<1>1. PICK S, b : S = Observed(p, n) /\ b = Now
  OBVIOUS
<1>2. /\ S # {} /\ b \in Int
      /\ \A i \in S : log[i].at \in Int /\ log[i].at <= b
      /\ \A i, j \in S : log[i].at = log[j].at => i = j
      /\ \A i \in S : log'[i] = log[i]
  BY <1>1, ObservedAre, LogFacts DEF Known, LogGrows
<1>3. Latest(p, n) = LatestOf(S, log) /\ Latest(p, n)' = LatestOf(S, log')
  <2>1. Observed(p, n)' = S
    BY <1>1, ObservedStays
  <2> QED
    BY <1>1, <2>1 DEF Latest, LatestOf
<1>4. PICK k, l : k = LatestOf(S, log) /\ l = LatestOf(S, log')
  OBVIOUS
<1>5. k \in S /\ \A j \in S : log[j].at <= log[k].at
  BY <1>2, <1>4, LatestOfIs
<1>6. \A i \in S : (\A j \in S : log'[j].at <= log'[i].at) => i = l
  <2>1. PICK entries : entries = log'
    OBVIOUS
  <2>2. /\ \A i \in S : entries[i].at \in Int /\ entries[i].at <= b
        /\ \A i, j \in S : entries[i].at = entries[j].at => i = j
    BY <1>2, <2>1
  <2> QED
    BY <1>2, <1>4, <2>1, <2>2, LatestOfIs
<1>7. k = l /\ log'[k] = log[k]
  BY <1>2, <1>5, <1>6
<1> QED
  BY <1>3, <1>4, <1>7 DEF Open, Version

(* And the same members of a unit.                                         *)
LEMMA CurrentStays ==
  ASSUME LogGrows, NEW n \in 0 .. Now, NEW u
  PROVE  Current(u, n)' = Current(u, n)
<1>1. Known(n)' = Known(n)
  BY ObservedStays
<1>2. \A q \in Known(n) : /\ Latest(q, n)' = Latest(q, n)
                          /\ log'[Latest(q, n)] = log[Latest(q, n)]
  BY LatestStays
<1>3. PICK D : D = {q \in Known(n) : log[Latest(q, n)].unit = u}
  OBVIOUS
<1>4. {q \in Known(n) : log[Latest(q, n)].unit = u}' = D /\ D \subseteq Known(n)
  BY <1>1, <1>2, <1>3
<1>5. [p \in D |-> log[Latest(p, n)].content]' = [p \in D |-> log[Latest(p, n)].content]
  BY <1>2, <1>4
<1>6. Current(u, n) = [p \in D |-> log[Latest(p, n)].content]
  BY <1>3 DEF Current
<1>7. Current(u, n)' = [p \in D |-> log[Latest(p, n)].content]'
  BY <1>4 DEF Current
<1> QED
  BY <1>5, <1>6, <1>7

(* And the same results for it.                                            *)
LEMMA ResultsStay ==
  ASSUME LogGrows, NEW n \in 0 .. Now, NEW u
  PROVE  /\ ResultsOf(u, n)' = ResultsOf(u, n)
         /\ \A i \in ResultsOf(u, n) : log'[i] = log[i]
<1>1. \A i \in 1 .. n : log'[i] = log[i]
  BY LogFacts DEF LogGrows
<1> QED
  BY <1>1 DEF ResultsOf

(* And the same decision about the label.                                  *)
LEMMA ApprovedStays ==
  ASSUME LogGrows, NEW n \in 0 .. Now
  PROVE  Approved(n)' = Approved(n)
<1>1. \A i \in 1 .. n : log'[i] = log[i]
  BY LogFacts DEF LogGrows
<1>2. PICK D : D = {i \in 1 .. n : log[i].kind = "registry"}
  OBVIOUS
<1>3. {i \in 1 .. n : log[i].kind = "registry"}' = D /\ D \in SUBSET (1 .. n)
  BY <1>1, <1>2
<1>4. D # {} => Newest(D) \in 1 .. n
  <2> SUFFICES ASSUME D # {}
               PROVE  Newest(D) \in 1 .. n
    OBVIOUS
  <2>1. n \in Nat /\ D \in SUBSET (1 .. n)
    BY <1>3, LogFacts DEF LogGrows
  <2>2. Newest(D) \in D
    BY <2>1, NewestIs
  <2> QED
    BY <2>1, <2>2
<1>5. Approved(n)' = (D = {} \/ log'[Newest(D)].approved)
  BY <1>3 DEF Approved
<1>6. Approved(n) = (D = {} \/ log[Newest(D)].approved)
  BY <1>2 DEF Approved
<1> QED
  BY <1>1, <1>4, <1>5, <1>6

(* The published content depends on the results of the unit and on its     *)
(* present members.                                                        *)
PublishedFrom(entries, R, now) ==
  LET covered == {entries[i].covers : i \in R}
      newest  == Newest(R)
  IN  IF covered = {} THEN Nothing
      ELSE IF now \in covered THEN now
      ELSE IF Fits(entries[newest].covers, now) THEN entries[newest].covers
      ELSE Nothing

(* Published, by the newest result.                                        *)
LEMMA PublishedIs ==
  ASSUME NEW u, NEW n
  PROVE  Published(u, n) = PublishedFrom(log, ResultsOf(u, n), Current(u, n))
BY DEF Published, PublishedFrom

(* A pinned source shows the same units when the log grows.                *)
LEMMA VisibleStays ==
  ASSUME LogGrows, NEW n \in 0 .. Now, NEW u
  PROVE  Visible(u, n)' = Visible(u, n)
<1>1. PICK R, now : R = ResultsOf(u, n) /\ now = Current(u, n)
  OBVIOUS
<1>2. ResultsOf(u, n)' = R /\ Current(u, n)' = now /\ \A i \in R : log'[i] = log[i]
  BY <1>1, ResultsStay, CurrentStays
<1>3. n \in Nat /\ R \in SUBSET (1 .. n)
  BY <1>1, LogFacts DEF LogGrows, ResultsOf
<1>4. Published(u, n) = PublishedFrom(log, R, now)
  BY <1>1, PublishedIs
<1>5. Published(u, n)' = PublishedFrom(log', R, now)
  BY <1>2 DEF Published, PublishedFrom
<1>6. PublishedFrom(log', R, now) = PublishedFrom(log, R, now)
  <2>1. PICK d, e : d = log' /\ e = log
    OBVIOUS
  <2>2. \A i \in R : d[i] = e[i]
    BY <1>2, <2>1
  <2>3. {d[i].covers : i \in R} = {e[i].covers : i \in R}
    BY <2>2
  <2>4. R # {} => d[Newest(R)] = e[Newest(R)]
    BY <1>3, <2>2, NewestIs
  <2>5. PublishedFrom(d, R, now) = PublishedFrom(e, R, now)
    BY <2>3, <2>4 DEF PublishedFrom
  <2> QED
    BY <2>1, <2>5
<1> QED
  BY <1>4, <1>5, <1>6, ApprovedStays DEF Visible

(* The withdrawals between two sources stay what they were.                *)
LEMMA WithdrawnStays ==
  ASSUME LogGrows, NEW n \in 0 .. Now, NEW k \in 0 .. Now, NEW a
  PROVE  Withdrawn(a, k, n)' = Withdrawn(a, k, n)
<1>1. Known(n)' = Known(n)
  BY ObservedStays
<1>2. \A p : Observed(p, k)' = Observed(p, k)
  BY ObservedStays
<1>3. \A p : \A i \in Observed(p, k) : log'[i] = log[i]
  BY LogFacts DEF LogGrows, Observed
<1> QED
  BY <1>1, <1>2, <1>3 DEF Withdrawn

-----------------------------------------------------------------------------
(* What is visible.                                                        *)

(* Content without members is the one of a unit that is not there.         *)
LEMMA EmptyContent ==
  ASSUME NEW f, f = [x \in DOMAIN f |-> f[x]], DOMAIN f = {}
  PROVE  f = Nothing
BY DEF Nothing

(* A unit that is visible at a source has members, with the content and in *)
(* the unit that they have there, and all of them open.                    *)
LEMMA VisibleIs ==
  ASSUME LogInv, NEW n \in 0 .. Now, NEW u, Visible(u, n) # Nothing
  PROVE  /\ ResultsOf(u, n) # {} /\ Approved(n)
         /\ DOMAIN Visible(u, n) # {}
         /\ \A p \in DOMAIN Visible(u, n) :
              /\ p \in Known(n)
              /\ Visible(u, n)[p] = log[Latest(p, n)].content
              /\ log[Latest(p, n)].unit = u
              /\ u \in UnitsOf(p, n)
              /\ Open(p, n)
<1>1. PICK R, now, content :
        R = ResultsOf(u, n) /\ now = Current(u, n) /\ content = Published(u, n)
  OBVIOUS
<1>2. Visible(u, n) = content /\ Approved(n) /\ \A p \in DOMAIN content : content[p].open
  BY <1>1 DEF Visible
<1>3. content = PublishedFrom(log, R, now)
  BY <1>1, PublishedIs
<1>4. R # {} /\ content # Nothing
  BY <1>2, <1>3 DEF PublishedFrom
<1>5. /\ content = now \/ Fits(content, now)
      /\ \E i \in R : content = log[i].covers
  <2>1. CASE now \in {log[i].covers : i \in R}
    BY <1>3, <1>4, <2>1 DEF PublishedFrom
  <2>2. CASE now \notin {log[i].covers : i \in R}
    <3>1. content = log[Newest(R)].covers /\ Fits(content, now)
      BY <1>3, <1>4, <2>2 DEF PublishedFrom
    <3>2. Newest(R) \in R
      <4>1. n \in Nat /\ R \in SUBSET (1 .. n)
        BY <1>1, LogFacts DEF ResultsOf
      <4> QED
        BY <1>4, <4>1, NewestIs
    <3> QED
      BY <3>1, <3>2
  <2> QED
    BY <2>1, <2>2
<1>6. DOMAIN content # {}
  <2>1. PICK i \in R : content = log[i].covers
    BY <1>5
  <2>2. i \in DOMAIN log /\ log[i].kind = "result"
    BY <1>1, LogFacts DEF ResultsOf
  <2> QED
    BY <2>1, <2>2 DEF LogInv, IsEntry
<1>7. ASSUME NEW p \in DOMAIN content
      PROVE  p \in DOMAIN now /\ content[p] = now[p]
  BY <1>5 DEF Fits
<1>8. ASSUME NEW p \in DOMAIN content
      PROVE  /\ p \in Known(n) /\ log[Latest(p, n)].unit = u
             /\ content[p] = log[Latest(p, n)].content
  BY <1>1, <1>7 DEF Current
<1>9. ASSUME NEW p \in DOMAIN content
      PROVE  u \in UnitsOf(p, n)
  BY <1>8, LatestIs DEF UnitsOf
<1> QED
  BY <1>1, <1>2, <1>4, <1>6, <1>8, <1>9 DEF Open

-----------------------------------------------------------------------------
(* Withdrawals, and posts that are open no more.                           *)

(* A longer prefix knows more posts.                                       *)
LEMMA KnownGrows ==
  ASSUME NEW b \in Nat, NEW t \in Nat, b <= t
  PROVE  /\ Known(b) \subseteq Known(t)
         /\ \A p : Observed(p, b) \subseteq Observed(p, t) /\ UnitsOf(p, b) \subseteq UnitsOf(p, t)
<1>1. \A p : Observed(p, b) \subseteq Observed(p, t)
  BY DEF Observed
<1> QED
  BY <1>1 DEF Known, UnitsOf

(* A range within another one withdraws less.                              *)
LEMMA WithdrawnGrows ==
  ASSUME NEW k \in Nat, NEW l \in Nat, k <= l, NEW a \in Nat, NEW b \in Nat, b <= a,
         NEW n \in Nat, NEW m \in Nat, n <= m
  PROVE  Withdrawn(a, k, n) \subseteq Withdrawn(b, l, m)
<1>1. \A p : Observed(p, k) \subseteq Observed(p, l) /\ Observed(p, l) \subseteq Nat
  BY DEF Observed
<1>2. Known(n) \subseteq Known(m)
  BY KnownGrows
<1> QED
  BY <1>1, <1>2 DEF Withdrawn

(* The latest capture at a source is still the latest one later, unless a  *)
(* later write is.                                                         *)
LEMMA LatestOrNew ==
  ASSUME LogInv, NEW b \in 0 .. Now, NEW t \in 0 .. Now, b <= t, NEW p \in Known(t),
         Latest(p, t) <= b
  PROVE  p \in Known(b) /\ Latest(p, b) = Latest(p, t)
<1>1. b \in Nat /\ t \in Nat
  BY LogFacts
<1>2. PICK i : i = Latest(p, t)
  OBVIOUS
<1>3. i \in Observed(p, t) /\ \A j \in Observed(p, t) : log[j].at <= log[i].at
  BY <1>2, LatestIs
<1>4. i \in Observed(p, b)
  BY <1>1, <1>2, <1>3 DEF Observed
<1>5. p \in Known(b)
  BY <1>4 DEF Known
<1>6. \A j \in Observed(p, b) : log[j].at <= log[i].at
  BY <1>1, <1>3, KnownGrows
<1>7. i = Latest(p, b)
  BY <1>4, <1>5, <1>6, LatestIs
<1> QED
  BY <1>2, <1>5, <1>7

(* A post that was open at a source and is restricted at a later one was   *)
(* withdrawn by a write between the two.                                   *)
LEMMA RestrictedSince ==
  ASSUME LogInv, NEW t \in 0 .. Now, NEW m \in 0 .. Now, t <= m,
         NEW p \in Known(t), Open(p, t), ~Open(p, m)
  PROVE  p \in Withdrawn(t, m, t)
<1>1. p \in Known(m) /\ t \in Nat /\ m \in Nat
  BY KnownGrows, LogFacts
<1>2. PICK i : i = Latest(p, m)
  OBVIOUS
<1>3. i \in Observed(p, m) /\ i \in Nat /\ ~log[i].content.open
  BY <1>1, <1>2, LatestIs DEF Open, Observed
<1>4. i > t
  <2>1. ASSUME i <= t
        PROVE  FALSE
    <3>1. Latest(p, t) = i
      BY <1>1, <1>2, <2>1, LatestOrNew
    <3> QED
      BY <1>3, <3>1 DEF Open
  <2> QED
    BY <1>1, <1>3, <2>1
<1> QED
  BY <1>3, <1>4 DEF Withdrawn

-----------------------------------------------------------------------------
(* The comparison of two sources.                                          *)

(* A post that the comparison does not find has the same version.          *)
LEMMA UnchangedPost ==
  ASSUME LogInv, NEW b \in 0 .. Now, NEW t \in 0 .. Now, b <= t,
         NEW p \in Known(t), p \notin ChangedPosts(b, t)
  PROVE  p \in Known(b) /\ Version(p, b) = Version(p, t)
<1>1. b \in Nat /\ t \in Nat
  BY LogFacts
<1>2. CASE Latest(p, t) <= b
  BY <1>2, LatestOrNew DEF Version
<1>3. CASE ~(Latest(p, t) <= b)
  <2>1. Latest(p, t) \in Observed(p, t) /\ Latest(p, t) > b
    BY <1>1, <1>3, LatestIs DEF Observed
  <2> QED
    BY <2>1 DEF ChangedPosts
<1> QED
  BY <1>2, <1>3

(* Why a unit is affected.                                                 *)
LEMMA AffectedAre ==
  ASSUME NEW b, NEW t, NEW u \in Units, u \notin Affected(b, t)
  PROVE  /\ \A p \in ChangedPosts(b, t) : u \notin UnitsOf(p, t)
         /\ \A i \in ResultsOf(u, t) : ~(i > b)
         /\ ResultsOf(u, t) # {} => Approved(b) = Approved(t)
<1>1. PICK A, B, D :
        /\ A = UNION {UnitsOf(p, t) : p \in ChangedPosts(b, t)}
        /\ B = {v \in Units : \E i \in ResultsOf(v, t) : i > b}
        /\ D = {v \in Units : Approved(b) # Approved(t) /\ ResultsOf(v, t) # {}}
  OBVIOUS
<1>2. Affected(b, t) = (A \union B) \union D
  BY <1>1 DEF Affected
<1>3. u \notin A /\ u \notin B /\ u \notin D
  BY <1>2
<1>4. \A p \in ChangedPosts(b, t) : u \notin UnitsOf(p, t)
  BY <1>1, <1>3
<1>5. ~ \E i \in ResultsOf(u, t) : i > b
  BY <1>1, <1>3
<1>6. ~ (Approved(b) # Approved(t) /\ ResultsOf(u, t) # {})
  BY <1>1, <1>3
<1> QED
  BY <1>4, <1>5, <1>6

(* A unit that the comparison does not name looks the same in both.        *)
LEMMA Unaffected ==
  ASSUME LogInv, NEW b \in 0 .. Now, NEW t \in 0 .. Now, b <= t,
         NEW u \in Units, u \notin Affected(b, t)
  PROVE  Visible(u, t) = Visible(u, b)
<1>1. b \in Nat /\ t \in Nat /\ Known(b) \subseteq Known(t)
      /\ \A p : UnitsOf(p, b) \subseteq UnitsOf(p, t)
  BY LogFacts, KnownGrows
<1>2. ResultsOf(u, t) = ResultsOf(u, b)
  <2>1. ~ \E i \in ResultsOf(u, t) : i > b
    BY AffectedAre
  <2> QED
    BY <1>1, <2>1 DEF ResultsOf
<1>3. \A p \in Known(t) : u \in UnitsOf(p, t) =>
        p \in Known(b) /\ Version(p, b) = Version(p, t)
  <2>1. \A p \in Known(t) : u \in UnitsOf(p, t) => p \notin ChangedPosts(b, t)
    BY AffectedAre
  <2> QED
    BY <2>1, UnchangedPost
<1>4. \A p : p \in Known(t) /\ log[Latest(p, t)].unit = u
               <=> p \in Known(b) /\ log[Latest(p, b)].unit = u
  <2>1. ASSUME NEW p, p \in Known(t), log[Latest(p, t)].unit = u
        PROVE  p \in Known(b) /\ log[Latest(p, b)].unit = u
    <3>1. u \in UnitsOf(p, t)
      BY <2>1, LatestIs DEF UnitsOf
    <3> QED
      BY <1>3, <2>1, <3>1 DEF Version
  <2>2. ASSUME NEW p, p \in Known(b), log[Latest(p, b)].unit = u
        PROVE  p \in Known(t) /\ log[Latest(p, t)].unit = u
    <3>1. u \in UnitsOf(p, b)
      BY <2>2, LatestIs DEF UnitsOf
    <3> QED
      BY <1>1, <1>3, <2>2, <3>1 DEF Version
  <2> QED
    BY <2>1, <2>2
<1>5. \A p \in Known(t) : log[Latest(p, t)].unit = u =>
        log[Latest(p, b)].content = log[Latest(p, t)].content
  <2>1. \A p \in Known(t) : log[Latest(p, t)].unit = u => u \in UnitsOf(p, t)
    BY LatestIs DEF UnitsOf
  <2> QED
    BY <1>3, <2>1 DEF Version
<1>6. Current(u, t) = Current(u, b)
  <2>1. PICK D : D = {q \in Known(t) : log[Latest(q, t)].unit = u}
    OBVIOUS
  <2>2. D = {q \in Known(b) : log[Latest(q, b)].unit = u}
    BY <1>4, <2>1
  <2>3. \A p \in D : log[Latest(p, b)].content = log[Latest(p, t)].content
    BY <1>5, <2>1
  <2>4. [p \in D |-> log[Latest(p, t)].content] = [p \in D |-> log[Latest(p, b)].content]
    BY <2>3
  <2>5. Current(u, t) = [p \in D |-> log[Latest(p, t)].content]
    BY <2>1 DEF Current
  <2>6. Current(u, b) = [p \in D |-> log[Latest(p, b)].content]
    BY <2>2 DEF Current
  <2> QED
    BY <2>4, <2>5, <2>6
<1>7. Published(u, t) = Published(u, b)
  BY <1>2, <1>6, PublishedIs
<1>8. CASE ResultsOf(u, t) = {}
  <2>1. Published(u, t) = Nothing /\ Published(u, b) = Nothing
    BY <1>2, <1>8 DEF Published
  <2> QED
    BY <2>1 DEF Visible
<1>9. CASE ResultsOf(u, t) # {}
  <2>1. Approved(b) = Approved(t)
    BY <1>9, AffectedAre
  <2> QED
    BY <1>7, <2>1 DEF Visible
<1> QED
  BY <1>8, <1>9

-----------------------------------------------------------------------------
(* The invariant.  A consumer may lack a unit that is visible at the       *)
(* source it reads, when it was told (at a source of T) that a member was  *)
(* withdrawn since.                                                        *)

Told(c, h, r) == {c.privacy, c.rec, h.privacy, h.rec, r}

Excused(u, n, T) == \E p \in DOMAIN Visible(u, n) : \E k \in T : p \in Withdrawn(n, k, n)

Sampled(p, m) == \A i \in SamplesOf(p, m) : i > F => i \in samples

(* Otherwise it holds the unit, and the samples of its members P up to m.  *)
HoldsWith(u, n, m, P, T) ==
  Visible(u, n) # Nothing =>
    \/ Excused(u, n, T)
    \/ units[u] = Visible(u, n) /\ \A p \in P : Sampled(p, m)

Holds(u, n, m, T) == HoldsWith(u, n, m, DOMAIN Visible(u, n), T)

IsCursor(x) ==
  /\ x = [pos |-> x.pos, target |-> x.target, base |-> x.base, after |-> x.after, sent |-> x.sent,
          privacy |-> x.privacy, rec |-> x.rec, removal |-> x.removal]
  /\ x.target \in 0 .. Now /\ x.base \in 0 .. x.target /\ x.after \in Nat
  /\ x.privacy \in 0 .. Now /\ x.rec \in 0 .. Now
  /\ x.rec # 0 => x.privacy <= x.rec
  /\ x.removal \in Nat \X Nat
  /\ x.sent \in BOOLEAN

(* The consumer answers with a cursor that knows all it was told, and no   *)
(* withdrawal stops its page.                                              *)
Answering(c, T) ==
  /\ c.target \in 0 .. Now /\ c.base \in 0 .. c.target /\ c.privacy \in 0 .. Now
  /\ c.privacy \in T /\ \A k \in T : k \in 0 .. c.privacy
  /\ ~MustReconcile(c)

(* A page shows what is visible at the source it reads, unless the         *)
(* consumer is excused.                                                    *)
LEMMA ShownIsOpen ==
  ASSUME LogInv, NEW c, NEW T, Answering(c, T), NEW u,
         Visible(u, c.target) # Nothing, ~Excused(u, c.target, T)
  PROVE  Publishable(u, c.target) = Visible(u, c.target)
<1>1. PICK t, q : t = c.target /\ q = c.privacy
  OBVIOUS
<1>2. t \in 0 .. Now /\ q \in 0 .. Now /\ q \in T /\ Now \in Nat /\ Now \in 0 .. Now /\ t <= Now
  BY <1>1, LogFacts DEF Answering
<1>3. Withdrawn(Larger(t, q), Now, t) = {}
  BY <1>1 DEF Answering, MustReconcile, Baseline
<1>4. ASSUME NEW p \in DOMAIN Visible(u, t), ~Open(p, Now)
      PROVE  FALSE
  <2>1. p \in Known(t) /\ Open(p, t)
    BY <1>1, <1>2, VisibleIs
  <2>2. p \in Withdrawn(t, Now, t)
    BY <1>2, <1>4, <2>1, RestrictedSince
  <2>3. PICK i \in Observed(p, Now) : i > t /\ ~log[i].content.open
    BY <2>2 DEF Withdrawn
  <2>4. ~(i > Larger(t, q))
    BY <1>3, <2>1, <2>3 DEF Withdrawn
  <2>5. i \in Nat /\ i <= Now
    BY <1>2, <2>3 DEF Observed
  <2>6. i <= q
    BY <1>2, <2>3, <2>4, <2>5 DEF Larger
  <2>7. i \in Observed(p, q)
    BY <1>2, <2>3, <2>6 DEF Observed
  <2>8. p \in Withdrawn(t, q, t)
    BY <2>1, <2>3, <2>7 DEF Withdrawn
  <2> QED
    BY <1>1, <1>2, <1>4, <2>8 DEF Excused
<1> QED
  BY <1>1, <1>4 DEF Publishable

(* A unit that the consumer shall hold before the comparison is one that   *)
(* it was told of nothing.                                                 *)
LEMMA BeforeIsUnexcused ==
  ASSUME LogInv, NEW c, NEW T, Answering(c, T), NEW u, Before(c, u) # Nothing
  PROVE  /\ c.base # 0 /\ Before(c, u) = Visible(u, c.base)
         /\ Visible(u, c.base) # Nothing /\ ~Excused(u, c.base, T)
         /\ \A p \in DOMAIN Visible(u, c.base) : p \notin Reconciled(c)
<1>1. /\ c.base # 0 /\ Before(c, u) = Visible(u, c.base)
      /\ \A p \in DOMAIN Visible(u, c.base) : p \notin Reconciled(c)
  BY DEF Before
<1>2. PICK b, t, q : b = c.base /\ t = c.target /\ q = c.privacy
  OBVIOUS
<1>3. b \in Nat /\ t \in Nat /\ q \in Nat /\ b <= t /\ \A k \in T : k \in Nat /\ k <= q
  BY <1>2, LogFacts DEF Answering
<1>4. ASSUME NEW p \in DOMAIN Visible(u, b), NEW k \in T, p \in Withdrawn(b, k, b)
      PROVE  FALSE
  <2>1. k \in Nat /\ k <= q
    BY <1>3
  <2>2. p \in Withdrawn(b, q, t)
    BY <1>3, <1>4, <2>1, WithdrawnGrows
  <2> QED
    BY <1>1, <1>2, <1>4, <2>2 DEF Reconciled
<1> QED
  BY <1>1, <1>2, <1>4 DEF Excused

(* A unit that the comparison does not visit.                              *)
LEMMA SkippedIsExcused ==
  ASSUME LogInv, NEW c, NEW T, Answering(c, T), c.base # 0,
         NEW u \in Units, u \notin Candidates(c), Visible(u, c.base) # Nothing
  PROVE  /\ Visible(u, c.target) = Visible(u, c.base)
         /\ \A p \in DOMAIN Visible(u, c.base) :
              \/ Open(p, Now)
              \/ p \in Reconciled(c) /\ Excused(u, c.target, T)
         /\ Excused(u, c.base, T) => Excused(u, c.target, T)
<1>1. PICK b, t, q : b = c.base /\ t = c.target /\ q = c.privacy
  OBVIOUS
<1>2. /\ b \in 0 .. Now /\ t \in 0 .. Now /\ q \in 0 .. Now /\ b <= t /\ t <= Now /\ q \in T
      /\ b \in Nat /\ t \in Nat /\ q \in Nat /\ Now \in Nat /\ Now \in 0 .. Now
      /\ \A k \in T : k \in Nat /\ k <= q
  BY <1>1, LogFacts DEF Answering
<1>3. u \notin Affected(b, t) /\ u \notin Restored(c)
  BY <1>1 DEF Candidates
<1>4. Visible(u, t) = Visible(u, b)
  BY <1>2, <1>3, Unaffected
<1>5. \A p \in DOMAIN Visible(u, t) : p \in Known(t) /\ Open(p, t) /\ u \in UnitsOf(p, t)
  BY <1>1, <1>2, <1>4, VisibleIs
<1>6. \A p \in DOMAIN Visible(u, t) : p \in Reconciled(c) => ~Open(p, Now)
  BY <1>1, <1>3, <1>5 DEF Restored
<1>7. ASSUME NEW p \in DOMAIN Visible(u, t), ~Open(p, Now)
      PROVE  p \in Withdrawn(t, q, t)
  <2>1. p \in Withdrawn(t, Now, t)
    BY <1>2, <1>5, <1>7, RestrictedSince
  <2>2. PICK i \in Observed(p, Now) : i > t /\ ~log[i].content.open
    BY <2>1 DEF Withdrawn
  <2>3. Withdrawn(Larger(t, q), Now, t) = {}
    BY <1>1 DEF Answering, MustReconcile, Baseline
  <2>4. ~(i > Larger(t, q))
    BY <1>5, <2>2, <2>3 DEF Withdrawn
  <2>5. i \in Nat /\ i <= Now
    BY <1>2, <2>2 DEF Observed
  <2>6. i <= q
    BY <1>2, <2>2, <2>4, <2>5 DEF Larger
  <2>7. i \in Observed(p, q)
    BY <1>2, <2>2, <2>6 DEF Observed
  <2> QED
    BY <1>5, <2>2, <2>7 DEF Withdrawn
<1>8. \A p \in DOMAIN Visible(u, t) : ~Open(p, Now) => Excused(u, t, T)
  BY <1>2, <1>7 DEF Excused
<1>9. \A p \in DOMAIN Visible(u, t) : ~Open(p, Now) => p \in Reconciled(c)
  <2>1. Withdrawn(t, q, t) \subseteq Withdrawn(b, q, t)
    BY <1>2, WithdrawnGrows
  <2> QED
    BY <1>1, <1>7, <2>1 DEF Reconciled
<1>10. ASSUME Excused(u, b, T)
       PROVE  Excused(u, t, T)
  <2>1. PICK p \in DOMAIN Visible(u, b), k \in T : p \in Withdrawn(b, k, b)
    BY <1>10 DEF Excused
  <2>2. k \in Nat /\ k <= q
    BY <1>2
  <2>3. p \in Withdrawn(b, q, t)
    BY <1>2, <2>1, <2>2, WithdrawnGrows
  <2>4. p \in Reconciled(c) /\ p \in DOMAIN Visible(u, t)
    BY <1>1, <1>4, <2>1, <2>3 DEF Reconciled
  <2> QED
    BY <1>6, <1>8, <2>4
<1> QED
  BY <1>1, <1>4, <1>8, <1>9, <1>10

-----------------------------------------------------------------------------
Cursors(c, h) ==
  /\ IsCursor(c) /\ IsCursor(h)
  /\ c.pos \in {"content", "activation", "observations", "bootstrap", "idle"}
  /\ h.pos \in {"none", "history"}
  /\ c.target # 0
  /\ receipt \in 0 .. Now
  /\ c.pos = "idle" => c = Start(c.target, 0, "idle", c.privacy)
                       /\ (c.privacy = 0 \/ c.privacy > c.target)
  /\ c.pos = "bootstrap" => c.base = 0 /\ c.target = F
  /\ c.pos \in {"content", "activation", "observations"} => c.base # 0
  /\ c.pos = "activation" => c.after \in Units
  /\ c.pos = "observations" => c.base <= c.after /\ c.after < c.target
  /\ c.pos # "idle" => h.pos = "none" /\ receipt <= c.privacy
  /\ h.pos = "none" => h = None
  /\ h.pos = "history" => /\ h.target = c.target /\ h.base = 0 /\ receipt <= h.privacy
                          /\ h.rec = 0 => h.privacy <= c.privacy \/ h.privacy <= receipt

(* The units that have their content of the target.                        *)
Done(c, u) ==
  \/ c.pos \in {"idle", "observations"}
  \/ c.pos \in {"bootstrap", "content"} /\ u <= c.after
  \/ c.pos = "activation" /\ u < c.after

SampledTo(c) ==
  IF c.pos \in {"idle", "bootstrap"} THEN c.target
  ELSE IF c.pos = "observations" THEN c.after ELSE c.base

HeldBy(c, T) ==
  \A u \in Units :
    /\ c.pos = "bootstrap" /\ u > c.after => units[u] = Nothing
    /\ c.pos \in {"content", "activation"} /\ u > c.after => Holds(u, c.base, c.base, T)
    /\ c.pos = "activation" /\ u = c.after =>
         HoldsWith(u, c.target, c.base, DOMAIN Visible(u, c.target) \intersect DOMAIN Before(c, u), T)
    /\ Done(c, u) => Holds(u, c.target, SampledTo(c), T)

Processed(c, u) == c.pos # "idle" /\ (c.pos = "observations" \/ u <= c.after)

(* What it holds of a processed unit is open, or will be asked for.        *)
KeptOf(c, u) ==
  Processed(c, u) /\ (c.base = 0 \/ Before(c, u) # Nothing) =>
    \A p \in DOMAIN units[u] : Open(p, Now) \/ p \in Withdrawn(Baseline(c), Now, c.target)

(* The removals of a range go through its posts in order.                  *)
RemovedBy(c) ==
  c.rec # 0 => \A p \in Withdrawn(Baseline(c), c.rec, c.target) :
                 p <= c.removal[1] => \A u \in Units : p \notin DOMAIN units[u]

KeptBy(c) ==
  /\ \A u \in Units : DOMAIN units[u] \subseteq Known(c.target)
  /\ \A u \in Units : KeptOf(c, u)
  /\ RemovedBy(c)

StreamsAre == streams = [s \in {"changes", "history"} |-> streams[s]]
UnitsAre == units = [u \in Units |-> units[u]]

ConsumerInv ==
  /\ LogInv /\ StreamsAre /\ UnitsAre
  /\ Cursors(streams.changes, streams.history)
  /\ HeldBy(streams.changes, Told(streams.changes, streams.history, receipt))
  /\ KeptBy(streams.changes)

-----------------------------------------------------------------------------
(* What a step keeps.                                                      *)

(* A step that writes nothing is one of a growing log.                     *)
LEMMA LogSame ==
  ASSUME LogInv, log' = log
  PROVE  LogGrows /\ Now' = Now /\ LogInv'
<1>1. Now' = Now
  BY DEF Now
<1>2. LogInv'
  BY <1>1 DEF LogInv, Ordered, Now
<1> QED
  BY <1>1, <1>2, LogFacts DEF LogGrows

(* All that it was told at T it knows at S.                                *)
Covers(T, S, n) ==
  \A k \in T : k \in Nat /\ (k <= n \/ \E l \in S : l \in Nat /\ k <= l)

(* A consumer that is excused stays so, if it still knows what it was told. *)
LEMMA ExcusedStays ==
  ASSUME LogGrows, NEW n \in 0 .. Now, NEW T \in SUBSET (0 .. Now), NEW S, Covers(T, S, n),
         NEW u, Excused(u, n, T)
  PROVE  Excused(u, n, S)'
<1>1. PICK p \in DOMAIN Visible(u, n), k \in T : p \in Withdrawn(n, k, n)
  BY DEF Excused
<1>2. PICK i \in Observed(p, k) : i > n /\ ~log[i].content.open
  BY <1>1 DEF Withdrawn
<1>3. n \in Nat /\ k \in Nat /\ k <= Now /\ Now \in Nat /\ i \in 1 .. k /\ i \in 1 .. Now
      /\ log[i].kind = "post" /\ log[i].post = p
  BY <1>1, <1>2, LogFacts DEF LogGrows, Observed
<1>4. PICK l \in S : l \in Nat /\ k <= l
  BY <1>1, <1>2, <1>3 DEF Covers
<1>5. log'[i] = log[i]
  BY <1>3 DEF LogGrows
<1>6. i \in Observed(p, l)'
  BY <1>3, <1>4, <1>5 DEF Observed
<1>7. p \in Known(n)'
  BY <1>1, ObservedStays DEF Withdrawn
<1>8. p \in Withdrawn(n, l, n)'
  BY <1>2, <1>5, <1>6, <1>7 DEF Withdrawn
<1>9. Visible(u, n)' = Visible(u, n)
  BY VisibleStays
<1> QED
  BY <1>1, <1>4, <1>8, <1>9 DEF Excused

(* A step leaves a unit alone, or takes a post of it that was withdrawn.   *)
Leaves(u, t, T) ==
  \/ units'[u] = units[u]
  \/ \E p \in DOMAIN units[u] : \E k \in T : p \in Withdrawn(t, k, t)

KeepsSamples(u) == \A i \in samples : log[i].post \in DOMAIN units'[u] => i \in samples'

(* What a consumer holds of a unit it goes on to hold, or is excused.      *)
LEMMA HoldsStays ==
  ASSUME LogGrows, NEW n \in 0 .. Now, NEW m \in 0 .. Now, NEW t \in 0 .. Now, n <= t,
         NEW T \in SUBSET (0 .. Now), NEW S, Covers(T, S, n),
         NEW u, NEW P, NEW Q, Q \subseteq P, P \subseteq DOMAIN Visible(u, n),
         Leaves(u, t, T), KeepsSamples(u),
         HoldsWith(u, n, m, P, T)
  PROVE  HoldsWith(u, n, m, Q, S)'
<1>1. Visible(u, n)' = Visible(u, n) /\ \A p : SamplesOf(p, m)' = SamplesOf(p, m)
  BY VisibleStays, ObservedStays
<1>2. CASE Visible(u, n) = Nothing
  BY <1>1, <1>2 DEF HoldsWith
<1>3. CASE Excused(u, n, T)
  <2>1. Excused(u, n, S)'
    BY <1>3, ExcusedStays
  <2> QED
    BY <2>1 DEF HoldsWith
<1>4. CASE Visible(u, n) # Nothing /\ ~Excused(u, n, T)
  <2>1. units[u] = Visible(u, n) /\ \A p \in P : Sampled(p, m)
    BY <1>4 DEF HoldsWith
  <2>2. units'[u] = units[u]
    <3>1. ASSUME NEW p \in DOMAIN units[u], NEW k \in T, p \in Withdrawn(t, k, t)
          PROVE  FALSE
      <4>1. p \in Known(n)
        BY <1>4, <2>1, <3>1, VisibleIs DEF LogGrows
      <4>2. \A i \in Observed(p, k) : i \in Nat
        BY DEF Observed
      <4>3. n \in Nat /\ t \in Nat
        BY LogFacts DEF LogGrows
      <4>4. p \in Withdrawn(n, k, n)
        BY <3>1, <4>1, <4>2, <4>3 DEF Withdrawn
      <4> QED
        BY <1>4, <2>1, <3>1, <4>4 DEF Excused
    <3> QED
      BY <3>1 DEF Leaves
  <2>3. ASSUME NEW p \in Q
        PROVE  Sampled(p, m)'
    <3>1. p \in DOMAIN units'[u] /\ Sampled(p, m)
      BY <2>1, <2>2
    <3>2. \A i \in SamplesOf(p, m) : log[i].post = p
      BY DEF SamplesOf, Observed
    <3> QED
      BY <1>1, <3>1, <3>2 DEF Sampled, KeepsSamples, F
  <2> QED
    BY <1>1, <2>1, <2>2, <2>3 DEF HoldsWith
<1> QED
  BY <1>2, <1>3, <1>4

(* The cursor moves in its range of removals only.                         *)
SamePlace(c, d) ==
  /\ d.pos = c.pos /\ d.target = c.target /\ d.base = c.base /\ d.after = c.after
  /\ c.privacy <= d.privacy /\ d.privacy \in 0 .. Now

SameSources(c, d) ==
  d.target = c.target /\ d.base = c.base /\ c.privacy <= d.privacy /\ d.privacy \in 0 .. Now

(* A cursor that knows more withdrawals expects the consumer to hold less. *)
LEMMA BeforeStays ==
  ASSUME LogGrows, NEW c, IsCursor(c), NEW d, SameSources(c, d), NEW u
  PROVE  /\ DOMAIN Before(d, u)' \subseteq DOMAIN Before(c, u)
         /\ Before(d, u)' # Nothing => Before(c, u) # Nothing
<1>1. PICK b, t, q, r : b = c.base /\ t = c.target /\ q = c.privacy /\ r = d.privacy
  OBVIOUS
<1>2. /\ b \in 0 .. Now /\ t \in 0 .. Now /\ q \in 0 .. Now /\ r \in 0 .. Now /\ q <= r
      /\ b \in Nat /\ t \in Nat /\ q \in Nat /\ r \in Nat
  BY <1>1, LogFacts DEF LogGrows, IsCursor, SameSources
<1>3. Visible(u, b)' = Visible(u, b) /\ Withdrawn(b, r, t)' = Withdrawn(b, r, t)
  BY <1>2, VisibleStays, WithdrawnStays
<1>4. Withdrawn(b, q, t) \subseteq Withdrawn(b, r, t)
  BY <1>2, WithdrawnGrows
<1>5. Before(c, u) = IF b = 0 \/ DOMAIN Visible(u, b) \intersect Withdrawn(b, q, t) # {}
                     THEN Nothing ELSE Visible(u, b)
  BY <1>1 DEF Before, Reconciled
<1>6. Before(d, u)' = IF b = 0 \/ DOMAIN Visible(u, b) \intersect Withdrawn(b, r, t) # {}
                      THEN Nothing ELSE Visible(u, b)
  BY <1>1, <1>3 DEF Before, Reconciled, SameSources
<1>7. DOMAIN Nothing = {}
  BY DEF Nothing
<1> QED
  BY <1>4, <1>5, <1>6, <1>7

(* What is held of all units, for a cursor that stays at its place.        *)
LEMMA HeldStays ==
  ASSUME LogGrows, NEW c, IsCursor(c), SampledTo(c) \in 0 .. Now, NEW d, SamePlace(c, d),
         NEW T \in SUBSET (0 .. Now), NEW S, Covers(T, S, c.base), Covers(T, S, c.target),
         \A u \in Units : Leaves(u, c.target, T) /\ KeepsSamples(u),
         HeldBy(c, T)
  PROVE  HeldBy(d, S)'
<1>1. PICK b, t, m : b = c.base /\ t = c.target /\ m = SampledTo(c)
  OBVIOUS
<1>2. /\ b \in 0 .. Now /\ t \in 0 .. Now /\ m \in 0 .. Now /\ b <= t /\ t <= t
      /\ Covers(T, S, b) /\ Covers(T, S, t)
  BY <1>1, LogFacts DEF IsCursor, LogGrows
<1>3. SampledTo(d) = m /\ SampledTo(d)' = m
  BY <1>1 DEF SampledTo, SamePlace
<1>4. ASSUME NEW u \in Units
      PROVE  /\ d.pos = "bootstrap" /\ u > d.after => units'[u] = Nothing
             /\ d.pos \in {"content", "activation"} /\ u > d.after => Holds(u, b, b, S)'
             /\ d.pos = "activation" /\ u = d.after =>
                  HoldsWith(u, t, b, DOMAIN Visible(u, t) \intersect DOMAIN Before(d, u), S)'
             /\ Done(d, u) => Holds(u, t, m, S)'
  <2>1. Leaves(u, t, T) /\ KeepsSamples(u)
    BY <1>1
  <2>2. Visible(u, t)' = Visible(u, t) /\ Visible(u, b)' = Visible(u, b)
    BY <1>2, VisibleStays
  <2>3. ASSUME d.pos = "bootstrap", u > d.after
        PROVE  units'[u] = Nothing
    <3>1. units[u] = Nothing
      BY <2>3 DEF HeldBy, SamePlace
    <3> QED
      BY <2>1, <3>1 DEF Leaves, Nothing
  <2>4. ASSUME d.pos \in {"content", "activation"}, u > d.after
        PROVE  Holds(u, b, b, S)'
    <3>1. HoldsWith(u, b, b, DOMAIN Visible(u, b), T)
      BY <1>1, <2>4 DEF HeldBy, SamePlace, Holds
    <3>2. PICK P : P = DOMAIN Visible(u, b)
      OBVIOUS
    <3>3. HoldsWith(u, b, b, P, S)'
      BY <1>2, <2>1, <3>1, <3>2, HoldsStays
    <3> QED
      BY <2>2, <3>2, <3>3 DEF Holds
  <2>5. ASSUME d.pos = "activation", u = d.after
        PROVE  HoldsWith(u, t, b, DOMAIN Visible(u, t) \intersect DOMAIN Before(d, u), S)'
    <3>1. HoldsWith(u, t, b, DOMAIN Visible(u, t) \intersect DOMAIN Before(c, u), T)
      BY <1>1, <2>5 DEF HeldBy, SamePlace
    <3>2. PICK P, Q : /\ P = DOMAIN Visible(u, t) \intersect DOMAIN Before(c, u)
                      /\ Q = DOMAIN Visible(u, t) \intersect DOMAIN Before(d, u)'
      OBVIOUS
    <3>3. Q \subseteq P /\ P \subseteq DOMAIN Visible(u, t)
      <4>1. SameSources(c, d)
        BY DEF SamePlace, SameSources
      <4> QED
        BY <3>2, <4>1, BeforeStays
    <3>4. HoldsWith(u, t, b, P, T)
      BY <3>1, <3>2
    <3>5. HoldsWith(u, t, b, Q, S)'
      BY <1>2, <2>1, <3>3, <3>4, HoldsStays
    <3> QED
      BY <2>2, <3>2, <3>5
  <2>6. ASSUME Done(d, u)
        PROVE  Holds(u, t, m, S)'
    <3>1. Done(c, u)
      BY <2>6 DEF Done, SamePlace
    <3>2. HoldsWith(u, t, m, DOMAIN Visible(u, t), T)
      BY <1>1, <3>1 DEF HeldBy, Holds
    <3>3. PICK P : P = DOMAIN Visible(u, t)
      OBVIOUS
    <3>4. HoldsWith(u, t, m, P, S)'
      BY <1>2, <2>1, <3>2, <3>3, HoldsStays
    <3> QED
      BY <2>2, <3>3, <3>4 DEF Holds
  <2> QED
    BY <2>3, <2>4, <2>5, <2>6
<1>5. d.base = b /\ d.target = t
  BY <1>1 DEF SamePlace
<1>6. \A u \in Units : Done(d, u)' = Done(d, u)
  BY DEF Done
<1> QED
  BY <1>3, <1>4, <1>5, <1>6 DEF HeldBy

(* A post that a later source restricts was withdrawn by a new write.      *)
LEMMA OpenOrNew ==
  ASSUME LogGrows, LogInv', NEW p \in Known(Now), Open(p, Now)
  PROVE  \/ Open(p, Now)'
         \/ \E i \in Observed(p, Now)' : i > Now /\ ~log'[i].content.open
<1>1. PICK S, b, entries, m : S = Observed(p, Now)' /\ b = Now' /\ entries = log' /\ m = Now
  OBVIOUS
<1>2. /\ m \in Nat /\ b \in Nat /\ m <= b /\ m \in 0 .. Now
      /\ DOMAIN entries = 1 .. b /\ Len(entries) = b
      /\ \A i \in 1 .. m : entries[i] = log[i]
  <2>1. DOMAIN log' = 1 .. Len(log')
    BY DEF LogInv
  <2> QED
    BY <1>1, <2>1, LogFacts DEF LogGrows, Now
<1>3. S \subseteq 1 .. b /\ \A i \in S : entries[i].kind = "post" /\ entries[i].post = p
  BY <1>1 DEF Observed
<1>4. \A i \in DOMAIN entries : IsEntry(entries[i])
  BY <1>1 DEF LogInv
<1>5. Ordered(entries)
  BY <1>1 DEF LogInv, Ordered
<1>6. \A i \in S : entries[i].at \in Int /\ entries[i].at <= b
  <2>1. ASSUME NEW i \in S
        PROVE  entries[i].at \in Int /\ entries[i].at < b
    <3>1. i \in DOMAIN entries /\ entries[i].kind = "post"
      BY <1>2, <1>3
    <3>2. entries[i].at \in Int
      BY <1>4, <3>1 DEF IsEntry
    <3>3. entries[i].at < b
      BY <1>2, <1>5, <3>1 DEF Ordered
    <3> QED
      BY <3>2, <3>3
  <2> QED
    BY <1>2, <2>1
<1>7. \A i, j \in S : entries[i].at = entries[j].at => i = j
  BY <1>2, <1>3, <1>5 DEF Ordered
<1>8. Observed(p, m) \subseteq S
  <2>1. Observed(p, m) = {i \in 1 .. m : log[i].kind = "post" /\ log[i].post = p}
    BY DEF Observed
  <2>2. S = {i \in 1 .. b : entries[i].kind = "post" /\ entries[i].post = p}
    BY <1>1 DEF Observed
  <2> QED
    BY <1>2, <2>1, <2>2
<1>9. S # {} /\ b \in Int
  BY <1>1, <1>2, <1>8 DEF Known
<1>10. PICK k : k = LatestOf(S, entries)
  OBVIOUS
<1>11. k \in S /\ \A j \in S : entries[j].at <= entries[k].at
  BY <1>6, <1>7, <1>9, <1>10, LatestOfIs
<1>12. Latest(p, Now)' = k
  BY <1>1, <1>10 DEF Latest, LatestOf
<1>13. CASE k <= m
  <2>1. k \in 1 .. m
    BY <1>2, <1>3, <1>11, <1>13
  <2>2. k \in Observed(p, m)
    <3>1. entries[k] = log[k] /\ entries[k].kind = "post" /\ entries[k].post = p
      BY <1>2, <1>3, <1>11, <2>1
    <3> QED
      BY <2>1, <3>1 DEF Observed
  <2>3. \A j \in Observed(p, m) : log[j].at <= log[k].at
    <3> SUFFICES ASSUME NEW j \in Observed(p, m)
                 PROVE  log[j].at <= log[k].at
      OBVIOUS
    <3>1. j \in 1 .. m /\ j \in S
      BY <1>8 DEF Observed
    <3>2. entries[j] = log[j] /\ entries[k] = log[k]
      BY <1>2, <2>1, <3>1
    <3>3. entries[j].at <= entries[k].at
      BY <1>11, <3>1
    <3> QED
      BY <3>2, <3>3
  <2>4. k = Latest(p, m)
    <3>1. LogInv /\ m \in 0 .. Now /\ p \in Known(m)
      BY <1>1, <1>2 DEF LogGrows
    <3> QED
      BY <2>2, <2>3, <3>1, LatestIs
  <2>5. log'[k].content.open
    BY <1>1, <1>2, <2>1, <2>4 DEF Open
  <2> QED
    BY <1>12, <2>5 DEF Open
<1>14. CASE ~(k <= m)
  <2>1. k > m
    BY <1>2, <1>3, <1>11, <1>14
  <2>2. CASE log'[k].content.open
    BY <1>12, <2>2 DEF Open
  <2>3. CASE ~log'[k].content.open
    BY <1>1, <1>11, <2>1, <2>3
  <2> QED
    BY <2>2, <2>3
<1> QED
  BY <1>13, <1>14

(* What is kept is open or will be removed, also after a write.            *)
LEMMA KeptStays ==
  ASSUME LogGrows, LogInv', NEW c, IsCursor(c), NEW d, SamePlace(c, d), NEW u \in Units,
         DOMAIN units[u] \subseteq Known(c.target), DOMAIN units'[u] \subseteq DOMAIN units[u],
         \A p \in Withdrawn(Baseline(c), d.privacy, c.target) : p \notin DOMAIN units'[u],
         KeptOf(c, u)
  PROVE  KeptOf(d, u)'
<1>1. PICK t, q, r, m : t = c.target /\ q = c.privacy /\ r = d.privacy /\ m = Now
  OBVIOUS
<1>2. /\ t \in 0 .. Now /\ t \in Nat /\ q \in Nat /\ r \in Nat /\ m \in Nat /\ Now' \in Nat
      /\ t <= m /\ r <= m /\ m <= Now' /\ \A i \in 1 .. m : log'[i] = log[i]
      /\ q <= r /\ d.target = t
  BY <1>1, LogFacts DEF LogGrows, IsCursor, SamePlace
<1>3. Known(t)' = Known(t) /\ Known(t) \subseteq Known(m)
  BY <1>2, ObservedStays, KnownGrows
<1>4. /\ Baseline(c) = Larger(t, q) /\ Baseline(d) = Larger(t, r)
      /\ Larger(t, r) \in Nat /\ Larger(t, r) <= m
  BY <1>1, <1>2 DEF Baseline, Larger
<1>5. ASSUME Processed(d, u), (d.base = 0 \/ Before(d, u) # Nothing)', NEW p \in DOMAIN units'[u]
      PROVE  Open(p, Now)' \/ p \in (Withdrawn(Larger(t, r), Now, t))'
  <2>1. Processed(c, u) /\ (c.base = 0 \/ Before(c, u) # Nothing)
    <3>1. SameSources(c, d)
      BY DEF SamePlace, SameSources
    <3> QED
      BY <1>5, <3>1, BeforeStays DEF Processed, SamePlace
  <2>2. Open(p, Now) \/ p \in Withdrawn(Larger(t, q), m, t)
    BY <1>1, <1>4, <1>5, <2>1 DEF KeptOf
  <2>3. p \in Known(t) /\ p \in Known(Now)
    BY <1>1, <1>3, <1>5
  <2>4. CASE Open(p, Now)
    <3>1. CASE Open(p, Now)'
      BY <3>1
    <3>2. CASE \E i \in Observed(p, Now)' : i > Now /\ ~log'[i].content.open
      <4>1. PICK i \in Observed(p, Now)' : i > Now /\ ~log'[i].content.open
        BY <3>2
      <4>2. i > Larger(t, r)
        <5>1. i \in Nat /\ i > m
          BY <1>1, <4>1 DEF Observed
        <5> QED
          BY <1>2, <1>4, <5>1
      <4> QED
        BY <1>3, <2>3, <4>1, <4>2 DEF Withdrawn
    <3> QED
      BY <2>3, <2>4, <3>1, <3>2, OpenOrNew
  <2>5. CASE p \in Withdrawn(Larger(t, q), m, t)
    <3>1. PICK i \in Observed(p, m) : i > Larger(t, q) /\ ~log[i].content.open
      BY <2>5 DEF Withdrawn
    <3>2. i \in 1 .. m /\ i \in Nat /\ log[i].kind = "post" /\ log[i].post = p
      BY <3>1 DEF Observed
    <3>3. ~(i <= r)
      <4>1. ASSUME i <= r
            PROVE  FALSE
        <5>1. i \in Observed(p, r)
          BY <1>2, <3>2, <4>1 DEF Observed
        <5>2. p \in Withdrawn(Larger(t, q), r, t)
          BY <2>3, <3>1, <5>1 DEF Withdrawn
        <5> QED
          BY <1>1, <1>4, <1>5, <5>2
      <4> QED
        BY <4>1
    <3>4. i > Larger(t, r)
      BY <1>2, <3>1, <3>2, <3>3 DEF Larger
    <3>5. i \in Observed(p, Now)' /\ ~log'[i].content.open
      <4>1. i \in 1 .. Now' /\ log'[i] = log[i]
        BY <1>2, <3>2
      <4> QED
        BY <3>1, <3>2, <4>1 DEF Observed
    <3> QED
      BY <1>3, <2>3, <3>4, <3>5 DEF Withdrawn
  <2> QED
    BY <2>2, <2>4, <2>5
<1>6. Processed(d, u)' = Processed(d, u)
  BY DEF Processed
<1> QED
  BY <1>2, <1>4, <1>5, <1>6 DEF KeptOf

(* What it was told before counts as removed.                              *)
LEMMA NothingToldTwice ==
  ASSUME LogInv, NEW c, IsCursor(c)
  PROVE  Withdrawn(Baseline(c), c.privacy, c.target) = {}
<1>1. PICK t, q : t = c.target /\ q = c.privacy
  OBVIOUS
<1>2. t \in Nat /\ q \in Nat
  BY <1>1, LogFacts DEF IsCursor
<1>3. ASSUME NEW p, NEW i \in Observed(p, q), i > Larger(t, q)
      PROVE  FALSE
  <2>1. i \in Nat /\ i <= q
    BY <1>2, <1>3 DEF Observed
  <2> QED
    BY <1>2, <1>3, <2>1 DEF Larger
<1> QED
  BY <1>1, <1>3 DEF Withdrawn, Baseline

(* A removal that leaves the range alone.                                  *)
LEMMA RemovedStays ==
  ASSUME LogGrows, NEW c, IsCursor(c), RemovedBy(c),
         \A u \in Units : DOMAIN units'[u] \subseteq DOMAIN units[u]
  PROVE  RemovedBy(c)'
<1>1. PICK a, k, t : a = Baseline(c) /\ k = c.rec /\ t = c.target
  OBVIOUS
<1>2. k \in 0 .. Now /\ t \in 0 .. Now
  BY <1>1 DEF IsCursor
<1>3. Withdrawn(a, k, t)' = Withdrawn(a, k, t)
  BY <1>2, WithdrawnStays
<1>4. Baseline(c)' = a
  BY <1>1 DEF Baseline
<1> QED
  BY <1>1, <1>3, <1>4 DEF RemovedBy

-----------------------------------------------------------------------------
(* The initial state.                                                      *)

(* The fields of a fresh cursor.                                           *)
LEMMA StartIs ==
  ASSUME NEW t, NEW b, NEW pos, NEW q
  PROVE  Start(t, b, pos, q) =
           [pos |-> pos, target |-> t, base |-> b, after |-> 0, sent |-> FALSE, privacy |-> q,
            rec |-> 0, removal |-> <<0, 0>>]
<1>1. PICK n, r : n = None /\ r = Start(t, b, pos, q)
  OBVIOUS
<1>2. n = [pos |-> "none", target |-> 0, base |-> 0, after |-> 0, sent |-> FALSE, privacy |-> 0,
           rec |-> 0, removal |-> <<0, 0>>]
  BY <1>1 DEF None
<1>3. r = [n EXCEPT !.pos = pos, !.target = t, !.base = b, !.privacy = q]
  BY <1>1 DEF Start
<1>4. r = [pos |-> pos, target |-> t, base |-> b, after |-> 0, sent |-> FALSE, privacy |-> q,
           rec |-> 0, removal |-> <<0, 0>>]
  BY <1>2, <1>3
<1> QED
  BY <1>1, <1>4

(* The consumer begins with nothing, at the first page of its bootstrap.   *)
LEMMA InitInv ==
  ASSUME Init
  PROVE  ConsumerInv
<1>1. Now \in Nat /\ Now > 0 /\ F = Now /\ Now # 0
  BY ConsumerAssumption DEF Init, Now, F
<1>2. LogInv
  BY <1>1, ConsumerAssumption DEF Init, LogInv
<1>3. PICK c, h : c = streams.changes /\ h = streams.history
  OBVIOUS
<1>4. /\ c = [pos |-> "bootstrap", target |-> Now, base |-> 0, after |-> 0, sent |-> TRUE,
              privacy |-> 0, rec |-> 0, removal |-> <<0, 0>>]
      /\ h = None /\ StreamsAre
  <2>1. Start(Now, 0, "bootstrap", 0) =
          [pos |-> "bootstrap", target |-> Now, base |-> 0, after |-> 0, sent |-> FALSE,
           privacy |-> 0, rec |-> 0, removal |-> <<0, 0>>]
    BY StartIs
  <2>2. PICK r : r = Start(Now, 0, "bootstrap", 0)
    OBVIOUS
  <2>3. streams = [s \in {"changes", "history"} |->
                     IF s = "changes" THEN [r EXCEPT !.sent = TRUE] ELSE None]
    BY <2>2 DEF Init
  <2>4. c = [r EXCEPT !.sent = TRUE] /\ h = None
    BY <1>3, <2>3
  <2>5. StreamsAre
    <3>1. PICK x, y : x = [r EXCEPT !.sent = TRUE] /\ y = None
      OBVIOUS
    <3>2. streams = [s \in {"changes", "history"} |-> IF s = "changes" THEN x ELSE y]
      BY <2>3, <3>1
    <3> QED
      BY <3>2 DEF StreamsAre
  <2>6. c = [pos |-> "bootstrap", target |-> Now, base |-> 0, after |-> 0, sent |-> TRUE,
             privacy |-> 0, rec |-> 0, removal |-> <<0, 0>>]
    <3>1. r = [pos |-> "bootstrap", target |-> Now, base |-> 0, after |-> 0, sent |-> FALSE,
               privacy |-> 0, rec |-> 0, removal |-> <<0, 0>>]
      BY <2>1, <2>2
    <3> QED
      BY <2>4, <3>1
  <2> QED
    BY <2>4, <2>5, <2>6
<1>5. Cursors(c, h)
  <2>1. IsCursor(c)
    BY <1>1, <1>4 DEF IsCursor
  <2>2. IsCursor(h)
    BY <1>1, <1>4 DEF IsCursor, None
  <2>3. receipt = 0 /\ receipt \in 0 .. Now
    BY <1>1 DEF Init
  <2> QED
    BY <1>1, <1>4, <2>1, <2>2, <2>3 DEF Cursors, None
<1>6. \A u \in Units : u > 0 /\ ~(u <= 0) /\ units[u] = Nothing
  BY ConsumerAssumption DEF Init
<1>7. HeldBy(c, Told(c, h, receipt))
  BY <1>4, <1>6 DEF HeldBy, Done
<1>8. KeptBy(c)
  BY <1>4, <1>6 DEF KeptBy, KeptOf, RemovedBy, Processed, Nothing
<1>9. UnitsAre
  BY DEF Init, UnitsAre
<1> QED
  BY <1>2, <1>3, <1>4, <1>5, <1>7, <1>8, <1>9 DEF ConsumerInv

-----------------------------------------------------------------------------
(* A write.                                                                *)

(* A consumer is told of sources that exist.                               *)
LEMMA ToldIsKnown ==
  ASSUME LogInv, NEW c, NEW h, Cursors(c, h)
  PROVE  /\ Told(c, h, receipt) \in SUBSET (0 .. Now)
         /\ SampledTo(c) \in 0 .. Now
<1>1. Told(c, h, receipt) \in SUBSET (0 .. Now)
  BY DEF Cursors, IsCursor, Told
<1>2. c.target \in 0 .. Now /\ c.base \in 0 .. Now /\ c.target \in Nat /\ c.base \in Nat
  <2>1. c.target \in 0 .. Now /\ c.base \in 0 .. c.target
    BY DEF Cursors, IsCursor
  <2>2. Now \in Nat
    BY LogFacts
  <2> QED
    BY <2>1, <2>2
<1>3. c.pos = "observations" => c.after \in 0 .. Now
  <2>1. c.after \in Nat
    BY DEF Cursors, IsCursor
  <2>2. c.pos = "observations" => c.after < c.target
    BY DEF Cursors
  <2>3. Now \in Nat
    BY LogFacts
  <2> QED
    BY <1>2, <2>1, <2>2, <2>3
<1> QED
  BY <1>1, <1>2, <1>3 DEF SampledTo

(* Nothing happens but that the log grows.                                 *)
LEMMA CalmStep ==
  ASSUME ConsumerInv, LogGrows, LogInv', UNCHANGED <<streams, receipt, units, samples>>
  PROVE  ConsumerInv'
<1>1. PICK c, h : c = streams.changes /\ h = streams.history
  OBVIOUS
<1>2. c = streams'.changes /\ h = streams'.history
  BY <1>1
<1>3. PICK T : T = Told(c, h, receipt)
  OBVIOUS
<1>4. /\ Cursors(c, h) /\ HeldBy(c, T) /\ KeptBy(c) /\ LogInv
      /\ T \in SUBSET (0 .. Now) /\ SampledTo(c) \in 0 .. Now /\ T = Told(c, h, receipt)'
      /\ Now \in Nat /\ Now' \in Nat /\ Now <= Now' /\ IsCursor(c)
  <2>1. Cursors(c, h) /\ HeldBy(c, T) /\ KeptBy(c) /\ LogInv
    BY <1>1, <1>3 DEF ConsumerInv
  <2>2. T \in SUBSET (0 .. Now) /\ SampledTo(c) \in 0 .. Now
    BY <1>3, <2>1, ToldIsKnown
  <2>3. T = Told(c, h, receipt)'
    BY <1>3 DEF Told
  <2> QED
    BY <2>1, <2>2, <2>3, LogFacts DEF LogGrows, Cursors
<1>5. Cursors(c, h)'
  <2>1. IsCursor(c)' /\ IsCursor(h)' /\ receipt' \in 0 .. Now'
    BY <1>4 DEF Cursors, IsCursor
  <2> QED
    BY <1>4, <2>1 DEF Cursors, F
<1>6. SamePlace(c, c)
  BY <1>4 DEF SamePlace, IsCursor
<1>7. HeldBy(c, T)'
  <2>1. Covers(T, T, c.base) /\ Covers(T, T, c.target)
    BY <1>4 DEF Covers
  <2>2. \A u \in Units : Leaves(u, c.target, T) /\ KeepsSamples(u)
    BY DEF Leaves, KeepsSamples
  <2> QED
    BY <1>4, <1>6, <2>1, <2>2, HeldStays
<1>8. KeptBy(c)'
  <2>1. \A u \in Units : DOMAIN units[u] \subseteq Known(c.target)
    BY <1>4 DEF KeptBy
  <2>2. c.target \in 0 .. Now /\ Known(c.target)' = Known(c.target)
    BY <1>4, ObservedStays DEF IsCursor
  <2>3. \A u \in Units : KeptOf(c, u)'
    <3> SUFFICES ASSUME NEW u \in Units
                 PROVE  KeptOf(c, u)'
      OBVIOUS
    <3>1. KeptOf(c, u) /\ DOMAIN units'[u] \subseteq DOMAIN units[u]
      BY <1>4 DEF KeptBy
    <3>2. \A p \in Withdrawn(Baseline(c), c.privacy, c.target) : p \notin DOMAIN units'[u]
      BY <1>4, NothingToldTwice
    <3> QED
      BY <1>4, <1>6, <2>1, <3>1, <3>2, KeptStays
  <2>4. RemovedBy(c)'
    BY <1>4, RemovedStays DEF KeptBy
  <2> QED
    BY <2>1, <2>2, <2>3, <2>4 DEF KeptBy
<1>9. StreamsAre' /\ UnitsAre'
  BY DEF ConsumerInv, StreamsAre, UnitsAre
<1> QED
  BY <1>2, <1>4, <1>5, <1>7, <1>8, <1>9 DEF ConsumerInv

(* A sequence is one of its own elements.                                  *)
LEMMA SequenceOfItsElements ==
  ASSUME NEW S, NEW s \in Seq(S)
  PROVE  s \in Seq({s[i] : i \in DOMAIN s})
<1>1. PICK T : T = {s[i] : i \in DOMAIN s}
  OBVIOUS
<1>2. Len(s) \in Nat /\ DOMAIN s = 1 .. Len(s) /\ s \in [1 .. Len(s) -> S]
  OBVIOUS
<1>3. s \in [1 .. Len(s) -> T]
  BY <1>1, <1>2
<1>4. s \in Seq(T)
  BY <1>2, <1>3, SeqDef
<1> QED
  BY <1>1, <1>4

(* An entry that is newer or older than all the others keeps the log in order. *)
LEMMA AppendEntry ==
  ASSUME LogInv, NEW e, IsEntry(e), log' = Append(log, e),
         e.kind = "post" => e.at \in {-Now, Now}
  PROVE  LogGrows /\ LogInv'
<1>1. PICK T : T = {log[i] : i \in DOMAIN log} \union {e}
  OBVIOUS
<1>2. log \in Seq(T) /\ e \in T
  <2>1. {log[i] : i \in DOMAIN log} \subseteq T
    BY <1>1
  <2> QED
    BY <1>1, <2>1 DEF LogInv
<1>3. PICK m : m = Now
  OBVIOUS
<1>4. /\ log' \in Seq(T) /\ Len(log') = m + 1 /\ DOMAIN log' = 1 .. m + 1
      /\ \A i \in 1 .. m : log'[i] = log[i]
      /\ log'[m + 1] = e /\ m \in Nat /\ Now' = m + 1 /\ DOMAIN log = 1 .. m /\ Len(log) = m
      /\ F \in Nat /\ F <= m
  BY <1>2, <1>3, LogFacts DEF Now
<1>5. log' \in Seq({log'[i] : i \in DOMAIN log'})
  BY <1>4, SequenceOfItsElements
<1>6. \A i \in DOMAIN log' : i \in 1 .. m \/ i = m + 1
  BY <1>4
<1>7. \A i \in DOMAIN log' : IsEntry(log'[i])
  BY <1>4, <1>6 DEF LogInv
<1>8. Ordered(log')
  <2>1. \A i, j \in 1 .. m : log[i].kind = "post" /\ log[j].kind = "post" =>
          /\ -m < log[i].at /\ log[i].at < m
          /\ log[i].post = log[j].post /\ log[i].at = log[j].at => i = j
    BY <1>4 DEF LogInv, Ordered
  <2>2. \A i \in 1 .. m : log[i].kind = "post" =>
          log[i].at \in Int /\ -m < log[i].at /\ log[i].at < m
    BY <1>4, <2>1 DEF LogInv, IsEntry
  <2>3. e.kind = "post" => e.at \in Int /\ -(m + 1) < e.at /\ e.at < m + 1
    BY <1>3, <1>4
  <2>4. ASSUME NEW i \in DOMAIN log', log'[i].kind = "post"
        PROVE  -(m + 1) < log'[i].at /\ log'[i].at < m + 1
    <3>1. CASE i \in 1 .. m
      <4>1. log'[i] = log[i]
        BY <1>4, <3>1
      <4>2. log[i].at \in Int /\ -m < log[i].at /\ log[i].at < m
        BY <2>2, <2>4, <3>1, <4>1
      <4> QED
        BY <1>4, <4>1, <4>2
    <3>2. CASE i = m + 1
      BY <1>4, <2>3, <2>4, <3>2
    <3> QED
      BY <1>6, <3>1, <3>2
  <2>5. ASSUME NEW i \in DOMAIN log', NEW j \in DOMAIN log',
               log'[i].kind = "post", log'[j].kind = "post",
               log'[i].post = log'[j].post, log'[i].at = log'[j].at
        PROVE  i = j
    <3>1. CASE i \in 1 .. m /\ j \in 1 .. m
      <4>1. log'[i] = log[i] /\ log'[j] = log[j]
        BY <1>4, <3>1
      <4> QED
        BY <2>1, <2>5, <3>1, <4>1
    <3>2. CASE i \in 1 .. m /\ j = m + 1
      <4>1. log'[i] = log[i] /\ log'[j] = e
        BY <1>4, <3>2
      <4>2. log[i].at \in Int /\ -m < log[i].at /\ log[i].at < m /\ e.at \in {-m, m}
        BY <1>3, <2>2, <2>5, <3>2, <4>1
      <4> QED
        BY <1>4, <2>5, <4>1, <4>2
    <3>3. CASE i = m + 1 /\ j \in 1 .. m
      <4>1. log'[i] = e /\ log'[j] = log[j]
        BY <1>4, <3>3
      <4>2. log[j].at \in Int /\ -m < log[j].at /\ log[j].at < m /\ e.at \in {-m, m}
        BY <1>3, <2>2, <2>5, <3>3, <4>1
      <4> QED
        BY <1>4, <2>5, <4>1, <4>2
    <3>4. CASE i = m + 1 /\ j = m + 1
      BY <3>4
    <3> QED
      BY <1>6, <3>1, <3>2, <3>3, <3>4
  <2>6. Len(log') = m + 1
    BY <1>4
  <2> QED
    BY <2>4, <2>5, <2>6 DEF Ordered
<1>9. LogGrows
  BY <1>3, <1>4 DEF LogGrows
<1>10. F' <= Now'
  BY <1>4 DEF F
<1>11. Ordered(log)'
  BY <1>8 DEF Ordered
<1> QED
  BY <1>5, <1>7, <1>9, <1>10, <1>11 DEF LogInv

(* What a consumer holds of pinned sources is not affected by a write.     *)
LEMMA WriteStep ==
  ASSUME ConsumerInv, NEW w \in Writes, Write(w)
  PROVE  ConsumerInv'
<1>1. LogInv /\ Now \in Nat /\ IsWrite(w) /\ UNCHANGED <<streams, receipt, units, samples>>
  BY LogFacts, ConsumerAssumption DEF ConsumerInv, Write
<1>2. CASE w.kind = "post"
  <2>1. PICK e : e = [kind |-> "post", post |-> w.post, unit |-> w.unit,
                      content |-> [text |-> w.text, open |-> w.open],
                      at |-> IF w.late THEN -Now ELSE Now]
    OBVIOUS
  <2>2. log' = Append(log, e)
    BY <1>2, <2>1 DEF Write
  <2>3. e.kind = "post" /\ e.post \in Posts /\ e.unit \in Units /\ e.content.open \in BOOLEAN
    BY <1>1, <1>2, <2>1 DEF IsWrite
  <2>4. e.at \in {-Now, Now} /\ e.at \in Int
    BY <1>1, <2>1
  <2>5. IsEntry(e)
    BY <2>3, <2>4 DEF IsEntry
  <2>6. LogGrows /\ LogInv'
    BY <1>1, <2>2, <2>4, <2>5, AppendEntry
  <2> QED
    BY <1>1, <2>6, CalmStep
<1>3. CASE w.kind = "result"
  <2>1. PICK e : e = [kind |-> "result", unit |-> w.unit, covers |-> Current(w.unit, Now)]
    OBVIOUS
  <2>2. log' = Append(log, e) /\ Current(w.unit, Now) # Nothing
    BY <1>3, <2>1 DEF Write
  <2>3. DOMAIN Current(w.unit, Now) # {}
    <3>1. PICK f : f = Current(w.unit, Now)
      OBVIOUS
    <3>2. f = [x \in DOMAIN f |-> f[x]]
      BY <3>1 DEF Current
    <3> QED
      BY <2>2, <3>1, <3>2, EmptyContent
  <2>4. e.kind = "result" /\ e.unit \in Units /\ DOMAIN e.covers # {}
    BY <1>1, <1>3, <2>1, <2>3 DEF IsWrite
  <2>5. IsEntry(e)
    BY <2>4 DEF IsEntry
  <2>6. LogGrows /\ LogInv'
    BY <1>1, <2>2, <2>4, <2>5, AppendEntry
  <2> QED
    BY <1>1, <2>6, CalmStep
<1>4. CASE w.kind = "registry"
  <2>1. log' = Append(log, w)
    BY <1>4 DEF Write
  <2>2. IsEntry(w)
    BY <1>1, <1>4 DEF IsEntry, IsWrite
  <2>3. LogGrows /\ LogInv'
    BY <1>1, <1>4, <2>1, <2>2, AppendEntry
  <2> QED
    BY <1>1, <2>3, CalmStep
<1> QED
  BY <1>1, <1>2, <1>3, <1>4 DEF IsWrite

-----------------------------------------------------------------------------
(* Steps in which the changes cursor keeps its place.                      *)

LeavesAll(t, T) ==
  \A u \in Units : /\ Leaves(u, t, T) /\ KeepsSamples(u)
                   /\ DOMAIN units'[u] \subseteq DOMAIN units[u]

NoneIsLeft(c, q) ==
  \A p \in Withdrawn(Baseline(c), q, c.target) : \A u \in Units : p \notin DOMAIN units'[u]

(* A cursor that moves within a range of removals.                         *)
LEMMA SamePlaceFrom ==
  ASSUME log' = log, StreamsAre', UnitsAre',
         NEW c, NEW h, LogInv, Cursors(c, h), HeldBy(c, Told(c, h, receipt)), KeptBy(c),
         NEW d, d = streams'.changes, NEW g, g = streams'.history,
         NEW T, T = Told(c, h, receipt), NEW S, S = Told(d, g, receipt'),
         SamePlace(c, d), Cursors(d, g)', Covers(T, S, c.base), Covers(T, S, c.target),
         LeavesAll(c.target, T), NoneIsLeft(c, d.privacy), RemovedBy(d)'
  PROVE  ConsumerInv'
<1>1. /\ Cursors(c, h) /\ HeldBy(c, T) /\ KeptBy(c) /\ LogInv
      /\ T \in SUBSET (0 .. Now) /\ SampledTo(c) \in 0 .. Now /\ IsCursor(c)
  BY ToldIsKnown DEF Cursors
<1>2. LogGrows /\ LogInv'
  BY <1>1, LogSame
<1>3. HeldBy(d, S)'
  <2>1. \A u \in Units : Leaves(u, c.target, T) /\ KeepsSamples(u)
    BY DEF LeavesAll
  <2> QED
    BY <1>1, <1>2, <2>1, HeldStays
<1>4. \A u \in Units : DOMAIN units'[u] \subseteq Known(d.target)'
  <2>1. c.target \in 0 .. Now /\ d.target = c.target
    BY <1>1 DEF IsCursor, SamePlace
  <2>2. Known(c.target)' = Known(c.target)
    BY <1>2, <2>1, ObservedStays
  <2> QED
    BY <1>1, <2>1, <2>2 DEF KeptBy, LeavesAll
<1>5. \A u \in Units : KeptOf(d, u)'
  <2> SUFFICES ASSUME NEW u \in Units
               PROVE  KeptOf(d, u)'
    OBVIOUS
  <2>1. /\ KeptOf(c, u) /\ DOMAIN units[u] \subseteq Known(c.target)
        /\ DOMAIN units'[u] \subseteq DOMAIN units[u]
    BY <1>1 DEF KeptBy, LeavesAll
  <2>2. \A p \in Withdrawn(Baseline(c), d.privacy, c.target) : p \notin DOMAIN units'[u]
    BY DEF NoneIsLeft
  <2> QED
    BY <1>1, <1>2, <2>1, <2>2, KeptStays
<1>6. KeptBy(d)'
  BY <1>4, <1>5 DEF KeptBy
<1>7. HeldBy(streams.changes, Told(streams.changes, streams.history, receipt))'
  BY <1>3
<1> QED
  BY <1>2, <1>6, <1>7 DEF ConsumerInv

(* The same for the cursor of the changes.                                 *)
LEMMA SamePlaceStep ==
  ASSUME ConsumerInv, log' = log, StreamsAre', UnitsAre',
         NEW c, c = streams.changes, NEW h, h = streams.history,
         NEW d, d = streams'.changes, NEW g, g = streams'.history,
         NEW T, T = Told(c, h, receipt), NEW S, S = Told(d, g, receipt'),
         SamePlace(c, d), Cursors(d, g)', Covers(T, S, c.base), Covers(T, S, c.target),
         LeavesAll(c.target, T), NoneIsLeft(c, d.privacy), RemovedBy(d)'
  PROVE  ConsumerInv'
<1>1. LogInv /\ Cursors(c, h) /\ HeldBy(c, Told(c, h, receipt)) /\ KeptBy(c)
  BY DEF ConsumerInv
<1> QED
  BY <1>1, SamePlaceFrom

(* Either stream replaced.                                                 *)
LEMMA StreamUpdate ==
  ASSUME StreamsAre, NEW x
  PROVE  /\ streams' = [streams EXCEPT !.changes = x] =>
              StreamsAre' /\ streams'.changes = x /\ streams'.history = streams.history
         /\ streams' = [streams EXCEPT !.history = x] =>
              StreamsAre' /\ streams'.changes = streams.changes /\ streams'.history = x
<1>1. streams = [s \in {"changes", "history"} |-> streams[s]]
  BY DEF StreamsAre
<1>2. ASSUME streams' = [streams EXCEPT !.changes = x]
      PROVE  StreamsAre' /\ streams'.changes = x /\ streams'.history = streams.history
  BY <1>1, <1>2 DEF StreamsAre
<1>3. ASSUME streams' = [streams EXCEPT !.history = x]
      PROVE  StreamsAre' /\ streams'.changes = streams.changes /\ streams'.history = x
  BY <1>1, <1>3 DEF StreamsAre
<1> QED
  BY <1>2, <1>3

(* What a cursor becomes in its range of removals.                         *)
InRange(x, y, q, k, r) ==
  \/ y = [x EXCEPT !.rec = k, !.removal = r] /\ q = x.privacy
  \/ y = [x EXCEPT !.removal = r] /\ q = x.privacy /\ k = x.rec
  \/ y = [x EXCEPT !.privacy = q, !.rec = k, !.removal = r]

(* The fields of a cursor in its range.                                    *)
LEMMA RangeUpdate ==
  ASSUME NEW x, IsCursor(x), NEW q, NEW k, NEW r, NEW y, InRange(x, y, q, k, r)
  PROVE  /\ y.pos = x.pos /\ y.target = x.target /\ y.base = x.base /\ y.after = x.after
         /\ y.privacy = q /\ y.rec = k /\ y.removal = r
         /\ q \in 0 .. Now /\ k \in 0 .. Now /\ (k # 0 => q <= k) /\ r \in Nat \X Nat => IsCursor(y)
<1>1. x = [pos |-> x.pos, target |-> x.target, base |-> x.base, after |-> x.after, sent |-> x.sent,
           privacy |-> x.privacy, rec |-> x.rec, removal |-> x.removal]
  BY DEF IsCursor
<1>2. y = [pos |-> x.pos, target |-> x.target, base |-> x.base, after |-> x.after, sent |-> x.sent,
           privacy |-> q, rec |-> k, removal |-> r]
  BY <1>1 DEF InRange
<1>3. /\ y.pos = x.pos /\ y.target = x.target /\ y.base = x.base /\ y.after = x.after
      /\ y.privacy = q /\ y.rec = k /\ y.removal = r /\ y.sent = x.sent
  BY <1>2
<1>4. y = [pos |-> y.pos, target |-> y.target, base |-> y.base, after |-> y.after, sent |-> y.sent,
           privacy |-> y.privacy, rec |-> y.rec, removal |-> y.removal]
  BY <1>2, <1>3
<1> QED
  BY <1>3, <1>4 DEF IsCursor

(* A refused page.                                                         *)
LEMMA RefuseStep ==
  ASSUME ConsumerInv, NEW s \in {"changes", "history"}, Refuse(s)
  PROVE  ConsumerInv'
<1>1. PICK c, h, T, x, y :
        /\ c = streams.changes /\ h = streams.history /\ T = Told(c, h, receipt)
        /\ x = streams[s] /\ y = [x EXCEPT !.rec = Now, !.removal = <<0, 0>>]
  OBVIOUS
<1>2. /\ x.pos \notin {"none", "idle"} /\ x.rec = 0
      /\ streams' = [streams EXCEPT ![s] = y]
      /\ log' = log /\ receipt' = receipt /\ units' = units /\ samples' = samples
  BY <1>1 DEF Refuse
<1>3. /\ LogInv /\ StreamsAre /\ UnitsAre /\ Cursors(c, h) /\ KeptBy(c) /\ IsCursor(c)
      /\ IsCursor(h) /\ IsCursor(x) /\ Now \in Nat /\ Now # 0 /\ Now' = Now
  <2>1. LogInv /\ StreamsAre /\ UnitsAre /\ Cursors(c, h) /\ KeptBy(c)
    BY <1>1 DEF ConsumerInv
  <2>2. IsCursor(c) /\ IsCursor(h) /\ IsCursor(x)
    BY <1>1, <2>1 DEF Cursors
  <2> QED
    BY <1>2, <2>1, <2>2, LogFacts, LogSame
<1>4. /\ y.pos = x.pos /\ y.target = x.target /\ y.base = x.base /\ y.after = x.after
      /\ y.privacy = x.privacy /\ y.rec = Now /\ y.removal = <<0, 0>> /\ IsCursor(y)
  <2>1. PICK q, k, r : q = x.privacy /\ k = Now /\ r = <<0, 0>>
    OBVIOUS
  <2>2. q \in 0 .. Now /\ k \in 0 .. Now /\ (k # 0 => q <= k) /\ r \in Nat \X Nat
    BY <1>3, <2>1 DEF IsCursor
  <2>3. InRange(x, y, q, k, r)
    BY <1>1, <2>1 DEF InRange
  <2> QED
    BY <1>3, <2>1, <2>2, <2>3, RangeUpdate
<1>5. LeavesAll(c.target, T)
  BY <1>2 DEF LeavesAll, Leaves, KeepsSamples
<1>6. NoneIsLeft(c, c.privacy)
  BY <1>3, NothingToldTwice DEF NoneIsLeft
<1>7. UnitsAre' /\ T \in SUBSET (0 .. Now)
  BY <1>1, <1>2, <1>3, ToldIsKnown DEF UnitsAre
<1>8. CASE s = "changes"
  <2>1. x = c /\ streams' = [streams EXCEPT !.changes = y]
    BY <1>1, <1>2, <1>8
  <2>2. StreamsAre' /\ y = streams'.changes /\ h = streams'.history
    BY <1>1, <1>3, <2>1, StreamUpdate
  <2>3. SamePlace(c, y)
    BY <1>3, <1>4, <2>1 DEF SamePlace, IsCursor
  <2>4. Cursors(y, h)'
    <3>1. IsCursor(y)' /\ IsCursor(h)' /\ receipt' \in 0 .. Now'
      BY <1>2, <1>3, <1>4 DEF Cursors, IsCursor
    <3> QED
      BY <1>2, <1>3, <1>4, <2>1, <3>1 DEF Cursors, F
  <2>5. PICK S : S = Told(y, h, receipt')
    OBVIOUS
  <2>6. Covers(T, S, c.base) /\ Covers(T, S, c.target)
    <3>1. T = {c.privacy, c.rec, h.privacy, h.rec, receipt}
      BY <1>1 DEF Told
    <3>2. /\ c.privacy \in S /\ h.privacy \in S /\ receipt \in S
          /\ (c.rec = 0 \/ c.rec \in S) /\ (h.rec = 0 \/ h.rec \in S)
      BY <1>2, <1>4, <2>1, <2>5 DEF Told
    <3>3. \A k \in T : k = 0 \/ k \in S
      BY <3>1, <3>2
    <3>4. \A k \in T : k \in Nat
      BY <1>3, <1>7
    <3>5. c.base \in Nat /\ c.target \in Nat
      BY <1>3 DEF IsCursor
    <3> QED
      BY <3>3, <3>4, <3>5 DEF Covers
  <2>7. RemovedBy(y)'
    <3>1. \A p \in Withdrawn(Baseline(y), y.rec, y.target)' : p \in Nat /\ ~(p <= 0)
      BY ConsumerAssumption DEF Withdrawn, Known
    <3> QED
      BY <1>4, <3>1 DEF RemovedBy
  <2>8. NoneIsLeft(c, y.privacy)
    BY <1>4, <1>6, <2>1
  <2>9. c = streams.changes /\ h = streams.history /\ T = Told(c, h, receipt) /\ log' = log
    BY <1>1, <1>2
  <2> QED
    BY <1>5, <1>7, <2>2, <2>3, <2>4, <2>5, <2>6, <2>7, <2>8, <2>9, SamePlaceStep
<1>9. CASE s = "history"
  <2>1. x = h /\ streams' = [streams EXCEPT !.history = y]
    BY <1>1, <1>2, <1>9
  <2>2. StreamsAre' /\ c = streams'.changes /\ y = streams'.history
    BY <1>1, <1>3, <2>1, StreamUpdate
  <2>3. SamePlace(c, c)
    BY <1>3 DEF SamePlace, IsCursor
  <2>4. Cursors(c, y)'
    <3>1. IsCursor(c)' /\ IsCursor(y)' /\ receipt' \in 0 .. Now'
      BY <1>2, <1>3, <1>4 DEF Cursors, IsCursor
    <3> QED
      BY <1>2, <1>3, <1>4, <2>1, <3>1 DEF Cursors, F
  <2>5. PICK S : S = Told(c, y, receipt')
    OBVIOUS
  <2>6. Covers(T, S, c.base) /\ Covers(T, S, c.target)
    <3>1. T = {c.privacy, c.rec, h.privacy, h.rec, receipt}
      BY <1>1 DEF Told
    <3>2. /\ c.privacy \in S /\ h.privacy \in S /\ receipt \in S
          /\ (c.rec = 0 \/ c.rec \in S) /\ (h.rec = 0 \/ h.rec \in S)
      BY <1>2, <1>4, <2>1, <2>5 DEF Told
    <3>3. \A k \in T : k = 0 \/ k \in S
      BY <3>1, <3>2
    <3>4. \A k \in T : k \in Nat
      BY <1>3, <1>7
    <3>5. c.base \in Nat /\ c.target \in Nat
      BY <1>3 DEF IsCursor
    <3> QED
      BY <3>3, <3>4, <3>5 DEF Covers
  <2>7. RemovedBy(c)'
    <3>1. LogGrows
      BY <1>2, <1>3, LogSame
    <3>2. \A u \in Units : DOMAIN units'[u] \subseteq DOMAIN units[u]
      BY <1>5 DEF LeavesAll
    <3> QED
      BY <1>3, <3>1, <3>2, RemovedStays DEF KeptBy
  <2>8. c = streams.changes /\ h = streams.history /\ T = Told(c, h, receipt) /\ log' = log
    BY <1>1, <1>2
  <2> QED
    BY <1>5, <1>6, <1>7, <2>2, <2>3, <2>4, <2>5, <2>6, <2>7, <2>8, SamePlaceStep
<1> QED
  BY <1>8, <1>9

-----------------------------------------------------------------------------
(* A removal.                                                              *)

(* A set with two elements or more.                                        *)
LEMMA MoreThanOne ==
  ASSUME NEW S, IsFiniteSet(S), NEW a \in S, NEW b \in S, a # b
  PROVE  Cardinality(S) > 1
<1>1. Cardinality(S) \in Nat
  BY FS_CardinalityType
<1>2. Cardinality(S) # 0
  BY FS_EmptySet
<1>3. Cardinality(S) # 1
  <2>1. ~ \E x : S = {x}
    OBVIOUS
  <2> QED
    BY <2>1, FS_Singleton
<1> QED
  BY <1>1, <1>2, <1>3

(* The first of some removals.                                             *)
FirstOf(S) == CHOOSE r \in S : \A q \in S : r = q \/ Precedes(r, q)

(* The next removal is the first in the order of removals.                 *)
LEMMA FirstOfIs ==
  ASSUME NEW S \in SUBSET (Nat \X Nat), S # {}
  PROVE  FirstOf(S) \in S /\ \A q \in S : FirstOf(S) = q \/ Precedes(FirstOf(S), q)
<1>1. PICK A : A = {r[1] : r \in S}
  OBVIOUS
<1>2. \A r \in S : r = <<r[1], r[2]>> /\ r[1] \in Nat /\ r[2] \in Nat
  OBVIOUS
<1>3. A \in SUBSET Nat /\ A # {}
  BY <1>1, <1>2
<1>4. PICK a \in A : \A x \in A : a <= x
  BY <1>3, LeastExists
<1>5. PICK B : B = {r[2] : r \in {q \in S : q[1] = a}}
  OBVIOUS
<1>6. B \in SUBSET Nat /\ B # {}
  BY <1>1, <1>2, <1>4, <1>5
<1>7. PICK b \in B : \A x \in B : b <= x
  BY <1>6, LeastExists
<1>8. PICK r \in S : r[1] = a /\ r[2] = b
  BY <1>5, <1>7
<1>9. ASSUME NEW q \in S
      PROVE  r = q \/ Precedes(r, q)
  <2>1. a <= q[1] /\ a \in Nat /\ b \in Nat /\ q[1] \in Nat /\ q[2] \in Nat
    BY <1>1, <1>2, <1>3, <1>4, <1>6, <1>7
  <2>2. CASE q[1] = a
    <3>1. q[2] \in B
      BY <1>5, <2>2
    <3>2. b <= q[2]
      BY <1>7, <3>1
    <3>3. CASE b = q[2]
      <4>1. r = <<a, b>> /\ q = <<a, b>>
        BY <1>2, <1>8, <2>2, <3>3
      <4> QED
        BY <4>1
    <3>4. CASE b # q[2]
      BY <1>8, <2>1, <2>2, <3>2, <3>4 DEF Precedes
    <3> QED
      BY <3>3, <3>4
  <2>3. CASE q[1] # a
    BY <1>8, <2>1, <2>3 DEF Precedes
  <2> QED
    BY <2>2, <2>3
<1> QED
  BY <1>9 DEF FirstOf

(* Posts are captured in units.                                            *)
LEMMA UnitsOfAre ==
  ASSUME LogInv, NEW n \in 0 .. Now, NEW p \in Known(n)
  PROVE  UnitsOf(p, n) \subseteq Units /\ UnitsOf(p, n) # {}
<1>1. \A i \in Observed(p, n) : i \in DOMAIN log /\ log[i].kind = "post"
  BY LogFacts DEF Observed
<1>2. \A i \in Observed(p, n) : log[i].unit \in Units
  BY <1>1 DEF LogInv, IsEntry
<1> QED
  BY <1>2 DEF UnitsOf, Known

(* The removals of a range.                                                *)
LEMMA RemovalsAre ==
  ASSUME LogInv, NEW x, IsCursor(x),
         NEW W, W = Withdrawn(Baseline(x), x.rec, x.target)
  PROVE  /\ Removals(x) \subseteq Nat \X Nat /\ IsFiniteSet(Removals(x))
         /\ \A r \in Removals(x) : r[1] \in W
         /\ \A p \in W : p \in Nat /\ p # 0 /\ <<p, 0>> \in Removals(x)
         /\ \A p \in W : \E w \in Nat : w # 0 /\ <<p, w>> \in Removals(x)
<1>1. PICK t, U : t = x.target /\ U = Units \union {0}
  OBVIOUS
<1>2. /\ t \in 0 .. Now /\ W \subseteq Known(t) /\ Posts \subseteq Nat /\ U \subseteq Nat
      /\ \A p \in Known(t) : p \in Posts /\ p \in Nat /\ p # 0
      /\ \A u \in Units : u \in Nat /\ u # 0
  BY <1>1, ConsumerAssumption DEF IsCursor, Withdrawn, Known
<1>3. \A p \in W : UnitsOf(p, t) \subseteq Units /\ UnitsOf(p, t) # {}
  BY <1>2, UnitsOfAre
<1>4. Removals(x) = UNION {{p} \X (UnitsOf(p, t) \union {0}) : p \in W}
  BY <1>1 DEF Removals
<1>5. \A r : r \in Removals(x) <=> \E p \in W : r \in {p} \X (UnitsOf(p, t) \union {0})
  BY <1>4
<1>6. ASSUME NEW r \in Removals(x)
      PROVE  r \in Posts \X U /\ r[1] \in W
  <2>1. PICK p \in W : r \in {p} \X (UnitsOf(p, t) \union {0})
    BY <1>5
  <2>2. r[1] = p /\ r[2] \in U /\ r = <<r[1], r[2]>> /\ p \in Posts
    BY <1>1, <1>2, <1>3, <2>1
  <2> QED
    BY <2>2
<1>7. Removals(x) \subseteq Posts \X U
  BY <1>6
<1>8. IsFiniteSet(Removals(x))
  <2>1. IsFiniteSet(Posts) /\ IsFiniteSet(U)
    BY <1>1, ConsumerAssumption, FS_AddElement
  <2>2. IsFiniteSet(Posts \X U)
    BY <2>1, FS_Product
  <2> QED
    BY <1>7, <2>2, FS_Subset
<1>9. ASSUME NEW p \in W
      PROVE  /\ p \in Nat /\ p # 0 /\ <<p, 0>> \in Removals(x)
             /\ \E w \in Nat : w # 0 /\ <<p, w>> \in Removals(x)
  <2>1. PICK w \in UnitsOf(p, t) : w \in Units
    BY <1>3
  <2>2. <<p, 0>> \in {p} \X (UnitsOf(p, t) \union {0}) /\ <<p, w>> \in {p} \X (UnitsOf(p, t) \union {0})
    OBVIOUS
  <2>3. <<p, 0>> \in Removals(x) /\ <<p, w>> \in Removals(x)
    BY <1>5, <2>2
  <2> QED
    BY <1>2, <2>1, <2>3
<1> QED
  BY <1>2, <1>6, <1>7, <1>8, <1>9

(* The removals that are left are those of later posts: the first one of a *)
(* post takes it from every unit, and the range ends with a post.          *)
LEMMA RangeIsInOrder ==
  ASSUME LogInv, NEW x, IsCursor(x),
         NEW W, W = Withdrawn(Baseline(x), x.rec, x.target),
         NEW rest, rest = {r \in Removals(x) : Precedes(x.removal, r)}
  PROVE  /\ ~(Cardinality(rest) > 1) => \A p \in W : p \in Nat /\ p <= x.removal[1]
         /\ rest # {} => /\ FirstOf(rest) \in rest /\ FirstOf(rest) \in Nat \X Nat
                         /\ FirstOf(rest)[1] \in W
                         /\ \A p \in W : p <= FirstOf(rest)[1] =>
                              p <= x.removal[1] \/ FirstOf(rest) = <<p, 0>>
<1>1. /\ Removals(x) \subseteq Nat \X Nat /\ IsFiniteSet(Removals(x))
      /\ \A r \in Removals(x) : r[1] \in W
      /\ \A p \in W : p \in Nat /\ p # 0 /\ <<p, 0>> \in Removals(x)
      /\ \A p \in W : \E w \in Nat : w # 0 /\ <<p, w>> \in Removals(x)
  BY RemovalsAre
<1>2. PICK m : m = x.removal[1]
  OBVIOUS
<1>3. m \in Nat
  BY <1>2 DEF IsCursor
<1>4. \A p \in W : \A w \in Nat : ~(p <= m) /\ <<p, w>> \in Removals(x) => <<p, w>> \in rest
  <2> SUFFICES ASSUME NEW p \in W, NEW w \in Nat, ~(p <= m), <<p, w>> \in Removals(x)
               PROVE  <<p, w>> \in rest
    OBVIOUS
  <2>1. m < p
    BY <1>1, <1>3
  <2>2. Precedes(x.removal, <<p, w>>)
    BY <1>2, <2>1 DEF Precedes
  <2> QED
    BY <2>2
<1>5. IsFiniteSet(rest)
  BY <1>1, FS_Subset
<1>6. ASSUME NEW p \in W, ~(p <= m)
      PROVE  Cardinality(rest) > 1
  <2>1. PICK w \in Nat : w # 0 /\ <<p, w>> \in Removals(x)
    BY <1>1
  <2>2. <<p, 0>> \in rest /\ <<p, w>> \in rest /\ <<p, 0>> # <<p, w>>
    BY <1>1, <1>4, <1>6, <2>1
  <2> QED
    BY <1>5, <2>2, MoreThanOne
<1>7. ASSUME rest # {}
      PROVE  /\ FirstOf(rest) \in rest /\ FirstOf(rest) \in Nat \X Nat
             /\ FirstOf(rest)[1] \in W
             /\ \A p \in W : p <= FirstOf(rest)[1] => p <= m \/ FirstOf(rest) = <<p, 0>>
  <2>1. PICK f : f = FirstOf(rest)
    OBVIOUS
  <2>2. f \in rest /\ (\A q \in rest : f = q \/ Precedes(f, q)) /\ f \in Nat \X Nat
    <3>1. rest \in SUBSET (Nat \X Nat)
      BY <1>1
    <3> QED
      BY <1>7, <2>1, <3>1, FirstOfIs
  <2>3. f[1] \in W /\ f[1] \in Nat /\ f[2] \in Nat
    BY <1>1, <2>2
  <2>4. ASSUME NEW p \in W, p <= f[1], ~(p <= m)
        PROVE  f = <<p, 0>>
    <3>1. <<p, 0>> \in rest /\ p \in Nat
      BY <1>1, <1>4, <2>4
    <3>2. f = <<p, 0>> \/ f[1] < p \/ (f[1] = p /\ f[2] < 0)
      BY <2>2, <3>1 DEF Precedes
    <3> QED
      BY <2>3, <2>4, <3>1, <3>2
  <2> QED
    BY <2>1, <2>2, <2>3, <2>4
<1> QED
  BY <1>1, <1>2, <1>6, <1>7

(* A removal takes only units with a withdrawn post.                       *)
LEMMA RemoveLeaves ==
  ASSUME LogInv, UnitsAre, NEW r, Remove(r), NEW t, NEW k, NEW T, k \in T,
         r[1] \in Withdrawn(t, k, t)
  PROVE  /\ LeavesAll(t, T) /\ UnitsAre'
         /\ r[2] = 0 => \A u \in Units : r[1] \notin DOMAIN units'[u]
<1>1. PICK content :
        content = [u \in Units |-> IF r[2] \in {0, u} /\ r[1] \in DOMAIN units[u]
                                   THEN Nothing ELSE units[u]]
  OBVIOUS
<1>2. /\ units' = content
      /\ samples' = {i \in samples \union {} : \E u \in Units : log[i].post \in DOMAIN content[u]}
  BY <1>1 DEF Remove, Save
<1>3. \A u \in Units : content[u] = IF r[2] \in {0, u} /\ r[1] \in DOMAIN units[u]
                                    THEN Nothing ELSE units[u]
  BY <1>1
<1>4. DOMAIN Nothing = {}
  BY DEF Nothing
<1>5. \A u \in Units : Leaves(u, t, T)
  BY <1>2, <1>3 DEF Leaves
<1>6. \A u \in Units : KeepsSamples(u)
  BY <1>2 DEF KeepsSamples
<1>7. \A u \in Units : DOMAIN units'[u] \subseteq DOMAIN units[u]
  BY <1>2, <1>3, <1>4
<1>8. r[2] = 0 => \A u \in Units : r[1] \notin DOMAIN units'[u]
  BY <1>2, <1>3, <1>4
<1>9. UnitsAre'
  BY <1>1, <1>2 DEF UnitsAre
<1> QED
  BY <1>5, <1>6, <1>7, <1>8, <1>9 DEF LeavesAll

(* A removal, or the end of a range.                                       *)
LEMMA ReconcileStep ==
  ASSUME ConsumerInv, NEW s \in {"changes", "history"}, Reconcile(s)
  PROVE  ConsumerInv'
<1>1. PICK c, h, T, x, rest, y, W :
        /\ c = streams.changes /\ h = streams.history /\ T = Told(c, h, receipt)
        /\ x = streams[s] /\ rest = {r \in Removals(x) : Precedes(x.removal, r)}
        /\ y = IF Cardinality(rest) > 1 THEN [x EXCEPT !.removal = FirstOf(rest)] ELSE AfterRange(x)
        /\ W = Withdrawn(Baseline(x), x.rec, x.target)
  OBVIOUS
<1>2. /\ x.rec # 0
      /\ IF rest = {} THEN UNCHANGED <<units, samples>> ELSE Remove(FirstOf(rest))
      /\ streams' = [streams EXCEPT ![s] = y]
      /\ receipt' = IF s = "history" /\ y.rec = 0 THEN y.privacy ELSE receipt
      /\ log' = log
  BY <1>1 DEF Reconcile, FirstOf
<1>3. /\ LogInv /\ StreamsAre /\ UnitsAre /\ Cursors(c, h) /\ KeptBy(c) /\ IsCursor(c)
      /\ IsCursor(h) /\ IsCursor(x) /\ Now \in Nat /\ Now # 0 /\ Now' = Now /\ LogGrows
  <2>1. LogInv /\ StreamsAre /\ UnitsAre /\ Cursors(c, h) /\ KeptBy(c)
    BY <1>1 DEF ConsumerInv
  <2>2. IsCursor(c) /\ IsCursor(h) /\ IsCursor(x)
    BY <1>1, <2>1 DEF Cursors
  <2> QED
    BY <1>2, <2>1, <2>2, LogFacts, LogSame
<1>4. x.pos # "idle" /\ x.pos # "none" /\ x.target = c.target /\ x.rec \in T
  <2>1. CASE s = "changes"
    <3>1. x = c
      BY <1>1, <2>1
    <3>2. c.pos = "idle" => c.rec = 0
      <4>1. c.pos = "idle" => c = Start(c.target, 0, "idle", c.privacy)
        BY <1>3 DEF Cursors
      <4>2. Start(c.target, 0, "idle", c.privacy).rec = 0
        BY StartIs
      <4> QED
        BY <4>1, <4>2
    <3>3. c.pos # "none"
      BY <1>3 DEF Cursors
    <3> QED
      BY <1>1, <1>2, <3>1, <3>2, <3>3 DEF Told
  <2>2. CASE s = "history"
    <3>1. x = h
      BY <1>1, <2>2
    <3>2. h.pos = "history"
      BY <1>2, <1>3, <3>1 DEF Cursors, None
    <3> QED
      BY <1>1, <1>3, <3>1, <3>2 DEF Cursors, Told
  <2> QED
    BY <2>1, <2>2
<1>5. T \in SUBSET (0 .. Now)
  BY <1>1, <1>3, ToldIsKnown
<1>6. /\ ~(Cardinality(rest) > 1) => \A p \in W : p \in Nat /\ p <= x.removal[1]
      /\ rest # {} => /\ FirstOf(rest) \in rest /\ FirstOf(rest) \in Nat \X Nat
                      /\ FirstOf(rest)[1] \in W
                      /\ \A p \in W : p <= FirstOf(rest)[1] =>
                           p <= x.removal[1] \/ FirstOf(rest) = <<p, 0>>
  BY <1>1, <1>3, RangeIsInOrder
<1>7. Cardinality(rest) > 1 => rest # {}
  BY FS_EmptySet
<1>8. /\ LeavesAll(c.target, T) /\ UnitsAre'
      /\ rest # {} /\ FirstOf(rest)[2] = 0 =>
           \A u \in Units : FirstOf(rest)[1] \notin DOMAIN units'[u]
  <2>1. CASE rest = {}
    <3>1. units' = units /\ samples' = samples
      BY <1>2, <2>1
    <3> QED
      BY <1>3, <2>1, <3>1 DEF LeavesAll, Leaves, KeepsSamples, UnitsAre
  <2>2. CASE rest # {}
    <3>1. PICK f, t, k, a : f = FirstOf(rest) /\ t = c.target /\ k = x.rec /\ a = Baseline(x)
      OBVIOUS
    <3>2. f[1] \in Withdrawn(a, k, t)
      BY <1>1, <1>4, <1>6, <2>2, <3>1
    <3>3. t \in Nat /\ k \in Nat /\ a \in Nat /\ t <= a /\ k <= k /\ t <= t
      BY <1>3, <1>4, <3>1 DEF IsCursor, Baseline, Larger
    <3>4. f[1] \in Withdrawn(t, k, t)
      BY <3>2, <3>3, WithdrawnGrows
    <3>5. Remove(f) /\ k \in T
      BY <1>2, <1>4, <2>2, <3>1
    <3>6. /\ LeavesAll(t, T) /\ UnitsAre'
          /\ f[2] = 0 => \A u \in Units : f[1] \notin DOMAIN units'[u]
      BY <1>3, <3>4, <3>5, RemoveLeaves
    <3> QED
      BY <3>1, <3>6
  <2> QED
    BY <2>1, <2>2
<1>9. PICK q, k, r :
        /\ q = IF Cardinality(rest) > 1 THEN x.privacy ELSE x.rec
        /\ k = IF Cardinality(rest) > 1 THEN x.rec ELSE IF x.rec = Now THEN 0 ELSE Now
        /\ r = IF Cardinality(rest) > 1 THEN FirstOf(rest) ELSE <<0, 0>>
  OBVIOUS
<1>10. /\ y.pos = x.pos /\ y.target = x.target /\ y.base = x.base /\ y.after = x.after
       /\ y.privacy = q /\ y.rec = k /\ y.removal = r /\ IsCursor(y)
       /\ x.privacy <= q /\ q \in 0 .. Now /\ q \in Nat /\ (x.rec = q \/ x.rec = k)
  <2>1. InRange(x, y, q, k, r)
    <3>1. CASE Cardinality(rest) > 1
      BY <1>1, <1>9, <3>1 DEF InRange
    <3>2. CASE ~(Cardinality(rest) > 1)
      BY <1>1, <1>9, <3>2 DEF InRange, AfterRange
    <3> QED
      BY <3>1, <3>2
  <2>2. /\ q \in 0 .. Now /\ k \in 0 .. Now /\ (k # 0 => q <= k)
        /\ x.privacy <= q /\ (x.rec = q \/ x.rec = k) /\ q \in Nat
    BY <1>2, <1>3, <1>9 DEF IsCursor
  <2>3. r \in Nat \X Nat
    BY <1>6, <1>7, <1>9
  <2> QED
    BY <1>3, <2>1, <2>2, <2>3, RangeUpdate
<1>11. \A u \in Units : DOMAIN units'[u] \subseteq DOMAIN units[u]
  BY <1>8 DEF LeavesAll
<1>12. c = streams.changes /\ h = streams.history /\ T = Told(c, h, receipt) /\ log' = log
  BY <1>1, <1>2
<1>13. T = {c.privacy, c.rec, h.privacy, h.rec, receipt} /\ c.base \in Nat /\ c.target \in Nat
       /\ \A i \in T : i \in Nat
  BY <1>3, <1>5, <1>12 DEF Told, IsCursor
<1>14. CASE s = "changes"
  <2>1. x = c /\ streams' = [streams EXCEPT !.changes = y] /\ receipt' = receipt
    BY <1>1, <1>2, <1>14
  <2>2. StreamsAre' /\ y = streams'.changes /\ h = streams'.history
    BY <1>1, <1>3, <2>1, StreamUpdate
  <2>3. SamePlace(c, y)
    BY <1>10, <2>1 DEF SamePlace
  <2>4. Cursors(y, h)'
    <3>1. IsCursor(y)' /\ IsCursor(h)' /\ receipt' \in 0 .. Now'
      BY <1>3, <1>10, <2>1 DEF Cursors, IsCursor
    <3>2. receipt \in Nat /\ c.privacy \in Nat /\ y.privacy \in Nat /\ c.privacy <= y.privacy
      BY <1>3, <1>10, <2>1 DEF Cursors, IsCursor
    <3> QED
      BY <1>3, <1>4, <1>10, <2>1, <3>1, <3>2 DEF Cursors, F
  <2>5. PICK S : S = Told(y, h, receipt')
    OBVIOUS
  <2>6. Covers(T, S, c.base) /\ Covers(T, S, c.target)
    <3>1. /\ y.privacy \in S /\ h.privacy \in S /\ receipt \in S /\ h.rec \in S /\ c.rec \in S
      BY <1>10, <2>1, <2>5 DEF Told
    <3>2. c.privacy <= y.privacy /\ y.privacy \in Nat
      BY <1>10, <2>1
    <3>3. \A i \in T : \E l \in S : l \in Nat /\ i <= l
      <4> SUFFICES ASSUME NEW i \in T
                   PROVE  \E l \in S : l \in Nat /\ i <= l
        OBVIOUS
      <4>1. i = c.privacy \/ i \in S
        BY <1>13, <3>1
      <4>2. i \in Nat /\ i <= i
        BY <1>13
      <4> QED
        BY <3>1, <3>2, <4>1, <4>2
    <3> QED
      BY <1>13, <3>3 DEF Covers
  <2>7. /\ ~(Cardinality(rest) > 1) => \A p \in W : \A u \in Units : p \notin DOMAIN units'[u]
        /\ Cardinality(rest) > 1 => \A p \in W : p <= FirstOf(rest)[1] =>
             \A u \in Units : p \notin DOMAIN units'[u]
    <3>1. \A p \in W : p <= c.removal[1] => \A u \in Units : p \notin DOMAIN units'[u]
      BY <1>1, <1>2, <1>3, <1>11, <2>1 DEF KeptBy, RemovedBy
    <3>2. ASSUME Cardinality(rest) > 1, NEW p \in W, p <= FirstOf(rest)[1]
          PROVE  \A u \in Units : p \notin DOMAIN units'[u]
      <4>1. p <= c.removal[1] \/ FirstOf(rest) = <<p, 0>>
        BY <1>6, <1>7, <2>1, <3>2
      <4>2. CASE FirstOf(rest) = <<p, 0>>
        <5>1. FirstOf(rest)[1] = p /\ FirstOf(rest)[2] = 0
          BY <4>2
        <5> QED
          BY <1>7, <1>8, <3>2, <5>1
      <4> QED
        BY <3>1, <4>1, <4>2
    <3>3. ~(Cardinality(rest) > 1) => \A p \in W : p <= c.removal[1]
      BY <1>6, <2>1
    <3> QED
      BY <3>1, <3>2, <3>3
  <2>8. NoneIsLeft(c, y.privacy)
    <3>1. CASE Cardinality(rest) > 1
      <4>1. y.privacy = c.privacy
        BY <1>9, <1>10, <2>1, <3>1
      <4> QED
        BY <1>3, <4>1, NothingToldTwice DEF NoneIsLeft
    <3>2. CASE ~(Cardinality(rest) > 1)
      <4>1. y.privacy = c.rec /\ W = Withdrawn(Baseline(c), c.rec, c.target)
        BY <1>1, <1>9, <1>10, <2>1, <3>2
      <4> QED
        BY <2>7, <3>2, <4>1 DEF NoneIsLeft
    <3> QED
      BY <3>1, <3>2
  <2>9. RemovedBy(y)'
    <3>1. CASE Cardinality(rest) > 1
      <4>1. PICK a, i, t : a = Baseline(c) /\ i = c.rec /\ t = c.target
        OBVIOUS
      <4>2. i \in 0 .. Now /\ t \in 0 .. Now
        BY <1>3, <4>1 DEF IsCursor
      <4>3. Withdrawn(a, i, t)' = Withdrawn(a, i, t)
        BY <1>3, <4>2, WithdrawnStays
      <4>4. /\ y.privacy = c.privacy /\ y.rec = i /\ y.target = t /\ y.removal = FirstOf(rest)
            /\ W = Withdrawn(a, i, t)
        BY <1>1, <1>9, <1>10, <2>1, <3>1, <4>1
      <4>5. Baseline(y)' = a
        BY <4>1, <4>4 DEF Baseline
      <4> QED
        BY <2>7, <3>1, <4>3, <4>4, <4>5 DEF RemovedBy
    <3>2. CASE ~(Cardinality(rest) > 1)
      <4>1. y.removal[1] = 0
        BY <1>9, <1>10, <3>2
      <4>2. \A p \in Withdrawn(Baseline(y), y.rec, y.target)' : p \in Nat /\ ~(p <= 0)
        BY ConsumerAssumption DEF Withdrawn, Known
      <4> QED
        BY <4>1, <4>2 DEF RemovedBy
    <3> QED
      BY <3>1, <3>2
  <2> QED
    BY <1>8, <1>12, <2>2, <2>3, <2>4, <2>5, <2>6, <2>8, <2>9, SamePlaceStep
<1>15. CASE s = "history"
  <2>1. x = h /\ streams' = [streams EXCEPT !.history = y]
        /\ receipt' = IF y.rec = 0 THEN y.privacy ELSE receipt
    <3>1. x = h
      BY <1>1, <1>15
    <3>2. streams' = [streams EXCEPT ![s] = y]
          /\ receipt' = IF s = "history" /\ y.rec = 0 THEN y.privacy ELSE receipt
      BY <1>2
    <3>3. receipt' = IF y.rec = 0 THEN y.privacy ELSE receipt
      BY <1>15, <3>2
    <3> QED
      BY <1>15, <3>1, <3>2, <3>3
  <2>2. StreamsAre' /\ c = streams'.changes /\ y = streams'.history
    BY <1>1, <1>3, <2>1, StreamUpdate
  <2>3. SamePlace(c, c)
    BY <1>3 DEF SamePlace, IsCursor
  <2>4. /\ h.pos = "history" /\ h.target = c.target /\ h.base = 0 /\ receipt <= h.privacy
        /\ c.pos = "idle" /\ receipt \in Nat /\ h.privacy \in Nat /\ receipt \in 0 .. Now
        /\ y.privacy \in Nat /\ h.privacy <= y.privacy
    <3>1. h.pos = "history"
      BY <1>3, <1>4, <2>1 DEF Cursors
    <3>2. c.pos = "idle" /\ receipt \in 0 .. Now
      BY <1>3, <3>1 DEF Cursors
    <3> QED
      BY <1>3, <1>10, <2>1, <3>1, <3>2 DEF Cursors, IsCursor
  <2>5. receipt' \in 0 .. Now /\ receipt' <= y.privacy /\ receipt <= receipt'
        /\ (y.rec = 0 => y.privacy <= receipt') /\ receipt' \in Nat
    BY <1>3, <1>10, <2>1, <2>4
  <2>6. Cursors(c, y)'
    <3>1. IsCursor(c)' /\ IsCursor(y)' /\ receipt' \in 0 .. Now'
      BY <1>3, <1>10, <2>5 DEF IsCursor
    <3> QED
      BY <1>3, <1>10, <2>1, <2>4, <2>5, <3>1 DEF Cursors, F
  <2>7. PICK S : S = Told(c, y, receipt')
    OBVIOUS
  <2>8. Covers(T, S, c.base) /\ Covers(T, S, c.target)
    <3>1. /\ y.privacy \in S /\ c.privacy \in S /\ receipt' \in S /\ h.rec \in S /\ c.rec \in S
      BY <1>10, <2>1, <2>7 DEF Told
    <3>2. \A i \in T : \E l \in S : l \in Nat /\ i <= l
      <4> SUFFICES ASSUME NEW i \in T
                   PROVE  \E l \in S : l \in Nat /\ i <= l
        OBVIOUS
      <4>1. i = h.privacy \/ i = receipt \/ i \in S
        BY <1>13, <3>1
      <4>2. i \in Nat /\ i <= i
        BY <1>13
      <4> QED
        BY <2>4, <2>5, <3>1, <4>1, <4>2
    <3> QED
      BY <1>13, <3>2 DEF Covers
  <2>9. RemovedBy(c)'
    BY <1>3, <1>11, RemovedStays DEF KeptBy
  <2>10. NoneIsLeft(c, c.privacy)
    BY <1>3, NothingToldTwice DEF NoneIsLeft
  <2> QED
    BY <1>8, <1>12, <2>2, <2>3, <2>6, <2>7, <2>8, <2>9, <2>10, SamePlaceStep
<1> QED
  BY <1>14, <1>15

-----------------------------------------------------------------------------
(* A history read.                                                         *)

(* The fields of a cursor that moves.                                      *)
LEMMA MoveIs ==
  ASSUME NEW x, IsCursor(x), NEW pos, NEW after \in Nat, NEW y, y = Move(x, pos, after)
  PROVE  /\ y.pos = pos /\ y.target = x.target /\ y.base = x.base /\ y.after = after
         /\ y.privacy = x.privacy /\ y.rec = x.rec /\ y.removal = x.removal /\ IsCursor(y)
<1>1. x = [pos |-> x.pos, target |-> x.target, base |-> x.base, after |-> x.after, sent |-> x.sent,
           privacy |-> x.privacy, rec |-> x.rec, removal |-> x.removal]
  BY DEF IsCursor
<1>2. y = [pos |-> pos, target |-> x.target, base |-> x.base, after |-> after, sent |-> x.sent,
           privacy |-> x.privacy, rec |-> x.rec, removal |-> x.removal]
  BY <1>1 DEF Move
<1>3. /\ y.pos = pos /\ y.target = x.target /\ y.base = x.base /\ y.after = after
      /\ y.privacy = x.privacy /\ y.rec = x.rec /\ y.removal = x.removal /\ y.sent = x.sent
  BY <1>2
<1>4. y = [pos |-> y.pos, target |-> y.target, base |-> y.base, after |-> y.after, sent |-> y.sent,
           privacy |-> y.privacy, rec |-> y.rec, removal |-> y.removal]
  BY <1>2, <1>3
<1> QED
  BY <1>3, <1>4 DEF IsCursor

(* A fresh cursor.                                                         *)
LEMMA StartIsCursor ==
  ASSUME LogInv, NEW t \in 0 .. Now, NEW b \in 0 .. t, NEW pos, NEW q \in 0 .. Now, NEW y,
         y = Start(t, b, pos, q)
  PROVE  /\ y.pos = pos /\ y.target = t /\ y.base = b /\ y.after = 0 /\ y.privacy = q
         /\ y.rec = 0 /\ y.removal = <<0, 0>> /\ ~y.sent /\ IsCursor(y)
<1>1. y = [pos |-> pos, target |-> t, base |-> b, after |-> 0, sent |-> FALSE, privacy |-> q,
           rec |-> 0, removal |-> <<0, 0>>]
  BY StartIs
<1>2. /\ y.pos = pos /\ y.target = t /\ y.base = b /\ y.after = 0 /\ y.privacy = q
      /\ y.rec = 0 /\ y.removal = <<0, 0>> /\ y.sent = FALSE
  BY <1>1
<1>3. y = [pos |-> y.pos, target |-> y.target, base |-> y.base, after |-> y.after, sent |-> y.sent,
           privacy |-> y.privacy, rec |-> y.rec, removal |-> y.removal]
  BY <1>1, <1>2
<1>4. y.rec \in 0 .. Now /\ y.after \in Nat /\ y.removal \in Nat \X Nat
  <2>1. 0 \in 0 .. Now
    BY LogFacts
  <2> QED
    BY <1>2, <2>1
<1>5. y.sent \in BOOLEAN
  BY <1>2
<1> QED
  BY <1>2, <1>3, <1>4, <1>5 DEF IsCursor

(* No cursor, as a cursor.                                                 *)
LEMMA NoneIsCursor ==
  ASSUME LogInv
  PROVE  IsCursor(None)
<1>1. PICK y : y = None
  OBVIOUS
<1>2. y = [pos |-> "none", target |-> 0, base |-> 0, after |-> 0, sent |-> FALSE, privacy |-> 0,
           rec |-> 0, removal |-> <<0, 0>>]
  BY <1>1 DEF None
<1>3. /\ y.pos = "none" /\ y.target = 0 /\ y.base = 0 /\ y.after = 0 /\ y.sent = FALSE
      /\ y.privacy = 0 /\ y.rec = 0 /\ y.removal = <<0, 0>>
  BY <1>2
<1>4. y = [pos |-> y.pos, target |-> y.target, base |-> y.base, after |-> y.after, sent |-> y.sent,
           privacy |-> y.privacy, rec |-> y.rec, removal |-> y.removal]
  BY <1>2, <1>3
<1>5. 0 \in 0 .. Now /\ 0 \in 0 .. 0 /\ <<0, 0>> \in Nat \X Nat
  BY LogFacts
<1>6. IsCursor(y)
  BY <1>3, <1>4, <1>5 DEF IsCursor
<1> QED
  BY <1>1, <1>6

(* The history read moves, and the consumer saves samples.                 *)
LEMMA HistoryMoves ==
  ASSUME ConsumerInv, log' = log, units' = units, \A u \in Units : KeepsSamples(u),
         receipt' = receipt, NEW y, streams' = [streams EXCEPT !.history = y],
         Cursors(streams.changes, y),
         Covers(Told(streams.changes, streams.history, receipt),
                Told(streams.changes, y, receipt), streams.changes.base),
         Covers(Told(streams.changes, streams.history, receipt),
                Told(streams.changes, y, receipt), streams.changes.target)
  PROVE  ConsumerInv'
<1>1. PICK c, h, T, S :
        /\ c = streams.changes /\ h = streams.history /\ T = Told(c, h, receipt)
        /\ S = Told(c, y, receipt')
  OBVIOUS
<1>2. /\ LogInv /\ StreamsAre /\ UnitsAre /\ Cursors(c, h) /\ KeptBy(c) /\ IsCursor(c)
      /\ Now' = Now /\ LogGrows
  <2>1. LogInv /\ StreamsAre /\ UnitsAre /\ Cursors(c, h) /\ KeptBy(c)
    BY <1>1 DEF ConsumerInv
  <2> QED
    BY <2>1, LogSame DEF Cursors
<1>3. StreamsAre' /\ c = streams'.changes /\ y = streams'.history
  BY <1>1, <1>2, StreamUpdate
<1>4. SamePlace(c, c)
  BY <1>2 DEF SamePlace, IsCursor
<1>5. Cursors(c, y)'
  <2>1. Cursors(c, y)
    BY <1>1
  <2> QED
    BY <1>2, <2>1 DEF Cursors, IsCursor, F
<1>6. Covers(T, S, c.base) /\ Covers(T, S, c.target)
  BY <1>1
<1>7. LeavesAll(c.target, T) /\ UnitsAre'
  BY <1>2 DEF LeavesAll, Leaves, UnitsAre
<1>8. RemovedBy(c)'
  BY <1>2, RemovedStays DEF KeptBy
<1>9. NoneIsLeft(c, c.privacy)
  BY <1>2, NothingToldTwice DEF NoneIsLeft
<1>10. c = streams.changes /\ h = streams.history /\ T = Told(c, h, receipt)
  BY <1>1
<1> QED
  BY <1>1, <1>3, <1>4, <1>5, <1>6, <1>7, <1>8, <1>9, <1>10, SamePlaceStep

(* A history read begins at the consumed source.                           *)
LEMMA OpenHistoryStep ==
  ASSUME ConsumerInv, OpenHistory
  PROVE  ConsumerInv'
<1>1. PICK c, h, T, y, S :
        /\ c = streams.changes /\ h = streams.history /\ T = Told(c, h, receipt)
        /\ y = Start(c.target, 0, "history", Receipt(c)) /\ S = Told(c, y, receipt)
  OBVIOUS
<1>2. /\ c.pos = "idle" /\ h.pos = "none" /\ streams' = [streams EXCEPT !.history = y]
      /\ log' = log /\ receipt' = receipt /\ units' = units /\ samples' = samples
  BY <1>1 DEF OpenHistory
<1>3. /\ LogInv /\ Cursors(c, h) /\ IsCursor(c) /\ h = None
  <2>1. LogInv /\ Cursors(c, h)
    BY <1>1 DEF ConsumerInv
  <2> QED
    BY <1>2, <2>1 DEF Cursors
<1>4. PICK t, q : t = c.target /\ q = Receipt(c)
  OBVIOUS
<1>5. /\ t \in 0 .. Now /\ t \in Nat /\ 0 \in 0 .. t /\ q \in 0 .. Now /\ receipt <= q
      /\ (q <= c.privacy \/ q <= receipt)
  <2>1. t \in 0 .. Now /\ c.privacy \in 0 .. Now /\ receipt \in 0 .. Now
    BY <1>3, <1>4 DEF Cursors, IsCursor
  <2> QED
    BY <1>3, <1>4, <2>1, LogFacts DEF Receipt, Larger
<1>6. /\ y.pos = "history" /\ y.target = t /\ y.base = 0 /\ y.privacy = q /\ y.rec = 0
      /\ IsCursor(y)
  <2>1. PICK b, pos : b = 0 /\ pos = "history"
    OBVIOUS
  <2>2. y = Start(t, b, pos, q) /\ b \in 0 .. t
    BY <1>1, <1>4, <1>5, <2>1
  <2>3. LogInv /\ t \in 0 .. Now /\ q \in 0 .. Now
    BY <1>3, <1>5
  <2>4. /\ y.pos = pos /\ y.target = t /\ y.base = b /\ y.privacy = q /\ y.rec = 0
        /\ IsCursor(y)
    BY <2>2, <2>3, StartIsCursor
  <2> QED
    BY <2>1, <2>4
<1>7. Cursors(c, y)
  BY <1>2, <1>3, <1>4, <1>5, <1>6 DEF Cursors
<1>8. Covers(T, S, c.base) /\ Covers(T, S, c.target)
  <2>1. T = {c.privacy, c.rec, 0, 0, receipt}
    BY <1>1, <1>3 DEF Told, None
  <2>2. c.privacy \in S /\ c.rec \in S /\ receipt \in S
    BY <1>1 DEF Told
  <2>3. \A k \in T : k \in Nat
    BY <1>1, <1>3, ToldIsKnown
  <2>4. \A k \in T : k = 0 \/ k \in S
    BY <2>1, <2>2
  <2>5. c.base \in Nat /\ c.target \in Nat
    BY <1>3 DEF IsCursor
  <2> QED
    BY <2>3, <2>4, <2>5 DEF Covers
<1>9. \A u \in Units : KeepsSamples(u)
  BY <1>2 DEF KeepsSamples
<1> QED
  BY <1>1, <1>2, <1>7, <1>8, <1>9, HistoryMoves

(* A page of it adds samples, and the last one ends it.                    *)
LEMMA HistoryPageStep ==
  ASSUME ConsumerInv, HistoryPage
  PROVE  ConsumerInv'
<1>1. PICK c, h, T, rest, p, y, S :
        /\ c = streams.changes /\ h = streams.history /\ T = Told(c, h, receipt)
        /\ rest = {q \in Known(h.target) : q > h.after} /\ p = Least(rest)
        /\ y = IF Cardinality(rest) <= 1 THEN None ELSE Move(h, "history", p)
        /\ S = Told(c, y, receipt)
  OBVIOUS
<1>2. /\ h.pos = "history" /\ h.rec = 0
      /\ IF rest # {} /\ Permitted(p, h.target) THEN Save(units, SamplesOf(p, h.target))
         ELSE UNCHANGED <<units, samples>>
      /\ streams' = [streams EXCEPT !.history = y]
      /\ log' = log /\ receipt' = receipt
  BY <1>1 DEF HistoryPage
<1>3. /\ LogInv /\ Cursors(c, h) /\ IsCursor(c) /\ IsCursor(h) /\ c.pos = "idle"
  <2>1. LogInv /\ Cursors(c, h)
    BY <1>1 DEF ConsumerInv
  <2> QED
    BY <1>2, <2>1 DEF Cursors
<1>4. CASE Cardinality(rest) <= 1
  <2>1. y = None
    BY <1>1, <1>4
  <2>2. Cursors(c, y)
    <3>1. IsCursor(y)
      BY <1>3, <2>1, NoneIsCursor
    <3> QED
      BY <1>3, <2>1, <3>1 DEF Cursors, None
  <2>3. Covers(T, S, c.base) /\ Covers(T, S, c.target)
    <3>1. T = {c.privacy, c.rec, h.privacy, 0, receipt}
      BY <1>1, <1>2 DEF Told
    <3>2. c.privacy \in S /\ c.rec \in S /\ receipt \in S
      BY <1>1 DEF Told
    <3>3. h.privacy <= c.privacy \/ h.privacy <= receipt
      BY <1>2, <1>3 DEF Cursors
    <3>4. \A k \in T : k \in Nat
      BY <1>1, <1>3, ToldIsKnown
    <3>5. c.base \in Nat /\ c.target \in Nat /\ c.privacy \in Nat /\ receipt \in Nat
      BY <1>3 DEF IsCursor, Cursors
    <3>6. \A k \in T : k = 0 \/ k = h.privacy \/ k \in S
      BY <3>1, <3>2
    <3> QED
      BY <3>2, <3>3, <3>4, <3>5, <3>6 DEF Covers
  <2> QED
    <3>1. units' = units /\ \A u \in Units : KeepsSamples(u)
      BY <1>2 DEF Save, KeepsSamples
    <3> QED
      BY <1>1, <1>2, <2>2, <2>3, <3>1, HistoryMoves
<1>5. CASE ~(Cardinality(rest) <= 1)
  <2>1. rest # {}
    BY <1>5, FS_EmptySet
  <2>2. p \in Nat
    <3>1. rest \in SUBSET Nat
      BY <1>1, ConsumerAssumption DEF Known
    <3> QED
      BY <1>1, <2>1, <3>1, LeastIs
  <2>3. /\ y.pos = "history" /\ y.target = h.target /\ y.base = h.base
        /\ y.privacy = h.privacy /\ y.rec = h.rec /\ IsCursor(y)
    <3>1. y = Move(h, "history", p)
      BY <1>1, <1>5
    <3> QED
      BY <1>3, <2>2, <3>1, MoveIs
  <2>4. Cursors(c, y)
    BY <1>2, <1>3, <2>3 DEF Cursors
  <2>5. Covers(T, S, c.base) /\ Covers(T, S, c.target)
    <3>1. S = T
      BY <1>1, <2>3 DEF Told
    <3>2. \A k \in T : k \in Nat
      BY <1>1, <1>3, ToldIsKnown
    <3> QED
      BY <3>1, <3>2 DEF Covers
  <2>6. units' = units /\ \A u \in Units : KeepsSamples(u)
    BY <1>2 DEF Save, KeepsSamples
  <2> QED
    BY <1>1, <1>2, <2>4, <2>5, <2>6, HistoryMoves
<1> QED
  BY <1>4, <1>5

-----------------------------------------------------------------------------
(* Pages.  The consumer reads at a cursor: the one it has, or the one with *)
(* which its poll begins a comparison.                                     *)

ReadingAt(c, T) ==
  /\ LogInv /\ StreamsAre /\ UnitsAre
  /\ streams.history = None /\ T = Told(c, None, receipt)
  /\ Cursors(c, None) /\ HeldBy(c, T) /\ KeptBy(c)
  /\ c.rec = 0 /\ c.pos # "idle" /\ ~MustReconcile(c)

(* What a page may assume of the cursor it reads at.                       *)
LEMMA ReadingFacts ==
  ASSUME NEW c, NEW T, ReadingAt(c, T)
  PROVE  /\ LogInv /\ IsCursor(c) /\ Answering(c, T) /\ T \in SUBSET (0 .. Now)
         /\ c.target \in 0 .. Now /\ c.base \in 0 .. Now /\ c.base <= c.target
         /\ c.target \in Nat /\ c.base \in Nat /\ c.privacy \in 0 .. Now /\ Now \in Nat
         /\ SampledTo(c) \in 0 .. Now
         /\ \A n \in Nat : Covers(T, T, n)
<1>1. LogInv /\ IsCursor(c) /\ Cursors(c, None) /\ T = Told(c, None, receipt)
  BY DEF ReadingAt, Cursors
<1>2. T \in SUBSET (0 .. Now) /\ SampledTo(c) \in 0 .. Now
  BY <1>1, ToldIsKnown
<1>3. /\ c.target \in 0 .. Now /\ c.base \in 0 .. c.target /\ c.privacy \in 0 .. Now
      /\ Now \in Nat /\ c.privacy \in Nat /\ receipt \in Nat /\ receipt <= c.privacy
  BY <1>1, LogFacts DEF IsCursor, Cursors, ReadingAt
<1>4. T = {c.privacy, 0, receipt}
  <2>1. None.privacy = 0 /\ None.rec = 0
    BY DEF None
  <2> QED
    BY <1>1, <2>1 DEF Told, ReadingAt
<1>5. Answering(c, T)
  BY <1>3, <1>4 DEF Answering, ReadingAt
<1>6. \A n \in Nat : Covers(T, T, n)
  BY <1>3, <1>4 DEF Covers
<1> QED
  BY <1>1, <1>2, <1>3, <1>5, <1>6

(* A consumer that was told more is excused as well.                       *)
LEMMA ExcusedGrows ==
  ASSUME NEW n \in Nat, NEW T, NEW S, Covers(T, S, n), NEW u, Excused(u, n, T)
  PROVE  Excused(u, n, S)
<1>1. PICK p \in DOMAIN Visible(u, n), k \in T : p \in Withdrawn(n, k, n)
  BY DEF Excused
<1>2. PICK i \in Observed(p, k) : i > n /\ ~log[i].content.open
  BY <1>1 DEF Withdrawn
<1>3. k \in Nat /\ i \in Nat /\ i <= k
  BY <1>1, <1>2 DEF Covers, Observed
<1>4. PICK l \in S : l \in Nat /\ k <= l
  BY <1>1, <1>2, <1>3 DEF Covers
<1>5. p \in Withdrawn(n, l, n)
  <2>1. n <= n
    OBVIOUS
  <2> QED
    BY <1>1, <1>3, <1>4, <2>1, WithdrawnGrows
<1> QED
  BY <1>1, <1>4, <1>5 DEF Excused

(* An idle cursor that begins a comparison.                                *)
LEMMA PollReads ==
  ASSUME ConsumerInv, Overlap = FALSE, NEW c, c = Sequence(streams.changes), Answer(c)
  PROVE  /\ ReadingAt(c, Told(c, None, receipt))
         /\ streams.changes.pos # "idle" => c = streams.changes
         /\ streams.changes.pos = "idle" =>
              c = Start(Now, streams.changes.target, "content", Receipt(streams.changes))
<1>1. PICK o, h, T, S :
        /\ o = streams.changes /\ h = streams.history
        /\ T = Told(o, None, receipt) /\ S = Told(c, None, receipt)
  OBVIOUS
<1>2. /\ LogInv /\ StreamsAre /\ UnitsAre /\ Cursors(o, h) /\ KeptBy(o) /\ IsCursor(o)
      /\ o.rec = 0 /\ (o.pos = "idle" => h.pos = "none") /\ ~MustReconcile(c)
      /\ HeldBy(o, Told(o, h, receipt))
  BY <1>1 DEF ConsumerInv, Answer, Cursors
<1>3. h = None
  BY <1>2 DEF Cursors
<1>4. HeldBy(o, T) /\ Cursors(o, None) /\ T \in SUBSET (0 .. Now)
  BY <1>1, <1>2, <1>3, ToldIsKnown
<1>5. CASE o.pos # "idle"
  <2>1. c = o
    BY <1>1, <1>5 DEF Sequence
  <2> QED
    BY <1>1, <1>2, <1>3, <1>4, <1>5, <2>1 DEF ReadingAt
<1>6. CASE o.pos = "idle"
  <2>1. c = Start(Now, o.target, "content", Receipt(o))
    BY <1>1, <1>6 DEF Sequence
  <2>2. PICK t, b, q, pos : t = Now /\ b = o.target /\ q = Receipt(o) /\ pos = "content"
    OBVIOUS
  <2>3. /\ t \in 0 .. Now /\ b \in 0 .. t /\ q \in 0 .. Now /\ t \in Nat /\ b \in Nat /\ b <= t
        /\ o.privacy \in Nat /\ receipt \in Nat /\ o.privacy <= q /\ receipt <= q /\ b # 0
        /\ q \in Nat /\ b \in 0 .. Now
    <3>1. o.target \in 0 .. Now /\ o.privacy \in 0 .. Now /\ receipt \in 0 .. Now /\ o.target # 0
      BY <1>2 DEF Cursors, IsCursor
    <3> QED
      BY <1>2, <2>2, <3>1, LogFacts DEF Receipt, Larger
  <2>4. /\ c.pos = pos /\ c.target = t /\ c.base = b /\ c.after = 0 /\ c.privacy = q
        /\ c.rec = 0 /\ c.removal = <<0, 0>> /\ IsCursor(c)
    <3>1. c = Start(t, b, pos, q)
      BY <2>1, <2>2
    <3> QED
      BY <1>2, <2>3, <3>1, StartIsCursor
  <2>5. Cursors(c, None)
    <3>1. IsCursor(None) /\ None.pos = "none"
      BY <1>2, <1>3, <1>4 DEF Cursors, None
    <3>2. receipt \in 0 .. Now
      BY <1>2 DEF Cursors
    <3> QED
      BY <2>2, <2>3, <2>4, <3>1, <3>2 DEF Cursors
  <2>6. Covers(T, S, b)
    <3>1. T = {o.privacy, 0, receipt} /\ q \in S
      BY <1>1, <1>2, <2>4 DEF Told, None
    <3> QED
      BY <2>3, <3>1 DEF Covers
  <2>7. HeldBy(c, S)
    <3>1. ASSUME NEW u \in Units
          PROVE  Holds(u, b, b, S)
      <4>1. Holds(u, b, b, T)
        BY <1>4, <1>6, <2>2 DEF HeldBy, Done, SampledTo
      <4>2. Excused(u, b, T) => Excused(u, b, S)
        BY <2>3, <2>6, ExcusedGrows
      <4> QED
        BY <4>1, <4>2 DEF Holds, HoldsWith
    <3>2. \A u \in Units : ~(u <= 0)
      BY ConsumerAssumption
    <3>3. \A u \in Units : ~Done(c, u)
      BY <2>2, <2>4, <3>2 DEF Done
    <3> QED
      BY <2>2, <2>4, <3>1, <3>3 DEF HeldBy
  <2>8. KeptBy(c)
    <3>1. \A u \in Units : DOMAIN units[u] \subseteq Known(t)
      <4>1. Known(b) \subseteq Known(t)
        BY <2>3, KnownGrows
      <4> QED
        BY <1>2, <2>2, <4>1 DEF KeptBy
    <3>2. \A u \in Units : ~(u <= 0)
      BY ConsumerAssumption
    <3>3. \A u \in Units : ~Processed(c, u)
      BY <2>2, <2>4, <3>2 DEF Processed
    <3> QED
      BY <2>4, <3>1, <3>3 DEF KeptBy, KeptOf, RemovedBy
  <2> QED
    BY <1>1, <1>2, <1>3, <1>6, <2>1, <2>2, <2>4, <2>5, <2>7, <2>8 DEF ReadingAt
<1> QED
  BY <1>5, <1>6

(* What the consumer holds of a unit after a page, if it is to hold it, is *)
(* open.                                                                   *)
OpenIn(c, u) ==
  c.base = 0 \/ Before(c, u) # Nothing => \A p \in DOMAIN units'[u] : Open(p, Now)

(* The page of the boundary.                                               *)
LEMMA BoundaryStep ==
  ASSUME ConsumerInv, Overlap = FALSE, BoundaryPage
  PROVE  ConsumerInv' /\ streams'.changes.pos # "idle"
<1>1. PICK c, d, T :
        /\ c = Sequence(streams.changes) /\ d = [c EXCEPT !.sent = TRUE]
        /\ T = Told(c, None, receipt)
  OBVIOUS
<1>2. Answer(c) /\ Reply(d) /\ units' = units /\ samples' = samples
  BY <1>1 DEF BoundaryPage
<1>3. ReadingAt(c, T)
  BY <1>1, <1>2, PollReads
<1>4. /\ LogInv /\ IsCursor(c) /\ Cursors(c, None) /\ HeldBy(c, T) /\ KeptBy(c) /\ StreamsAre
      /\ streams.history = None /\ T \in SUBSET (0 .. Now) /\ UnitsAre
      /\ Covers(T, T, c.base) /\ Covers(T, T, c.target)
  BY <1>3, ReadingFacts DEF ReadingAt
<1>5. streams' = [streams EXCEPT !.changes = d] /\ log' = log /\ receipt' = receipt
  BY <1>2 DEF Reply
<1>6. StreamsAre' /\ streams'.changes = d /\ streams'.history = None
  BY <1>4, <1>5, StreamUpdate
<1>7. /\ d.pos = c.pos /\ d.target = c.target /\ d.base = c.base /\ d.after = c.after
      /\ d.privacy = c.privacy /\ d.rec = c.rec /\ d.removal = c.removal /\ IsCursor(d)
  <2>1. c = [pos |-> c.pos, target |-> c.target, base |-> c.base, after |-> c.after,
             sent |-> c.sent, privacy |-> c.privacy, rec |-> c.rec, removal |-> c.removal]
    BY <1>4 DEF IsCursor
  <2>2. d = [pos |-> c.pos, target |-> c.target, base |-> c.base, after |-> c.after,
             sent |-> TRUE, privacy |-> c.privacy, rec |-> c.rec, removal |-> c.removal]
    BY <1>1, <2>1
  <2>3. /\ d.pos = c.pos /\ d.target = c.target /\ d.base = c.base /\ d.after = c.after
        /\ d.privacy = c.privacy /\ d.rec = c.rec /\ d.removal = c.removal
    BY <2>2
  <2>4. d.sent \in BOOLEAN
    BY <2>2
  <2>5. d = [pos |-> d.pos, target |-> d.target, base |-> d.base, after |-> d.after,
             sent |-> d.sent, privacy |-> d.privacy, rec |-> d.rec, removal |-> d.removal]
    BY <2>2
  <2> QED
    BY <1>4, <2>3, <2>4, <2>5 DEF IsCursor
<1>8. SamePlace(c, d)
  BY <1>4, <1>7 DEF SamePlace, IsCursor
<1>9. LogGrows /\ Now' = Now
  BY <1>4, <1>5, LogSame
<1>10. Cursors(d, None)'
  <2>1. d.pos # "idle"
    BY <1>3, <1>7 DEF ReadingAt
  <2>2. IsCursor(d)' /\ IsCursor(None)' /\ receipt' \in 0 .. Now'
    BY <1>4, <1>5, <1>7, <1>9 DEF Cursors, IsCursor
  <2> QED
    BY <1>4, <1>5, <1>7, <1>9, <2>1, <2>2 DEF Cursors, F
<1>11. LeavesAll(c.target, T) /\ UnitsAre' /\ \A u \in Units : DOMAIN units'[u] \subseteq DOMAIN units[u]
  BY <1>2, <1>4 DEF LeavesAll, Leaves, KeepsSamples, UnitsAre
<1>12. NoneIsLeft(c, d.privacy)
  BY <1>4, <1>7, NothingToldTwice DEF NoneIsLeft
<1>13. RemovedBy(d)'
  BY <1>3, <1>7 DEF RemovedBy, ReadingAt
<1>14. T = Told(d, None, receipt')
  BY <1>1, <1>5, <1>7 DEF Told
<1>15. ConsumerInv'
  BY <1>1, <1>4, <1>5, <1>6, <1>8, <1>10, <1>11, <1>12, <1>13, <1>14, SamePlaceFrom
<1> QED
  BY <1>3, <1>6, <1>7, <1>15 DEF ReadingAt

(* Other pages: the cursor moves on in the same comparison.                *)
LEMMA PageKeeps ==
  ASSUME NEW c, NEW T, ReadingAt(c, T), log' = log, NEW d, SameSources(c, d), d.rec = 0,
         \A u \in Units : DOMAIN units'[u] \subseteq Known(c.target),
         \A u \in Units : Processed(d, u) => OpenIn(c, u)
  PROVE  KeptBy(d)'
<1>1. LogInv /\ IsCursor(c) /\ LogGrows /\ Now' = Now /\ c.target \in 0 .. Now
  BY ReadingFacts, LogSame DEF ReadingAt
<1>2. \A u \in Units : DOMAIN units'[u] \subseteq Known(d.target)'
  <2>1. Known(c.target)' = Known(c.target) /\ d.target = c.target
    BY <1>1, ObservedStays DEF SameSources
  <2> QED
    BY <2>1
<1>3. ASSUME NEW u \in Units, Processed(d, u), d.base = 0 \/ (Before(d, u) # Nothing)',
             NEW p \in DOMAIN units'[u]
      PROVE  Open(p, Now)'
  <2>1. c.base = 0 \/ Before(c, u) # Nothing
    BY <1>1, <1>3, BeforeStays DEF SameSources
  <2>2. Open(p, Now)
    BY <1>3, <2>1 DEF OpenIn
  <2>3. Open(p, Now)' = Open(p, Now)
    BY <1>1 DEF Open, Latest, Observed
  <2> QED
    BY <2>2, <2>3
<1>4. \A u \in Units : KeptOf(d, u)'
  BY <1>3 DEF KeptOf, Processed
<1>5. RemovedBy(d)'
  BY DEF RemovedBy
<1> QED
  BY <1>2, <1>4, <1>5 DEF KeptBy

(* A page that restores the parts of the invariant.                        *)
LEMMA PageArrives ==
  ASSUME NEW c, NEW T, ReadingAt(c, T), NEW d, Reply(d), NEW S, S = Told(d, None, receipt),
         UnitsAre', Cursors(d, None), HeldBy(d, S)', KeptBy(d)'
  PROVE  ConsumerInv' /\ streams'.changes = d
<1>1. /\ streams' = [streams EXCEPT !.changes = d] /\ log' = log /\ receipt' = receipt
      /\ LogInv /\ StreamsAre /\ streams.history = None
  BY DEF Reply, ReadingAt
<1>2. StreamsAre' /\ streams'.changes = d /\ streams'.history = None
  BY <1>1, StreamUpdate
<1>3. LogInv' /\ Now' = Now
  BY <1>1, LogSame
<1>4. Cursors(d, None)'
  BY <1>1, <1>3 DEF Cursors, IsCursor, F
<1>5. S = Told(d, None, receipt')
  BY <1>1
<1>6. HeldBy(streams.changes, Told(streams.changes, streams.history, receipt))'
  BY <1>2, <1>5
<1>7. KeptBy(streams.changes)' /\ Cursors(streams.changes, streams.history)'
  BY <1>2, <1>4
<1> QED
  BY <1>2, <1>3, <1>6, <1>7 DEF ConsumerInv

(* The cursor after the last page of a comparison.                         *)
LEMMA ToIdleArrives ==
  ASSUME NEW c, NEW T, ReadingAt(c, T), NEW d, d = ToIdle(c),
         NEW S, S = Told(d, None, receipt)
  PROVE  /\ d.pos = "idle" /\ d.target = c.target /\ d.base = 0 /\ d.rec = 0
         /\ Cursors(d, None) /\ Covers(T, S, c.target)
         /\ (\A u \in Units : Holds(u, c.target, c.target, S)') => HeldBy(d, S)'
         /\ (log' = log /\ \A u \in Units : DOMAIN units'[u] \subseteq Known(c.target)) => KeptBy(d)'
<1>1. PICK t, b, q, pos : /\ t = c.target /\ b = 0 /\ q = (IF c.privacy <= c.target THEN 0 ELSE c.privacy)
                          /\ pos = "idle"
  OBVIOUS
<1>2. /\ LogInv /\ IsCursor(c) /\ t \in 0 .. Now /\ t \in Nat /\ b \in 0 .. t /\ q \in 0 .. Now
      /\ c.privacy \in 0 .. Now /\ Now \in Nat /\ c.privacy \in Nat
      /\ (q = 0 \/ q > t) /\ (c.privacy <= t \/ q = c.privacy) /\ q \in Nat
  <2>1. LogInv /\ IsCursor(c) /\ t \in 0 .. Now /\ t \in Nat /\ c.privacy \in 0 .. Now /\ Now \in Nat
    BY <1>1, ReadingFacts
  <2> QED
    BY <1>1, <2>1
<1>3. d = Start(t, b, pos, q)
  BY <1>1 DEF ToIdle
<1>4. /\ d.pos = pos /\ d.target = t /\ d.base = b /\ d.after = 0 /\ d.privacy = q
      /\ d.rec = 0 /\ IsCursor(d)
  <2>1. LogInv /\ t \in 0 .. Now /\ b \in 0 .. t /\ q \in 0 .. Now
    BY <1>2
  <2> QED
    BY <1>3, <2>1, StartIsCursor
<1>5. Cursors(d, None)
  <2>1. IsCursor(None) /\ receipt \in 0 .. Now /\ c.target # 0
    BY DEF ReadingAt, Cursors
  <2>2. d = Start(d.target, 0, "idle", d.privacy)
    BY <1>1, <1>3, <1>4
  <2>3. None.pos = "none"
    BY DEF None
  <2> QED
    BY <1>1, <1>2, <1>4, <2>1, <2>2, <2>3 DEF Cursors
<1>6. Covers(T, S, t)
  <2>1. T = {c.privacy, 0, receipt} /\ q \in S /\ receipt \in S
    BY <1>4 DEF Told, None, ReadingAt
  <2>2. receipt \in Nat
    BY DEF ReadingAt, Cursors
  <2> QED
    BY <1>2, <2>1, <2>2 DEF Covers
<1>7. ASSUME \A u \in Units : Holds(u, t, t, S)'
      PROVE  HeldBy(d, S)'
  <2>1. SampledTo(d)' = t
    BY <1>1, <1>4 DEF SampledTo
  <2> QED
    BY <1>1, <1>4, <1>7, <2>1 DEF HeldBy
<1>8. ASSUME log' = log, \A u \in Units : DOMAIN units'[u] \subseteq Known(t)
      PROVE  KeptBy(d)'
  <2>1. Known(t)' = Known(t)
    BY <1>2, <1>8, LogSame, ObservedStays
  <2>2. \A u \in Units : ~Processed(d, u)'
    BY <1>1, <1>4 DEF Processed
  <2> QED
    BY <1>4, <1>8, <2>1, <2>2 DEF KeptBy, KeptOf, RemovedBy
<1> QED
  BY <1>1, <1>4, <1>5, <1>6, <1>7, <1>8

-----------------------------------------------------------------------------
(* A page of units.                                                        *)

(* A unit before the page, or one that the comparison does not visit.      *)
LEMMA PassedUnit ==
  ASSUME NEW c, NEW T, ReadingAt(c, T), c.pos \in {"bootstrap", "content"},
         NEW v \in Units, v <= c.after \/ v \notin Candidates(c)
  PROVE  /\ Holds(v, c.target, SampledTo(c), T)
         /\ c.base = 0 \/ Before(c, v) # Nothing => \A p \in DOMAIN units[v] : Open(p, Now)
<1>1. PICK b, t, m : b = c.base /\ t = c.target /\ m = SampledTo(c)
  OBVIOUS
<1>2. /\ LogInv /\ Answering(c, T) /\ t \in 0 .. Now /\ b \in 0 .. Now /\ v \in Nat /\ c.after \in Nat
  BY <1>1, ReadingFacts, ConsumerAssumption DEF IsCursor
<1>3. CASE v <= c.after
  <2>1. Holds(v, t, m, T)
    BY <1>1, <1>3 DEF ReadingAt, HeldBy, Done
  <2>2. Withdrawn(Baseline(c), Now, c.target) = {}
    BY DEF ReadingAt, MustReconcile
  <2>3. KeptOf(c, v) /\ Processed(c, v)
    BY <1>3 DEF ReadingAt, KeptBy, Processed
  <2> QED
    BY <1>1, <2>1, <2>2, <2>3 DEF KeptOf
<1>4. CASE v > c.after /\ v \notin Candidates(c) /\ c.pos = "bootstrap"
  <2>1. units[v] = Nothing /\ c.base = 0
    BY <1>4 DEF ReadingAt, HeldBy, Cursors
  <2>2. v \notin BootstrapUnits(t)
    BY <1>1, <1>4, <2>1 DEF Candidates
  <2>3. ASSUME Visible(v, t) # Nothing
        PROVE  FALSE
    <3>1. DOMAIN Visible(v, t) # {} /\ \A p \in DOMAIN Visible(v, t) : p \in Known(t) /\ v \in UnitsOf(p, t)
      BY <1>2, <2>3, VisibleIs
    <3> QED
      BY <2>2, <3>1 DEF BootstrapUnits
  <2>4. DOMAIN units[v] = {}
    BY <2>1 DEF Nothing
  <2> QED
    BY <1>1, <2>3, <2>4 DEF Holds, HoldsWith
<1>5. CASE v > c.after /\ v \notin Candidates(c) /\ c.pos = "content"
  <2>1. c.base # 0 /\ Holds(v, b, b, T) /\ m = b
    BY <1>1, <1>5 DEF ReadingAt, HeldBy, Cursors, SampledTo
  <2>2. Visible(v, b) # Nothing =>
          /\ Visible(v, t) = Visible(v, b)
          /\ \A p \in DOMAIN Visible(v, b) : Open(p, Now) \/ p \in Reconciled(c)
          /\ Excused(v, b, T) => Excused(v, t, T)
    BY <1>1, <1>2, <1>5, <2>1, SkippedIsExcused
  <2>3. Visible(v, b) = Nothing => Visible(v, t) = Nothing
    <3>1. v \notin Affected(b, t)
      BY <1>1, <1>5, <2>1 DEF Candidates
    <3>2. b <= t
      BY <1>1, ReadingFacts
    <3> QED
      BY <1>2, <3>1, <3>2, Unaffected
  <2>4. Holds(v, t, m, T)
    BY <2>1, <2>2, <2>3 DEF Holds, HoldsWith
  <2>5. ASSUME Before(c, v) # Nothing, NEW p \in DOMAIN units[v]
        PROVE  Open(p, Now)
    <3>1. /\ Visible(v, b) # Nothing /\ ~Excused(v, b, T)
          /\ \A x \in DOMAIN Visible(v, b) : x \notin Reconciled(c)
      BY <1>1, <1>2, <2>5, BeforeIsUnexcused
    <3>2. units[v] = Visible(v, b)
      BY <2>1, <3>1 DEF Holds, HoldsWith
    <3> QED
      BY <2>2, <2>5, <3>1, <3>2
  <2> QED
    BY <1>1, <2>1, <2>4, <2>5
<1> QED
  BY <1>2, <1>3, <1>4, <1>5

(* The unit of the page.                                                   *)
ShowsUnit(c, u) ==
  \/ Publishable(u, c.target) = Before(c, u) /\ units'[u] = units[u]
  \/ Publishable(u, c.target) # Before(c, u) /\ units'[u] = Publishable(u, c.target)

(* A page shows open posts only.                                           *)
LEMMA PublishableIs ==
  ASSUME LogInv, NEW n \in 0 .. Now, NEW u
  PROVE  /\ \A p \in DOMAIN Publishable(u, n) : Open(p, Now) /\ p \in Known(n)
         /\ Publishable(u, n) # Nothing => Publishable(u, n) = Visible(u, n)
<1>1. DOMAIN Nothing = {}
  BY DEF Nothing
<1>2. Visible(u, n) # Nothing => \A p \in DOMAIN Visible(u, n) : p \in Known(n)
  BY VisibleIs
<1> QED
  BY <1>1, <1>2 DEF Publishable

(* It is held at the new source, without the samples of its new posts.     *)
LEMMA ShownUnit ==
  ASSUME NEW c, NEW T, ReadingAt(c, T), c.pos \in {"bootstrap", "content"}, log' = log,
         NEW u \in Units, u > c.after, ShowsUnit(c, u), KeepsSamples(u)
  PROVE  /\ OpenIn(c, u) /\ DOMAIN units'[u] \subseteq Known(c.target)
         /\ c.pos = "content" =>
              HoldsWith(u, c.target, c.base,
                        DOMAIN Visible(u, c.target) \intersect DOMAIN Before(c, u), T)'
         /\ c.pos = "bootstrap" \/ NewlyVisible(c, u) = {} => Holds(u, c.target, SampledTo(c), T)'
<1>1. PICK b, t, new, old : /\ b = c.base /\ t = c.target
                            /\ new = Publishable(u, t) /\ old = Before(c, u)
  OBVIOUS
<1>2. /\ LogInv /\ LogGrows /\ Answering(c, T) /\ t \in 0 .. Now /\ b \in 0 .. Now /\ b <= t
      /\ T \in SUBSET (0 .. Now) /\ Covers(T, T, t) /\ t \in Nat /\ b \in Nat
  BY <1>1, ReadingFacts, LogSame
<1>3. /\ Visible(u, t)' = Visible(u, t) /\ Visible(u, b)' = Visible(u, b) /\ F' = F
      /\ (Excused(u, t, T) => Excused(u, t, T)')
      /\ \A p, n : SamplesOf(p, n)' = SamplesOf(p, n)
  <2>1. Visible(u, t)' = Visible(u, t) /\ Visible(u, b)' = Visible(u, b)
    BY <1>2, VisibleStays
  <2>2. Excused(u, t, T) => Excused(u, t, T)'
    BY <1>2, ExcusedStays
  <2>3. \A p, n : SamplesOf(p, n)' = SamplesOf(p, n)
    BY DEF SamplesOf, Observed
  <2> QED
    BY <2>1, <2>2, <2>3 DEF F
<1>4. /\ \A p \in DOMAIN new : Open(p, Now) /\ p \in Known(t)
      /\ Visible(u, t) # Nothing /\ ~Excused(u, t, T) => new = Visible(u, t)
  BY <1>1, <1>2, PublishableIs, ShownIsOpen
<1>5. ASSUME c.pos = "content", old # Nothing
      PROVE  /\ units[u] = old /\ old = Visible(u, b)
             /\ \A p \in DOMAIN old : Sampled(p, b)
  <2>1. old = Visible(u, b) /\ Visible(u, b) # Nothing /\ ~Excused(u, b, T)
    BY <1>1, <1>2, <1>5, BeforeIsUnexcused
  <2>2. Holds(u, b, b, T)
    BY <1>1, <1>5 DEF ReadingAt, HeldBy
  <2> QED
    BY <2>1, <2>2 DEF Holds, HoldsWith
<1>6. ASSUME c.pos = "bootstrap"
      PROVE  units[u] = Nothing /\ old = Nothing /\ b = 0 /\ t = F /\ SampledTo(c) = t
  BY <1>1, <1>6 DEF ReadingAt, HeldBy, Before, Cursors, SampledTo
<1>7. DOMAIN Nothing = {}
  BY DEF Nothing
<1>8. units'[u] = new \/ (units'[u] = units[u] /\ old = new)
  BY <1>1 DEF ShowsUnit
<1>9. OpenIn(c, u)
  <2>1. ASSUME b = 0 \/ old # Nothing
        PROVE  units'[u] = new
    <3>1. CASE c.pos = "bootstrap"
      BY <1>6, <1>8, <3>1
    <3>2. CASE c.pos = "content"
      <4>1. b # 0
        BY <1>1, <3>2 DEF ReadingAt, Cursors
      <4> QED
        BY <1>5, <1>8, <2>1, <3>2, <4>1
    <3> QED
      BY <3>1, <3>2
  <2> QED
    BY <1>1, <1>4, <2>1 DEF OpenIn
<1>10. DOMAIN units'[u] \subseteq Known(t)
  <2>1. DOMAIN units[u] \subseteq Known(t)
    BY <1>1 DEF ReadingAt, KeptBy
  <2> QED
    BY <1>4, <1>8, <2>1
<1>11. ASSUME Visible(u, t) # Nothing, ~Excused(u, t, T)
       PROVE  new = Visible(u, t) /\ units'[u] = Visible(u, t)
  <2>1. new = Visible(u, t)
    BY <1>4, <1>11
  <2>2. CASE old = new
    <3>1. c.pos = "content"
      BY <1>6, <1>11, <2>1, <2>2
    <3> QED
      BY <1>5, <1>8, <1>11, <2>1, <2>2, <3>1
  <2>3. CASE old # new
    BY <1>8, <2>1, <2>3
  <2> QED
    BY <2>1, <2>2, <2>3
<1>12. ASSUME c.pos = "content", NEW p \in DOMAIN old, p \in DOMAIN units'[u]
       PROVE  Sampled(p, b)'
  <2>1. old # Nothing
    BY <1>7, <1>12
  <2>2. Sampled(p, b)
    BY <1>5, <1>12, <2>1
  <2>3. \A i \in SamplesOf(p, b) : log[i].post = p
    BY DEF SamplesOf, Observed
  <2> QED
    BY <1>3, <1>12, <2>2, <2>3 DEF Sampled, KeepsSamples
<1>13. ASSUME c.pos = "content"
       PROVE  HoldsWith(u, t, b, DOMAIN Visible(u, t) \intersect DOMAIN old, T)'
  <2>1. PICK P : P = DOMAIN Visible(u, t) \intersect DOMAIN old
    OBVIOUS
  <2>2. HoldsWith(u, t, b, P, T)'
    <3>1. CASE Visible(u, t) = Nothing
      BY <1>3, <3>1 DEF HoldsWith
    <3>2. CASE Excused(u, t, T)
      BY <1>3, <3>2 DEF HoldsWith
    <3>3. CASE Visible(u, t) # Nothing /\ ~Excused(u, t, T)
      <4>1. units'[u] = Visible(u, t)
        BY <1>11, <3>3
      <4>2. \A p \in P : Sampled(p, b)'
        BY <1>12, <1>13, <2>1, <4>1
      <4> QED
        BY <1>3, <4>1, <4>2 DEF HoldsWith
    <3> QED
      BY <3>1, <3>2, <3>3
  <2>3. (DOMAIN Visible(u, t) \intersect DOMAIN old)' = P
    BY <1>3, <2>1
  <2> QED
    BY <2>2, <2>3
<1>14. ASSUME c.pos = "content", NewlyVisible(c, u) = {}
       PROVE  Holds(u, t, b, T)'
  <2>1. CASE Visible(u, t) = Nothing
    BY <1>3, <2>1 DEF Holds, HoldsWith
  <2>2. CASE Excused(u, t, T)
    BY <1>3, <2>2 DEF Holds, HoldsWith
  <2>3. CASE Visible(u, t) # Nothing /\ ~Excused(u, t, T)
    <3>1. units'[u] = Visible(u, t) /\ new = Visible(u, t)
      BY <1>11, <2>3
    <3>2. DOMAIN new \subseteq DOMAIN old
      BY <1>1, <1>14 DEF NewlyVisible
    <3>3. \A p \in DOMAIN Visible(u, t) : Sampled(p, b)'
      BY <1>12, <1>14, <3>1, <3>2
    <3> QED
      BY <1>3, <3>1, <3>3 DEF Holds, HoldsWith
  <2> QED
    BY <2>1, <2>2, <2>3
<1>15. ASSUME c.pos = "bootstrap"
       PROVE  Holds(u, t, t, T)'
  <2>1. \A p : Sampled(p, t)'
    <3>1. \A p : \A i \in SamplesOf(p, t) : i \in Nat /\ i <= t
      BY <1>2 DEF SamplesOf, Observed
    <3>2. F \in Nat /\ t = F
      BY <1>2, <1>6, <1>15, LogFacts
    <3>3. \A p : \A i \in SamplesOf(p, t) : ~(i > F)
      BY <3>1, <3>2
    <3> QED
      BY <1>3, <3>3 DEF Sampled
  <2>2. CASE Visible(u, t) = Nothing
    BY <1>3, <2>2 DEF Holds, HoldsWith
  <2>3. CASE Excused(u, t, T)
    BY <1>3, <2>3 DEF Holds, HoldsWith
  <2>4. CASE Visible(u, t) # Nothing /\ ~Excused(u, t, T)
    BY <1>3, <1>11, <2>1, <2>4 DEF Holds, HoldsWith
  <2> QED
    BY <2>2, <2>3, <2>4
<1>16. c.pos = "content" => SampledTo(c) = b
  BY <1>1 DEF SampledTo
<1>17. c.pos = "bootstrap" \/ NewlyVisible(c, u) = {} => Holds(u, c.target, SampledTo(c), T)'
  <2>1. ASSUME c.pos = "bootstrap"
        PROVE  Holds(u, c.target, SampledTo(c), T)'
    <3>1. SampledTo(c)' = t
      BY <1>6, <2>1 DEF SampledTo
    <3> QED
      BY <1>1, <1>15, <2>1, <3>1
  <2>2. ASSUME c.pos = "content", NewlyVisible(c, u) = {}
        PROVE  Holds(u, c.target, SampledTo(c), T)'
    <3>1. SampledTo(c)' = b
      BY <1>1, <2>2 DEF SampledTo
    <3> QED
      BY <1>1, <1>14, <2>2, <3>1
  <2> QED
    BY <2>1, <2>2
<1>18. (DOMAIN Before(c, u))' = DOMAIN old
  <2>1. Withdrawn(b, c.privacy, t)' = Withdrawn(b, c.privacy, t)
    BY DEF Withdrawn, Known, Observed
  <2>2. Before(c, u)' = old
    BY <1>1, <1>3, <2>1 DEF Before, Reconciled
  <2> QED
    BY <2>2
<1>19. c.pos = "content" =>
         HoldsWith(u, c.target, c.base,
                   DOMAIN Visible(u, c.target) \intersect DOMAIN Before(c, u), T)'
  BY <1>1, <1>13, <1>18
<1> QED
  BY <1>1, <1>9, <1>10, <1>17, <1>19

(* A page does not change what excuses a consumer.                         *)
LEMMA ExcusedSame ==
  ASSUME LogInv, log' = log, NEW n \in 0 .. Now, NEW u, NEW T
  PROVE  Excused(u, n, T)' <=> Excused(u, n, T)
<1>1. Visible(u, n)' = Visible(u, n)
  BY LogSame, VisibleStays
<1>2. \A k : Withdrawn(n, k, n)' = Withdrawn(n, k, n)
  BY DEF Withdrawn, Known, Observed
<1> QED
  BY <1>1, <1>2 DEF Excused

(* A unit that is held is held by a consumer that was told more.           *)
LEMMA HoldsGrows ==
  ASSUME LogInv, log' = log, NEW n \in 0 .. Now, NEW m, NEW u, NEW T, NEW S, Covers(T, S, n),
         Holds(u, n, m, T)'
  PROVE  Holds(u, n, m, S)'
<1>1. n \in Nat
  BY LogFacts
<1>2. Excused(u, n, T) => Excused(u, n, S)
  BY <1>1, ExcusedGrows
<1>3. Excused(u, n, T)' => Excused(u, n, S)'
  BY <1>2, ExcusedSame
<1> QED
  BY <1>3 DEF Holds, HoldsWith

(* A unit that the page does not touch.                                    *)
LEMMA CarriedUnit ==
  ASSUME LogInv, log' = log, NEW n \in 0 .. Now, NEW m \in 0 .. Now, NEW u,
         NEW T \in SUBSET (0 .. Now), Covers(T, T, n),
         units'[u] = units[u], KeepsSamples(u), Holds(u, n, m, T)
  PROVE  Holds(u, n, m, T)'
<1>1. LogGrows /\ n <= n /\ Leaves(u, n, T)
  BY LogSame, LogFacts DEF Leaves
<1>2. PICK P : P = DOMAIN Visible(u, n)
  OBVIOUS
<1>3. HoldsWith(u, n, m, P, T)
  BY <1>2 DEF Holds
<1>4. HoldsWith(u, n, m, P, T)'
  BY <1>1, <1>2, <1>3, HoldsStays
<1>5. Visible(u, n)' = Visible(u, n)
  BY <1>1, VisibleStays
<1> QED
  BY <1>2, <1>4, <1>5 DEF Holds

(* The last page of the units.                                             *)
LEMMA AfterUnitsStep ==
  ASSUME NEW c, NEW T, ReadingAt(c, T), c.pos \in {"bootstrap", "content"},
         Reply(AfterUnits(c)), UnitsAre',
         NEW m, m = SampledTo(c), \A v \in Units : Holds(v, c.target, m, T)',
         \A v \in Units : OpenIn(c, v),
         \A v \in Units : DOMAIN units'[v] \subseteq Known(c.target)
  PROVE  ConsumerInv'
<1>1. PICK d, t, b, S : /\ d = AfterUnits(c) /\ t = c.target /\ b = c.base
                        /\ S = Told(d, None, receipt)
  OBVIOUS
<1>2. /\ LogInv /\ log' = log /\ IsCursor(c) /\ t \in 0 .. Now /\ t \in Nat /\ b \in Nat /\ b <= t
      /\ c.privacy \in 0 .. Now /\ c.privacy <= c.privacy
  BY <1>1, ReadingFacts DEF Reply
<1>3. CASE c.pos = "bootstrap" \/ b = t
  <2>1. d = ToIdle(c) /\ m = t
    BY <1>1, <1>3 DEF AfterUnits, SampledTo
  <2>2. /\ Cursors(d, None) /\ Covers(T, S, t)
        /\ (\A u \in Units : Holds(u, t, t, S)') => HeldBy(d, S)'
        /\ KeptBy(d)'
    BY <1>1, <1>2, <2>1, ToIdleArrives
  <2>3. \A u \in Units : Holds(u, t, t, S)'
    <3> SUFFICES ASSUME NEW u \in Units
                 PROVE  Holds(u, t, t, S)'
      OBVIOUS
    <3>1. Holds(u, t, t, T)'
      BY <1>1, <2>1
    <3> QED
      BY <1>2, <2>2, <3>1, HoldsGrows
  <2> QED
    BY <1>1, <2>2, <2>3, PageArrives
<1>4. CASE c.pos = "content" /\ b # t
  <2>1. d = Move(c, "observations", b) /\ m = b
    BY <1>1, <1>4 DEF AfterUnits, SampledTo
  <2>2. /\ d.pos = "observations" /\ d.target = t /\ d.base = b /\ d.after = b
        /\ d.privacy = c.privacy /\ d.rec = c.rec /\ IsCursor(d)
    BY <1>1, <1>2, <2>1, MoveIs
  <2>3. Cursors(d, None)
    BY <1>1, <1>2, <1>4, <2>2 DEF ReadingAt, Cursors
  <2>4. S = T
    BY <1>1, <2>2 DEF Told, ReadingAt
  <2>5. HeldBy(d, S)'
    <3>1. SampledTo(d)' = b
      BY <2>2 DEF SampledTo
    <3>2. \A u \in Units : Holds(u, t, b, T)'
      BY <1>1, <2>1
    <3> QED
      BY <2>2, <2>4, <3>1, <3>2 DEF HeldBy
  <2>6. KeptBy(d)'
    <3>1. SameSources(c, d)
      BY <1>1, <1>2, <2>2 DEF SameSources
    <3>2. d.rec = 0
      BY <2>2 DEF ReadingAt
    <3> QED
      BY <1>2, <3>1, <3>2, PageKeeps
  <2> QED
    BY <1>1, <2>3, <2>5, <2>6, PageArrives
<1> QED
  BY <1>1, <1>3, <1>4

(* A page that more pages follow.                                          *)
LEMMA NextUnitStep ==
  ASSUME NEW c, NEW T, ReadingAt(c, T), c.pos \in {"bootstrap", "content"},
         NEW u \in Units, u > c.after, NEW pos,
         pos = c.pos \/ (pos = "activation" /\ c.pos = "content"),
         Reply(Move(c, pos, u)), UnitsAre',
         \A v \in Units : KeepsSamples(v), \A v \in Units : v <= u => OpenIn(c, v),
         \A v \in Units : DOMAIN units'[v] \subseteq Known(c.target),
         \A v \in Units : v > u => units'[v] = units[v],
         NEW m, m = SampledTo(c), \A v \in Units : v < u => Holds(v, c.target, m, T)',
         pos = c.pos => Holds(u, c.target, m, T)',
         pos = "activation" =>
           HoldsWith(u, c.target, c.base,
                     DOMAIN Visible(u, c.target) \intersect DOMAIN Before(c, u), T)'
  PROVE  ConsumerInv'
<1>1. PICK d, t, b, S : /\ d = Move(c, pos, u) /\ t = c.target /\ b = c.base
                        /\ S = Told(d, None, receipt)
  OBVIOUS
<1>2. /\ LogInv /\ log' = log /\ IsCursor(c) /\ t \in 0 .. Now /\ b \in 0 .. Now
      /\ c.privacy \in 0 .. Now /\ c.privacy <= c.privacy /\ u \in Nat /\ c.after \in Nat
      /\ T \in SUBSET (0 .. Now) /\ Covers(T, T, b)
  BY <1>1, ReadingFacts, ConsumerAssumption DEF Reply, IsCursor
<1>3. /\ d.pos = pos /\ d.target = t /\ d.base = b /\ d.after = u
      /\ d.privacy = c.privacy /\ d.rec = c.rec /\ IsCursor(d)
  BY <1>1, <1>2, MoveIs
<1>4. S = T
  BY <1>1, <1>3 DEF Told, ReadingAt
<1>0. pos \in {"bootstrap", "content", "activation"} /\ (pos = "bootstrap" => c.pos = "bootstrap")
       /\ (pos \in {"content", "activation"} => c.pos = "content")
       /\ (pos # "activation" => pos = c.pos)
  OBVIOUS
<1>5. Cursors(d, None)
  <2>1. Cursors(c, None)
    BY DEF ReadingAt
  <2> QED
    BY <1>1, <1>3, <1>0, <2>1 DEF Cursors
<1>6. KeptBy(d)'
  <2>1. SameSources(c, d)
    BY <1>1, <1>2, <1>3 DEF SameSources
  <2>2. d.rec = 0
    BY <1>3 DEF ReadingAt
  <2>3. \A v \in Units : Processed(d, v) => OpenIn(c, v)
    BY <1>0, <1>3 DEF Processed
  <2> QED
    BY <1>2, <2>1, <2>2, <2>3, PageKeeps
<1>7. \A v \in Units : v \in Nat
  BY ConsumerAssumption
<1>8. SampledTo(d)' = m
  BY <1>1, <1>3 DEF SampledTo
<1>9. ASSUME NEW v \in Units, v > u, pos \in {"content", "activation"}
      PROVE  Holds(v, b, b, T)'
  <2>4. c.pos = "content"
    BY <1>9, <1>0
  <2>5. v > c.after
    <3>1. v \in Nat /\ u \in Nat /\ c.after \in Nat
      BY <1>2, <1>7
    <3>2. v > u /\ u > c.after
      BY <1>9
    <3> QED
      BY <3>1, <3>2
  <2>1. c.pos = "content" /\ v > c.after
    BY <2>4, <2>5
  <2>2. Holds(v, b, b, T)
    BY <1>1, <2>1 DEF ReadingAt, HeldBy
  <2>3. units'[v] = units[v] /\ KeepsSamples(v)
    BY <1>9
  <2> QED
    BY <1>2, <2>2, <2>3, CarriedUnit
<1>10. ASSUME NEW v \in Units, v > u, pos = "bootstrap"
       PROVE  units'[v] = Nothing
  <2>1. c.pos = "bootstrap"
    BY <1>10, <1>0
  <2>2. v > c.after
    BY <1>2, <1>7, <1>10
  <2> QED
    BY <1>10, <2>1, <2>2 DEF ReadingAt, HeldBy
<1>11. ASSUME NEW v \in Units, Done(d, v)
       PROVE  Holds(v, t, m, T)'
  <2>1. (pos \in {"bootstrap", "content"} /\ v <= u) \/ (pos = "activation" /\ v < u)
    BY <1>3, <1>11, <1>0 DEF Done
  <2>2. CASE v < u
    BY <1>1, <2>2
  <2>3. CASE ~(v < u)
    <3>1. v = u
      <4>1. v \in Nat /\ u \in Nat
        BY <1>7
      <4>2. v <= u
        BY <2>1, <2>3
      <4> QED
        BY <2>3, <4>1, <4>2
    <3>2. pos = c.pos
      BY <1>2, <1>0, <2>1, <2>3
    <3> QED
      BY <1>1, <3>1, <3>2
  <2> QED
    BY <2>2, <2>3
<1>12. ASSUME pos = "activation"
       PROVE  HoldsWith(u, t, b, DOMAIN Visible(u, t) \intersect DOMAIN Before(d, u), T)'
  <2>1. Before(d, u)' = Before(c, u)'
    BY <1>1, <1>3 DEF Before, Reconciled
  <2> QED
    BY <1>1, <1>12, <2>1
<1>13. HeldBy(d, S)'
  <2>1. ASSUME NEW v \in Units
        PROVE  /\ d.pos = "bootstrap" /\ v > d.after => units'[v] = Nothing
               /\ d.pos \in {"content", "activation"} /\ v > d.after => Holds(v, b, b, T)'
               /\ d.pos = "activation" /\ v = d.after =>
                    HoldsWith(v, t, b, DOMAIN Visible(v, t) \intersect DOMAIN Before(d, v), T)'
               /\ Done(d, v) => Holds(v, t, m, T)'
    BY <1>3, <1>9, <1>10, <1>11, <1>12
  <2>2. \A v \in Units : Done(d, v)' = Done(d, v)
    BY DEF Done
  <2> QED
    BY <1>3, <1>4, <1>8, <2>1, <2>2 DEF HeldBy
<1> QED
  BY <1>1, <1>5, <1>6, <1>13, PageArrives

(* A comparison visits units of the model.                                 *)
LEMMA CandidatesAre ==
  ASSUME NEW c, NEW T, ReadingAt(c, T)
  PROVE  Candidates(c) \subseteq Units
<1>1. PICK b, t : b = c.base /\ t = c.target
  OBVIOUS
<1>2. LogInv /\ t \in 0 .. Now
  BY <1>1, ReadingFacts
<1>3. \A p \in Known(t) : UnitsOf(p, t) \subseteq Units
  BY <1>2, UnitsOfAre
<1>4. BootstrapUnits(t) \subseteq Units
  BY <1>3 DEF BootstrapUnits
<1>5. Restored(c) \subseteq Units
  <2>1. Reconciled(c) \subseteq Known(t)
    BY <1>1 DEF Reconciled, Withdrawn
  <2> QED
    BY <1>1, <1>3, <2>1 DEF Restored
<1>6. Affected(b, t) \subseteq Units
  <2>1. PICK A, B, D :
          /\ A = UNION {UnitsOf(p, t) : p \in ChangedPosts(b, t)}
          /\ B = {v \in Units : \E i \in ResultsOf(v, t) : i > b}
          /\ D = {v \in Units : Approved(b) # Approved(t) /\ ResultsOf(v, t) # {}}
    OBVIOUS
  <2>2. Affected(b, t) = (A \union B) \union D
    BY <2>1 DEF Affected
  <2>3. A \subseteq Units
    <3>1. ChangedPosts(b, t) \subseteq Known(t)
      BY DEF ChangedPosts
    <3> QED
      BY <1>3, <2>1, <3>1
  <2>4. B \subseteq Units /\ D \subseteq Units
    BY <2>1
  <2> QED
    BY <2>2, <2>3, <2>4
<1> QED
  BY <1>1, <1>4, <1>5, <1>6 DEF Candidates

(* A stream comes to rest with open posts, or stays as it was.             *)
KeptStep ==
  streams'.changes.pos = "idle" =>
    \/ streams'.changes = streams.changes
    \/ \A u \in Units : OpenIn(streams.changes, u)

(* The poll of a consumer that has consumed the current source.            *)
LEMMA EmptyPoll ==
  ASSUME ConsumerInv, NEW o, o = streams.changes, o.pos = "idle",
         NEW c, c = Start(Now, o.target, "content", Receipt(o)), ~NeedsBoundaryPage(c)
  PROVE  AfterUnits(c) = o
<1>1. LogInv /\ Cursors(o, streams.history) /\ IsCursor(o)
  BY DEF ConsumerInv, Cursors
<1>2. PICK t, b, q, pos : t = Now /\ b = o.target /\ q = Receipt(o) /\ pos = "content"
  OBVIOUS
<1>3. /\ t \in 0 .. Now /\ b \in 0 .. t /\ q \in 0 .. Now /\ Now \in Nat /\ o.privacy \in 0 .. Now
      /\ o.privacy <= q
  <2>1. o.target \in 0 .. Now /\ o.privacy \in 0 .. Now /\ receipt \in 0 .. Now
    BY <1>1 DEF Cursors, IsCursor
  <2> QED
    BY <1>1, <1>2, <2>1, LogFacts DEF Receipt, Larger
<1>4. /\ c.target = t /\ c.base = b /\ c.privacy = q /\ ~c.sent
  <2>1. c = Start(t, b, pos, q) /\ LogInv /\ t \in 0 .. Now /\ b \in 0 .. t /\ q \in 0 .. Now
    BY <1>1, <1>2, <1>3
  <2> QED
    BY <2>1, StartIsCursor
<1>5. b = t
  BY <1>4 DEF NeedsBoundaryPage
<1>6. o = Start(o.target, 0, "idle", o.privacy) /\ (o.privacy = 0 \/ o.privacy > o.target)
  BY <1>1 DEF Cursors
<1>7. o.privacy = 0 /\ o.target = Now
  BY <1>2, <1>3, <1>5, <1>6
<1>8. c.privacy <= c.target
  BY <1>2, <1>3, <1>4
<1>9. AfterUnits(c) = Start(c.target, 0, "idle", 0)
  BY <1>4, <1>5, <1>8 DEF AfterUnits, ToIdle
<1>10. c.target = o.target
  BY <1>2, <1>4, <1>7
<1> QED
  BY <1>6, <1>7, <1>9, <1>10

(* A page of units, with the poll that may begin it.                       *)
LEMMA UnitPageStep ==
  ASSUME ConsumerInv, Overlap = FALSE, UnitPage
  PROVE  ConsumerInv' /\ KeptStep
<1>1. PICK o, c, T : /\ o = streams.changes /\ c = Sequence(o) /\ T = Told(c, None, receipt)
  OBVIOUS
<1>2. Answer(c) /\ ~NeedsBoundaryPage(c) /\ c.pos \in {"bootstrap", "content"} /\ UnitsPage(c)
  BY <1>1 DEF UnitPage
<1>3. /\ ReadingAt(c, T) /\ (o.pos # "idle" => c = o)
      /\ (o.pos = "idle" => c = Start(Now, o.target, "content", Receipt(o)))
  BY <1>1, <1>2, PollReads
<1>4. PICK t, m, rest : t = c.target /\ m = SampledTo(c) /\ rest = {u \in Candidates(c) : u > c.after}
  OBVIOUS
<1>5. /\ LogInv /\ t \in 0 .. Now /\ m \in 0 .. Now /\ T \in SUBSET (0 .. Now) /\ Covers(T, T, t)
      /\ UnitsAre /\ c.after \in Nat /\ rest \subseteq Units
      /\ \A v \in Units : DOMAIN units[v] \subseteq Known(t)
  BY <1>3, <1>4, ReadingFacts, CandidatesAre DEF ReadingAt, IsCursor, KeptBy
<1>6. \A v \in Units : v \in Nat
  BY ConsumerAssumption
<1>7. ASSUME NEW v \in Units, v \notin rest
      PROVE  /\ Holds(v, t, m, T)
             /\ c.base = 0 \/ Before(c, v) # Nothing => \A p \in DOMAIN units[v] : Open(p, Now)
  <2>1. v <= c.after \/ v \notin Candidates(c)
    <3>1. v \in Nat /\ c.after \in Nat
      BY <1>5, <1>6
    <3>2. v \notin Candidates(c) \/ ~(v > c.after)
      BY <1>4, <1>7
    <3> QED
      BY <3>1, <3>2
  <2> QED
    BY <1>2, <1>3, <1>4, <2>1, PassedUnit
<1>8. ASSUME NEW v \in Units, v \notin rest, log' = log, units'[v] = units[v], KeepsSamples(v)
      PROVE  Holds(v, t, m, T)' /\ OpenIn(c, v)
  BY <1>5, <1>7, <1>8, CarriedUnit DEF OpenIn
<1>9. ASSUME ConsumerInv', streams'.changes = AfterUnits(c), \A v \in Units : OpenIn(c, v)
      PROVE  KeptStep
  <2>1. CASE o.pos # "idle"
    BY <1>1, <1>3, <1>9, <2>1 DEF KeptStep
  <2>2. CASE o.pos = "idle"
    <3>1. AfterUnits(c) = o
      BY <1>1, <1>2, <1>3, <2>2, EmptyPoll
    <3> QED
      BY <1>1, <1>9, <3>1 DEF KeptStep
  <2> QED
    BY <2>1, <2>2
<1>10. CASE rest = {} /\ Reply(AfterUnits(c)) /\ UNCHANGED <<units, samples>>
  <2>1. log' = log /\ units' = units /\ samples' = samples
    BY <1>10 DEF Reply
  <2>2. \A v \in Units : units'[v] = units[v] /\ KeepsSamples(v)
    BY <2>1 DEF KeepsSamples
  <2>3. \A v \in Units : Holds(v, t, m, T)' /\ OpenIn(c, v)
    BY <1>8, <1>10, <2>1, <2>2
  <2>4. UnitsAre'
    BY <1>5, <2>1 DEF UnitsAre
  <2>5. \A v \in Units : DOMAIN units'[v] \subseteq Known(c.target)
    BY <1>4, <1>5, <2>1
  <2>6. ConsumerInv'
    BY <1>2, <1>3, <1>4, <1>10, <2>3, <2>4, <2>5, AfterUnitsStep
  <2>7. streams'.changes = AfterUnits(c)
    BY <1>3, <1>10, StreamUpdate DEF Reply, ReadingAt
  <2> QED
    BY <1>9, <2>3, <2>6, <2>7
<1>11. ASSUME NEW u \in rest, \A v \in rest : u <= v,
              IF Publishable(u, t) = Before(c, u) THEN UNCHANGED <<units, samples>>
              ELSE Save([units EXCEPT ![u] = Publishable(u, t)], {}),
              Reply(IF c.pos = "content" /\ NewlyVisible(c, u) # {} THEN Move(c, "activation", u)
                    ELSE IF rest = {u} THEN AfterUnits(c)
                    ELSE Move(c, c.pos, u))
       PROVE  ConsumerInv' /\ KeptStep
  <2>1. u \in Units /\ u > c.after /\ log' = log /\ u \in Nat
    BY <1>4, <1>5, <1>6, <1>11 DEF Reply
  <2>2. /\ ShowsUnit(c, u) /\ UnitsAre'
        /\ \A v \in Units : KeepsSamples(v)
        /\ \A v \in Units : v # u => units'[v] = units[v]
    <3>1. PICK new : new = Publishable(u, t)
      OBVIOUS
    <3>2. CASE new = Before(c, u)
      <4>1. units' = units /\ samples' = samples
        BY <1>11, <3>1, <3>2
      <4> QED
        BY <1>4, <1>5, <3>1, <3>2, <4>1 DEF ShowsUnit, UnitsAre, KeepsSamples
    <3>3. CASE new # Before(c, u)
      <4>1. PICK content : content = [units EXCEPT ![u] = new]
        OBVIOUS
      <4>2. /\ units' = content
            /\ samples' = {i \in samples \union {} : \E v \in Units : log[i].post \in DOMAIN content[v]}
        BY <1>11, <3>1, <3>3, <4>1 DEF Save
      <4>3. /\ content[u] = new /\ \A v \in Units : v # u => content[v] = units[v]
            /\ content = [v \in Units |-> content[v]]
        BY <1>5, <2>1, <4>1 DEF UnitsAre
      <4>4. \A v \in Units : KeepsSamples(v)
        BY <4>2 DEF KeepsSamples
      <4> QED
        BY <1>4, <3>1, <3>3, <4>2, <4>3, <4>4 DEF ShowsUnit, UnitsAre
    <3> QED
      BY <3>2, <3>3
  <2>3. /\ OpenIn(c, u) /\ DOMAIN units'[u] \subseteq Known(c.target)
        /\ c.pos = "content" =>
             HoldsWith(u, c.target, c.base,
                       DOMAIN Visible(u, c.target) \intersect DOMAIN Before(c, u), T)'
        /\ c.pos = "bootstrap" \/ NewlyVisible(c, u) = {} => Holds(u, c.target, SampledTo(c), T)'
    BY <1>2, <1>3, <2>1, <2>2, ShownUnit
  <2>4. SampledTo(c)' = m
    BY <1>4 DEF SampledTo
  <2>5. ASSUME NEW v \in Units, v < u
        PROVE  Holds(v, t, m, T)' /\ OpenIn(c, v)
    <3>1. v # u /\ v \notin rest
      <4>1. v \in Nat /\ ~(u <= v)
        BY <1>6, <2>1, <2>5
      <4> QED
        BY <1>11, <2>1, <4>1
    <3> QED
      BY <1>8, <2>1, <2>2, <3>1
  <2>6. \A v \in Units : v <= u => OpenIn(c, v)
    <3>1. \A v \in Units : v <= u => v = u \/ v < u
      BY <1>6, <2>1
    <3> QED
      BY <2>3, <2>5, <3>1
  <2>7. \A v \in Units : DOMAIN units'[v] \subseteq Known(c.target)
    BY <1>4, <1>5, <2>2, <2>3
  <2>8. \A v \in Units : v > u => units'[v] = units[v]
    <3>1. \A v \in Units : v > u => v # u
      BY <2>1
    <3> QED
      BY <2>2, <3>1
  <2>9. c.pos = "bootstrap" \/ NewlyVisible(c, u) = {} => Holds(u, c.target, m, T)'
    BY <2>3, <2>4
  <2>10. ASSUME NEW pos, NEW d, d = Move(c, pos, u), Reply(d)
         PROVE  streams'.changes = d /\ d.pos = pos
    <3>1. IsCursor(c)
      BY <1>3, ReadingFacts
    <3>2. streams'.changes = d
      BY <1>3, <2>10, StreamUpdate DEF Reply, ReadingAt
    <3> QED
      BY <2>1, <2>10, <3>1, <3>2, MoveIs
  <2>11. CASE c.pos = "content" /\ NewlyVisible(c, u) # {}
    <3>1. PICK pos : pos = "activation"
      OBVIOUS
    <3>2. Reply(Move(c, pos, u))
      BY <1>11, <2>11, <3>1
    <3>3. /\ pos = c.pos \/ (pos = "activation" /\ c.pos = "content")
          /\ pos = c.pos => Holds(u, c.target, m, T)'
          /\ pos = "activation" =>
               HoldsWith(u, c.target, c.base,
                         DOMAIN Visible(u, c.target) \intersect DOMAIN Before(c, u), T)'
      BY <2>3, <2>11, <3>1
    <3>4. \A v \in Units : v < u => Holds(v, c.target, m, T)'
      BY <1>4, <2>5
    <3>5. ConsumerInv'
      BY <1>2, <1>3, <1>4, <2>1, <2>2, <2>6, <2>7, <2>8, <3>2, <3>3, <3>4, NextUnitStep
    <3>6. streams'.changes.pos = "activation"
      BY <2>10, <3>1, <3>2
    <3> QED
      BY <3>5, <3>6 DEF KeptStep
  <2>12. CASE ~(c.pos = "content" /\ NewlyVisible(c, u) # {}) /\ rest # {u}
    <3>1. Reply(Move(c, c.pos, u))
      BY <1>11, <2>12
    <3>2. PICK pos : pos = c.pos
      OBVIOUS
    <3>3. /\ pos = c.pos \/ (pos = "activation" /\ c.pos = "content")
          /\ pos = c.pos => Holds(u, c.target, m, T)'
          /\ pos = "activation" =>
               HoldsWith(u, c.target, c.base,
                         DOMAIN Visible(u, c.target) \intersect DOMAIN Before(c, u), T)'
          /\ Reply(Move(c, pos, u)) /\ pos # "idle"
      BY <1>2, <2>9, <2>12, <3>1, <3>2
    <3>4. \A v \in Units : v < u => Holds(v, c.target, m, T)'
      BY <1>4, <2>5
    <3>5. ConsumerInv'
      BY <1>2, <1>3, <1>4, <2>1, <2>2, <2>6, <2>7, <2>8, <3>3, <3>4, NextUnitStep
    <3>6. streams'.changes.pos # "idle"
      BY <2>10, <3>3
    <3> QED
      BY <3>5, <3>6 DEF KeptStep
  <2>13. CASE ~(c.pos = "content" /\ NewlyVisible(c, u) # {}) /\ rest = {u}
    <3>1. Reply(AfterUnits(c))
      BY <1>11, <2>13
    <3>2. \A v \in Units : Holds(v, t, m, T)' /\ OpenIn(c, v)
      <4> SUFFICES ASSUME NEW v \in Units
                   PROVE  Holds(v, t, m, T)' /\ OpenIn(c, v)
        OBVIOUS
      <4>1. CASE v = u
        BY <1>2, <1>4, <2>3, <2>9, <2>13, <4>1
      <4>2. CASE v # u
        BY <1>8, <2>1, <2>2, <2>13, <4>2
      <4> QED
        BY <4>1, <4>2
    <3>3. \A v \in Units : Holds(v, c.target, m, T)'
      BY <1>4, <3>2
    <3>4. ConsumerInv'
      BY <1>2, <1>3, <1>4, <2>2, <2>7, <3>1, <3>2, <3>3, AfterUnitsStep
    <3>5. streams'.changes = AfterUnits(c)
      BY <1>3, <3>1, StreamUpdate DEF Reply, ReadingAt
    <3> QED
      BY <1>9, <3>2, <3>4, <3>5
  <2> QED
    BY <2>11, <2>12, <2>13
<1>12. \/ rest = {} /\ Reply(AfterUnits(c)) /\ UNCHANGED <<units, samples>>
       \/ \E u \in rest :
            /\ \A v \in rest : u <= v
            /\ IF Publishable(u, t) = Before(c, u) THEN UNCHANGED <<units, samples>>
               ELSE Save([units EXCEPT ![u] = Publishable(u, t)], {})
            /\ Reply(IF c.pos = "content" /\ NewlyVisible(c, u) # {} THEN Move(c, "activation", u)
                     ELSE IF rest = {u} THEN AfterUnits(c)
                     ELSE Move(c, c.pos, u))
  BY <1>2, <1>4 DEF UnitsPage
<1> QED
  BY <1>10, <1>11, <1>12

-----------------------------------------------------------------------------
(* Pages of observations.                                                  *)

(* The consumer's transaction keeps the samples of what it holds.          *)
LEMMA SaveKeeps ==
  ASSUME NEW content, NEW new, Save(content, new), content = [u \in Units |-> content[u]]
  PROVE  /\ units' = content /\ UnitsAre' /\ \A v \in Units : KeepsSamples(v)
         /\ \A i \in new : \A v \in Units : log[i].post \in DOMAIN content[v] => i \in samples'
<1>1. /\ units' = content
      /\ samples' = {i \in samples \union new : \E u \in Units : log[i].post \in DOMAIN content[u]}
  BY DEF Save
<1>2. UnitsAre'
  BY <1>1 DEF UnitsAre
<1>3. \A v \in Units : KeepsSamples(v)
  BY <1>1 DEF KeepsSamples
<1> QED
  BY <1>1, <1>2, <1>3

(* What the consumer holds of a unit that was paged is open as long as no  *)
(* withdrawal stops the pages.                                             *)
LEMMA ProcessedIsOpen ==
  ASSUME NEW c, NEW T, ReadingAt(c, T), NEW v \in Units, Processed(c, v),
         DOMAIN units'[v] \subseteq DOMAIN units[v]
  PROVE  OpenIn(c, v)
<1>1. Withdrawn(Baseline(c), Now, c.target) = {}
  BY DEF ReadingAt, MustReconcile
<1>2. KeptOf(c, v)
  BY DEF ReadingAt, KeptBy
<1> QED
  BY <1>1, <1>2 DEF KeptOf, OpenIn

(* The unit of the page, whose newly visible posts get their samples.      *)
LEMMA ActivatedUnit ==
  ASSUME NEW c, NEW T, ReadingAt(c, T), c.pos = "activation", log' = log,
         NEW u \in Units, u = c.after, KeepsSamples(u),
         Publishable(u, c.target) # Nothing =>
           /\ units'[u] = units[u]
           /\ \A p \in NewlyVisible(c, u) : \A i \in SamplesOf(p, c.target) :
                p \in DOMAIN units[u] => i \in samples'
  PROVE  Holds(u, c.target, c.base, T)'
<1>1. PICK b, t, old : b = c.base /\ t = c.target /\ old = DOMAIN Before(c, u)
  OBVIOUS
<1>2. /\ LogInv /\ LogGrows /\ Answering(c, T) /\ t \in 0 .. Now /\ b \in 0 .. Now /\ b <= t
      /\ T \in SUBSET (0 .. Now) /\ Covers(T, T, t) /\ t \in Nat /\ b \in Nat
  BY <1>1, ReadingFacts, LogSame
<1>3. /\ Visible(u, t)' = Visible(u, t) /\ F' = F
      /\ (Excused(u, t, T) => Excused(u, t, T)')
      /\ \A p, n : SamplesOf(p, n)' = SamplesOf(p, n)
  <2>1. Visible(u, t)' = Visible(u, t)
    BY <1>2, VisibleStays
  <2>2. Excused(u, t, T) => Excused(u, t, T)'
    BY <1>2, ExcusedStays
  <2>3. \A p, n : SamplesOf(p, n)' = SamplesOf(p, n)
    BY DEF SamplesOf, Observed
  <2> QED
    BY <2>1, <2>2, <2>3 DEF F
<1>4. HoldsWith(u, t, b, DOMAIN Visible(u, t) \intersect old, T)
  BY <1>1 DEF ReadingAt, HeldBy
<1>5. CASE Visible(u, t) = Nothing
  BY <1>1, <1>3, <1>5 DEF Holds, HoldsWith
<1>6. CASE Excused(u, t, T)
  BY <1>1, <1>3, <1>6 DEF Holds, HoldsWith
<1>7. CASE Visible(u, t) # Nothing /\ ~Excused(u, t, T)
  <2>1. Publishable(u, t) = Visible(u, t)
    BY <1>1, <1>2, <1>7, ShownIsOpen
  <2>2. /\ units[u] = Visible(u, t) /\ units'[u] = Visible(u, t)
        /\ \A p \in DOMAIN Visible(u, t) \intersect old : Sampled(p, b)
    BY <1>1, <1>4, <1>7, <2>1 DEF HoldsWith
  <2>3. ASSUME NEW p \in DOMAIN Visible(u, t), NEW i \in SamplesOf(p, b), i > F
        PROVE  i \in samples'
    <3>1. log[i].post = p
      BY DEF SamplesOf, Observed
    <3>2. CASE p \in old
      <4>1. i \in samples
        BY <2>2, <2>3, <3>2 DEF Sampled
      <4> QED
        BY <2>2, <3>1, <4>1 DEF KeepsSamples
    <3>3. CASE p \notin old
      <4>1. p \in NewlyVisible(c, u)
        BY <1>1, <2>1, <3>3 DEF NewlyVisible
      <4>2. i \in SamplesOf(p, t)
        BY <1>2 DEF SamplesOf, Observed
      <4> QED
        BY <1>1, <1>7, <2>1, <2>2, <4>1, <4>2
    <3> QED
      BY <3>2, <3>3
  <2>4. \A p \in DOMAIN Visible(u, t) : Sampled(p, b)'
    BY <1>3, <2>3 DEF Sampled
  <2> QED
    BY <1>1, <1>3, <2>2, <2>4 DEF Holds, HoldsWith
<1> QED
  BY <1>5, <1>6, <1>7

(* The page of activated posts.                                            *)
LEMMA ActivationPageStep ==
  ASSUME ConsumerInv, Overlap = FALSE, ActivationPage
  PROVE  ConsumerInv' /\ KeptStep
<1>1. PICK c, T, u, t, b, pos, d, S :
        /\ c = streams.changes /\ T = Told(c, None, receipt) /\ u = c.after /\ t = c.target
        /\ b = c.base /\ pos = "content" /\ d = Move(c, pos, u) /\ S = Told(d, None, receipt)
  OBVIOUS
<1>2. /\ c.pos = "activation" /\ Answer(c) /\ Reply(d)
      /\ IF Publishable(u, t) = Nothing THEN Save([units EXCEPT ![u] = Nothing], {})
         ELSE Save(units, UNION {SamplesOf(p, t) : p \in NewlyVisible(c, u)})
  BY <1>1 DEF ActivationPage
<1>3. ReadingAt(c, T)
  <2>1. c = Sequence(c)
    BY <1>2 DEF Sequence
  <2> QED
    BY <1>1, <1>2, <2>1, PollReads
<1>4. /\ LogInv /\ log' = log /\ IsCursor(c) /\ t \in 0 .. Now /\ b \in 0 .. Now /\ UnitsAre
      /\ c.privacy \in 0 .. Now /\ c.privacy <= c.privacy /\ u \in Units /\ u \in Nat
      /\ T \in SUBSET (0 .. Now) /\ Covers(T, T, b) /\ Covers(T, T, t)
  <2>1. u \in Units
    BY <1>1, <1>2, <1>3 DEF ReadingAt, Cursors
  <2> QED
    BY <1>1, <1>2, <1>3, <2>1, ReadingFacts, ConsumerAssumption DEF Reply, ReadingAt
<1>5. /\ d.pos = pos /\ d.target = t /\ d.base = b /\ d.after = u
      /\ d.privacy = c.privacy /\ d.rec = c.rec /\ IsCursor(d)
  BY <1>1, <1>4, MoveIs
<1>6. /\ UnitsAre' /\ \A v \in Units : KeepsSamples(v)
      /\ \A v \in Units : v # u => units'[v] = units[v]
      /\ \A v \in Units : DOMAIN units'[v] \subseteq DOMAIN units[v]
      /\ Publishable(u, t) # Nothing =>
           /\ units'[u] = units[u]
           /\ \A p \in NewlyVisible(c, u) : \A i \in SamplesOf(p, t) :
                p \in DOMAIN units[u] => i \in samples'
  <2>1. CASE Publishable(u, t) = Nothing
    <3>1. PICK content : content = [units EXCEPT ![u] = Nothing]
      OBVIOUS
    <3>2. Save(content, {})
      BY <1>2, <2>1, <3>1
    <3>3. /\ content = [v \in Units |-> content[v]] /\ content[u] = Nothing
          /\ \A v \in Units : v # u => content[v] = units[v]
      BY <1>4, <3>1 DEF UnitsAre
    <3>4. units' = content /\ UnitsAre' /\ \A v \in Units : KeepsSamples(v)
      BY <3>2, <3>3, SaveKeeps
    <3>5. DOMAIN Nothing = {}
      BY DEF Nothing
    <3>6. \A v \in Units : v = u \/ v # u
      OBVIOUS
    <3> QED
      BY <2>1, <3>3, <3>4, <3>5, <3>6
  <2>2. CASE Publishable(u, t) # Nothing
    <3>1. PICK new, content : /\ new = UNION {SamplesOf(p, t) : p \in NewlyVisible(c, u)}
                              /\ content = units
      OBVIOUS
    <3>2. Save(content, new) /\ content = [v \in Units |-> content[v]]
      BY <1>2, <1>4, <2>2, <3>1 DEF UnitsAre
    <3>3. /\ units' = content /\ UnitsAre' /\ \A v \in Units : KeepsSamples(v)
          /\ \A i \in new : \A v \in Units : log[i].post \in DOMAIN content[v] => i \in samples'
      BY <3>2, SaveKeeps
    <3>4. \A p \in NewlyVisible(c, u) : \A i \in SamplesOf(p, t) : i \in new /\ log[i].post = p
      BY <3>1 DEF SamplesOf, Observed
    <3>5. \A p \in NewlyVisible(c, u) : \A i \in SamplesOf(p, t) :
            p \in DOMAIN units[u] => i \in samples'
      BY <1>4, <3>1, <3>3, <3>4
    <3> QED
      BY <3>1, <3>3, <3>5
  <2> QED
    BY <2>1, <2>2
<1>7. Holds(u, t, b, T)'
  <2>1. KeepsSamples(u) /\ u = c.after
    BY <1>1, <1>4, <1>6
  <2> QED
    BY <1>1, <1>2, <1>3, <1>4, <1>6, <2>1, ActivatedUnit
<1>8. S = T /\ Cursors(d, None)
  <2>1. S = T
    BY <1>1, <1>5 DEF Told, ReadingAt
  <2>2. Cursors(c, None)
    BY <1>3 DEF ReadingAt
  <2>3. d.pos = "content" /\ c.pos = "activation"
    BY <1>1, <1>2, <1>5
  <2> QED
    BY <1>1, <1>5, <2>1, <2>2, <2>3 DEF Cursors
<1>9. \A v \in Units : v \in Nat
  BY ConsumerAssumption
<1>10. SampledTo(d)' = b /\ SampledTo(c) = b
  BY <1>1, <1>2, <1>5 DEF SampledTo
<1>11. ASSUME NEW v \in Units, v > u
       PROVE  Holds(v, b, b, T)'
  <2>1. Holds(v, b, b, T)
    BY <1>1, <1>2, <1>3, <1>11 DEF ReadingAt, HeldBy
  <2>2. v # u
    BY <1>4, <1>9, <1>11
  <2>3. units'[v] = units[v] /\ KeepsSamples(v)
    BY <1>6, <2>2
  <2> QED
    BY <1>4, <2>1, <2>3, CarriedUnit
<1>12. ASSUME NEW v \in Units, v < u
       PROVE  Holds(v, t, b, T)'
  <2>1. Holds(v, t, b, T)
    BY <1>1, <1>2, <1>3, <1>10, <1>12 DEF ReadingAt, HeldBy, Done
  <2>2. v # u
    BY <1>4, <1>9, <1>12
  <2>3. units'[v] = units[v] /\ KeepsSamples(v)
    BY <1>6, <2>2
  <2> QED
    BY <1>4, <2>1, <2>3, CarriedUnit
<1>13. HeldBy(d, S)'
  <2>1. ASSUME NEW v \in Units
        PROVE  /\ v > u => Holds(v, b, b, T)'
               /\ v <= u => Holds(v, t, b, T)'
    <3>1. v <= u => v < u \/ v = u
      BY <1>4, <1>9
    <3> QED
      BY <1>7, <1>11, <1>12, <3>1
  <2>2. \A v \in Units : Done(d, v)' <=> v <= u
    BY <1>1, <1>5 DEF Done
  <2>3. d.pos = "content"
    BY <1>1, <1>5
  <2> QED
    BY <1>5, <1>8, <1>10, <2>1, <2>2, <2>3 DEF HeldBy
<1>14. KeptBy(d)'
  <2>1. SameSources(c, d)
    BY <1>1, <1>4, <1>5 DEF SameSources
  <2>2. d.rec = 0
    BY <1>3, <1>5 DEF ReadingAt
  <2>3. ASSUME NEW v \in Units, Processed(d, v)
        PROVE  OpenIn(c, v)
    <3>1. Processed(c, v)
      BY <1>1, <1>2, <1>5, <2>3 DEF Processed
    <3> QED
      BY <1>3, <1>6, <3>1, ProcessedIsOpen
  <2>4. \A v \in Units : DOMAIN units'[v] \subseteq Known(c.target)
    BY <1>3, <1>6 DEF ReadingAt, KeptBy
  <2> QED
    BY <1>3, <1>4, <2>1, <2>2, <2>3, <2>4, PageKeeps
<1>15. ConsumerInv' /\ streams'.changes = d
  BY <1>1, <1>2, <1>3, <1>6, <1>8, <1>13, <1>14, PageArrives
<1> QED
  BY <1>1, <1>5, <1>15 DEF KeptStep

(* A unit when the samples of one more entry were added.                   *)
LEMMA SampledUnit ==
  ASSUME NEW c, NEW T, ReadingAt(c, T), c.pos = "observations", log' = log,
         NEW u \in Units, KeepsSamples(u), units' = units,
         NEW i, i = c.after + 1,
         \A j \in SamplesAdded(i, c.target) : log[j].post \in DOMAIN units[u] => j \in samples'
  PROVE  Holds(u, c.target, i, T)'
<1>1. PICK t, m : t = c.target /\ m = c.after
  OBVIOUS
<1>2. /\ LogInv /\ LogGrows /\ Answering(c, T) /\ t \in 0 .. Now /\ m \in Nat /\ i = m + 1
      /\ T \in SUBSET (0 .. Now) /\ Covers(T, T, t) /\ t \in Nat
  BY <1>1, ReadingFacts, LogSame DEF IsCursor
<1>3. /\ Visible(u, t)' = Visible(u, t) /\ F' = F
      /\ (Excused(u, t, T) => Excused(u, t, T)')
      /\ \A p, n : SamplesOf(p, n)' = SamplesOf(p, n)
  <2>1. Visible(u, t)' = Visible(u, t)
    BY <1>2, VisibleStays
  <2>2. Excused(u, t, T) => Excused(u, t, T)'
    BY <1>2, ExcusedStays
  <2>3. \A p, n : SamplesOf(p, n)' = SamplesOf(p, n)
    BY DEF SamplesOf, Observed
  <2> QED
    BY <2>1, <2>2, <2>3 DEF F
<1>4. HoldsWith(u, t, m, DOMAIN Visible(u, t), T)
  <2>1. SampledTo(c) = m /\ Done(c, u)
    BY <1>1 DEF SampledTo, Done
  <2> QED
    BY <1>1, <2>1 DEF ReadingAt, HeldBy, Holds
<1>5. CASE Visible(u, t) = Nothing
  BY <1>1, <1>3, <1>5 DEF Holds, HoldsWith
<1>6. CASE Excused(u, t, T)
  BY <1>1, <1>3, <1>6 DEF Holds, HoldsWith
<1>7. CASE Visible(u, t) # Nothing /\ ~Excused(u, t, T)
  <2>1. Publishable(u, t) = Visible(u, t)
    BY <1>1, <1>2, <1>7, ShownIsOpen
  <2>2. /\ units[u] = Visible(u, t) /\ units'[u] = Visible(u, t)
        /\ \A p \in DOMAIN Visible(u, t) : Sampled(p, m)
    BY <1>4, <1>7 DEF HoldsWith
  <2>3. ASSUME NEW p \in DOMAIN Visible(u, t), NEW j \in SamplesOf(p, i), j > F
        PROVE  j \in samples'
    <3>1. log[j].kind = "post" /\ log[j].post = p /\ log[j].content.open /\ j \in 1 .. i
      BY DEF SamplesOf, Observed
    <3>2. CASE j \in 1 .. m
      <4>1. j \in SamplesOf(p, m)
        BY <3>1, <3>2 DEF SamplesOf, Observed
      <4>2. j \in samples
        BY <2>2, <2>3, <4>1 DEF Sampled
      <4> QED
        BY <2>2, <3>1, <4>2 DEF KeepsSamples
    <3>3. CASE j \notin 1 .. m
      <4>1. j = i
        BY <1>2, <3>1, <3>3
      <4>2. Permitted(p, t)
        BY <2>1 DEF Permitted
      <4>3. j \in SamplesAdded(i, t)
        BY <3>1, <4>1, <4>2 DEF SamplesAdded
      <4> QED
        BY <1>1, <2>2, <3>1, <4>3
    <3> QED
      BY <3>2, <3>3
  <2>4. \A p \in DOMAIN Visible(u, t) : Sampled(p, i)'
    BY <1>3, <2>3 DEF Sampled
  <2> QED
    BY <1>1, <1>3, <2>2, <2>4 DEF Holds, HoldsWith
<1> QED
  BY <1>5, <1>6, <1>7

(* The page of the entries added since the base.                           *)
LEMMA SamplePageStep ==
  ASSUME ConsumerInv, Overlap = FALSE, SamplePage
  PROVE  ConsumerInv' /\ KeptStep
<1>1. PICK c, T, i, t :
        /\ c = streams.changes /\ T = Told(c, None, receipt) /\ i = c.after + 1 /\ t = c.target
  OBVIOUS
<1>2. /\ c.pos = "observations" /\ Answer(c) /\ Save(units, SamplesAdded(i, t))
      /\ Reply(IF i = t THEN ToIdle(c) ELSE Move(c, "observations", i))
  BY <1>1 DEF SamplePage
<1>3. ReadingAt(c, T)
  <2>1. c = Sequence(c)
    BY <1>2 DEF Sequence
  <2> QED
    BY <1>1, <1>2, <2>1, PollReads
<1>4. /\ LogInv /\ log' = log /\ IsCursor(c) /\ t \in 0 .. Now /\ UnitsAre /\ c.after \in Nat
      /\ c.privacy \in 0 .. Now /\ c.privacy <= c.privacy /\ t \in Nat
  BY <1>1, <1>2, <1>3, ReadingFacts DEF Reply, ReadingAt, IsCursor
<1>5. /\ units' = units /\ UnitsAre' /\ \A v \in Units : KeepsSamples(v)
      /\ \A v \in Units : \A j \in SamplesAdded(i, t) :
           log[j].post \in DOMAIN units[v] => j \in samples'
  <2>1. PICK content, new : content = units /\ new = SamplesAdded(i, t)
    OBVIOUS
  <2>2. Save(content, new) /\ content = [v \in Units |-> content[v]]
    BY <1>2, <1>4, <2>1 DEF UnitsAre
  <2>3. /\ units' = content /\ UnitsAre' /\ \A v \in Units : KeepsSamples(v)
        /\ \A j \in new : \A v \in Units : log[j].post \in DOMAIN content[v] => j \in samples'
    BY <2>2, SaveKeeps
  <2> QED
    BY <2>1, <2>3
<1>6. \A v \in Units : Holds(v, t, i, T)'
  <2> SUFFICES ASSUME NEW v \in Units
               PROVE  Holds(v, t, i, T)'
    OBVIOUS
  <2>1. \A j \in SamplesAdded(i, c.target) : log[j].post \in DOMAIN units[v] => j \in samples'
    BY <1>1, <1>5
  <2>2. Holds(v, c.target, i, T)'
    BY <1>1, <1>2, <1>3, <1>4, <1>5, <2>1, SampledUnit
  <2> QED
    BY <1>1, <2>2
<1>7. \A v \in Units : OpenIn(c, v)
  <2>1. \A v \in Units : Processed(c, v) /\ DOMAIN units'[v] \subseteq DOMAIN units[v]
    BY <1>2, <1>5 DEF Processed
  <2> QED
    BY <1>3, <2>1, ProcessedIsOpen
<1>8. KeptStep
  BY <1>1, <1>7 DEF KeptStep
<1>9. \A v \in Units : DOMAIN units'[v] \subseteq Known(t)
  BY <1>1, <1>3, <1>5 DEF ReadingAt, KeptBy
<1>10. CASE i = t
  <2>1. PICK d, S : d = ToIdle(c) /\ S = Told(d, None, receipt)
    OBVIOUS
  <2>2. /\ Cursors(d, None) /\ Covers(T, S, t)
        /\ (\A v \in Units : Holds(v, t, t, S)') => HeldBy(d, S)'
        /\ KeptBy(d)'
    BY <1>1, <1>3, <1>4, <1>9, <2>1, ToIdleArrives
  <2>3. \A v \in Units : Holds(v, t, t, S)'
    BY <1>4, <1>6, <1>10, <2>2, HoldsGrows
  <2>4. Reply(d)
    BY <1>2, <1>10, <2>1
  <2>5. ConsumerInv'
    BY <1>3, <1>5, <2>1, <2>2, <2>3, <2>4, PageArrives
  <2> QED
    BY <1>8, <2>5
<1>11. CASE i # t
  <2>1. PICK pos, d, S : pos = "observations" /\ d = Move(c, pos, i) /\ S = Told(d, None, receipt)
    OBVIOUS
  <2>2. i \in Nat
    BY <1>1, <1>4
  <2>3. /\ d.pos = pos /\ d.target = c.target /\ d.base = c.base /\ d.after = i
        /\ d.privacy = c.privacy /\ d.rec = c.rec /\ IsCursor(d)
    BY <1>4, <2>1, <2>2, MoveIs
  <2>4. Reply(d)
    BY <1>2, <1>11, <2>1
  <2>5. S = T
    BY <1>1, <2>1, <2>3 DEF Told, ReadingAt
  <2>6. Cursors(d, None)
    <3>1. Cursors(c, None) /\ d.pos = "observations" /\ c.pos = "observations"
      BY <1>2, <1>3, <2>1, <2>3 DEF ReadingAt
    <3>2. d.base <= d.after /\ d.after < d.target
      <4>1. c.base <= c.after /\ c.after < t /\ c.base \in Nat
        BY <1>1, <1>3, <3>1, ReadingFacts DEF Cursors
      <4> QED
        BY <1>1, <1>4, <1>11, <2>3, <4>1
    <3> QED
      BY <2>3, <3>1, <3>2 DEF Cursors
  <2>7. HeldBy(d, S)'
    <3>1. SampledTo(d)' = i /\ d.pos = "observations" /\ d.target = t
      BY <1>1, <2>1, <2>3 DEF SampledTo
    <3> QED
      BY <1>6, <2>5, <3>1 DEF HeldBy
  <2>8. KeptBy(d)'
    <3>1. SameSources(c, d)
      BY <1>4, <2>3 DEF SameSources
    <3>2. d.rec = 0
      BY <1>3, <2>3 DEF ReadingAt
    <3>3. \A v \in Units : DOMAIN units'[v] \subseteq Known(c.target)
      BY <1>1, <1>9
    <3> QED
      BY <1>3, <1>4, <1>7, <3>1, <3>2, <3>3, PageKeeps
  <2>9. ConsumerInv'
    BY <1>3, <1>5, <2>1, <2>4, <2>6, <2>7, <2>8, PageArrives
  <2> QED
    BY <1>8, <2>9
<1> QED
  BY <1>10, <1>11

-----------------------------------------------------------------------------
(* Every step.                                                             *)

(* A stream whose page is refused, or that is told of removals, does not   *)
(* come to rest.                                                           *)
LEMMA RangeIsNoRest ==
  ASSUME ConsumerInv, NEW s \in {"changes", "history"}, Refuse(s) \/ Reconcile(s)
  PROVE  KeptStep
<1>1. PICK c, x : c = streams.changes /\ x = streams[s]
  OBVIOUS
<1>2. StreamsAre /\ Cursors(c, streams.history) /\ IsCursor(c)
  BY <1>1 DEF ConsumerInv, Cursors
<1>3. CASE s = "history"
  <2>1. \E y : streams' = [streams EXCEPT !.history = y]
    BY <1>3 DEF Refuse, Reconcile
  <2> QED
    BY <1>2, <2>1, StreamUpdate DEF KeptStep
<1>4. CASE s = "changes"
  <2>1. x = c
    BY <1>1, <1>4
  <2>2. c.pos # "idle"
    <3>1. CASE Refuse(s)
      BY <1>1, <2>1, <3>1 DEF Refuse
    <3>2. CASE Reconcile(s)
      <4>1. c.rec # 0
        BY <1>1, <2>1, <3>2 DEF Reconcile
      <4>2. c.pos = "idle" => c = Start(c.target, 0, "idle", c.privacy)
        BY <1>2 DEF Cursors
      <4>3. Start(c.target, 0, "idle", c.privacy).rec = 0
        BY StartIs
      <4> QED
        BY <4>1, <4>2, <4>3
    <3> QED
      BY <3>1, <3>2
  <2>3. \E y, q, k, r : streams' = [streams EXCEPT !.changes = y] /\ InRange(c, y, q, k, r)
    <3>1. CASE Refuse(s)
      <4>1. PICK k, r, y : k = Now /\ r = <<0, 0>> /\ y = [c EXCEPT !.rec = k, !.removal = r]
        OBVIOUS
      <4>2. streams' = [streams EXCEPT !.changes = y]
        BY <1>1, <1>4, <2>1, <3>1, <4>1 DEF Refuse
      <4>3. InRange(c, y, c.privacy, k, r)
        BY <4>1 DEF InRange
      <4> QED
        BY <4>2, <4>3
    <3>2. CASE Reconcile(s)
      <4>1. PICK r, y : /\ y = [c EXCEPT !.removal = r] \/ y = AfterRange(c)
                      /\ streams' = [streams EXCEPT !.changes = y]
        BY <1>1, <1>4, <2>1, <3>2 DEF Reconcile
      <4> QED
        BY <4>1 DEF InRange, AfterRange
    <3> QED
      BY <3>1, <3>2
  <2>4. PICK y, q, k, r : streams' = [streams EXCEPT !.changes = y] /\ InRange(c, y, q, k, r)
    BY <2>3
  <2>5. y.pos = c.pos
    BY <1>2, <2>4, RangeUpdate
  <2>6. streams'.changes = y
    BY <1>2, <2>4, StreamUpdate
  <2> QED
    BY <2>2, <2>5, <2>6 DEF KeptStep
<1> QED
  BY <1>3, <1>4

(* Every step keeps the invariant, and rests with open posts only.         *)
LEMMA NextStep ==
  ASSUME ConsumerInv, Overlap = FALSE, [Next]_vars
  PROVE  ConsumerInv' /\ KeptStep
<1>1. ASSUME NEW w \in Writes, Write(w)
      PROVE  ConsumerInv' /\ KeptStep
  <2>1. streams' = streams
    BY <1>1 DEF Write
  <2> QED
    BY <1>1, <2>1, WriteStep DEF KeptStep
<1>2. ASSUME NEW s \in {"changes", "history"}, Refuse(s) \/ Reconcile(s)
      PROVE  ConsumerInv' /\ KeptStep
  BY <1>2, RefuseStep, ReconcileStep, RangeIsNoRest
<1>3. CASE BoundaryPage
  BY <1>3, BoundaryStep DEF KeptStep
<1>4. CASE UnitPage
  BY <1>4, UnitPageStep
<1>5. CASE ActivationPage
  BY <1>5, ActivationPageStep
<1>6. CASE SamplePage
  BY <1>6, SamplePageStep
<1>7. CASE OpenHistory \/ HistoryPage
  <2>1. \E y : streams' = [streams EXCEPT !.history = y]
    BY <1>7 DEF OpenHistory, HistoryPage
  <2>2. StreamsAre
    BY DEF ConsumerInv
  <2>3. KeptStep
    BY <2>1, <2>2, StreamUpdate DEF KeptStep
  <2> QED
    BY <1>7, <2>3, OpenHistoryStep, HistoryPageStep
<1>8. CASE UNCHANGED vars
  <2>1. log' = log /\ UNCHANGED <<streams, receipt, units, samples>>
    BY <1>8 DEF vars
  <2>2. LogGrows /\ LogInv'
    BY <2>1, LogSame DEF ConsumerInv
  <2> QED
    BY <2>1, <2>2, CalmStep DEF KeptStep
<1>9. \/ \E w \in Writes : Write(w)
      \/ \E s \in {"changes", "history"} : Refuse(s) \/ Reconcile(s)
      \/ BoundaryPage \/ UnitPage \/ ActivationPage \/ SamplePage
      \/ OpenHistory \/ HistoryPage \/ UNCHANGED vars
  BY DEF Next, Request
<1> QED
  BY <1>1, <1>2, <1>3, <1>4, <1>5, <1>6, <1>7, <1>8, <1>9

(* A consumer that has settled is not excused.                             *)
LEMMA SettledHolds ==
  ASSUME ConsumerInv, Settled, NEW u \in Units, NEW t, t = streams.changes.target,
         Visible(u, t) # Nothing
  PROVE  units[u] = Visible(u, t) /\ \A p \in DOMAIN Visible(u, t) : Sampled(p, t)
<1>1. PICK c, h, T : c = streams.changes /\ h = streams.history /\ T = Told(c, h, receipt)
  OBVIOUS
<1>2. c.pos = "idle" /\ c.privacy = 0 /\ receipt <= t /\ h.pos = "none"
  BY <1>1 DEF Settled
<1>3. /\ LogInv /\ Cursors(c, h) /\ h = None /\ HeldBy(c, T) /\ t \in 0 .. Now /\ t \in Nat
      /\ receipt \in Nat /\ T \in SUBSET (0 .. Now)
  <2>1. LogInv /\ Cursors(c, h) /\ HeldBy(c, T)
    BY <1>1 DEF ConsumerInv
  <2>2. h = None /\ t \in 0 .. Now /\ receipt \in 0 .. Now
    BY <1>1, <1>2, <2>1 DEF Cursors, IsCursor
  <2> QED
    BY <1>1, <2>1, <2>2, ToldIsKnown, LogFacts
<1>4. c.rec = 0
  <2>1. c = Start(c.target, 0, "idle", c.privacy)
    BY <1>2, <1>3 DEF Cursors
  <2>2. Start(c.target, 0, "idle", c.privacy).rec = 0
    BY StartIs
  <2> QED
    BY <2>1, <2>2
<1>5. \A k \in T : k \in Nat /\ k <= t
  BY <1>1, <1>2, <1>3, <1>4 DEF Told, None
<1>6. \A k \in T : Withdrawn(t, k, t) = {}
  BY <1>3, <1>5 DEF Withdrawn, Observed
<1>7. ~Excused(u, t, T)
  BY <1>6 DEF Excused
<1>8. Holds(u, t, t, T)
  BY <1>1, <1>2, <1>3 DEF HeldBy, Done, SampledTo
<1> QED
  BY <1>7, <1>8 DEF Holds, HoldsWith

-----------------------------------------------------------------------------
(* The theorems, for a consumer that reads one stream at a time.           *)

(* The invariant of the incremental consumer API, which every request of   *)
(* consumer-runtime.ts keeps.                                              *)
THEOREM ConsumerInvariant == Overlap = FALSE => (Spec => []ConsumerInv)
<1> SUFFICES ASSUME Overlap = FALSE PROVE Spec => []ConsumerInv
  OBVIOUS
<1>1. Init => ConsumerInv
  BY InitInv
<1>2. ConsumerInv /\ [Next]_vars => ConsumerInv'
  BY NextStep
<1> QED
  BY <1>1, <1>2, PTL DEF Spec

(* A consumer that has consumed a source holds every unit visible in it,   *)
(* in its newest version, whatever was captured late, moved, withdrawn or  *)
(* opened again while it read (ConsumerChangeEngine.page and               *)
(* consumer-privacy.ts).                                                   *)
THEOREM VisibleUnitsAreHeld == Overlap = FALSE => (Spec => []VisibleIsHeld)
<1>1. ConsumerInv => VisibleIsHeld
  BY SettledHolds DEF VisibleIsHeld
<1> QED
  BY <1>1, ConsumerInvariant, PTL

(* It has every open observation of their posts since its bootstrap: the   *)
(* activation pages return those of posts that it sees for the first time, *)
(* the observation pages the others.                                       *)
THEOREM NoObservationIsMissing == Overlap = FALSE => (Spec => []ObservationsComplete)
<1>1. ConsumerInv => ObservationsComplete
  <2> SUFFICES ASSUME ConsumerInv, Settled, NEW t, t = streams.changes.target, NEW u \in Units,
                      NEW p \in DOMAIN Visible(u, t), NEW i \in SamplesOf(p, t), i > F
               PROVE  i \in samples
    BY DEF ObservationsComplete, F
  <2>1. Visible(u, t) # Nothing
    <3>1. DOMAIN Nothing = {}
      BY DEF Nothing
    <3> QED
      BY <3>1
  <2>2. Sampled(p, t)
    BY <2>1, SettledHolds
  <2> QED
    BY <2>2 DEF Sampled
<1> QED
  BY <1>1, ConsumerInvariant, PTL

(* When the stream of changes comes to rest, no unit that it knew the      *)
(* consumer to hold contains a restricted post: a withdrawal stops the     *)
(* pages until its removals are returned.                                  *)
THEOREM RestedUnitsAreOpen == Overlap = FALSE => (Spec => NothingWithdrawnIsKept)
<1> SUFFICES ASSUME Overlap = FALSE PROVE Spec => NothingWithdrawnIsKept
  OBVIOUS
<1>1. ASSUME ConsumerInv, [Next]_vars
      PROVE  (streams'.changes # streams.changes /\ streams'.changes.pos = "idle")
               => LET c == streams.changes
                  IN  \A u \in Units : (c.base = 0 \/ Before(c, u) # Nothing)
                        => \A p \in DOMAIN units'[u] : Open(p, Now)
  BY <1>1, NextStep DEF KeptStep, OpenIn
<1>2. ConsumerInv /\ [Next]_vars =>
        [(streams'.changes # streams.changes /\ streams'.changes.pos = "idle")
               => LET c == streams.changes
                  IN  \A u \in Units : (c.base = 0 \/ Before(c, u) # Nothing)
                        => \A p \in DOMAIN units'[u] : Open(p, Now)]_vars
  BY <1>1
<1>3. Spec => []ConsumerInv
  BY ConsumerInvariant
<1> QED
  BY <1>2, <1>3, PTL DEF NothingWithdrawnIsKept, Spec
=============================================================================
