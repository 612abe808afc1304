-------------------------- MODULE ExtensionProofs --------------------------
(***************************************************************************)
(* What the extension promises of the posts it captures.                   *)
(*                                                                         *)
(* Capture: nothing is lost between a response and the archive of the      *)
(* daemon, for any responses, any limits of the buffer and of a request,   *)
(* and any number of deaths of the worker and of faults. The saved         *)
(* identities say which posts are never accepted again, and they are a     *)
(* copy of the identities in memory, taken when a write began. So the same *)
(* has to hold of three pairs of identities and entries: those in memory,  *)
(* those a write under way holds and those that were saved. An image       *)
(* backfill may be given up without a trace, because the identities it     *)
(* repeats are accounted for by another entry. Who waits for a save has    *)
(* its posts in memory when the write begins, so in what the write saves,  *)
(* and that is why the staged copy may be cleared.                         *)
(*                                                                         *)
(* Observations: sampling loses nothing but repetitions, for any tweets    *)
(* and responses, any interval and any number of samples kept. What holds  *)
(* of the samples and the deliveries holds after every single tweet of a   *)
(* response, although samples are given up only at its end: a sample is    *)
(* that of a delivery, so the posts of the samples kept are the others     *)
(* whose deliveries pushed out the post that was given up. And what        *)
(* PoolSync assumes of its sampling rule is true of this one.              *)
(***************************************************************************)
EXTENDS Capture, Observations, SequenceTheorems, FiniteSetTheorems, WellFoundedInduction, TLAPS

Entry == [tweet : ContentTweets, sending : BOOLEAN, backfill : BOOLEAN]
Waiters == {<<"handler", r>> : r \in Responses} \cup {<<"sweep", 0>>, <<"flush", 0>>}

Shape ==
  /\ buffer \in Seq(Entry) /\ snapshot.buffer \in Seq(Entry) /\ saved.buffer \in Seq(Entry)
  /\ staged \subseteq Responses
  /\ handler \in [Responses -> {"new", "staged", "saving", "clearing", "done"}]
  /\ sweep \in [todo : Seq(Responses),
                at : {"idle", "next", "enqueueing", "saving", "clearing"}]
  /\ sweep.at \in {"enqueueing", "saving", "clearing"} => sweep.todo # <<>>
  /\ saves \in Seq(Waiters)
  /\ flush = [at |-> flush.at, cap |-> flush.cap, split |-> flush.split, sent |-> flush.sent]

(* A dead worker does nothing. *)
DeadIsIdle ==
  worker = "dead" =>
    /\ saves = <<>> /\ sweep.at = "idle" /\ flush.at = "idle"
    /\ \A r \in Responses : ~Active(r)

(* The identities of these entries that no other entry accounts for. *)
Fresh(entries) ==
  UNION {Keys(entries[i].tweet) : i \in {j \in DOMAIN entries : ~entries[j].backfill}}

Accounted(ids, entries) == ids \subseteq archive \cup dropped \cup Fresh(entries)

AllAccounted ==
  /\ Accounted(seen, buffer)
  /\ Accounted(snapshot.seen, snapshot.buffer)
  /\ Accounted(saved.seen, saved.buffer)

(* Only entries of the request under way carry its mark, saved ones never. *)
Unmarked(entries) == \A i \in DOMAIN entries : ~entries[i].sending

Marks ==
  /\ Unmarked(snapshot.buffer) /\ Unmarked(saved.buffer)
  /\ \A i \in DOMAIN buffer :
       buffer[i].sending => Keys(buffer[i].tweet) \subseteq KeysOf(flush.sent)

(* The identities grow from what was saved over what is being saved to     *)
(* what is in memory.                                                      *)
Growth ==
  /\ worker # "dead" => saved.seen \subseteq seen
  /\ saves # <<>> => saved.seen \subseteq snapshot.seen /\ snapshot.seen \subseteq seen

(* What a waiter wants to have saved. *)
KeysFor(w, todo) ==
  CASE w[1] = "handler" -> KeysOf(Content[w[2]])
    [] w[1] = "sweep"   -> KeysOf(Content[Head(todo)])
    [] OTHER            -> {}

Waiting ==
  /\ \A i \in DOMAIN saves : KeysFor(saves[i], sweep.todo) \subseteq seen
  /\ saves # <<>> => KeysFor(saves[1], sweep.todo) \subseteq snapshot.seen
  /\ \A i \in DOMAIN saves :
       saves[i][1] = "sweep" =>
         sweep.at = "saving" /\ \A j \in DOMAIN saves : saves[j][1] = "sweep" => i = j

(* Who is about to clear its staged copy, or did, has its posts saved. *)
SavedBeforeCleared ==
  /\ \A r \in Responses : handler[r] = "clearing" => KeysOf(Content[r]) \subseteq saved.seen
  /\ sweep.at = "clearing" => KeysOf(Content[Head(sweep.todo)]) \subseteq saved.seen
  /\ cleared \subseteq saved.seen

CaptureInv ==
  /\ Shape /\ DeadIsIdle /\ AllAccounted /\ Marks /\ Growth /\ Waiting /\ SavedBeforeCleared

-----------------------------------------------------------------------------
(* Recursion over a sequence: the function exists, so it has its equations, *)
(* and what its first step establishes and every step keeps, its last value *)
(* has. Both are shown by the least position that fails.                    *)

LEMMA LeastExists ==
  ASSUME NEW S \in SUBSET Nat, S # {}
  PROVE  \E m \in S : \A n \in S : m <= n
<1> DEFINE T == {1 .. m : m \in S}
<1>1. T \subseteq FiniteSubsetsOf(Nat) /\ T # {}
  <2>1. \A m \in S : IsFiniteSet(1 .. m) /\ 1 .. m \subseteq Nat
    BY FS_Interval
  <2> QED
    BY <2>1 DEF FiniteSubsetsOf
<1> HIDE DEF T
<1>2. PICK x \in T : \A y \in T : ~ (<<y, x>> \in StrictSubsetOrdering(Nat))
  BY <1>1, FS_StrictSubsetOrderingWellFounded, WFMin
<1>3. PICK m \in S : x = 1 .. m
  BY <1>2 DEF T
<1>4. \A n \in S : m <= n
  <2> SUFFICES ASSUME NEW n \in S, n < m
               PROVE  FALSE
    OBVIOUS
  <2>1. 1 .. n \in T
    BY DEF T
  <2>2. /\ 1 .. n \subseteq 1 .. m
        /\ m \in 1 .. m /\ m \notin 1 .. n
    OBVIOUS
  <2>3. <<1 .. n, 1 .. m>> \in StrictSubsetOrdering(Nat)
    BY <2>2 DEF StrictSubsetOrdering
  <2> QED
    BY <1>2, <1>3, <2>1, <2>3
<1> QED
  BY <1>4

(* What holds of 0 and of every number whose predecessor it holds of. *)
LEMMA UpTo ==
  ASSUME NEW N \in Nat, NEW B, 0 \in B, \A n \in 1 .. N : n - 1 \in B => n \in B
  PROVE  N \in B
<1> DEFINE Bad == {m \in 0 .. N : m \notin B}
<1>1. Bad \in SUBSET Nat
  OBVIOUS
<1>2. ASSUME NEW m \in Bad, \A n \in Bad : m <= n
      PROVE  FALSE
  <2>1. m \in 1 .. N /\ m \notin B
    OBVIOUS
  <2>2. m - 1 \notin Bad
    BY <1>2, <2>1
  <2>3. m - 1 \in B
    BY <2>1, <2>2
  <2> QED
    BY <2>1, <2>3
<1>3. Bad # {} => \E m \in Bad : \A n \in Bad : m <= n
  BY <1>1, LeastExists
<1>4. Bad = {}
  BY <1>2, <1>3
<1> QED
  BY <1>4

(* The selection of positions is defined up to every position. *)
IsPart(g, s, P, N) ==
  g = [n \in 0 .. N |-> IF n = 0 THEN <<>>
                        ELSE IF n \in P THEN Append(g[n - 1], s[n])
                        ELSE g[n - 1]]

LEMMA PartExists ==
  ASSUME NEW s, NEW P, NEW N \in Nat
  PROVE  \E g : IsPart(g, s, P, N)
<1> DEFINE B == {m \in 0 .. N : \E g : IsPart(g, s, P, m)}
<1>1. 0 \in B
  <2> DEFINE g == [n \in 0 .. 0 |-> <<>>]
  <2>1. g = [n \in 0 .. 0 |-> IF n = 0 THEN <<>>
                              ELSE IF n \in P THEN Append(g[n - 1], s[n]) ELSE g[n - 1]]
    OBVIOUS
  <2> HIDE DEF g
  <2>2. IsPart(g, s, P, 0)
    BY <2>1, Zenon DEF IsPart
  <2> QED
    BY <2>2
<1>2. ASSUME NEW m \in 1 .. N, m - 1 \in B
      PROVE  m \in B
  <2>1. m - 1 \in 0 .. N /\ m \in Nat /\ m \in 0 .. N /\ m # 0
    OBVIOUS
  <2>2. PICK g : IsPart(g, s, P, m - 1)
    BY <1>2
  <2> DEFINE last == IF m \in P THEN Append(g[m - 1], s[m]) ELSE g[m - 1]
             h == [n \in 0 .. m |-> IF n = m THEN last ELSE g[n]]
  <2>3. ASSUME NEW n \in 0 .. m
        PROVE  h[n] = IF n = 0 THEN <<>>
                      ELSE IF n \in P THEN Append(h[n - 1], s[n]) ELSE h[n - 1]
    <3>1. CASE n = m
      <4>1. h[n] = last /\ h[n - 1] = g[n - 1]
        BY <3>1, <2>1
      <4> QED
        BY <4>1, <3>1, <2>1
    <3>2. CASE n # m
      <4>1. n \in 0 .. (m - 1) /\ h[n] = g[n] /\ (n # 0 => h[n - 1] = g[n - 1])
        BY <3>2, <2>1
      <4>2. g[n] = IF n = 0 THEN <<>>
                   ELSE IF n \in P THEN Append(g[n - 1], s[n]) ELSE g[n - 1]
        BY <2>2, <4>1 DEF IsPart
      <4> QED
        BY <4>1, <4>2
    <3> QED
      BY <3>1, <3>2
  <2>4. h = [n \in 0 .. m |-> IF n = 0 THEN <<>>
                              ELSE IF n \in P THEN Append(h[n - 1], s[n]) ELSE h[n - 1]]
    BY <2>3
  <2> HIDE DEF h
  <2>5. IsPart(h, s, P, m)
    BY <2>4, Zenon DEF IsPart
  <2> QED
    BY <2>1, <2>5
<1> HIDE DEF B
<1>3. N \in B
  BY <1>1, <1>2, UpTo
<1> QED
  BY <1>3 DEF B

LEMMA OnlyRecurs ==
  ASSUME NEW E, NEW s \in Seq(E), NEW P
  PROVE  \E g : /\ Only(s, P) = g[Len(s)]
                /\ g[0] = <<>>
                /\ \A n \in 1 .. Len(s) :
                     g[n] = IF n \in P THEN Append(g[n - 1], s[n]) ELSE g[n - 1]
<1> DEFINE g == CHOOSE f : f = [n \in 0 .. Len(s) |->
                                  IF n = 0 THEN <<>>
                                  ELSE IF n \in P THEN Append(f[n - 1], s[n])
                                  ELSE f[n - 1]]
<1>0. Len(s) \in Nat
  OBVIOUS
<1>1. IsPart(g, s, P, Len(s))
  <2>1. \E f : IsPart(f, s, P, Len(s))
    BY <1>0, PartExists
  <2> QED
    BY <2>1, Zenon DEF IsPart
<1>2. Only(s, P) = g[Len(s)]
  BY DEF Only
<1> HIDE DEF g
<1>3. g[0] = <<>>
  BY <1>0, <1>1 DEF IsPart
<1>4. ASSUME NEW n \in 1 .. Len(s)
      PROVE  g[n] = IF n \in P THEN Append(g[n - 1], s[n]) ELSE g[n - 1]
  <2>1. n \in 0 .. Len(s) /\ n # 0
    BY <1>0
  <2> QED
    BY <1>1, <2>1 DEF IsPart
<1> QED
  BY <1>2, <1>3, <1>4

(* The dedup of a response is defined up to every tweet. *)
IsDedup(g, s, tweets, N) ==
  g = [n \in 0 .. N |-> IF n = 0 THEN s ELSE AddTweet(g[n - 1], tweets[n])]

LEMMA DedupExists ==
  ASSUME NEW s, NEW tweets, NEW N \in Nat
  PROVE  \E g : IsDedup(g, s, tweets, N)
<1> DEFINE B == {m \in 0 .. N : \E g : IsDedup(g, s, tweets, m)}
<1>1. 0 \in B
  <2> DEFINE g == [n \in 0 .. 0 |-> s]
  <2>1. g = [n \in 0 .. 0 |-> IF n = 0 THEN s ELSE AddTweet(g[n - 1], tweets[n])]
    OBVIOUS
  <2> HIDE DEF g
  <2>2. IsDedup(g, s, tweets, 0)
    BY <2>1, Zenon DEF IsDedup
  <2> QED
    BY <2>2
<1>2. ASSUME NEW m \in 1 .. N, m - 1 \in B
      PROVE  m \in B
  <2>1. m - 1 \in 0 .. N /\ m \in Nat /\ m \in 0 .. N /\ m # 0
    OBVIOUS
  <2>2. PICK g : IsDedup(g, s, tweets, m - 1)
    BY <1>2
  <2> DEFINE last == AddTweet(g[m - 1], tweets[m])
             h == [n \in 0 .. m |-> IF n = m THEN last ELSE g[n]]
  <2>3. ASSUME NEW n \in 0 .. m
        PROVE  h[n] = IF n = 0 THEN s ELSE AddTweet(h[n - 1], tweets[n])
    <3>1. CASE n = m
      <4>1. h[n] = last /\ h[n - 1] = g[n - 1]
        BY <3>1, <2>1
      <4> QED
        BY <4>1, <3>1, <2>1
    <3>2. CASE n # m
      <4>1. n \in 0 .. (m - 1) /\ h[n] = g[n] /\ (n # 0 => h[n - 1] = g[n - 1])
        BY <3>2, <2>1
      <4>2. g[n] = IF n = 0 THEN s ELSE AddTweet(g[n - 1], tweets[n])
        BY <2>2, <4>1 DEF IsDedup
      <4> QED
        BY <4>1, <4>2
    <3> QED
      BY <3>1, <3>2
  <2>4. h = [n \in 0 .. m |-> IF n = 0 THEN s ELSE AddTweet(h[n - 1], tweets[n])]
    BY <2>3
  <2> HIDE DEF h
  <2>5. IsDedup(h, s, tweets, m)
    BY <2>4, Zenon DEF IsDedup
  <2> QED
    BY <2>1, <2>5
<1> HIDE DEF B
<1>3. N \in B
  BY <1>1, <1>2, UpTo
<1> QED
  BY <1>3 DEF B

DedupBy(g, s, tweets) ==
  /\ AddTweets(s, tweets) = g[Len(tweets)]
  /\ g[0] = s
  /\ \A n \in 1 .. Len(tweets) : g[n] = AddTweet(g[n - 1], tweets[n])

LEMMA DedupRecurs ==
  ASSUME NEW s, NEW tweets \in Seq(ContentTweets)
  PROVE  \E g : DedupBy(g, s, tweets)
<1> DEFINE g == CHOOSE f : f = [n \in 0 .. Len(tweets) |->
                                  IF n = 0 THEN s ELSE AddTweet(f[n - 1], tweets[n])]
<1>0. Len(tweets) \in Nat
  OBVIOUS
<1>1. IsDedup(g, s, tweets, Len(tweets))
  <2>1. \E f : IsDedup(f, s, tweets, Len(tweets))
    BY <1>0, DedupExists
  <2> QED
    BY <2>1, Zenon DEF IsDedup
<1>2. AddTweets(s, tweets) = g[Len(tweets)]
  BY DEF AddTweets
<1> HIDE DEF g
<1>3. g[0] = s
  BY <1>0, <1>1 DEF IsDedup
<1>4. ASSUME NEW n \in 1 .. Len(tweets)
      PROVE  g[n] = AddTweet(g[n - 1], tweets[n])
  <2>1. n \in 0 .. Len(tweets) /\ n # 0
    BY <1>0
  <2> QED
    BY <1>1, <2>1 DEF IsDedup
<1> QED
  BY <1>2, <1>3, <1>4 DEF DedupBy

(* A selection holds what stands at the selected positions, and no more. *)
Selects(q, s, P) ==
  /\ \A k \in DOMAIN q : \E i \in DOMAIN s \cap P : q[k] = s[i]
  /\ \A i \in DOMAIN s \cap P : \E k \in DOMAIN q : q[k] = s[i]

LEMMA OnlyHolds ==
  ASSUME NEW E, NEW s \in Seq(E), NEW P
  PROVE  Only(s, P) \in Seq(E) /\ Selects(Only(s, P), s, P)
<1>0. Len(s) \in Nat /\ DOMAIN s = 1 .. Len(s)
  OBVIOUS
<1>1. PICK g : /\ Only(s, P) = g[Len(s)]
               /\ g[0] = <<>>
               /\ \A n \in 1 .. Len(s) :
                    g[n] = IF n \in P THEN Append(g[n - 1], s[n]) ELSE g[n - 1]
  BY OnlyRecurs
<1> DEFINE Right(q, n) ==
             /\ q \in Seq(E)
             /\ \A k \in DOMAIN q : \E i \in (1 .. n) \cap P : q[k] = s[i]
             /\ \A i \in (1 .. n) \cap P : \E k \in DOMAIN q : q[k] = s[i]
           B == {n \in 0 .. Len(s) : Right(g[n], n)}
<1>2. 0 \in B
  <2>1. Right(<<>>, 0)
    OBVIOUS
  <2> HIDE DEF Right
  <2>2. 0 \in 0 .. Len(s) /\ Right(g[0], 0)
    BY <1>0, <1>1, <2>1
  <2> QED
    BY <2>2
<1>3. ASSUME NEW n \in 1 .. Len(s), n - 1 \in B
      PROVE  n \in B
  <2> DEFINE q == g[n - 1]
  <2>1. /\ n \in Nat /\ n - 1 \in Nat /\ n \in 0 .. Len(s) /\ s[n] \in E
        /\ 1 .. n = (1 .. (n - 1)) \cup {n}
    BY <1>0
  <2>2. Right(q, n - 1)
    BY <1>3
  <2> HIDE DEF q
  <2>3. CASE n \in P
    <3> DEFINE r == Append(q, s[n])
    <3>1. /\ r \in Seq(E) /\ DOMAIN r = DOMAIN q \cup {Len(q) + 1}
          /\ r[Len(q) + 1] = s[n] /\ \A k \in DOMAIN q : r[k] = q[k]
      BY <2>1, <2>2
    <3> HIDE DEF r
    <3>2. Right(r, n)
      BY <2>1, <2>2, <2>3, <3>1
    <3>3. g[n] = r
      BY <1>1, <2>3 DEF q, r
    <3> QED
      BY <2>1, <3>2, <3>3
  <2>4. CASE n \notin P
    <3>1. (1 .. n) \cap P = (1 .. (n - 1)) \cap P
      BY <2>1, <2>4
    <3>2. Right(q, n)
      BY <2>2, <3>1
    <3>3. g[n] = q
      BY <1>1, <2>4 DEF q
    <3> QED
      BY <2>1, <3>2, <3>3
  <2> QED
    BY <2>3, <2>4
<1>4. Len(s) \in B
  <2> HIDE DEF B
  <2> QED
    BY <1>0, <1>2, <1>3, UpTo
<1> QED
  BY <1>0, <1>1, <1>4 DEF Selects

-----------------------------------------------------------------------------
(* Identities and entries. *)

(* What memory holds is accounted for by X and by the entries themselves,  *)
(* and what is marked as being sent is in K.                               *)
Added(s, X, K) ==
  /\ s.buffer \in Seq(Entry)
  /\ s.seen \subseteq X \cup Fresh(s.buffer)
  /\ \A i \in DOMAIN s.buffer : s.buffer[i].sending => Keys(s.buffer[i].tweet) \subseteq K

(* The dedup accepts a tweet, or its identities are seen already; an entry *)
(* that is an image backfill brings no identity that is not seen.          *)
LEMMA AddTweetKeeps ==
  ASSUME NEW s, NEW X, NEW K, NEW t \in ContentTweets, Added(s, X, K)
  PROVE  /\ Added(AddTweet(s, t), X, K)
         /\ s.seen \subseteq AddTweet(s, t).seen
         /\ Keys(t) \subseteq AddTweet(s, t).seen
<1>1. CASE Repeats(t, s) /\ ~WantsImage(t, s)
  <2>1. AddTweet(s, t) = s
    BY <1>1 DEF AddTweet
  <2>2. Keys(t) \subseteq s.seen
    BY <1>1 DEF Repeats
  <2> QED
    BY <2>1, <2>2
<1>2. CASE ~(Repeats(t, s) /\ ~WantsImage(t, s))
  <2> DEFINE e == [tweet |-> t, sending |-> FALSE,
                   backfill |-> <<"post", t.post>> \in s.seen /\ ~t.article]
             b == Append(s.buffer, e)
  <2>1. AddTweet(s, t).seen = s.seen \cup Keys(t) /\ AddTweet(s, t).buffer = b
    BY <1>2 DEF AddTweet
  <2>2. /\ e \in Entry /\ e.tweet = t /\ e.sending = FALSE
        /\ e.backfill => Keys(t) \subseteq s.seen
    <3>1. e.backfill => <<"post", t.post>> \in s.seen /\ ~t.article
      OBVIOUS
    <3>2. ~t.article => Keys(t) = {<<"post", t.post>>}
      BY DEF Keys
    <3>3. e \in Entry /\ e.tweet = t /\ e.sending = FALSE
      BY DEF Entry
    <3> QED
      BY <3>1, <3>2, <3>3
  <2> HIDE DEF e
  <2>3. /\ b \in Seq(Entry) /\ DOMAIN b = DOMAIN s.buffer \cup {Len(s.buffer) + 1}
        /\ b[Len(s.buffer) + 1] = e /\ \A i \in DOMAIN s.buffer : b[i] = s.buffer[i]
    BY <2>2 DEF Added
  <2> HIDE DEF b
  <2>4. Fresh(s.buffer) \subseteq Fresh(b)
    BY <2>3 DEF Fresh
  <2>5. ~e.backfill => Keys(t) \subseteq Fresh(b)
    BY <2>2, <2>3 DEF Fresh
  <2>6. s.seen \cup Keys(t) \subseteq X \cup Fresh(b)
    BY <2>2, <2>4, <2>5 DEF Added
  <2>7. \A i \in DOMAIN b : b[i].sending => Keys(b[i].tweet) \subseteq K
    BY <2>2, <2>3 DEF Added
  <2> QED
    BY <2>1, <2>3, <2>6, <2>7 DEF Added
<1> QED
  BY <1>1, <1>2

(* After the dedup of a response all its identities are seen. *)
LEMMA DedupKeeps ==
  ASSUME NEW s, NEW X, NEW K, NEW tweets \in Seq(ContentTweets), Added(s, X, K)
  PROVE  /\ Added(AddTweets(s, tweets), X, K)
         /\ s.seen \subseteq AddTweets(s, tweets).seen
         /\ KeysOf(tweets) \subseteq AddTweets(s, tweets).seen
<1>0. Len(tweets) \in Nat /\ DOMAIN tweets = 1 .. Len(tweets)
  OBVIOUS
<1>1. PICK g : DedupBy(g, s, tweets)
  BY DedupRecurs
<1> DEFINE Right(q, n) ==
             /\ Added(q, X, K)
             /\ s.seen \subseteq q.seen
             /\ \A i \in 1 .. n : Keys(tweets[i]) \subseteq q.seen
           B == {n \in 0 .. Len(tweets) : Right(g[n], n)}
<1>2. 0 \in B
  BY <1>0, <1>1 DEF DedupBy
<1>3. ASSUME NEW n \in 1 .. Len(tweets), n - 1 \in B
      PROVE  n \in B
  <2>1. /\ n \in 0 .. Len(tweets) /\ tweets[n] \in ContentTweets
        /\ 1 .. n = (1 .. (n - 1)) \cup {n}
    BY <1>0
  <2>2. Right(g[n - 1], n - 1)
    BY <1>3
  <2>3. g[n] = AddTweet(g[n - 1], tweets[n])
    BY <1>1 DEF DedupBy
  <2>4. /\ Added(g[n], X, K)
        /\ g[n - 1].seen \subseteq g[n].seen
        /\ Keys(tweets[n]) \subseteq g[n].seen
    BY <2>1, <2>2, <2>3, AddTweetKeeps
  <2>5. Right(g[n], n)
    BY <2>1, <2>2, <2>4
  <2> QED
    BY <2>1, <2>5
<1>4. Len(tweets) \in B
  <2> HIDE DEF B
  <2> QED
    BY <1>0, <1>2, <1>3, UpTo
<1>5. Right(AddTweets(s, tweets), Len(tweets))
  BY <1>1, <1>4 DEF DedupBy
<1> QED
  BY <1>0, <1>5 DEF KeysOf

GivenUp(b, out) == UNION {Keys(b[i].tweet) : i \in {j \in out : ~b[j].backfill}}
Kept(b, ids, X, K) ==
  /\ b \in Seq(Entry)
  /\ ids \subseteq X \cup Fresh(b)
  /\ \A i \in DOMAIN b : b[i].sending => Keys(b[i].tweet) \subseteq K

(* An overflow gives up entries; those that are no backfill are accounted  *)
(* for as dropped, the other entries stay.                                 *)
LEMMA OverflowKeeps ==
  ASSUME NEW s, NEW X, NEW K, NEW out, Added(s, X, K),
         NEW Y, GivenUp(s.buffer, out) \subseteq Y
  PROVE  Kept(Only(s.buffer, DOMAIN s.buffer \ out), s.seen, X \cup Y, K)
<1> DEFINE q == s.buffer
           b == Only(q, DOMAIN q \ out)
<1>1. q \in Seq(Entry)
  BY DEF Added
<1>2. /\ b \in Seq(Entry)
      /\ \A k \in DOMAIN b : \E i \in DOMAIN q : b[k] = q[i]
      /\ \A i \in DOMAIN q : i \notin out => \E k \in DOMAIN b : b[k] = q[i]
  <2> DEFINE P == DOMAIN q \ out
  <2>1. b = Only(q, P)
    OBVIOUS
  <2>2. \A i \in DOMAIN q : i \notin out => i \in DOMAIN q \cap P
    OBVIOUS
  <2> HIDE DEF q, P, b
  <2>3. b \in Seq(Entry) /\ Selects(b, q, P)
    BY <1>1, <2>1, OnlyHolds
  <2> QED
    BY <2>2, <2>3 DEF Selects
<1>3. \A i \in DOMAIN q : ~q[i].backfill /\ i \notin out => Keys(q[i].tweet) \subseteq Fresh(b)
  BY <1>2 DEF Fresh
<1>4. \A i \in DOMAIN q : ~q[i].backfill /\ i \in out => Keys(q[i].tweet) \subseteq Y
  BY DEF GivenUp
<1>5. Fresh(q) \subseteq Y \cup Fresh(b)
  BY <1>3, <1>4 DEF Fresh
<1> QED
  BY <1>2, <1>5 DEF Added, Kept

LEMMA SeqOf ==
  ASSUME NEW E, NEW n \in Nat, NEW c, c = [i \in 1 .. n |-> c[i]],
         \A i \in 1 .. n : c[i] \in E
  PROVE  c \in Seq(E)
OBVIOUS

LEMMA MarkedEntry ==
  ASSUME NEW e \in Entry, NEW x \in BOOLEAN, NEW f, f = [e EXCEPT !.sending = x]
  PROVE  f \in Entry /\ f.tweet = e.tweet /\ f.backfill = e.backfill /\ f.sending = x
BY DEF Entry

(* Entries without marks hold the same posts. *)
LEMMA PlainFacts ==
  ASSUME NEW b \in Seq(Entry)
  PROVE  Plain(b) \in Seq(Entry) /\ Unmarked(Plain(b)) /\ Fresh(Plain(b)) = Fresh(b)
<1> SUFFICES ASSUME NEW c, c = [i \in DOMAIN b |-> [b[i] EXCEPT !.sending = FALSE]]
             PROVE  c \in Seq(Entry) /\ Unmarked(c) /\ Fresh(c) = Fresh(b)
  BY DEF Plain
<1>1. c = [i \in 1 .. Len(b) |-> c[i]] /\ Len(b) \in Nat /\ DOMAIN b = 1 .. Len(b)
  OBVIOUS
<1>2. ASSUME NEW i \in DOMAIN b
      PROVE  /\ c[i].tweet = b[i].tweet /\ c[i].backfill = b[i].backfill
             /\ c[i].sending = FALSE /\ c[i] \in Entry
  <2>1. b[i] \in Entry /\ c[i] = [b[i] EXCEPT !.sending = FALSE]
    OBVIOUS
  <2> QED
    BY <2>1, MarkedEntry
<1>3. c \in Seq(Entry)
  BY <1>1, <1>2, SeqOf
<1>4. Unmarked(c)
  BY <1>1, <1>2 DEF Unmarked
<1>5. Fresh(c) = Fresh(b)
  BY <1>1, <1>2 DEF Fresh
<1> QED
  BY <1>3, <1>4, <1>5

(* A request marks what it sends. *)
MarkedUpTo(b, cap) == [i \in DOMAIN b |-> [b[i] EXCEPT !.sending = i <= cap]]
SameButMarked(c, b, cap) ==
  /\ c \in Seq(Entry) /\ Fresh(c) = Fresh(b) /\ DOMAIN c = DOMAIN b
  /\ \A i \in DOMAIN b : c[i].tweet = b[i].tweet /\ (c[i].sending => i <= cap)

LEMMA MarkFacts ==
  ASSUME NEW b \in Seq(Entry), NEW cap
  PROVE  SameButMarked(MarkedUpTo(b, cap), b, cap)
<1> SUFFICES ASSUME NEW c, c = [i \in DOMAIN b |-> [b[i] EXCEPT !.sending = i <= cap]]
             PROVE  SameButMarked(c, b, cap)
  BY DEF MarkedUpTo
<1>1. c = [i \in 1 .. Len(b) |-> c[i]] /\ Len(b) \in Nat /\ DOMAIN b = 1 .. Len(b)
  OBVIOUS
<1>2. ASSUME NEW i \in DOMAIN b
      PROVE  /\ c[i].tweet = b[i].tweet /\ c[i].backfill = b[i].backfill
             /\ (c[i].sending => i <= cap) /\ c[i] \in Entry
  <2> DEFINE x == i <= cap
  <2>1. b[i] \in Entry /\ c[i] = [b[i] EXCEPT !.sending = x] /\ x \in BOOLEAN
    OBVIOUS
  <2> HIDE DEF x
  <2>2. /\ c[i].tweet = b[i].tweet /\ c[i].backfill = b[i].backfill
        /\ c[i].sending = x /\ c[i] \in Entry
    BY <2>1, MarkedEntry
  <2> QED
    BY <2>2 DEF x
<1>3. c \in Seq(Entry)
  BY <1>1, <1>2, SeqOf
<1>4. Fresh(c) = Fresh(b)
  BY <1>1, <1>2 DEF Fresh
<1> QED
  BY <1>1, <1>2, <1>3, <1>4 DEF SameButMarked

(* What stays once the marked entries are removed. *)
LEMMA UnsentFacts ==
  ASSUME NEW b \in Seq(Entry), NEW X,
         \A i \in DOMAIN b : b[i].sending => Keys(b[i].tweet) \subseteq X
  PROVE  /\ Unsent(b) \in Seq(Entry) /\ Unmarked(Unsent(b))
         /\ Fresh(b) \subseteq X \cup Fresh(Unsent(b))
<1> DEFINE P == {i \in DOMAIN b : ~b[i].sending}
           c == Unsent(b)
<1>1. c = Only(b, P)
  BY DEF Unsent
<1> HIDE DEF c
<1>2. c \in Seq(Entry) /\ Selects(c, b, P)
  <2> HIDE DEF P
  <2> QED
    BY <1>1, OnlyHolds
<1>3. /\ \A k \in DOMAIN c : \E i \in DOMAIN b : ~b[i].sending /\ c[k] = b[i]
      /\ \A i \in DOMAIN b : ~b[i].sending => \E k \in DOMAIN c : c[k] = b[i]
  BY <1>2 DEF Selects
<1>4. Unmarked(c)
  BY <1>3 DEF Unmarked
<1>5. \A i \in DOMAIN b : ~b[i].backfill => Keys(b[i].tweet) \subseteq X \cup Fresh(c)
  BY <1>3 DEF Fresh
<1>6. Fresh(b) \subseteq X \cup Fresh(c)
  BY <1>5 DEF Fresh
<1> QED
  BY <1>2, <1>4, <1>6 DEF c

LEMMA NothingInNoSnapshot ==
  /\ NoSnapshot.seen = {} /\ NoSnapshot.buffer = <<>>
  /\ NoSnapshot.buffer \in Seq(Entry) /\ Unmarked(NoSnapshot.buffer)
BY DEF NoSnapshot, Unmarked

LEMMA ContentFacts ==
  ASSUME NEW r \in Responses
  PROVE  Content[r] \in Seq(ContentTweets)
BY CaptureAssumption DEF CaptureAssumption, Responses

-----------------------------------------------------------------------------
(* Who starts or awaits a save.                                            *)

(* A save that begins holds what memory holds. *)
LEMMA SaveStateKeeps ==
  ASSUME CaptureInv, NEW w \in Waiters, SaveState(w, seen', buffer'),
         buffer' \in Seq(Entry), seen' \subseteq archive' \cup dropped' \cup Fresh(buffer'),
         seen \subseteq seen', archive \subseteq archive', dropped \subseteq dropped',
         saved' = saved, worker' = worker, worker # "dead"
  PROVE  /\ saves' = Append(saves, w) /\ saves' \in Seq(Waiters)
         /\ snapshot'.buffer \in Seq(Entry) /\ Unmarked(snapshot'.buffer)
         /\ AllAccounted' /\ Growth'
<1>1. saves' = Append(saves, w) /\ saves' \in Seq(Waiters) /\ saves' # <<>>
  BY DEF SaveState, CaptureInv, Shape
<1>2. CASE saves = <<>>
  <2>1. snapshot'.seen = seen' /\ snapshot'.buffer = Plain(buffer')
    BY <1>2 DEF SaveState
  <2>2. /\ snapshot'.buffer \in Seq(Entry) /\ Unmarked(snapshot'.buffer)
        /\ Fresh(snapshot'.buffer) = Fresh(buffer')
    BY <2>1, PlainFacts
  <2>3. AllAccounted'
    BY <2>1, <2>2 DEF CaptureInv, AllAccounted, Accounted
  <2>4. Growth'
    BY <2>1 DEF CaptureInv, Growth
  <2> QED
    BY <1>1, <2>2, <2>3, <2>4
<1>3. CASE saves # <<>>
  <2>1. snapshot' = snapshot
    BY <1>3 DEF SaveState
  <2>2. snapshot'.buffer \in Seq(Entry) /\ Unmarked(snapshot'.buffer)
    BY <2>1 DEF CaptureInv, Shape, Marks
  <2>3. AllAccounted'
    BY <2>1 DEF CaptureInv, AllAccounted, Accounted
  <2>4. Growth'
    BY <1>3, <2>1 DEF CaptureInv, Growth
  <2> QED
    BY <1>1, <2>2, <2>3, <2>4
<1> QED
  BY <1>2, <1>3

(* Another waiter: its posts are in memory, and in what is written if the  *)
(* write begins with it.                                                   *)
LEMMA WaiterJoins ==
  ASSUME CaptureInv, NEW w \in Waiters, SaveState(w, seen', buffer'),
         seen \subseteq seen', KeysFor(w, sweep.todo) \subseteq seen', sweep'.todo = sweep.todo,
         \/ w[1] = "sweep" /\ sweep.at # "saving" /\ sweep'.at = "saving"
         \/ w[1] # "sweep" /\ sweep'.at = sweep.at
  PROVE  Waiting'
<1> DEFINE n == Len(saves) + 1
<1>1. /\ saves \in Seq(Waiters) /\ saves' = Append(saves, w) /\ n \in Nat
      /\ DOMAIN saves' = DOMAIN saves \cup {n} /\ n \notin DOMAIN saves
      /\ saves'[n] = w /\ \A i \in DOMAIN saves : saves'[i] = saves[i]
  BY DEF SaveState, CaptureInv, Shape
<1> HIDE DEF n
<1>3. \A i \in DOMAIN saves : KeysFor(saves[i], sweep.todo) \subseteq seen
  BY DEF CaptureInv, Waiting
<1>4. \A i \in DOMAIN saves' : KeysFor(saves'[i], sweep'.todo) \subseteq seen'
  BY <1>1, <1>3
<1>5. KeysFor(saves'[1], sweep'.todo) \subseteq snapshot'.seen
  <2>1. CASE saves = <<>>
    <3>1. saves'[1] = w /\ snapshot'.seen = seen'
      BY <1>1, <2>1 DEF SaveState
    <3> QED
      BY <3>1
  <2>2. CASE saves # <<>>
    <3>1. 1 \in DOMAIN saves /\ snapshot' = snapshot
      BY <1>1, <2>2 DEF SaveState
    <3>2. saves'[1] = saves[1]
      BY <1>1, <3>1
    <3> QED
      BY <2>2, <3>1, <3>2 DEF CaptureInv, Waiting
  <2> QED
    BY <2>1, <2>2
<1>6. \A i \in DOMAIN saves' :
        saves'[i][1] = "sweep" =>
          sweep'.at = "saving" /\ \A j \in DOMAIN saves' : saves'[j][1] = "sweep" => i = j
  <2>1. \A i \in DOMAIN saves :
          saves[i][1] = "sweep" =>
            sweep.at = "saving" /\ \A j \in DOMAIN saves : saves[j][1] = "sweep" => i = j
    BY DEF CaptureInv, Waiting
  <2> QED
    BY <1>1, <2>1
<1> QED
  BY <1>4, <1>5, <1>6 DEF Waiting

(* A response, captured or recovered, enters the buffer. *)
LEMMA EnqueueKeeps ==
  ASSUME CaptureInv, NEW w \in Waiters, NEW tweets \in Seq(ContentTweets), EnqueueTweets(w, tweets),
         saved' = saved, worker' = worker, archive' = archive, flush' = flush, worker # "dead"
  PROVE  /\ buffer' \in Seq(Entry) /\ saves' \in Seq(Waiters) /\ snapshot'.buffer \in Seq(Entry)
         /\ AllAccounted' /\ Growth' /\ Marks'
         /\ seen \subseteq seen' /\ KeysOf(tweets) \subseteq seen'
         /\ SaveState(w, seen', buffer')
<1> DEFINE s0 == [seen |-> seen, checked |-> checked, buffer |-> buffer]
           X == archive \cup dropped
           K == KeysOf(flush.sent)
<1>1. PICK s, out : /\ s = AddTweets(s0, tweets)
                    /\ seen' = s.seen
                    /\ buffer' = Only(s.buffer, DOMAIN s.buffer \ out)
                    /\ dropped' = dropped \cup GivenUp(s.buffer, out)
                    /\ SaveState(w, seen', buffer')
  BY DEF EnqueueTweets, GivenUp
<1>2. Added(s0, X, K)
  BY DEF Added, CaptureInv, Shape, AllAccounted, Accounted, Marks
<1>3. s0.seen = seen
  OBVIOUS
<1> HIDE DEF s0, X, K
<1>4. Added(s, X, K) /\ seen \subseteq s.seen /\ KeysOf(tweets) \subseteq s.seen
  BY <1>1, <1>2, <1>3, DedupKeeps
<1>5. Kept(buffer', s.seen, X \cup dropped', K)
  <2>1. GivenUp(s.buffer, out) \subseteq dropped'
    BY <1>1
  <2> QED
    BY <1>1, <1>4, <2>1, OverflowKeeps
<1>6. dropped \subseteq dropped'
  BY <1>1
<1>7. seen' \subseteq archive' \cup dropped' \cup Fresh(buffer')
  BY <1>1, <1>5, <1>6 DEF X, Kept
<1>8. /\ saves' \in Seq(Waiters)
      /\ snapshot'.buffer \in Seq(Entry) /\ Unmarked(snapshot'.buffer)
      /\ AllAccounted' /\ Growth'
  BY <1>1, <1>4, <1>5, <1>6, <1>7, SaveStateKeeps DEF Kept
<1>9. Marks'
  BY <1>5, <1>8 DEF K, Marks, CaptureInv, Kept
<1> QED
  BY <1>1, <1>4, <1>5, <1>8, <1>9 DEF Kept

-----------------------------------------------------------------------------
(* The actions.                                                            *)

(* A live worker: what is only true of a dead one needs no proof. *)
LEMMA Alive ==
  ASSUME worker' = worker, worker # "dead"
  PROVE  DeadIsIdle'
BY DEF DeadIsIdle

LEMMA CaptureKeeps ==
  ASSUME CaptureInv, NEW r \in Responses, Capture(r)
  PROVE  CaptureInv'
<1> USE DEF Capture, CaptureInv, disk, memory, saving, remote, bounds
<1>1. Shape'
  BY DEF Shape
<1>2. DeadIsIdle'
  BY Alive
<1>3. AllAccounted'
  BY DEF AllAccounted, Accounted
<1>4. Marks'
  BY DEF Marks
<1>5. Growth'
  BY DEF Growth
<1>6. Waiting'
  BY DEF Waiting
<1>7. SavedBeforeCleared'
  BY DEF SavedBeforeCleared, Shape
<1> QED
  BY <1>1, <1>2, <1>3, <1>4, <1>5, <1>6, <1>7

LEMMA HandlerEnqueuesKeeps ==
  ASSUME CaptureInv, NEW r \in Responses, HandlerEnqueues(r)
  PROVE  CaptureInv'
<1> DEFINE w == <<"handler", r>>
<1>1. /\ EnqueueTweets(w, Content[r]) /\ w \in Waiters /\ Content[r] \in Seq(ContentTweets)
      /\ saved' = saved /\ staged' = staged /\ cleared' = cleared /\ worker' = worker
      /\ archive' = archive /\ flush' = flush /\ sweep' = sweep
      /\ handler[r] = "staged" /\ handler' = [handler EXCEPT ![r] = "saving"]
  BY ContentFacts DEF HandlerEnqueues, disk, remote, Waiters
<1>2. worker # "dead"
  BY <1>1 DEF CaptureInv, DeadIsIdle, Active
<1>3. /\ buffer' \in Seq(Entry) /\ saves' \in Seq(Waiters) /\ snapshot'.buffer \in Seq(Entry)
      /\ AllAccounted' /\ Growth' /\ Marks'
      /\ seen \subseteq seen' /\ KeysOf(Content[r]) \subseteq seen'
      /\ SaveState(w, seen', buffer')
  BY <1>1, <1>2, EnqueueKeeps
<1>4. Shape'
  BY <1>1, <1>3 DEF CaptureInv, Shape
<1>5. Waiting'
  <2>1. KeysFor(w, sweep.todo) \subseteq seen' /\ w[1] # "sweep"
    BY <1>3 DEF KeysFor
  <2> QED
    BY <1>1, <1>3, <2>1, WaiterJoins
<1>6. SavedBeforeCleared'
  BY <1>1 DEF CaptureInv, SavedBeforeCleared, Shape
<1> QED
  BY <1>1, <1>2, <1>3, <1>4, <1>5, <1>6, Alive DEF CaptureInv

LEMMA HandlerClearsKeeps ==
  ASSUME CaptureInv, NEW r \in Responses, HandlerClears(r)
  PROVE  CaptureInv'
<1> USE DEF HandlerClears, ClearStaged, CaptureInv, memory, saving, remote, bounds
<1>1. Shape'
  BY DEF Shape
<1>2. DeadIsIdle'
  BY Alive DEF DeadIsIdle, Active
<1>3. AllAccounted'
  BY DEF AllAccounted, Accounted
<1>4. Marks'
  BY DEF Marks
<1>5. Growth'
  BY DEF Growth
<1>6. Waiting'
  BY DEF Waiting
<1>7. SavedBeforeCleared'
  BY DEF SavedBeforeCleared, Shape
<1> QED
  BY <1>1, <1>2, <1>3, <1>4, <1>5, <1>6, <1>7

LEMMA HandlerFailsKeeps ==
  ASSUME CaptureInv, NEW r \in Responses, HandlerFails(r)
  PROVE  CaptureInv'
<1> USE DEF HandlerFails, CaptureInv, disk, memory, saving, remote
<1>1. Shape'
  BY DEF Shape
<1>2. DeadIsIdle'
  BY Alive DEF DeadIsIdle, Active
<1>3. AllAccounted'
  BY DEF AllAccounted, Accounted
<1>4. Marks'
  BY DEF Marks
<1>5. Growth'
  BY DEF Growth
<1>6. Waiting'
  BY DEF Waiting
<1>7. SavedBeforeCleared'
  BY DEF SavedBeforeCleared, Shape
<1> QED
  BY <1>1, <1>2, <1>3, <1>4, <1>5, <1>6, <1>7

(* Steps of the sweep that no save waits for. *)
LEMMA SweepMoves ==
  ASSUME CaptureInv, sweep.at # "saving",
         saves' = saves, seen' = seen, snapshot' = snapshot
  PROVE  Waiting'
<1>1. \A i \in DOMAIN saves : saves[i][1] # "sweep"
  BY DEF CaptureInv, Waiting
<1>2. \A i \in DOMAIN saves : KeysFor(saves[i], sweep'.todo) = KeysFor(saves[i], sweep.todo)
  BY <1>1 DEF KeysFor
<1>3. saves # <<>> => 1 \in DOMAIN saves
  BY DEF CaptureInv, Shape
<1> QED
  BY <1>1, <1>2, <1>3 DEF CaptureInv, Waiting

LEMMA ReadStagedFacts ==
  ASSUME Shape
  PROVE  ReadStaged.todo \in Seq(Responses) /\ ReadStaged.at = "next"
         /\ ReadStaged = [todo |-> ReadStaged.todo, at |-> "next"]
<1> DEFINE all == [r \in Responses |-> r]
<1>1. all \in Seq(Responses)
  <2>1. Len(Content) \in Nat /\ Responses = 1 .. Len(Content)
    BY CaptureAssumption DEF CaptureAssumption, Responses
  <2> QED
    BY <2>1
<1>2. Only(all, staged) \in Seq(Responses)
  <2> HIDE DEF all
  <2> QED
    BY <1>1, OnlyHolds
<1> QED
  BY <1>2 DEF ReadStaged

LEMMA SweepStartsKeeps ==
  ASSUME CaptureInv, SweepStarts
  PROVE  CaptureInv'
<1> USE DEF SweepStarts, CaptureInv, disk, memory, saving, remote, bounds
<1>1. Shape'
  BY ReadStagedFacts DEF Shape
<1>2. DeadIsIdle'
  BY Alive
<1>3. AllAccounted'
  BY DEF AllAccounted, Accounted
<1>4. Marks'
  BY DEF Marks
<1>5. Growth'
  BY DEF Growth
<1>6. Waiting'
  BY SweepMoves
<1>7. SavedBeforeCleared'
  BY ReadStagedFacts DEF SavedBeforeCleared
<1> QED
  BY <1>1, <1>2, <1>3, <1>4, <1>5, <1>6, <1>7

LEMMA ProceedFacts ==
  ASSUME Shape, sweep.todo # <<>>
  PROVE  Proceed \in [todo : Seq(Responses), at : {"next"}]
BY DEF Shape, Proceed

LEMMA SweepNextKeeps ==
  ASSUME CaptureInv, SweepNext
  PROVE  CaptureInv'
<1>0. /\ sweep.at = "next"
      /\ \/ sweep.todo = <<>> /\ sweep' = [sweep EXCEPT !.at = "idle"]
         \/ sweep.todo # <<>> /\ sweep' = Proceed
         \/ sweep.todo # <<>> /\ sweep' = [sweep EXCEPT !.at = "enqueueing"]
      /\ UNCHANGED <<disk, worker, handler, memory, saving, flush, transport, remote, bounds>>
  BY DEF SweepNext
<1> USE DEF CaptureInv, disk, memory, saving, remote, bounds
<1>1. Shape' /\ sweep'.at \in {"idle", "next", "enqueueing"}
  <2>1. /\ sweep' \in [todo : Seq(Responses),
                       at : {"idle", "next", "enqueueing", "saving", "clearing"}]
        /\ sweep'.at \in {"idle", "next", "enqueueing"}
        /\ sweep'.at = "enqueueing" => sweep'.todo # <<>>
    BY <1>0, ProceedFacts DEF Shape
  <2> QED
    BY <1>0, <2>1 DEF Shape
<1>2. DeadIsIdle'
  BY <1>0 DEF DeadIsIdle
<1>3. AllAccounted'
  BY <1>0 DEF AllAccounted, Accounted
<1>4. Marks'
  BY <1>0 DEF Marks
<1>5. Growth'
  BY <1>0 DEF Growth
<1>6. Waiting'
  BY <1>0, SweepMoves
<1>7. SavedBeforeCleared'
  BY <1>0, <1>1 DEF SavedBeforeCleared
<1> QED
  BY <1>1, <1>2, <1>3, <1>4, <1>5, <1>6, <1>7

LEMMA SweepEnqueuesKeeps ==
  ASSUME CaptureInv, SweepEnqueues
  PROVE  CaptureInv'
<1> DEFINE w == <<"sweep", 0>>
           tweets == Content[Head(sweep.todo)]
<1>0. Head(sweep.todo) \in Responses /\ sweep.at = "enqueueing"
  BY DEF SweepEnqueues, CaptureInv, Shape
<1>1. /\ EnqueueTweets(w, tweets) /\ w \in Waiters /\ tweets \in Seq(ContentTweets)
      /\ saved' = saved /\ staged' = staged /\ cleared' = cleared /\ worker' = worker
      /\ archive' = archive /\ flush' = flush /\ handler' = handler
      /\ sweep' = [sweep EXCEPT !.at = "saving"]
  BY <1>0, ContentFacts DEF SweepEnqueues, disk, remote, Waiters
<1>2. worker # "dead"
  BY <1>0 DEF CaptureInv, DeadIsIdle
<1>3. /\ buffer' \in Seq(Entry) /\ saves' \in Seq(Waiters) /\ snapshot'.buffer \in Seq(Entry)
      /\ AllAccounted' /\ Growth' /\ Marks'
      /\ seen \subseteq seen' /\ KeysOf(tweets) \subseteq seen'
      /\ SaveState(w, seen', buffer')
  <2> HIDE DEF tweets, w
  <2> QED
    BY <1>1, <1>2, EnqueueKeeps
<1>4. sweep'.todo = sweep.todo /\ sweep'.at = "saving"
  BY <1>1 DEF CaptureInv, Shape
<1>5. Shape'
  BY <1>0, <1>1, <1>3 DEF CaptureInv, Shape
<1>6. Waiting'
  <2>1. KeysFor(w, sweep.todo) \subseteq seen' /\ w[1] = "sweep"
    BY <1>3 DEF KeysFor
  <2> QED
    BY <1>0, <1>1, <1>3, <1>4, <2>1, WaiterJoins
<1>7. SavedBeforeCleared'
  BY <1>1, <1>4 DEF CaptureInv, SavedBeforeCleared
<1> QED
  BY <1>1, <1>2, <1>3, <1>5, <1>6, <1>7, Alive DEF CaptureInv

LEMMA SweepClearsKeeps ==
  ASSUME CaptureInv, SweepClears
  PROVE  CaptureInv'
<1>0. /\ sweep.at = "clearing" /\ sweep.todo # <<>>
      /\ sweep' \in [todo : Seq(Responses), at : {"next"}]
  BY ProceedFacts DEF SweepClears, CaptureInv, Shape
<1> USE DEF SweepClears, ClearStaged, CaptureInv, memory, saving, remote, bounds
<1>1. Shape'
  BY <1>0 DEF Shape
<1>2. DeadIsIdle'
  BY <1>0, Alive DEF DeadIsIdle
<1>3. AllAccounted'
  BY DEF AllAccounted, Accounted
<1>4. Marks'
  BY DEF Marks
<1>5. Growth'
  BY DEF Growth
<1>6. Waiting'
  BY SweepMoves
<1>7. SavedBeforeCleared'
  BY <1>0 DEF SavedBeforeCleared
<1> QED
  BY <1>1, <1>2, <1>3, <1>4, <1>5, <1>6, <1>7

LEMMA SweepFailsKeeps ==
  ASSUME CaptureInv, SweepFails
  PROVE  CaptureInv'
<1>0. /\ sweep.at \in {"enqueueing", "clearing"} /\ sweep.todo # <<>>
      /\ sweep' \in [todo : Seq(Responses), at : {"next"}]
  BY ProceedFacts DEF SweepFails, CaptureInv, Shape
<1> USE DEF SweepFails, CaptureInv, disk, memory, saving, remote
<1>1. Shape'
  BY <1>0 DEF Shape
<1>2. DeadIsIdle'
  BY <1>0, Alive DEF DeadIsIdle
<1>3. AllAccounted'
  BY DEF AllAccounted, Accounted
<1>4. Marks'
  BY DEF Marks
<1>5. Growth'
  BY DEF Growth
<1>6. Waiting'
  BY SweepMoves
<1>7. SavedBeforeCleared'
  BY <1>0 DEF SavedBeforeCleared
<1> QED
  BY <1>1, <1>2, <1>3, <1>4, <1>5, <1>6, <1>7

(* A save ends: who waited for it goes on, the next write takes what       *)
(* memory holds now.                                                       *)
LEMMA SaveEndsKeeps ==
  ASSUME CaptureInv, NEW ok \in BOOLEAN, SaveEnds(ok)
  PROVE  CaptureInv'
<1> DEFINE w == Head(saves)
           rest == Tail(saves)
<1>0. /\ saves # <<>> /\ saves' = rest /\ saved' = (IF ok THEN snapshot ELSE saved)
      /\ snapshot' = (IF rest = <<>> THEN NoSnapshot ELSE [seen |-> seen, buffer |-> Plain(buffer)])
      /\ staged' = staged /\ cleared' = cleared /\ worker' = worker /\ archive' = archive
      /\ buffer' = buffer /\ seen' = seen /\ dropped' = dropped
      /\ Resume(ok)
  BY DEF SaveEnds, memory, remote
<1>1. worker # "dead"
  BY <1>0 DEF CaptureInv, DeadIsIdle
<1>2. /\ w \in Waiters /\ w = saves[1] /\ 1 \in DOMAIN saves
      /\ rest \in Seq(Waiters)
      /\ \A i \in DOMAIN rest : i + 1 \in DOMAIN saves /\ rest[i] = saves[i + 1] /\ i + 1 # 1
      /\ rest # <<>> => 1 \in DOMAIN rest
  BY <1>0 DEF CaptureInv, Shape
<1>3. \/ /\ w[1] = "sweep"
         /\ sweep' = (IF ok THEN [sweep EXCEPT !.at = "clearing"] ELSE Proceed)
         /\ handler' = handler /\ flush' = flush
      \/ /\ w[1] = "flush" /\ flush' = [flush EXCEPT !.at = "next"]
         /\ handler' = handler /\ sweep' = sweep
      \/ /\ w[1] = "handler" /\ w[2] \in Responses
         /\ handler' = [handler EXCEPT ![w[2]] = IF ok THEN "clearing" ELSE "done"]
         /\ sweep' = sweep /\ flush' = flush
  BY <1>0, <1>2 DEF Resume, Waiters
<1>4. /\ w[1] = "sweep" => /\ sweep.at = "saving" /\ sweep.todo # <<>>
                           /\ \A i \in DOMAIN rest : rest[i][1] # "sweep"
      /\ KeysFor(w, sweep.todo) \subseteq snapshot.seen
      /\ \A i \in DOMAIN rest : KeysFor(rest[i], sweep.todo) \subseteq seen
  BY <1>0, <1>2 DEF CaptureInv, Waiting, Shape
<1>5. /\ saved.seen \subseteq snapshot.seen /\ snapshot.seen \subseteq seen
      /\ saved.seen \subseteq saved'.seen /\ saved'.seen \subseteq seen
  BY <1>0 DEF CaptureInv, Growth
<1> HIDE DEF w, rest
<1>6. /\ snapshot'.buffer \in Seq(Entry) /\ Unmarked(snapshot'.buffer)
      /\ rest = <<>> \/ snapshot'.seen = seen
      /\ snapshot'.seen \subseteq archive \cup dropped \cup Fresh(snapshot'.buffer)
  <2>1. CASE rest = <<>>
    BY <1>0, <2>1, NothingInNoSnapshot
  <2>2. CASE rest # <<>>
    <3>1. snapshot'.seen = seen /\ snapshot'.buffer = Plain(buffer)
      BY <1>0, <2>2
    <3>2. buffer \in Seq(Entry)
      BY DEF CaptureInv, Shape
    <3>3. /\ snapshot'.buffer \in Seq(Entry) /\ Unmarked(snapshot'.buffer)
          /\ Fresh(snapshot'.buffer) = Fresh(buffer)
      BY <3>1, <3>2, PlainFacts
    <3> QED
      BY <3>1, <3>3 DEF CaptureInv, AllAccounted, Accounted
  <2> QED
    BY <2>1, <2>2
<1>7. /\ sweep' \in [todo : Seq(Responses),
                     at : {"idle", "next", "enqueueing", "saving", "clearing"}]
      /\ sweep'.at \in {"enqueueing", "saving", "clearing"} => sweep'.todo # <<>>
      /\ w[1] # "sweep" => sweep' = sweep
      /\ w[1] = "sweep" /\ ok => sweep'.todo = sweep.todo
      /\ w[1] = "sweep" /\ ~ok => sweep'.at = "next"
  BY <1>3, <1>4, ProceedFacts DEF CaptureInv, Shape
<1>8. /\ handler' \in [Responses -> {"new", "staged", "saving", "clearing", "done"}]
      /\ flush' = [at |-> flush'.at, cap |-> flush'.cap, split |-> flush'.split, sent |-> flush'.sent]
      /\ flush'.sent = flush.sent
  BY <1>3 DEF CaptureInv, Shape
<1>9. Shape'
  BY <1>0, <1>2, <1>6, <1>7, <1>8 DEF CaptureInv, Shape
<1>10. AllAccounted'
  BY <1>0, <1>6 DEF CaptureInv, AllAccounted, Accounted
<1>11. Marks'
  BY <1>0, <1>6, <1>8 DEF CaptureInv, Marks
<1>12. Growth'
  BY <1>0, <1>5, <1>6 DEF Growth
<1>13. Waiting'
  <2>1. \A i \in DOMAIN rest : KeysFor(rest[i], sweep'.todo) \subseteq seen
    <3>1. CASE w[1] = "sweep"
      BY <1>4, <3>1 DEF KeysFor
    <3>2. CASE w[1] # "sweep"
      BY <1>4, <1>7, <3>2
    <3> QED
      BY <3>1, <3>2
  <2>2. rest # <<>> => KeysFor(rest[1], sweep'.todo) \subseteq snapshot'.seen
    BY <1>2, <1>6, <2>1
  <2>3. ASSUME NEW i \in DOMAIN rest, rest[i][1] = "sweep"
        PROVE  sweep'.at = "saving" /\ \A j \in DOMAIN rest : rest[j][1] = "sweep" => i = j
    <3>1. sweep' = sweep
      BY <1>4, <1>7, <2>3
    <3>2. \A k \in DOMAIN saves :
            saves[k][1] = "sweep" =>
              sweep.at = "saving" /\ \A j \in DOMAIN saves : saves[j][1] = "sweep" => k = j
      BY DEF CaptureInv, Waiting
    <3>3. i \in Nat /\ \A j \in DOMAIN rest : j \in Nat
      BY <1>2
    <3> QED
      BY <1>2, <2>3, <3>1, <3>2, <3>3
  <2> QED
    BY <1>0, <2>1, <2>2, <2>3 DEF Waiting
<1>14. SavedBeforeCleared'
  <2>1. cleared' \subseteq saved'.seen
    BY <1>0, <1>5 DEF CaptureInv, SavedBeforeCleared
  <2>2. ASSUME NEW r \in Responses, handler'[r] = "clearing"
        PROVE  KeysOf(Content[r]) \subseteq saved'.seen
    <3>1. CASE handler[r] = "clearing"
      BY <1>5, <3>1 DEF CaptureInv, SavedBeforeCleared
    <3>2. CASE handler[r] # "clearing"
      <4>1. w[1] = "handler" /\ w[2] = r /\ ok
        BY <1>3, <2>2, <3>2 DEF CaptureInv, Shape
      <4>2. KeysFor(w, sweep.todo) = KeysOf(Content[r])
        BY <4>1 DEF KeysFor
      <4> QED
        BY <1>0, <1>4, <4>1, <4>2
    <3> QED
      BY <3>1, <3>2
  <2>3. ASSUME sweep'.at = "clearing"
        PROVE  KeysOf(Content[Head(sweep'.todo)]) \subseteq saved'.seen
    <3>1. CASE w[1] = "sweep"
      <4>1. ok /\ sweep'.todo = sweep.todo
        BY <1>7, <2>3, <3>1
      <4>2. KeysFor(w, sweep.todo) = KeysOf(Content[Head(sweep.todo)])
        BY <3>1 DEF KeysFor
      <4> QED
        BY <1>0, <1>4, <4>1, <4>2
    <3>2. CASE w[1] # "sweep"
      BY <1>5, <1>7, <2>3, <3>2 DEF CaptureInv, SavedBeforeCleared
    <3> QED
      BY <3>1, <3>2
  <2> QED
    BY <2>1, <2>2, <2>3 DEF SavedBeforeCleared
<1> QED
  BY <1>0, <1>1, <1>9, <1>10, <1>11, <1>12, <1>13, <1>14, Alive DEF CaptureInv

(* A request is sent: it marks the entries it carries. *)
LEMMA SendKeeps ==
  ASSUME CaptureInv, NEW cap, NEW split, Send(cap, split), worker # "dead",
         UNCHANGED <<staged, saved, cleared, worker, handler, sweep, seen, dropped, archive,
                     saves, snapshot>>
  PROVE  CaptureInv'
<1>1. buffer \in Seq(Entry)
  BY DEF CaptureInv, Shape
<1>2. buffer' = MarkedUpTo(buffer, cap)
  BY DEF Send, MarkedUpTo
<1>3. /\ buffer' \in Seq(Entry) /\ Fresh(buffer') = Fresh(buffer) /\ DOMAIN buffer' = DOMAIN buffer
      /\ \A i \in DOMAIN buffer : buffer'[i].tweet = buffer[i].tweet
                                  /\ (buffer'[i].sending => i <= cap)
  <2>1. SameButMarked(buffer', buffer, cap)
    BY <1>1, <1>2, MarkFacts
  <2> QED
    BY <2>1 DEF SameButMarked
<1>4. /\ flush' = [at |-> flush'.at, cap |-> flush'.cap, split |-> flush'.split, sent |-> flush'.sent]
      /\ \A i \in DOMAIN buffer :
           i <= cap => i \in DOMAIN flush'.sent /\ flush'.sent[i] = buffer[i].tweet
  BY DEF Send
<1>5. Shape'
  BY <1>3, <1>4 DEF CaptureInv, Shape
<1>6. AllAccounted'
  BY <1>3 DEF CaptureInv, AllAccounted, Accounted
<1>7. Marks'
  <2>1. \A i \in DOMAIN buffer' :
          buffer'[i].sending => Keys(buffer'[i].tweet) \subseteq KeysOf(flush'.sent)
    BY <1>3, <1>4 DEF KeysOf
  <2> QED
    BY <2>1 DEF CaptureInv, Marks
<1>8. Growth' /\ Waiting' /\ SavedBeforeCleared'
  BY DEF CaptureInv, Growth, Waiting, SavedBeforeCleared
<1> QED
  BY <1>5, <1>6, <1>7, <1>8, Alive DEF CaptureInv

LEMMA FlushSendsKeeps ==
  ASSUME CaptureInv, FlushSends
  PROVE  CaptureInv'
<1>1. /\ Send(flush.cap, flush.split) /\ worker # "dead"
      /\ UNCHANGED <<staged, saved, cleared, worker, handler, sweep, seen, dropped, archive,
                     saves, snapshot>>
  BY DEF FlushSends, disk, saving, remote
<1> QED
  BY <1>1, SendKeeps

LEMMA FlushEndsKeeps ==
  ASSUME CaptureInv, FlushEnds
  PROVE  CaptureInv'
<1>0. worker # "dead"
  BY DEF FlushEnds, CaptureInv, DeadIsIdle
<1> USE DEF FlushEnds, CaptureInv, disk, memory, saving, remote, bounds
<1>1. Shape'
  BY DEF Shape, Idle
<1>2. DeadIsIdle'
  BY <1>0, Alive
<1>3. AllAccounted'
  BY DEF AllAccounted, Accounted
<1>4. Marks'
  BY DEF Marks
<1>5. Growth'
  BY DEF Growth
<1>6. Waiting'
  BY DEF Waiting
<1>7. SavedBeforeCleared'
  BY DEF SavedBeforeCleared
<1> QED
  BY <1>1, <1>2, <1>3, <1>4, <1>5, <1>6, <1>7

(* The batch was written: what is removed from the buffer is in the        *)
(* archive, also what the overflow gave up while it was sent.              *)
LEMMA FlushIsTakenKeeps ==
  ASSUME CaptureInv, FlushIsTaken
  PROVE  CaptureInv'
<1> DEFINE w == <<"flush", 0>>
           X == KeysOf(flush.sent)
<1>0. /\ flush.at = "sending" /\ archive' = archive \cup X /\ buffer' = Unsent(buffer)
      /\ SaveState(w, seen, buffer')
      /\ \E at, cap, split : flush' = [at |-> at, cap |-> cap, split |-> split, sent |-> <<>>]
      /\ UNCHANGED <<staged, saved, cleared, worker, handler, sweep, seen, dropped>>
  <2>1. /\ flush.at = "sending" /\ archive' = archive \cup X /\ buffer' = Unsent(buffer)
        /\ SaveState(w, seen, buffer')
        /\ UNCHANGED <<staged, saved, cleared, worker, handler, sweep, seen, dropped>>
    BY DEF FlushIsTaken, Reached, disk
  <2>2. \E left : flush' = IF left > 0
                THEN [flush EXCEPT !.at = "saving", !.split = left, !.sent = <<>>]
                ELSE [flush EXCEPT !.at = "saving", !.split = 0, !.sent = <<>>,
                                   !.cap = IF flush.split > 0 THEN MaxPost ELSE @]
    BY DEF FlushIsTaken
  <2>3. flush = [at |-> flush.at, cap |-> flush.cap, split |-> flush.split, sent |-> flush.sent]
    BY DEF CaptureInv, Shape
  <2>4. \E at, cap, split : flush' = [at |-> at, cap |-> cap, split |-> split, sent |-> <<>>]
    BY <2>2, <2>3
  <2> QED
    BY <2>1, <2>4
<1>1. worker # "dead" /\ seen' = seen /\ w \in Waiters /\ SaveState(w, seen', buffer')
  BY <1>0 DEF CaptureInv, DeadIsIdle, Waiters
<1> HIDE DEF X
<1>2. /\ buffer' \in Seq(Entry) /\ Unmarked(buffer')
      /\ Fresh(buffer) \subseteq X \cup Fresh(buffer')
  <2>1. /\ buffer \in Seq(Entry)
        /\ \A i \in DOMAIN buffer : buffer[i].sending => Keys(buffer[i].tweet) \subseteq X
    BY DEF CaptureInv, Shape, Marks, X
  <2> QED
    BY <1>0, <2>1, UnsentFacts
<1>3. seen' \subseteq archive' \cup dropped' \cup Fresh(buffer')
  BY <1>0, <1>2 DEF CaptureInv, AllAccounted, Accounted
<1>4. /\ saves' \in Seq(Waiters)
      /\ snapshot'.buffer \in Seq(Entry) /\ Unmarked(snapshot'.buffer)
      /\ AllAccounted' /\ Growth'
  BY <1>0, <1>1, <1>2, <1>3, SaveStateKeeps
<1>5. Shape'
  BY <1>0, <1>2, <1>4 DEF CaptureInv, Shape
<1>6. Marks'
  BY <1>0, <1>2, <1>4 DEF CaptureInv, Marks, Unmarked
<1>7. Waiting'
  <2>1. KeysFor(w, sweep.todo) \subseteq seen' /\ w[1] # "sweep"
    BY DEF KeysFor
  <2> QED
    BY <1>0, <1>1, <2>1, WaiterJoins
<1>8. SavedBeforeCleared'
  BY <1>0 DEF CaptureInv, SavedBeforeCleared
<1> QED
  BY <1>0, <1>1, <1>4, <1>5, <1>6, <1>7, <1>8, Alive DEF CaptureInv

(* A tweet that fits no request is given up and counted as dropped; a      *)
(* larger batch is sent again, halved.                                     *)
LEMMA FlushIsTooLargeKeeps ==
  ASSUME CaptureInv, FlushIsTooLarge
  PROVE  CaptureInv'
<1> DEFINE w == <<"flush", 0>>
           X == KeysOf(flush.sent)
<1>0. /\ flush.at = "sending"
      /\ UNCHANGED <<staged, saved, cleared, worker, handler, sweep, seen, archive>>
  BY DEF FlushIsTooLarge, Reached, disk, remote
<1>1. worker # "dead"
  BY <1>0 DEF CaptureInv, DeadIsIdle
<1>2. CASE Len(flush.sent) > 1
  <2>1. /\ Send(Halved(Len(flush.sent)), Len(flush.sent))
        /\ UNCHANGED <<saves, snapshot, dropped>>
    BY <1>2 DEF FlushIsTooLarge, saving
  <2> QED
    BY <1>0, <1>1, <2>1, SendKeeps
<1>3. CASE ~(Len(flush.sent) > 1)
  <2>0. /\ buffer' = Unsent(buffer) /\ dropped' = dropped \cup X
        /\ SaveState(w, seen, buffer')
        /\ flush' = [Idle EXCEPT !.at = "saving"]
    BY <1>3 DEF FlushIsTooLarge
  <2>1. seen' = seen /\ w \in Waiters /\ SaveState(w, seen', buffer')
    BY <1>0, <2>0 DEF Waiters
  <2> HIDE DEF X
  <2>2. /\ buffer' \in Seq(Entry) /\ Unmarked(buffer')
        /\ Fresh(buffer) \subseteq X \cup Fresh(buffer')
    <3>1. /\ buffer \in Seq(Entry)
          /\ \A i \in DOMAIN buffer : buffer[i].sending => Keys(buffer[i].tweet) \subseteq X
      BY DEF CaptureInv, Shape, Marks, X
    <3> QED
      BY <2>0, <3>1, UnsentFacts
  <2>3. seen' \subseteq archive' \cup dropped' \cup Fresh(buffer')
    BY <1>0, <2>0, <2>2 DEF CaptureInv, AllAccounted, Accounted
  <2>4. /\ saves' \in Seq(Waiters)
        /\ snapshot'.buffer \in Seq(Entry) /\ Unmarked(snapshot'.buffer)
        /\ AllAccounted' /\ Growth'
    BY <1>0, <1>1, <2>0, <2>1, <2>2, <2>3, SaveStateKeeps
  <2>5. Shape'
    BY <1>0, <2>0, <2>2, <2>4 DEF CaptureInv, Shape, Idle
  <2>6. Marks'
    BY <1>0, <2>2, <2>4 DEF CaptureInv, Marks, Unmarked
  <2>7. Waiting'
    <3>1. KeysFor(w, sweep.todo) \subseteq seen' /\ w[1] # "sweep"
      BY DEF KeysFor
    <3> QED
      BY <1>0, <2>0, <2>1, <3>1, WaiterJoins
  <2>8. SavedBeforeCleared'
    BY <1>0 DEF CaptureInv, SavedBeforeCleared
  <2> QED
    BY <1>0, <1>1, <2>4, <2>5, <2>6, <2>7, <2>8, Alive DEF CaptureInv
<1> QED
  BY <1>2, <1>3

(* A request without a good answer: the entries stay and lose the mark. *)
LEMMA FlushStopsKeeps ==
  ASSUME CaptureInv, flush.at = "sending", NEW next, FlushStops(next), archive \subseteq archive'
  PROVE  CaptureInv'
<1>0. /\ flush' = Idle /\ buffer' = Plain(buffer)
      /\ UNCHANGED <<staged, saved, cleared, worker, handler, sweep, seen, dropped, saves, snapshot>>
  BY DEF FlushStops, disk, saving
<1>1. buffer' \in Seq(Entry) /\ Unmarked(buffer') /\ Fresh(buffer') = Fresh(buffer)
  BY <1>0, PlainFacts DEF CaptureInv, Shape
<1>2. worker # "dead"
  BY DEF CaptureInv, DeadIsIdle
<1>3. Shape'
  BY <1>0, <1>1 DEF CaptureInv, Shape, Idle
<1>4. AllAccounted'
  BY <1>0, <1>1 DEF CaptureInv, AllAccounted, Accounted
<1>5. Marks'
  BY <1>0, <1>1 DEF CaptureInv, Marks, Unmarked
<1>6. Growth' /\ Waiting' /\ SavedBeforeCleared'
  BY <1>0 DEF CaptureInv, Growth, Waiting, SavedBeforeCleared
<1> QED
  BY <1>0, <1>2, <1>3, <1>4, <1>5, <1>6, Alive DEF CaptureInv

LEMMA FlushFailsKeeps ==
  ASSUME CaptureInv,
         FlushIsRefused \/ FlushIsUnreachable \/ FlushIsUnanswered \/ FlushIsRejected
  PROVE  CaptureInv'
<1>1. /\ FlushStops("none") \/ FlushStops("http")
      /\ archive \subseteq archive'
  BY DEF FlushIsRefused, FlushIsUnreachable, FlushIsUnanswered, FlushIsRejected, Reached
<1>2. flush.at = "sending"
  BY DEF FlushIsRefused, FlushIsUnreachable, FlushIsUnanswered, FlushIsRejected, Reached
<1> QED
  BY <1>1, <1>2, FlushStopsKeeps

(* The worker dies with its memory; what it saved holds by itself. *)
LEMMA WorkerDiesKeeps ==
  ASSUME CaptureInv, WorkerDies
  PROVE  CaptureInv'
<1>0. /\ worker' = "dead" /\ buffer' = <<>> /\ seen' = {} /\ saves' = <<>> /\ snapshot' = NoSnapshot
      /\ handler' = [r \in Responses |-> IF Active(r) THEN "done" ELSE handler[r]]
      /\ sweep' = [todo |-> <<>>, at |-> "idle"] /\ flush' = Idle
      /\ UNCHANGED <<staged, saved, cleared, dropped, archive>>
  BY DEF WorkerDies, disk, remote
<1>1. \A r \in Responses :
        handler'[r] \in {"new", "done"} /\ ~(handler'[r] \in {"staged", "saving", "clearing"})
  BY <1>0 DEF Active, CaptureInv, Shape
<1>2. Shape'
  BY <1>0, <1>1, NothingInNoSnapshot DEF CaptureInv, Shape, Idle
<1>3. DeadIsIdle'
  BY <1>0, <1>1 DEF DeadIsIdle, Active, Idle
<1>4. AllAccounted'
  BY <1>0, NothingInNoSnapshot DEF CaptureInv, AllAccounted, Accounted
<1>5. Marks'
  BY <1>0, NothingInNoSnapshot DEF CaptureInv, Marks
<1>6. Growth' /\ Waiting'
  BY <1>0 DEF Growth, Waiting
<1>7. SavedBeforeCleared'
  BY <1>0, <1>1 DEF CaptureInv, SavedBeforeCleared
<1> QED
  BY <1>2, <1>3, <1>4, <1>5, <1>6, <1>7 DEF CaptureInv

(* It starts again with what was saved. *)
LEMMA WorkerStartsKeeps ==
  ASSUME CaptureInv, WorkerStarts
  PROVE  CaptureInv'
<1>0. /\ worker = "dead" /\ worker' = "starting"
      /\ buffer' = saved.buffer /\ seen' = saved.seen /\ sweep' = ReadStaged
      /\ UNCHANGED <<staged, saved, cleared, handler, dropped, saves, snapshot, flush, archive>>
  BY DEF WorkerStarts, disk, saving, remote
<1>1. saves = <<>>
  BY <1>0 DEF CaptureInv, DeadIsIdle
<1>2. Shape'
  BY <1>0, ReadStagedFacts DEF CaptureInv, Shape
<1>3. DeadIsIdle'
  BY <1>0 DEF DeadIsIdle
<1>4. AllAccounted'
  BY <1>0 DEF CaptureInv, AllAccounted, Accounted
<1>5. Marks'
  BY <1>0 DEF CaptureInv, Marks, Unmarked
<1>6. Growth' /\ Waiting'
  BY <1>0, <1>1 DEF Growth, Waiting
<1>7. SavedBeforeCleared'
  BY <1>0, ReadStagedFacts DEF CaptureInv, SavedBeforeCleared
<1> QED
  BY <1>2, <1>3, <1>4, <1>5, <1>6, <1>7 DEF CaptureInv

LEMMA TransportKeeps ==
  ASSUME CaptureInv, InitTransport \/ InitTransportFails
  PROVE  CaptureInv'
<1>0. /\ worker' = "ready"
      /\ worker = "starting"
      /\ UNCHANGED <<staged, saved, cleared, handler, sweep, buffer, seen, dropped, saves,
                     snapshot, flush, archive>>
  BY DEF InitTransport, InitTransportFails, disk, memory, saving, remote
<1> QED
  BY <1>0 DEF CaptureInv, Shape, DeadIsIdle, AllAccounted, Accounted, Marks, Growth, Waiting,
              SavedBeforeCleared

(* Nothing the invariant speaks of changes: the daemon, its token and the  *)
(* transport come and go.                                                  *)
LEMMA OthersKeep ==
  ASSUME CaptureInv,
         UNCHANGED <<staged, saved, cleared, worker, handler, sweep, buffer, seen, dropped, saves,
                     snapshot, flush, archive>>
  PROVE  CaptureInv'
BY DEF CaptureInv, Shape, DeadIsIdle, Active, AllAccounted, Accounted, Marks, Growth, Waiting,
       SavedBeforeCleared

-----------------------------------------------------------------------------
LEMMA InitCapture == Init => CaptureInv
<1> SUFFICES ASSUME Init PROVE CaptureInv
  OBVIOUS
<1> USE NothingInNoSnapshot DEF Init
<1>1. Shape
  BY DEF Shape, Idle
<1>2. DeadIsIdle
  BY DEF DeadIsIdle
<1>3. AllAccounted /\ Marks
  BY DEF AllAccounted, Accounted, Marks
<1>4. Growth /\ Waiting /\ SavedBeforeCleared
  BY DEF Growth, Waiting, SavedBeforeCleared
<1> QED
  BY <1>1, <1>2, <1>3, <1>4 DEF CaptureInv

LEMMA NextKeeps == CaptureInv /\ [Next]_vars => CaptureInv'
<1> SUFFICES ASSUME CaptureInv, [Next]_vars PROVE CaptureInv'
  OBVIOUS
<1>1. CASE \E r \in Responses : Capture(r)
  BY <1>1, CaptureKeeps
<1>2. CASE SweepStarts
  BY <1>2, SweepStartsKeeps
<1>3. CASE Handle
  BY <1>3, HandlerEnqueuesKeeps, HandlerClearsKeeps DEF Handle
<1>4. CASE Sweep
  BY <1>4, SweepNextKeeps, SweepEnqueuesKeeps, SweepClearsKeeps DEF Sweep
<1>5. CASE Saves
  <2>1. SaveEnds(TRUE)
    BY <1>5 DEF Saves
  <2> QED
    BY <2>1, SaveEndsKeeps
<1>6. CASE Flush
  <2>1. CASE ReprobeTransport
    BY <2>1, OthersKeep DEF ReprobeTransport, disk, memory, saving
  <2> QED
    BY <1>6, <2>1, FlushSendsKeeps, FlushEndsKeeps, FlushIsTakenKeeps, FlushIsTooLargeKeeps,
       FlushFailsKeeps DEF Flush
<1>7. CASE Run
  <2>1. CASE DaemonStarts
    BY <2>1, OthersKeep DEF DaemonStarts, disk, memory, saving
  <2> QED
    BY <1>7, <2>1, WorkerStartsKeeps, TransportKeeps DEF Run
<1>8. CASE Fails
  <2>1. CASE SaveFails
    <3>1. SaveEnds(FALSE)
      BY <2>1 DEF SaveFails
    <3> QED
      BY <3>1, SaveEndsKeeps
  <2>2. CASE DaemonStops
    BY <2>2, OthersKeep DEF DaemonStops, disk, memory, saving
  <2>3. CASE TokenIsReplaced
    BY <2>3, OthersKeep DEF TokenIsReplaced, disk, memory, saving
  <2> QED
    BY <1>8, <2>1, <2>2, <2>3, SweepFailsKeeps, FlushFailsKeeps, TransportKeeps,
       WorkerDiesKeeps, HandlerFailsKeeps DEF Fails
<1>9. CASE UNCHANGED vars
  BY <1>9, OthersKeep DEF vars, disk, memory, saving, remote
<1> QED
  BY <1>1, <1>2, <1>3, <1>4, <1>5, <1>6, <1>7, <1>8, <1>9 DEF Next

(* The inductive invariant of the capture buffer. *)
THEOREM CaptureInvariant == Spec => []CaptureInv
<1>1. Init => CaptureInv
  BY InitCapture
<1>2. CaptureInv /\ [Next]_vars => CaptureInv'
  BY NextKeeps
<1> QED
  BY <1>1, <1>2, PTL DEF Spec

(* What the entries account for, they hold. *)
LEMMA InvImpliesNothingLost == CaptureInv => NothingLostBeforeDaemon
<1> SUFFICES ASSUME CaptureInv PROVE NothingLostBeforeDaemon
  OBVIOUS
<1>1. Fresh(saved.buffer) \subseteq Contained(saved.buffer)
  BY DEF Fresh, Contained
<1>2. cleared \subseteq saved.seen
  BY DEF CaptureInv, SavedBeforeCleared
<1>3. saved.seen \subseteq archive \cup dropped \cup Fresh(saved.buffer)
  BY DEF CaptureInv, AllAccounted, Accounted
<1> QED
  BY <1>1, <1>2, <1>3 DEF NothingLostBeforeDaemon

(* Whatever dies, fails or overflows between a response and the daemon: a  *)
(* post whose staged copy was cleared, or which is never accepted again,   *)
(* is in the archive, in the saved buffer or was given up openly.          *)
THEOREM NothingIsLostBeforeDaemon == Spec => []NothingLostBeforeDaemon
BY CaptureInvariant, InvImpliesNothingLost, PTL

-----------------------------------------------------------------------------
(* Observations.                                                           *)

(* The preparation of a response is defined up to every tweet. *)
Blank(s) == [accepted |-> <<>>, samples |-> s]
IsPreparation(g, s, tweets, N) ==
  g = [n \in 0 .. N |-> IF n = 0 THEN Blank(s) ELSE PrepareOne(g[n - 1], tweets[n])]

LEMMA PreparationExists ==
  ASSUME NEW s, NEW tweets, NEW N \in Nat
  PROVE  \E g : IsPreparation(g, s, tweets, N)
<1> DEFINE B == {m \in 0 .. N : \E g : IsPreparation(g, s, tweets, m)}
<1>1. 0 \in B
  <2> DEFINE g == [n \in 0 .. 0 |-> Blank(s)]
  <2>1. g = [n \in 0 .. 0 |-> IF n = 0 THEN Blank(s) ELSE PrepareOne(g[n - 1], tweets[n])]
    OBVIOUS
  <2> HIDE DEF g
  <2>2. IsPreparation(g, s, tweets, 0)
    BY <2>1, Zenon DEF IsPreparation
  <2> QED
    BY <2>2
<1>2. ASSUME NEW m \in 1 .. N, m - 1 \in B
      PROVE  m \in B
  <2>1. m - 1 \in 0 .. N /\ m \in Nat /\ m \in 0 .. N /\ m # 0
    OBVIOUS
  <2>2. PICK g : IsPreparation(g, s, tweets, m - 1)
    BY <1>2
  <2> DEFINE last == PrepareOne(g[m - 1], tweets[m])
             h == [n \in 0 .. m |-> IF n = m THEN last ELSE g[n]]
  <2>3. ASSUME NEW n \in 0 .. m
        PROVE  h[n] = IF n = 0 THEN Blank(s) ELSE PrepareOne(h[n - 1], tweets[n])
    <3>1. CASE n = m
      <4>1. h[n] = last /\ h[n - 1] = g[n - 1]
        BY <3>1, <2>1
      <4> QED
        BY <4>1, <3>1, <2>1
    <3>2. CASE n # m
      <4>1. n \in 0 .. (m - 1) /\ h[n] = g[n] /\ (n # 0 => h[n - 1] = g[n - 1])
        BY <3>2, <2>1
      <4>2. g[n] = IF n = 0 THEN Blank(s) ELSE PrepareOne(g[n - 1], tweets[n])
        BY <2>2, <4>1 DEF IsPreparation
      <4> QED
        BY <4>1, <4>2
    <3> QED
      BY <3>1, <3>2
  <2>4. h = [n \in 0 .. m |-> IF n = 0 THEN Blank(s) ELSE PrepareOne(h[n - 1], tweets[n])]
    BY <2>3
  <2> HIDE DEF h
  <2>5. IsPreparation(h, s, tweets, m)
    BY <2>4, Zenon DEF IsPreparation
  <2> QED
    BY <2>1, <2>5
<1> HIDE DEF B
<1>3. N \in B
  BY <1>1, <1>2, UpTo
<1> QED
  BY <1>3 DEF B

PreparedBy(g, s, tweets) ==
  /\ PrepareAll(tweets, s) = g[Len(tweets)]
  /\ g[0] = Blank(s)
  /\ \A n \in 1 .. Len(tweets) : g[n] = PrepareOne(g[n - 1], tweets[n])

LEMMA PreparationRecurs ==
  ASSUME NEW s, NEW tweets \in Seq(Tweets)
  PROVE  \E g : PreparedBy(g, s, tweets)
<1> DEFINE g == CHOOSE f : f = [n \in 0 .. Len(tweets) |->
                                  IF n = 0 THEN [accepted |-> <<>>, samples |-> s]
                                  ELSE PrepareOne(f[n - 1], tweets[n])]
<1>0. Len(tweets) \in Nat
  OBVIOUS
<1>1. IsPreparation(g, s, tweets, Len(tweets))
  <2>1. \E f : IsPreparation(f, s, tweets, Len(tweets))
    BY <1>0, PreparationExists
  <2> QED
    BY <2>1, Zenon DEF IsPreparation, Blank
<1>2. PrepareAll(tweets, s) = g[Len(tweets)]
  BY DEF PrepareAll, Blank
<1> HIDE DEF g
<1>3. g[0] = Blank(s)
  BY <1>0, <1>1 DEF IsPreparation
<1>4. ASSUME NEW n \in 1 .. Len(tweets)
      PROVE  g[n] = PrepareOne(g[n - 1], tweets[n])
  <2>1. n \in 0 .. Len(tweets) /\ n # 0
    BY <1>0
  <2> QED
    BY <1>1, <2>1 DEF IsPreparation
<1> QED
  BY <1>2, <1>3, <1>4 DEF PreparedBy

-----------------------------------------------------------------------------
(* Samples and deliveries.                                                 *)

Crowd(a, id, n) == {a[m].id : m \in 1 .. n} \ {id}
CrowdedIn(a, id, n) == Cardinality(Crowd(a, id, n)) >= MaxSamples

(* Every sample is that of a delivery. *)
Backed(a, known) ==
  \A id \in DOMAIN known : \E j \in DOMAIN a :
    a[j].id = id /\ a[j].content = known[id].content /\ a[j].time = known[id].time

(* What SampleIsNewestDelivery and RepeatsAreSampled say of deliveries a. *)
NewestKept(a, known) ==
  \A j \in DOMAIN a :
    \/ a[j].id \in DOMAIN known /\ a[j].time <= known[a[j].id].time
    \/ CrowdedIn(a, a[j].id, Len(a))

RepeatsIn(a) ==
  \A j, k \in DOMAIN a :
    j < k /\ SameSample(a[j], a[k]) =>
      \/ \E m \in 1 .. k - 1 : a[m].id = a[k].id /\ ~SameSample(a[m], a[k])
      \/ CrowdedIn(a, a[k].id, k - 1)

SamplesInv(a, known) ==
  /\ a \in Seq(Tweets) /\ IsFiniteSet(DOMAIN known)
  /\ Backed(a, known) /\ NewestKept(a, known) /\ RepeatsIn(a)

LEMMA CrowdFinite ==
  ASSUME NEW a, NEW id, NEW n \in Nat
  PROVE  IsFiniteSet(Crowd(a, id, n)) /\ Cardinality(Crowd(a, id, n)) \in Nat
<1> DEFINE S == {a[m].id : m \in 1 .. n}
           f == [m \in 1 .. n |-> a[m].id]
<1>1. IsFiniteSet(1 .. n)
  BY FS_Interval
<1>2. f \in Surjection(1 .. n, S)
  BY DEF Surjection
<1> HIDE DEF f
<1>3. IsFiniteSet(S)
  <2> HIDE DEF S
  <2> QED
    BY <1>1, <1>2, FS_Surjection
<1>4. Crowd(a, id, n) \in SUBSET S
  BY DEF Crowd
<1> HIDE DEF S
<1>5. IsFiniteSet(Crowd(a, id, n))
  BY <1>3, <1>4, FS_Subset
<1> QED
  BY <1>5, FS_CardinalityType

(* One more delivery leaves the others as they are, and no crowd shrinks. *)
Extended(a, t, b) ==
  /\ b \in Seq(Tweets) /\ Len(b) = Len(a) + 1 /\ DOMAIN b = DOMAIN a \cup {Len(a) + 1}
  /\ b[Len(a) + 1] = t /\ \A i \in DOMAIN a : b[i] = a[i]
  /\ DOMAIN a = 1 .. Len(a) /\ Len(a) \in Nat
  /\ \A id : \A n \in 0 .. Len(a) : CrowdedIn(a, id, n) => CrowdedIn(b, id, n)
  /\ \A id : CrowdedIn(a, id, Len(a)) => CrowdedIn(b, id, Len(b))

LEMMA CrowdGrows ==
  ASSUME SamplingAssumption, NEW a \in Seq(Tweets), NEW t \in Tweets
  PROVE  Extended(a, t, Append(a, t))
<1> DEFINE b == Append(a, t)
<1>1. /\ b \in Seq(Tweets) /\ Len(b) = Len(a) + 1 /\ DOMAIN b = DOMAIN a \cup {Len(a) + 1}
      /\ b[Len(a) + 1] = t /\ \A i \in DOMAIN a : b[i] = a[i]
      /\ DOMAIN a = 1 .. Len(a) /\ Len(a) \in Nat
  OBVIOUS
<1> HIDE DEF b
<1>2. ASSUME NEW id, NEW n \in 0 .. Len(a)
      PROVE  Crowd(b, id, n) = Crowd(a, id, n)
  <2>1. \A m \in 1 .. n : b[m] = a[m]
    BY <1>1
  <2> QED
    BY <2>1 DEF Crowd
<1>3. ASSUME NEW id, NEW n \in 0 .. Len(a), CrowdedIn(a, id, n)
      PROVE  CrowdedIn(b, id, n)
  BY <1>2, <1>3 DEF CrowdedIn
<1>4. ASSUME NEW id, CrowdedIn(a, id, Len(a))
      PROVE  CrowdedIn(b, id, Len(b))
  <2>1. Crowd(a, id, Len(a)) \in SUBSET Crowd(b, id, Len(b))
    <3>1. \A m \in 1 .. Len(a) : m \in 1 .. Len(b) /\ b[m] = a[m]
      BY <1>1
    <3> QED
      BY <3>1 DEF Crowd
  <2>2. /\ IsFiniteSet(Crowd(b, id, Len(b))) /\ Cardinality(Crowd(b, id, Len(b))) \in Nat
        /\ Cardinality(Crowd(a, id, Len(a))) \in Nat
    BY <1>1, CrowdFinite
  <2>3. Cardinality(Crowd(a, id, Len(a))) <= Cardinality(Crowd(b, id, Len(b)))
    BY <2>1, <2>2, FS_Subset
  <2> QED
    BY <1>4, <2>2, <2>3 DEF CrowdedIn, SamplingAssumption
<1>5. Extended(a, t, b)
  BY <1>1, <1>3, <1>4 DEF Extended
<1> QED
  BY <1>5 DEF b

-----------------------------------------------------------------------------
(* Retain has what it chooses: the newest of any number of samples.        *)

IsNewestOf(m, R, known) == m \in R /\ \A id \in R : known[m].time >= known[id].time
Best(ids, n, known) ==
  /\ ids \in SUBSET DOMAIN known
  /\ Cardinality(ids) = n
  /\ \A in \in ids, out \in DOMAIN known \ ids : known[in].time >= known[out].time
Timed(known) ==
  IsFiniteSet(DOMAIN known) /\ \A id \in DOMAIN known : known[id].time \in Nat

LEMMA NewestExists ==
  ASSUME NEW known, Timed(known), NEW R \in SUBSET DOMAIN known, R # {}
  PROVE  \E m : IsNewestOf(m, R, known)
<1> DEFINE Sized(n) == {Q \in SUBSET R : Q # {} /\ Cardinality(Q) = n}
           B == {n \in 0 .. Cardinality(R) :
                   \A Q \in Sized(n) : \E m : IsNewestOf(m, Q, known)}
<1>1. IsFiniteSet(R) /\ \A Q \in SUBSET R : IsFiniteSet(Q) /\ Cardinality(Q) \in Nat
  <2>1. IsFiniteSet(R)
    BY FS_Subset DEF Timed
  <2>2. \A Q \in SUBSET R : IsFiniteSet(Q)
    BY <2>1, FS_Subset
  <2> QED
    BY <2>1, <2>2, FS_CardinalityType
<1>2. 0 \in B
  <2>1. Sized(0) = {}
    BY <1>1, FS_EmptySet
  <2>2. 0 \in 0 .. Cardinality(R)
    BY <1>1
  <2> QED
    BY <2>1, <2>2
<1>3. ASSUME NEW n \in 1 .. Cardinality(R), n - 1 \in B
      PROVE  n \in B
  <2>1. n \in 0 .. Cardinality(R) /\ n \in Nat
    BY <1>1
  <2>2. ASSUME NEW Q \in Sized(n)
        PROVE  \E m : IsNewestOf(m, Q, known)
    <3>1. PICK x \in Q : TRUE
      OBVIOUS
    <3>2. Q \ {x} \in SUBSET R /\ Cardinality(Q \ {x}) = n - 1
      BY <1>1, <3>1, FS_RemoveElement
    <3>3. CASE Q \ {x} = {}
      <4>1. Q = {x} /\ x \in DOMAIN known /\ known[x].time \in Nat
        BY <3>1, <3>3 DEF Timed
      <4>2. IsNewestOf(x, Q, known)
        BY <4>1 DEF IsNewestOf
      <4> QED
        BY <4>2
    <3>4. CASE Q \ {x} # {}
      <4>1. Q \ {x} \in Sized(n - 1)
        BY <3>2, <3>4
      <4>2. PICK m : IsNewestOf(m, Q \ {x}, known)
        BY <1>3, <4>1
      <4>3. \A id \in Q : known[id].time \in Nat
        BY DEF Timed
      <4>4. m \in Q /\ \A id \in Q \ {x} : known[m].time >= known[id].time
        BY <4>2 DEF IsNewestOf
      <4>5. CASE known[m].time >= known[x].time
        <5>1. IsNewestOf(m, Q, known)
          BY <4>4, <4>5 DEF IsNewestOf
        <5> QED
          BY <5>1
      <4>6. CASE ~(known[m].time >= known[x].time)
        <5>1. \A id \in Q : known[x].time >= known[id].time
          BY <3>1, <4>3, <4>4, <4>6
        <5>2. IsNewestOf(x, Q, known)
          BY <3>1, <5>1 DEF IsNewestOf
        <5> QED
          BY <5>2
      <4> QED
        BY <4>5, <4>6
    <3> QED
      BY <3>3, <3>4
  <2> QED
    BY <2>1, <2>2
<1>4. R \in Sized(Cardinality(R))
  OBVIOUS
<1>5. Cardinality(R) \in Nat
  BY <1>1
<1> HIDE DEF B
<1>6. Cardinality(R) \in B
  BY <1>2, <1>3, <1>5, UpTo
<1> USE DEF B
<1> QED
  BY <1>4, <1>6

LEMMA BestExists ==
  ASSUME NEW known, Timed(known), NEW N \in Nat, N <= Cardinality(DOMAIN known)
  PROVE  \E ids : Best(ids, N, known)
<1> DEFINE B == {n \in 0 .. N : \E ids : Best(ids, n, known)}
<1>0. IsFiniteSet(DOMAIN known) /\ Cardinality(DOMAIN known) \in Nat
  BY FS_CardinalityType DEF Timed
<1>1. 0 \in B
  <2>1. Best({}, 0, known)
    BY FS_EmptySet DEF Best
  <2> QED
    BY <2>1
<1>2. ASSUME NEW n \in 1 .. N, n - 1 \in B
      PROVE  n \in B
  <2>1. n \in 0 .. N /\ n \in Nat /\ n - 1 < Cardinality(DOMAIN known)
    BY <1>0
  <2>2. PICK ids : Best(ids, n - 1, known)
    BY <1>2
  <2>3. ids \in SUBSET DOMAIN known /\ Cardinality(ids) = n - 1 /\ IsFiniteSet(ids)
    BY <2>2, <1>0, FS_Subset DEF Best
  <2>4. DOMAIN known \ ids # {}
    <3>1. CASE ids = DOMAIN known
      BY <3>1, <2>1, <2>3
    <3> QED
      BY <3>1, <2>3
  <2>5. PICK m : IsNewestOf(m, DOMAIN known \ ids, known)
    BY <2>4, NewestExists
  <2>6. m \in DOMAIN known /\ m \notin ids
    BY <2>5 DEF IsNewestOf
  <2>7. Cardinality(ids \cup {m}) = n
    BY <2>1, <2>3, <2>6, FS_AddElement
  <2>8. \A in \in ids \cup {m}, out \in DOMAIN known \ (ids \cup {m}) :
          known[in].time >= known[out].time
    BY <2>2, <2>5 DEF Best, IsNewestOf
  <2>9. Best(ids \cup {m}, n, known)
    BY <2>3, <2>6, <2>7, <2>8 DEF Best
  <2> QED
    BY <2>1, <2>9
<1> HIDE DEF B
<1>3. N \in B
  BY <1>1, <1>2, UpTo
<1> QED
  BY <1>3 DEF B

(* What is kept is part of what was known, and no less than MaxSamples of   *)
(* it if anything was given up.                                            *)
Retained(kept, known) ==
  /\ DOMAIN kept \in SUBSET DOMAIN known
  /\ \A id \in DOMAIN kept : kept[id] = known[id]
  /\ kept = known \/ Cardinality(DOMAIN kept) = MaxSamples

LEMMA RetainKeepsNewest ==
  ASSUME SamplingAssumption, NEW known, Timed(known)
  PROVE  /\ Retained(Retain(known), known)
         /\ Cardinality(DOMAIN Retain(known)) <= MaxSamples
<1>0. MaxSamples \in Nat /\ Cardinality(DOMAIN known) \in Nat
  BY FS_CardinalityType DEF Timed, SamplingAssumption
<1>1. CASE Cardinality(DOMAIN known) <= MaxSamples
  <2>1. Retain(known) = known
    BY <1>1 DEF Retain
  <2> QED
    BY <1>1, <2>1 DEF Retained
<1>2. CASE ~(Cardinality(DOMAIN known) <= MaxSamples)
  <2> DEFINE kept == CHOOSE ids \in SUBSET DOMAIN known :
                       /\ Cardinality(ids) = MaxSamples
                       /\ \A in \in ids, out \in DOMAIN known \ ids :
                            known[in].time >= known[out].time
  <2>1. Retain(known) = [id \in kept |-> known[id]]
    BY <1>2 DEF Retain
  <2>2. \E ids : Best(ids, MaxSamples, known)
    BY <1>0, <1>2, BestExists
  <2>3. Best(kept, MaxSamples, known)
    BY <2>2, Zenon DEF Best
  <2> HIDE DEF kept
  <2>4. kept \in SUBSET DOMAIN known /\ Cardinality(kept) = MaxSamples
    BY <2>3 DEF Best
  <2>5. DOMAIN Retain(known) = kept /\ \A id \in kept : Retain(known)[id] = known[id]
    BY <2>1
  <2> QED
    BY <1>0, <2>4, <2>5 DEF Retained
<1> QED
  BY <1>1, <1>2

-----------------------------------------------------------------------------
(* One tweet, one response, one commit.                                    *)

Covered(t, a) == \E j \in DOMAIN a : SameSample(t, a[j])

NewestIs(K, t, S) ==
  /\ DOMAIN K = DOMAIN S \cup {t.id}
  /\ \A id \in DOMAIN S : id # t.id => K[id] = S[id]
  /\ \/ K = S /\ t.id \in DOMAIN S /\ t.time < S[t.id].time
     \/ /\ K[t.id].time = t.time /\ K[t.id].content = t.content
        /\ t.id \in DOMAIN S => ~(t.time < S[t.id].time)

LEMMA NewestReplaces ==
  ASSUME NEW t, NEW S
  PROVE  NewestIs(Newest(t, S), t, S)
<1>1. CASE t.id \in DOMAIN S /\ t.time < S[t.id].time
  BY <1>1 DEF Newest, NewestIs
<1>2. CASE ~(t.id \in DOMAIN S /\ t.time < S[t.id].time)
  <2>1. Newest(t, S) = [id \in DOMAIN S \cup {t.id} |->
                          IF id = t.id THEN [time |-> t.time, content |-> t.content] ELSE S[id]]
    BY <1>2 DEF Newest
  <2> QED
    BY <1>2, <2>1 DEF NewestIs
<1> QED
  BY <1>1, <1>2

LEMMA SamplesAreTimed ==
  ASSUME StreamAssumption, NEW a, NEW S, SamplesInv(a, S)
  PROVE  Timed(S)
<1>1. ASSUME NEW id \in DOMAIN S
      PROVE  S[id].time \in Nat
  <2>1. PICK j \in DOMAIN a : a[j].time = S[id].time
    BY DEF SamplesInv, Backed
  <2>2. a[j] \in Tweets
    BY DEF SamplesInv
  <2> QED
    BY <2>1, <2>2 DEF StreamAssumption
<1> QED
  BY <1>1 DEF SamplesInv, Timed

(* A tweet is skipped only for a delivery that is the same sample. *)
LEMMA SkippedIsCovered ==
  ASSUME NEW a, NEW S, Backed(a, S), NEW t, Sampled(t, S)
  PROVE  Covered(t, a)
<1>1. t.id \in DOMAIN S /\ S[t.id].content = t.content
      /\ Interval(S[t.id].time) = Interval(t.time)
  BY DEF Sampled
<1>2. PICK j \in DOMAIN a :
        a[j].id = t.id /\ a[j].content = S[t.id].content /\ a[j].time = S[t.id].time
  BY <1>1 DEF Backed
<1>3. SameSample(t, a[j])
  BY <1>1, <1>2 DEF SameSample
<1> QED
  BY <1>3 DEF Covered

LEMMA DeliverKeeps ==
  ASSUME SamplingAssumption, StreamAssumption,
         NEW a, NEW S, SamplesInv(a, S), NEW t \in Tweets, ~Sampled(t, S)
  PROVE  SamplesInv(Append(a, t), Newest(t, S))
<1> DEFINE b == Append(a, t)
           K == Newest(t, S)
<1>0. a \in Seq(Tweets) /\ t.time \in Nat /\ Timed(S)
  BY SamplesAreTimed DEF SamplesInv, StreamAssumption
<1>1. Extended(a, t, b)
  BY <1>0, CrowdGrows
<1>2. NewestIs(K, t, S)
  BY NewestReplaces
<1> HIDE DEF b, K
<1>3. Len(a) + 1 \in DOMAIN b /\ b[Len(a) + 1] = t
      /\ \A i \in DOMAIN a : i \in DOMAIN b /\ b[i] = a[i]
  BY <1>1 DEF Extended
<1>4. \A i \in DOMAIN b : i \in DOMAIN a \/ i = Len(a) + 1
  BY <1>1 DEF Extended
<1>5. IsFiniteSet(DOMAIN K)
  <2>1. IsFiniteSet(DOMAIN S \cup {t.id})
    BY FS_AddElement DEF SamplesInv
  <2> QED
    BY <2>1, <1>2 DEF NewestIs
<1>6. Backed(b, K)
  <2> SUFFICES ASSUME NEW id \in DOMAIN K
               PROVE  \E j \in DOMAIN b :
                        b[j].id = id /\ b[j].content = K[id].content /\ b[j].time = K[id].time
    BY DEF Backed
  <2>1. CASE id \in DOMAIN S /\ K[id] = S[id]
    <3>1. PICK j \in DOMAIN a :
            a[j].id = id /\ a[j].content = S[id].content /\ a[j].time = S[id].time
      BY <2>1 DEF SamplesInv, Backed
    <3> QED
      BY <2>1, <3>1, <1>3
  <2>2. CASE id = t.id /\ K[id].time = t.time /\ K[id].content = t.content
    BY <2>2, <1>3
  <2> QED
    BY <2>1, <2>2, <1>2 DEF NewestIs
<1>7. NewestKept(b, K)
  <2> SUFFICES ASSUME NEW j \in DOMAIN b
               PROVE  \/ b[j].id \in DOMAIN K /\ b[j].time <= K[b[j].id].time
                      \/ CrowdedIn(b, b[j].id, Len(b))
    BY DEF NewestKept
  <2>1. CASE j = Len(a) + 1
    <3>1. b[j] = t /\ t.id \in DOMAIN K
      BY <2>1, <1>2, <1>3 DEF NewestIs
    <3>2. t.id \in DOMAIN S => S[t.id].time \in Nat
      BY <1>0 DEF Timed
    <3>3. t.time <= K[t.id].time
      BY <1>0, <1>2, <3>2 DEF NewestIs
    <3> QED
      BY <3>1, <3>3
  <2>2. CASE j \in DOMAIN a
    <3>1. b[j] = a[j] /\ a[j].time \in Nat
      BY <1>0, <1>3, <2>2 DEF StreamAssumption
    <3>2. CASE a[j].id \in DOMAIN S /\ a[j].time <= S[a[j].id].time
      <4>1. a[j].id \in DOMAIN K /\ S[a[j].id].time \in Nat
        BY <3>2, <1>0, <1>2 DEF NewestIs, Timed
      <4>2. CASE K[a[j].id] = S[a[j].id]
        BY <3>1, <3>2, <4>1, <4>2
      <4>3. CASE a[j].id = t.id /\ K[t.id].time = t.time /\ ~(t.time < S[t.id].time)
        <5>1. a[j].time <= K[a[j].id].time
          BY <3>1, <3>2, <4>1, <4>3, <1>0
        <5> QED
          BY <3>1, <4>1, <5>1
      <4> QED
        BY <3>2, <4>2, <4>3, <1>2 DEF NewestIs
    <3>3. CASE CrowdedIn(a, a[j].id, Len(a))
      BY <3>1, <3>3, <1>1 DEF Extended
    <3> QED
      BY <2>2, <3>2, <3>3 DEF SamplesInv, NewestKept
  <2> QED
    BY <1>4, <2>1, <2>2
<1>8. RepeatsIn(b)
  <2> SUFFICES ASSUME NEW j \in DOMAIN b, NEW k \in DOMAIN b, j < k, SameSample(b[j], b[k])
               PROVE  \/ \E m \in 1 .. k - 1 : b[m].id = b[k].id /\ ~SameSample(b[m], b[k])
                      \/ CrowdedIn(b, b[k].id, k - 1)
    BY DEF RepeatsIn
  <2>0. DOMAIN a = 1 .. Len(a) /\ Len(a) \in Nat
    BY <1>1 DEF Extended
  <2>1. CASE k \in DOMAIN a
    <3>1. j \in DOMAIN a /\ k - 1 \in 0 .. Len(a) /\ \A m \in 1 .. k - 1 : m \in DOMAIN a
      BY <1>4, <2>0, <2>1
    <3>2. b[j] = a[j] /\ b[k] = a[k] /\ \A m \in 1 .. k - 1 : b[m] = a[m]
      BY <1>3, <2>1, <3>1
    <3>3. \/ \E m \in 1 .. k - 1 : a[m].id = a[k].id /\ ~SameSample(a[m], a[k])
          \/ CrowdedIn(a, a[k].id, k - 1)
      BY <2>1, <3>1, <3>2 DEF SamplesInv, RepeatsIn
    <3>4. CrowdedIn(a, a[k].id, k - 1) => CrowdedIn(b, a[k].id, k - 1)
      BY <1>1, <3>1 DEF Extended
    <3> QED
      BY <3>2, <3>3, <3>4
  <2>2. CASE k = Len(a) + 1
    <3>1. j \in DOMAIN a /\ k - 1 = Len(a) /\ b[k] = t /\ b[j] = a[j]
      BY <1>3, <1>4, <2>0, <2>2
    <3>2. SameSample(a[j], t) /\ a[j].id = t.id
      BY <3>1 DEF SameSample
    <3>3. CASE CrowdedIn(a, t.id, Len(a))
      <4>1. Len(a) \in 0 .. Len(a)
        BY <2>0
      <4>2. CrowdedIn(b, t.id, Len(a))
        BY <3>3, <4>1, <1>1 DEF Extended
      <4> QED
        BY <3>1, <4>2
    <3>4. CASE t.id \in DOMAIN S
      <4>1. PICK m \in DOMAIN a :
              a[m].id = t.id /\ a[m].content = S[t.id].content /\ a[m].time = S[t.id].time
        BY <3>4 DEF SamplesInv, Backed
      <4>2. ~SameSample(a[m], t)
        BY <3>4, <4>1 DEF Sampled, SameSample
      <4>3. m \in 1 .. k - 1 /\ b[m] = a[m]
        BY <1>3, <2>0, <3>1
      <4> QED
        BY <3>1, <4>1, <4>2, <4>3
    <3> QED
      BY <3>1, <3>2, <3>3, <3>4 DEF SamplesInv, NewestKept
  <2> QED
    BY <1>4, <2>1, <2>2
<1>9. SamplesInv(b, K)
  BY <1>1, <1>5, <1>6, <1>7, <1>8 DEF SamplesInv, Extended
<1> QED
  BY <1>9 DEF b, K

(* Samples given up are those of posts that enough others were delivered to *)
(* push out.                                                               *)
LEMMA RetainKeeps ==
  ASSUME SamplingAssumption, StreamAssumption, NEW a, NEW S, SamplesInv(a, S)
  PROVE  SamplesInv(a, Retain(S))
<1> DEFINE K == Retain(S)
<1>1. Timed(S)
  BY SamplesAreTimed
<1>2. Retained(K, S)
  BY <1>1, RetainKeepsNewest
<1> HIDE DEF K
<1>3. DOMAIN K \in SUBSET DOMAIN S /\ \A id \in DOMAIN K : K[id] = S[id]
  BY <1>2 DEF Retained
<1>4. IsFiniteSet(DOMAIN K)
  BY <1>3, FS_Subset DEF SamplesInv
<1>5. Backed(a, K)
  BY <1>3 DEF SamplesInv, Backed
<1>6. NewestKept(a, K)
  <2>1. CASE K = S
    BY <2>1 DEF SamplesInv
  <2>2. CASE Cardinality(DOMAIN K) = MaxSamples
    <3> SUFFICES ASSUME NEW j \in DOMAIN a
                 PROVE  \/ a[j].id \in DOMAIN K /\ a[j].time <= K[a[j].id].time
                        \/ CrowdedIn(a, a[j].id, Len(a))
      BY DEF NewestKept
    <3>1. CASE a[j].id \in DOMAIN K
      <4>1. a[j].id \in DOMAIN S /\ K[a[j].id] = S[a[j].id]
        BY <3>1, <1>3
      <4> QED
        BY <3>1, <4>1 DEF SamplesInv, NewestKept
    <3>2. CASE a[j].id \notin DOMAIN K
      <4>1. DOMAIN K \in SUBSET Crowd(a, a[j].id, Len(a))
        <5> SUFFICES ASSUME NEW id \in DOMAIN K
                     PROVE  id \in Crowd(a, a[j].id, Len(a))
          OBVIOUS
        <5>1. PICK m \in DOMAIN a : a[m].id = id
          BY <1>5 DEF Backed
        <5>2. m \in 1 .. Len(a)
          BY DEF SamplesInv
        <5> QED
          BY <3>2, <5>1, <5>2 DEF Crowd
      <4>2. Len(a) \in Nat
        BY DEF SamplesInv
      <4>3. /\ IsFiniteSet(Crowd(a, a[j].id, Len(a)))
            /\ Cardinality(Crowd(a, a[j].id, Len(a))) \in Nat
        BY <4>2, CrowdFinite
      <4>4. Cardinality(DOMAIN K) <= Cardinality(Crowd(a, a[j].id, Len(a)))
        BY <4>1, <4>3, FS_Subset
      <4>5. CrowdedIn(a, a[j].id, Len(a))
        BY <2>2, <4>3, <4>4 DEF CrowdedIn, SamplingAssumption
      <4> QED
        BY <4>5
    <3> QED
      BY <3>1, <3>2
  <2> QED
    BY <1>2, <2>1, <2>2 DEF Retained
<1>7. SamplesInv(a, K)
  BY <1>4, <1>5, <1>6 DEF SamplesInv
<1> QED
  BY <1>7 DEF K

(* What preparing the first n tweets of a response against deliveries a    *)
(* comes to.                                                               *)
Prepared(a, p, tweets, n) ==
  /\ p.accepted \in Seq(Tweets)
  /\ SamplesInv(a \o p.accepted, p.samples)
  /\ \A i \in 1 .. n : Covered(tweets[i], a \o p.accepted)

(* More deliveries cover no less. *)
LEMMA CoveredStays ==
  ASSUME NEW a \in Seq(Tweets), NEW b \in Seq(Tweets), NEW t, Covered(t, a)
  PROVE  Covered(t, a \o b)
<1>1. PICK j \in DOMAIN a : SameSample(t, a[j])
  BY DEF Covered
<1>2. j \in DOMAIN (a \o b) /\ (a \o b)[j] = a[j]
  OBVIOUS
<1> QED
  BY <1>1, <1>2 DEF Covered

LEMMA AppendAtEnd ==
  ASSUME NEW a \in Seq(Tweets), NEW b \in Seq(Tweets), NEW t \in Tweets
  PROVE  /\ a \o b \in Seq(Tweets) /\ <<t>> \in Seq(Tweets)
         /\ a \o Append(b, t) = Append(a \o b, t)
         /\ Append(a \o b, t) = (a \o b) \o <<t>>
<1>1. a \o b \in Seq(Tweets) /\ <<t>> \in Seq(Tweets)
  OBVIOUS
<1>2. Append(b, t) = b \o <<t>>
  BY AppendIsConcat
<1>3. (a \o b) \o <<t>> = a \o (b \o <<t>>)
  BY <1>1, ConcatAssociative
<1>4. Append(a \o b, t) = (a \o b) \o <<t>>
  BY <1>1, AppendIsConcat
<1> QED
  BY <1>1, <1>2, <1>3, <1>4

LEMMA OneMorePrepared ==
  ASSUME SamplingAssumption, StreamAssumption,
         NEW a \in Seq(Tweets), NEW p, NEW tweets \in Seq(Tweets),
         NEW n \in 1 .. Len(tweets), Prepared(a, p, tweets, n - 1)
  PROVE  Prepared(a, PrepareOne(p, tweets[n]), tweets, n)
<1> DEFINE t == tweets[n]
           q == PrepareOne(p, t)
<1>1. t \in Tweets /\ n \in Nat /\ n # 0 /\ p.accepted \in Seq(Tweets)
  BY DEF Prepared
<1>2. CASE Sampled(t, p.samples)
  <2>1. q = p
    BY <1>2 DEF PrepareOne
  <2>2. Covered(t, a \o p.accepted)
    BY <1>2, SkippedIsCovered DEF Prepared, SamplesInv
  <2>3. \A i \in 1 .. n : i \in 1 .. (n - 1) \/ i = n
    BY <1>1
  <2> QED
    BY <2>1, <2>2, <2>3 DEF Prepared
<1>3. CASE ~Sampled(t, p.samples)
  <2>1. q.accepted = Append(p.accepted, t) /\ q.samples = Newest(t, p.samples)
    BY <1>3 DEF PrepareOne
  <2> DEFINE c == a \o p.accepted
  <2> HIDE DEF t, q
  <2>2. c \in Seq(Tweets) /\ a \o q.accepted = Append(c, t)
    <3>1. c \in Seq(Tweets) /\ a \o Append(p.accepted, t) = Append(c, t)
      BY <1>1, AppendAtEnd
    <3> QED
      BY <2>1, <3>1
  <2>3. Append(c, t) = c \o <<t>> /\ <<t>> \in Seq(Tweets)
    BY <1>1, AppendAtEnd
  <2>4. SamplesInv(c, p.samples) /\ \A i \in 1 .. (n - 1) : Covered(tweets[i], c)
    BY DEF Prepared
  <2>5. q.accepted \in Seq(Tweets)
    BY <1>1, <2>1
  <2> HIDE DEF c
  <2>6. SamplesInv(Append(c, t), Newest(t, p.samples))
    BY <1>1, <1>3, <2>4, DeliverKeeps
  <2>7. \A i \in 1 .. (n - 1) : Covered(tweets[i], Append(c, t))
    BY <2>2, <2>3, <2>4, CoveredStays
  <2>8. Covered(t, Append(c, t))
    <3>1. /\ Len(c) + 1 \in DOMAIN Append(c, t) /\ Append(c, t)[Len(c) + 1] = t
      BY <2>2, <1>1
    <3>2. SameSample(t, t)
      BY DEF SameSample
    <3> QED
      BY <3>1, <3>2 DEF Covered
  <2>9. \A i \in 1 .. n : Covered(tweets[i], Append(c, t))
    <3>1. \A i \in 1 .. n : i \in 1 .. (n - 1) \/ i = n
      BY <1>1
    <3> QED
      BY <2>7, <2>8, <3>1 DEF t
  <2>10. Prepared(a, q, tweets, n)
    BY <2>1, <2>2, <2>5, <2>6, <2>9 DEF Prepared
  <2> QED
    BY <2>10 DEF q, t
<1> QED
  BY <1>2, <1>3

LEMMA ResponsePrepared ==
  ASSUME SamplingAssumption, StreamAssumption,
         NEW a \in Seq(Tweets), NEW S, SamplesInv(a, S), NEW tweets \in Seq(Tweets)
  PROVE  Prepared(a, PrepareAll(tweets, S), tweets, Len(tweets))
<1>1. PICK g : PreparedBy(g, S, tweets)
  BY PreparationRecurs
<1> DEFINE B == {n \in 0 .. Len(tweets) : Prepared(a, g[n], tweets, n)}
<1>2. Len(tweets) \in Nat
  OBVIOUS
<1>3. 0 \in B
  <2>1. g[0].accepted = <<>> /\ g[0].samples = S
    BY <1>1 DEF PreparedBy, Blank
  <2>2. a \o <<>> = a
    BY ConcatEmptySeq
  <2>3. Prepared(a, g[0], tweets, 0)
    BY <2>1, <2>2 DEF Prepared
  <2> QED
    BY <1>2, <2>3
<1>4. ASSUME NEW n \in 1 .. Len(tweets), n - 1 \in B
      PROVE  n \in B
  <2>1. g[n] = PrepareOne(g[n - 1], tweets[n])
    BY <1>1 DEF PreparedBy
  <2>2. Prepared(a, g[n - 1], tweets, n - 1)
    BY <1>4
  <2>3. Prepared(a, g[n], tweets, n)
    BY <2>1, <2>2, OneMorePrepared
  <2> QED
    BY <1>2, <2>3
<1> HIDE DEF B
<1>5. Len(tweets) \in B
  BY <1>2, <1>3, <1>4, UpTo
<1> QED
  BY <1>1, <1>5 DEF B, PreparedBy

-----------------------------------------------------------------------------
(* The contract of the rule that PoolSync assumes.                         *)

SameAt(p, S, R) == (p \in DOMAIN S <=> p \in DOMAIN R) /\ (p \in DOMAIN S => S[p] = R[p])
OfPost(p, q) == {q[i] : i \in {j \in DOMAIN q : q[j].id = p}}

(* The observations Q hold the sample of post p. *)
BackedAt(p, Q, S) ==
  p \in DOMAIN S => \E o \in Q :
    o.id = p /\ o.content = S[p].content /\ Interval(o.time) = Interval(S[p].time)

LEMMA NewestOnlyHere ==
  ASSUME NEW t, NEW S, NEW p, p # t.id
  PROVE  SameAt(p, Newest(t, S), S)
<1>1. NewestIs(Newest(t, S), t, S)
  BY NewestReplaces
<1> QED
  BY <1>1 DEF NewestIs, SameAt

LEMMA NewestSameHere ==
  ASSUME NEW t, NEW S, NEW R, SameAt(t.id, S, R)
  PROVE  SameAt(t.id, Newest(t, S), Newest(t, R))
<1>1. CASE t.id \in DOMAIN S /\ t.time < S[t.id].time
  <2>1. Newest(t, S) = S /\ Newest(t, R) = R
    BY <1>1 DEF SameAt, Newest
  <2> QED
    BY <2>1
<1>2. CASE ~(t.id \in DOMAIN S /\ t.time < S[t.id].time)
  <2> DEFINE K(X) == [id \in DOMAIN X \cup {t.id} |->
                        IF id = t.id THEN [time |-> t.time, content |-> t.content] ELSE X[id]]
  <2>1. Newest(t, S) = K(S) /\ Newest(t, R) = K(R)
    BY <1>2 DEF SameAt, Newest
  <2>2. t.id \in DOMAIN K(S) /\ t.id \in DOMAIN K(R) /\ K(S)[t.id] = K(R)[t.id]
    OBVIOUS
  <2> QED
    BY <2>1, <2>2 DEF SameAt
<1> QED
  BY <1>1, <1>2

(* A delivery belongs to its post and is one of the elements. *)
Grown(q, t, r) ==
  /\ r \in Seq(Tweets)
  /\ Elements(r) = Elements(q) \cup {t}
  /\ \A p : OfPost(p, r) = OfPost(p, q) \cup (IF t.id = p THEN {t} ELSE {})

LEMMA AppendGrows ==
  ASSUME NEW q \in Seq(Tweets), NEW t \in Tweets
  PROVE  Grown(q, t, Append(q, t))
<1> DEFINE b == Append(q, t)
<1>1. /\ DOMAIN b = DOMAIN q \cup {Len(q) + 1} /\ b[Len(q) + 1] = t
      /\ \A i \in DOMAIN q : b[i] = q[i]
  OBVIOUS
<1>2. b \in Seq(Tweets)
  OBVIOUS
<1> HIDE DEF b
<1>3. Elements(b) = Elements(q) \cup {t}
  BY <1>1 DEF Elements
<1>4. ASSUME NEW p
      PROVE  OfPost(p, b) = OfPost(p, q) \cup (IF t.id = p THEN {t} ELSE {})
  BY <1>1 DEF OfPost
<1>5. Grown(q, t, b)
  BY <1>2, <1>3, <1>4 DEF Grown
<1> QED
  BY <1>5 DEF b

(* A preparation of one tweet that was skipped, or delivered. *)
Skips(x, t, r) == Sampled(t, x.samples) /\ r = x
Delivers(x, t, r) ==
  /\ ~Sampled(t, x.samples)
  /\ Grown(x.accepted, t, r.accepted)
  /\ r.samples = Newest(t, x.samples)

LEMMA SkipsOrDelivers ==
  ASSUME NEW x, x.accepted \in Seq(Tweets), NEW t \in Tweets
  PROVE  Skips(x, t, PrepareOne(x, t)) \/ Delivers(x, t, PrepareOne(x, t))
<1>1. Grown(x.accepted, t, Append(x.accepted, t))
  BY AppendGrows
<1>2. CASE Sampled(t, x.samples)
  BY <1>2 DEF PrepareOne, Skips
<1>3. CASE ~Sampled(t, x.samples)
  <2>1. /\ PrepareOne(x, t).accepted = Append(x.accepted, t)
        /\ PrepareOne(x, t).samples = Newest(t, x.samples)
    BY <1>3 DEF PrepareOne
  <2> QED
    BY <1>1, <1>3, <2>1 DEF Delivers
<1> QED
  BY <1>2, <1>3

(* Of one post, two preparations that start with the same sample do the    *)
(* same, whatever they know of the others.                                 *)
Agree(p, x, y) ==
  /\ x.accepted \in Seq(Tweets) /\ y.accepted \in Seq(Tweets)
  /\ SameAt(p, x.samples, y.samples)
  /\ OfPost(p, x.accepted) = OfPost(p, y.accepted)

LEMMA PrepareOneAgrees ==
  ASSUME NEW p, NEW x, NEW y, Agree(p, x, y), NEW t \in Tweets
  PROVE  Agree(p, PrepareOne(x, t), PrepareOne(y, t))
<1> DEFINE next == PrepareOne(x, t)
           other == PrepareOne(y, t)
<1> SUFFICES Agree(p, next, other)
  OBVIOUS
<1>0. x.accepted \in Seq(Tweets) /\ y.accepted \in Seq(Tweets)
  BY DEF Agree
<1>1. Skips(x, t, next) \/ Delivers(x, t, next)
  BY <1>0, SkipsOrDelivers
<1>2. Skips(y, t, other) \/ Delivers(y, t, other)
  BY <1>0, SkipsOrDelivers
<1> HIDE DEF next, other
<1>3. next.accepted \in Seq(Tweets) /\ other.accepted \in Seq(Tweets)
  BY <1>0, <1>1, <1>2 DEF Skips, Delivers, Grown
<1>4. CASE t.id # p
  <2>1. SameAt(p, next.samples, x.samples) /\ OfPost(p, next.accepted) = OfPost(p, x.accepted)
    <3>1. CASE Skips(x, t, next)
      BY <3>1 DEF Skips, SameAt
    <3>2. CASE Delivers(x, t, next)
      <4>1. SameAt(p, Newest(t, x.samples), x.samples)
        BY <1>4, NewestOnlyHere
      <4>2. OfPost(p, next.accepted) = OfPost(p, x.accepted)
        BY <3>2, <1>4 DEF Delivers, Grown
      <4> QED
        BY <3>2, <4>1, <4>2 DEF Delivers
    <3> QED
      BY <1>1, <3>1, <3>2
  <2>2. SameAt(p, other.samples, y.samples) /\ OfPost(p, other.accepted) = OfPost(p, y.accepted)
    <3>1. CASE Skips(y, t, other)
      BY <3>1 DEF Skips, SameAt
    <3>2. CASE Delivers(y, t, other)
      <4>1. SameAt(p, Newest(t, y.samples), y.samples)
        BY <1>4, NewestOnlyHere
      <4>2. OfPost(p, other.accepted) = OfPost(p, y.accepted)
        BY <3>2, <1>4 DEF Delivers, Grown
      <4> QED
        BY <3>2, <4>1, <4>2 DEF Delivers
    <3> QED
      BY <1>2, <3>1, <3>2
  <2>3. SameAt(p, x.samples, y.samples) /\ OfPost(p, x.accepted) = OfPost(p, y.accepted)
    BY DEF Agree
  <2>4. SameAt(p, next.samples, other.samples)
    BY <2>1, <2>2, <2>3 DEF SameAt
  <2> QED
    BY <1>3, <2>1, <2>2, <2>3, <2>4 DEF Agree
<1>5. CASE t.id = p
  <2>1. Sampled(t, x.samples) <=> Sampled(t, y.samples)
    BY <1>5 DEF Agree, SameAt, Sampled
  <2>2. CASE Sampled(t, x.samples)
    <3>1. next = x /\ other = y
      BY <1>1, <1>2, <2>1, <2>2 DEF Skips, Delivers
    <3> QED
      BY <3>1
  <2>3. CASE ~Sampled(t, x.samples)
    <3>1. Delivers(x, t, next) /\ Delivers(y, t, other)
      BY <1>1, <1>2, <2>1, <2>3 DEF Skips
    <3>2. SameAt(t.id, x.samples, y.samples)
      BY <1>5 DEF Agree
    <3>3. SameAt(p, next.samples, other.samples)
      BY <1>5, <3>1, <3>2, NewestSameHere DEF Delivers
    <3>4. OfPost(p, next.accepted) = OfPost(p, other.accepted)
      BY <3>1 DEF Agree, Delivers, Grown
    <3> QED
      BY <1>3, <3>3, <3>4 DEF Agree
  <2> QED
    BY <2>2, <2>3
<1> QED
  BY <1>4, <1>5

LEMMA PreparationsAgree ==
  ASSUME NEW p, NEW S, NEW R, SameAt(p, S, R), NEW tweets \in Seq(Tweets)
  PROVE  Agree(p, PrepareAll(tweets, S), PrepareAll(tweets, R))
<1>1. PICK g : PreparedBy(g, S, tweets)
  BY PreparationRecurs
<1>2. PICK h : PreparedBy(h, R, tweets)
  BY PreparationRecurs
<1> DEFINE B == {n \in 0 .. Len(tweets) : Agree(p, g[n], h[n])}
<1>3. Len(tweets) \in Nat
  OBVIOUS
<1>4. 0 \in B
  <2>1. g[0] = Blank(S) /\ h[0] = Blank(R)
    BY <1>1, <1>2 DEF PreparedBy
  <2>2. Agree(p, Blank(S), Blank(R))
    BY DEF Agree, Blank
  <2> QED
    BY <1>3, <2>1, <2>2
<1>5. ASSUME NEW n \in 1 .. Len(tweets), n - 1 \in B
      PROVE  n \in B
  <2>1. /\ g[n] = PrepareOne(g[n - 1], tweets[n]) /\ h[n] = PrepareOne(h[n - 1], tweets[n])
        /\ tweets[n] \in Tweets
    BY <1>1, <1>2 DEF PreparedBy
  <2>2. Agree(p, g[n - 1], h[n - 1])
    BY <1>5
  <2>3. Agree(p, g[n], h[n])
    BY <2>1, <2>2, PrepareOneAgrees
  <2> QED
    BY <1>3, <2>3
<1> HIDE DEF B
<1>6. Len(tweets) \in B
  BY <1>3, <1>4, <1>5, UpTo
<1> QED
  BY <1>1, <1>2, <1>6 DEF B, PreparedBy

(* What n tweets of a response come to when observations Q hold the sample *)
(* of post p: it is held still, and the tweets of p are covered.           *)
Holds(p, Q, x, tweets, n) ==
  /\ x.accepted \in Seq(Tweets)
  /\ BackedAt(p, Q \cup Elements(x.accepted), x.samples)
  /\ \A i \in 1 .. n :
       tweets[i].id = p => \E o \in Q \cup Elements(x.accepted) : SameSample(o, tweets[i])

LEMMA PrepareOneHolds ==
  ASSUME NEW p, NEW Q, NEW x, NEW tweets \in Seq(Tweets), NEW n \in 1 .. Len(tweets),
         Holds(p, Q, x, tweets, n - 1)
  PROVE  Holds(p, Q, PrepareOne(x, tweets[n]), tweets, n)
<1> DEFINE t == tweets[n]
           next == PrepareOne(x, t)
<1> SUFFICES Holds(p, Q, next, tweets, n)
  OBVIOUS
<1>0. /\ t \in Tweets /\ x.accepted \in Seq(Tweets) /\ n \in Nat
      /\ \A i \in 1 .. n : i \in 1 .. (n - 1) \/ i = n
  BY DEF Holds
<1>1. Skips(x, t, next) \/ Delivers(x, t, next)
  BY <1>0, SkipsOrDelivers
<1> HIDE DEF next
<1>2. \A i \in 1 .. (n - 1) :
        tweets[i].id = p => \E o \in Q \cup Elements(x.accepted) : SameSample(o, tweets[i])
  BY DEF Holds
<1>3. CASE Skips(x, t, next)
  <2>1. ASSUME t.id = p
        PROVE  \E o \in Q \cup Elements(x.accepted) : SameSample(o, t)
    <3>1. /\ p \in DOMAIN x.samples /\ x.samples[p].content = t.content
          /\ Interval(x.samples[p].time) = Interval(t.time)
      BY <1>3, <2>1 DEF Skips, Sampled
    <3>2. PICK o \in Q \cup Elements(x.accepted) :
            /\ o.id = p /\ o.content = x.samples[p].content
            /\ Interval(o.time) = Interval(x.samples[p].time)
      BY <3>1 DEF Holds, BackedAt
    <3>3. SameSample(o, t)
      BY <2>1, <3>1, <3>2 DEF SameSample
    <3> QED
      BY <3>3
  <2>2. next = x
    BY <1>3 DEF Skips
  <2>3. BackedAt(p, Q \cup Elements(x.accepted), x.samples)
    BY DEF Holds
  <2> QED
    BY <1>0, <1>2, <2>1, <2>2, <2>3 DEF Holds
<1>4. CASE Delivers(x, t, next)
  <2>1. Elements(next.accepted) = Elements(x.accepted) \cup {t} /\ next.accepted \in Seq(Tweets)
    BY <1>4 DEF Delivers, Grown
  <2>2. BackedAt(p, Q \cup Elements(next.accepted), next.samples)
    <3>0. BackedAt(p, Q \cup Elements(x.accepted), x.samples)
      BY DEF Holds
    <3>1. CASE t.id # p
      <4>1. SameAt(p, next.samples, x.samples)
        BY <1>4, <3>1, NewestOnlyHere DEF Delivers
      <4> QED
        BY <2>1, <3>0, <4>1 DEF SameAt, BackedAt
    <3>2. CASE t.id = p
      <4>1. NewestIs(next.samples, t, x.samples)
        BY <1>4, NewestReplaces DEF Delivers
      <4>2. CASE next.samples = x.samples
        BY <2>1, <3>0, <4>2 DEF BackedAt
      <4>3. CASE next.samples[p].time = t.time /\ next.samples[p].content = t.content
        BY <2>1, <3>2, <4>3 DEF BackedAt
      <4> QED
        BY <3>2, <4>1, <4>2, <4>3 DEF NewestIs
    <3> QED
      BY <3>1, <3>2
  <2>3. SameSample(t, t)
    BY DEF SameSample
  <2>4. \A i \in 1 .. n :
          tweets[i].id = p => \E o \in Q \cup Elements(next.accepted) : SameSample(o, tweets[i])
    BY <1>0, <1>2, <2>1, <2>3
  <2> QED
    BY <2>1, <2>2, <2>4 DEF Holds
<1> QED
  BY <1>1, <1>3, <1>4

LEMMA PreparationHolds ==
  ASSUME NEW p, NEW Q, NEW S, BackedAt(p, Q, S), NEW tweets \in Seq(Tweets)
  PROVE  Holds(p, Q, PrepareAll(tweets, S), tweets, Len(tweets))
<1>1. PICK g : PreparedBy(g, S, tweets)
  BY PreparationRecurs
<1> DEFINE B == {n \in 0 .. Len(tweets) : Holds(p, Q, g[n], tweets, n)}
<1>2. Len(tweets) \in Nat
  OBVIOUS
<1>3. 0 \in B
  <2>1. g[0] = Blank(S)
    BY <1>1 DEF PreparedBy
  <2>2. Holds(p, Q, Blank(S), tweets, 0)
    BY DEF Holds, Blank, BackedAt
  <2> QED
    BY <1>2, <2>1, <2>2
<1>4. ASSUME NEW n \in 1 .. Len(tweets), n - 1 \in B
      PROVE  n \in B
  <2>1. g[n] = PrepareOne(g[n - 1], tweets[n])
    BY <1>1 DEF PreparedBy
  <2>2. Holds(p, Q, g[n - 1], tweets, n - 1)
    BY <1>4
  <2>3. Holds(p, Q, g[n], tweets, n)
    BY <2>1, <2>2, PrepareOneHolds
  <2> QED
    BY <1>2, <2>3
<1> HIDE DEF B
<1>5. Len(tweets) \in B
  BY <1>2, <1>3, <1>4, UpTo
<1> QED
  BY <1>1, <1>5 DEF B, PreparedBy

(* A preparation leaves the sample of a post or has delivered the new one. *)
LeftOrDelivered(p, S, x) ==
  /\ x.accepted \in Seq(Tweets) /\ Timed(x.samples)
  /\ SameAt(p, x.samples, S) \/ BackedAt(p, Elements(x.accepted), x.samples)

LEMMA PrepareOneLeaves ==
  ASSUME StreamAssumption, NEW p, NEW S, NEW x, LeftOrDelivered(p, S, x), NEW t \in Tweets
  PROVE  LeftOrDelivered(p, S, PrepareOne(x, t))
<1> DEFINE next == PrepareOne(x, t)
<1> SUFFICES LeftOrDelivered(p, S, next)
  OBVIOUS
<1>1. Skips(x, t, next) \/ Delivers(x, t, next)
  BY SkipsOrDelivers DEF LeftOrDelivered
<1> HIDE DEF next
<1>2. CASE Delivers(x, t, next)
  <2>1. Elements(next.accepted) = Elements(x.accepted) \cup {t} /\ next.accepted \in Seq(Tweets)
    BY <1>2 DEF Delivers, Grown
  <2>2. NewestIs(next.samples, t, x.samples)
    BY <1>2, NewestReplaces DEF Delivers
  <2>3. Timed(next.samples)
    <3>1. IsFiniteSet(DOMAIN x.samples) /\ t.time \in Nat
      BY DEF LeftOrDelivered, Timed, StreamAssumption
    <3>2. IsFiniteSet(DOMAIN next.samples)
      <4>1. IsFiniteSet(DOMAIN x.samples \cup {t.id})
        BY <3>1, FS_AddElement
      <4> QED
        BY <2>2, <4>1 DEF NewestIs
    <3>3. \A id \in DOMAIN next.samples : next.samples[id].time \in Nat
      BY <2>2, <3>1 DEF NewestIs, LeftOrDelivered, Timed
    <3> QED
      BY <3>2, <3>3 DEF Timed
  <2>4. CASE t.id # p
    <3>1. SameAt(p, next.samples, x.samples)
      BY <1>2, <2>4, NewestOnlyHere DEF Delivers
    <3> QED
      BY <2>1, <2>3, <3>1 DEF LeftOrDelivered, SameAt, BackedAt
  <2>5. CASE t.id = p
    <3>1. CASE next.samples = x.samples
      BY <2>1, <2>3, <3>1 DEF LeftOrDelivered, SameAt, BackedAt
    <3>2. CASE next.samples[p].time = t.time /\ next.samples[p].content = t.content
      <4>1. BackedAt(p, Elements(next.accepted), next.samples)
        BY <2>1, <2>5, <3>2 DEF BackedAt
      <4> QED
        BY <2>1, <2>3, <4>1 DEF LeftOrDelivered
    <3> QED
      BY <2>2, <2>5, <3>1, <3>2 DEF NewestIs
  <2> QED
    BY <2>4, <2>5
<1>3. CASE Skips(x, t, next)
  BY <1>3 DEF Skips
<1> QED
  BY <1>1, <1>2, <1>3

LEMMA PreparationLeaves ==
  ASSUME StreamAssumption, NEW p, NEW S, Timed(S), NEW tweets \in Seq(Tweets)
  PROVE  LeftOrDelivered(p, S, PrepareAll(tweets, S))
<1>1. PICK g : PreparedBy(g, S, tweets)
  BY PreparationRecurs
<1> DEFINE B == {n \in 0 .. Len(tweets) : LeftOrDelivered(p, S, g[n])}
<1>2. Len(tweets) \in Nat
  OBVIOUS
<1>3. 0 \in B
  <2>1. g[0] = Blank(S)
    BY <1>1 DEF PreparedBy
  <2>2. LeftOrDelivered(p, S, Blank(S))
    BY DEF LeftOrDelivered, Blank, SameAt
  <2> QED
    BY <1>2, <2>1, <2>2
<1>4. ASSUME NEW n \in 1 .. Len(tweets), n - 1 \in B
      PROVE  n \in B
  <2>1. g[n] = PrepareOne(g[n - 1], tweets[n]) /\ tweets[n] \in Tweets
    BY <1>1 DEF PreparedBy
  <2>2. LeftOrDelivered(p, S, g[n - 1])
    BY <1>4
  <2>3. LeftOrDelivered(p, S, g[n])
    BY <2>1, <2>2, PrepareOneLeaves
  <2> QED
    BY <1>2, <2>3
<1> HIDE DEF B
<1>5. Len(tweets) \in B
  BY <1>2, <1>3, <1>4, UpTo
<1> QED
  BY <1>1, <1>5 DEF B, PreparedBy

(* The contract: samples stand for kept observations, in that a preparation *)
(* leaves out of no response a tweet that nothing kept covers.             *)
StandFor(S, kept) ==
  \A ts \in Payloads : \A t \in Elements(ts) :
    \E o \in kept \cup Elements(PrepareObservations(ts, S).accepted) : SameSample(o, t)

(* Of one tweet: either the samples of its post are what they were, or they *)
(* come from the response that was prepared in between.                    *)
LEMMA StillStandsFor ==
  ASSUME SamplingAssumption, StreamAssumption, NEW S, Timed(S), NEW kept, StandFor(S, kept),
         NEW ts \in Payloads, NEW us \in Payloads, NEW t \in Elements(us)
  PROVE  \E o \in kept \cup Elements(PrepareAll(ts, S).accepted)
                       \cup Elements(PrepareAll(us, Retain(PrepareAll(ts, S).samples)).accepted) :
           SameSample(o, t)
<1> DEFINE x == PrepareAll(ts, S)
           R == Retain(x.samples)
           y == PrepareAll(us, S)
           z == PrepareAll(us, R)
<1>0. ts \in Seq(Tweets) /\ us \in Seq(Tweets)
  BY DEF StreamAssumption
<1>1. PICK i \in 1 .. Len(us) : us[i] = t
  BY <1>0 DEF Elements
<1>2. LeftOrDelivered(t.id, S, x)
  BY <1>0, PreparationLeaves
<1>3. Retained(R, x.samples)
  BY <1>2, RetainKeepsNewest DEF LeftOrDelivered
<1> HIDE DEF x, R
<1>4. SameAt(t.id, R, S) \/ BackedAt(t.id, Elements(x.accepted), R)
  BY <1>2, <1>3 DEF LeftOrDelivered, Retained, SameAt, BackedAt
<1>5. CASE SameAt(t.id, R, S)
  <2>1. SameAt(t.id, S, R)
    BY <1>5 DEF SameAt
  <2>2. Agree(t.id, y, z)
    BY <1>0, <2>1, PreparationsAgree
  <2>3. PICK o \in kept \cup Elements(y.accepted) : SameSample(o, t)
    BY DEF StandFor, PrepareObservations
  <2> HIDE DEF y, z
  <2>4. CASE o \in Elements(y.accepted)
    <3>1. o \in OfPost(t.id, y.accepted)
      BY <2>3, <2>4 DEF Elements, OfPost, SameSample
    <3>2. o \in OfPost(t.id, z.accepted)
      BY <2>2, <3>1 DEF Agree
    <3>3. o \in Elements(z.accepted)
      BY <3>2 DEF Elements, OfPost
    <3> QED
      BY <2>3, <3>3 DEF z, x, R
  <2> QED
    BY <2>3, <2>4 DEF z, x, R
<1>6. CASE BackedAt(t.id, Elements(x.accepted), R)
  <2>1. Holds(t.id, Elements(x.accepted), z, us, Len(us))
    BY <1>0, <1>6, PreparationHolds
  <2> HIDE DEF y, z
  <2>2. \E o \in Elements(x.accepted) \cup Elements(z.accepted) : SameSample(o, t)
    BY <1>1, <2>1 DEF Holds
  <2> QED
    BY <2>2 DEF z, x, R
<1> QED
  BY <1>4, <1>5, <1>6

(* Whatever the sampling rule leaves out of a response, an observation that *)
(* it was told is kept covers, through any number of responses: what       *)
(* PoolSync assumes of its Prepare (SamplingIsBacked) is true of the rule   *)
(* of prepareObservations.                                                 *)
THEOREM SamplesStandForWhatIsKept ==
  ASSUME SamplingAssumption, StreamAssumption
  PROVE  /\ Timed(NoSamples) /\ StandFor(NoSamples, {})
         /\ \A S, kept : \A ts \in Payloads :
              Timed(S) /\ StandFor(S, kept) =>
                /\ PrepareObservations(ts, S).accepted \in Seq(Tweets)
                /\ Timed(PrepareObservations(ts, S).samples)
                /\ StandFor(PrepareObservations(ts, S).samples,
                            kept \cup Elements(PrepareObservations(ts, S).accepted))
<1>1. DOMAIN NoSamples = {}
  BY DEF NoSamples
<1>2. Timed(NoSamples)
  BY <1>1, FS_EmptySet DEF Timed
<1>3. StandFor(NoSamples, {})
  <2> SUFFICES ASSUME NEW ts \in Payloads, NEW t \in Elements(ts)
               PROVE  \E o \in Elements(PrepareAll(ts, NoSamples).accepted) : SameSample(o, t)
    BY DEF StandFor, PrepareObservations
  <2>1. ts \in Seq(Tweets)
    BY DEF StreamAssumption
  <2>2. BackedAt(t.id, {}, NoSamples)
    BY <1>1 DEF BackedAt
  <2>3. Holds(t.id, {}, PrepareAll(ts, NoSamples), ts, Len(ts))
    BY <2>1, <2>2, PreparationHolds
  <2>4. PICK i \in 1 .. Len(ts) : ts[i] = t
    BY <2>1 DEF Elements
  <2> QED
    BY <2>3, <2>4 DEF Holds
<1>4. ASSUME NEW S, NEW kept, NEW ts \in Payloads, Timed(S), StandFor(S, kept)
      PROVE  /\ PrepareObservations(ts, S).accepted \in Seq(Tweets)
             /\ Timed(PrepareObservations(ts, S).samples)
             /\ StandFor(PrepareObservations(ts, S).samples,
                         kept \cup Elements(PrepareObservations(ts, S).accepted))
  <2> DEFINE x == PrepareAll(ts, S)
  <2>1. /\ PrepareObservations(ts, S).accepted = x.accepted
        /\ PrepareObservations(ts, S).samples = Retain(x.samples)
    BY DEF PrepareObservations
  <2>2. ts \in Seq(Tweets)
    BY DEF StreamAssumption
  <2>3. x.accepted \in Seq(Tweets) /\ Timed(x.samples)
    <3>1. LeftOrDelivered({}, S, x)
      BY <1>4, <2>2, PreparationLeaves
    <3> QED
      BY <3>1 DEF LeftOrDelivered
  <2>4. Timed(Retain(x.samples))
    <3>1. Retained(Retain(x.samples), x.samples)
      BY <2>3, RetainKeepsNewest
    <3>2. IsFiniteSet(DOMAIN Retain(x.samples))
      BY <2>3, <3>1, FS_Subset DEF Retained, Timed
    <3> QED
      BY <2>3, <3>1, <3>2 DEF Retained, Timed
  <2>5. ASSUME NEW us \in Payloads, NEW t \in Elements(us)
        PROVE  \E o \in (kept \cup Elements(x.accepted))
                          \cup Elements(PrepareObservations(us, Retain(x.samples)).accepted) :
                 SameSample(o, t)
    <3>1. PrepareObservations(us, Retain(x.samples)).accepted
            = PrepareAll(us, Retain(x.samples)).accepted
      BY DEF PrepareObservations
    <3> QED
      BY <1>4, <3>1, StillStandsFor
  <2> HIDE DEF x
  <2>6. StandFor(Retain(x.samples), kept \cup Elements(x.accepted))
    BY <2>5 DEF StandFor
  <2> QED
    BY <2>1, <2>3, <2>4, <2>6
<1> QED
  BY <1>2, <1>3, <1>4

-----------------------------------------------------------------------------
(* The inductive invariant of the stream.                                  *)

StreamInv ==
  /\ captured \in Seq(Tweets)
  /\ SamplesInv(accepted, samples)
  /\ Cardinality(DOMAIN samples) <= MaxSamples
  /\ EveryPostHasItsSample

LEMMA StreamInvHoldsAtFirst ==
  ASSUME SamplingAssumption, StreamAssumption, StreamInit
  PROVE  StreamInv
<1>1. DOMAIN NoSamples = {} /\ IsFiniteSet({}) /\ Cardinality({}) = 0
  BY FS_EmptySet DEF NoSamples
<1>2. DOMAIN samples = {} /\ accepted = <<>> /\ captured = <<>>
  BY <1>1 DEF StreamInit
<1>3. SamplesInv(accepted, samples)
  BY <1>1, <1>2 DEF SamplesInv, Backed, NewestKept, RepeatsIn
<1>4. EveryPostHasItsSample
  BY <1>2 DEF EveryPostHasItsSample
<1>5. Cardinality(DOMAIN samples) <= MaxSamples
  BY <1>1, <1>2 DEF SamplingAssumption
<1> QED
  BY <1>2, <1>3, <1>4, <1>5 DEF StreamInv

LEMMA ObserveKeeps ==
  ASSUME SamplingAssumption, StreamAssumption, StreamInv,
         NEW tweets \in Payloads, Observe(tweets)
  PROVE  StreamInv'
<1> DEFINE run == PrepareAll(tweets, samples)
           c == accepted \o run.accepted
<1>1. tweets \in Seq(Tweets) /\ accepted \in Seq(Tweets) /\ captured \in Seq(Tweets)
  BY DEF StreamAssumption, StreamInv, SamplesInv
<1>2. samples' = Retain(run.samples) /\ accepted' = c /\ captured' = captured \o tweets
  BY DEF Observe, PrepareObservations
<1>3. Prepared(accepted, run, tweets, Len(tweets))
  BY <1>1, ResponsePrepared DEF StreamInv
<1> HIDE DEF run
<1>4. run.accepted \in Seq(Tweets) /\ SamplesInv(c, run.samples)
      /\ \A i \in 1 .. Len(tweets) : Covered(tweets[i], c)
  BY <1>3 DEF Prepared
<1>5. \A i \in DOMAIN captured : Covered(captured[i], c)
  <2>1. \A i \in DOMAIN captured : Covered(captured[i], accepted)
    BY DEF StreamInv, EveryPostHasItsSample, Covered
  <2> QED
    BY <2>1, <1>1, <1>4, CoveredStays
<1> HIDE DEF c
<1>6. SamplesInv(c, Retain(run.samples))
  BY <1>4, RetainKeeps
<1>7. Cardinality(DOMAIN Retain(run.samples)) <= MaxSamples
  <2>1. Timed(run.samples)
    BY <1>4, SamplesAreTimed
  <2> QED
    BY <2>1, RetainKeepsNewest
<1>8. \A i \in DOMAIN (captured \o tweets) : Covered((captured \o tweets)[i], c)
  <2> SUFFICES ASSUME NEW i \in DOMAIN (captured \o tweets)
               PROVE  Covered((captured \o tweets)[i], c)
    OBVIOUS
  <2>1. \/ i \in DOMAIN captured /\ (captured \o tweets)[i] = captured[i]
        \/ i - Len(captured) \in 1 .. Len(tweets)
           /\ (captured \o tweets)[i] = tweets[i - Len(captured)]
    BY <1>1
  <2> QED
    BY <1>4, <1>5, <2>1
<1>9. captured' \in Seq(Tweets)
  BY <1>1, <1>2
<1>10. EveryPostHasItsSample'
  BY <1>2, <1>8 DEF EveryPostHasItsSample, Covered
<1> QED
  BY <1>2, <1>6, <1>7, <1>9, <1>10 DEF StreamInv

(* Every step keeps StreamInv. *)
THEOREM StreamInvariant == StreamSpec => []StreamInv
<1> USE SamplingAssumption, StreamAssumption
<1>1. StreamInit => StreamInv
  BY StreamInvHoldsAtFirst
<1>2. StreamInv /\ [StreamNext]_streamVars => StreamInv'
  <2>1. ASSUME StreamInv, StreamNext
        PROVE  StreamInv'
    BY <2>1, ObserveKeeps DEF StreamNext
  <2>2. ASSUME StreamInv, UNCHANGED streamVars
        PROVE  StreamInv'
    BY <2>2 DEF streamVars, StreamInv, EveryPostHasItsSample
  <2> QED
    BY <2>1, <2>2
<1> QED
  BY <1>1, <1>2, PTL DEF StreamSpec

(* The samples stay within MAX_SAMPLES and are those of captured posts.     *)
THEOREM StreamTypeCorrect == StreamSpec => []TypeOK
<1>1. StreamInv => TypeOK
  <2> SUFFICES ASSUME StreamInv
               PROVE  TypeOK
    OBVIOUS
  <2>1. accepted \in Seq(Tweets) /\ Backed(accepted, samples)
    BY DEF StreamInv, SamplesInv
  <2>2. ASSUME NEW id \in DOMAIN samples
        PROVE  id \in {t.id : t \in Tweets}
    <3>1. PICK j \in DOMAIN accepted : accepted[j].id = id
      BY <2>1 DEF Backed
    <3>2. accepted[j] \in Tweets
      BY <2>1
    <3> QED
      BY <3>1, <3>2
  <2> QED
    BY <2>1, <2>2 DEF StreamInv, TypeOK
<1> QED
  BY <1>1, StreamInvariant, PTL

(* Sampling loses nothing but repetitions: each captured post has an       *)
(* observation of the same content in the same interval.                   *)
THEOREM NothingIsSampledAway == StreamSpec => []EveryPostHasItsSample
<1>1. StreamInv => EveryPostHasItsSample
  BY DEF StreamInv
<1> QED
  BY <1>1, StreamInvariant, PTL

(* The kept sample of a post is its newest delivery, unless enough other    *)
(* posts were delivered to evict it.                                       *)
THEOREM LateSamplesRewindNothing == StreamSpec => []SampleIsNewestDelivery
<1>1. StreamInv => SampleIsNewestDelivery
  BY DEF StreamInv, SamplesInv, NewestKept, SampleIsNewestDelivery, Crowded, CrowdedIn, Crowd
<1> QED
  BY <1>1, StreamInvariant, PTL

(* One visit is delivered once, but for late samples and evictions.        *)
THEOREM OneDeliveryPerSample == StreamSpec => []RepeatsAreSampled
<1>1. StreamInv => RepeatsAreSampled
  BY DEF StreamInv, SamplesInv, RepeatsIn, RepeatsAreSampled, Crowded, CrowdedIn, Crowd
<1> QED
  BY <1>1, StreamInvariant, PTL
=============================================================================
