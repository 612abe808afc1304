------------------------------ MODULE Sampling ------------------------------
(***************************************************************************)
(* The sampling rule of the extension: extension/lib/observations.js.      *)
(*                                                                         *)
(* A captured post is delivered as an observation unless the last sample   *)
(* of the same post has the same content in the same five-minute interval. *)
(* Metrics are not content: a change of metrics alone is sampled away      *)
(* inside an interval and delivered in the next one.                       *)
(*                                                                         *)
(* A tweet is a record [id, content, metrics, time].  Hashing is injective *)
(* on what the code hashes, so the content hash is the content itself and  *)
(* an observation, whose id digests all four fields, is the tweet itself.  *)
(***************************************************************************)
EXTENDS Integers, Sequences, FiniteSets

CONSTANTS
  SampleInterval,  \* length of a sampling interval (SAMPLE_INTERVAL_MS)
  MaxSamples       \* samples kept after a preparation (MAX_SAMPLES)

ASSUME SamplingAssumption ==
  /\ SampleInterval \in Nat \ {0}
  /\ MaxSamples \in Nat \ {0}

-----------------------------------------------------------------------------
Interval(time) == time \div SampleInterval

NoSamples == [id \in {} |-> [time |-> 0, content |-> 0]]

(* The same post with the same content in the same interval. *)
SameSample(a, b) ==
  /\ a.id = b.id
  /\ a.content = b.content
  /\ Interval(a.time) = Interval(b.time)

(* Mutants: the content is ignored; times are compared exactly.         *)
SampledByTime(t, known) ==
  t.id \in DOMAIN known /\ Interval(known[t.id].time) = Interval(t.time)
SampledExactly(t, known) ==
  /\ t.id \in DOMAIN known
  /\ known[t.id].content = t.content
  /\ known[t.id].time = t.time

Sampled(t, known) ==
  /\ t.id \in DOMAIN known
  /\ known[t.id].content = t.content
  /\ Interval(known[t.id].time) = Interval(t.time)

(* Mutant: the sample delivered last is kept. *)
Latest(t, known) ==
  [id \in DOMAIN known \union {t.id} |->
     IF id = t.id THEN [time |-> t.time, content |-> t.content] ELSE known[id]]

(* A late sample is delivered, but only a newer one replaces the sample. *)
Newest(t, known) ==
  IF t.id \in DOMAIN known /\ t.time < known[t.id].time
  THEN known
  ELSE [id \in DOMAIN known \union {t.id} |->
          IF id = t.id THEN [time |-> t.time, content |-> t.content]
                       ELSE known[id]]

PrepareOne(acc, t) ==
  IF Sampled(t, acc.samples)
  THEN acc
  ELSE [accepted |-> Append(acc.accepted, t), samples |-> Newest(t, acc.samples)]

(* The MaxSamples newest samples.  Ties fall to an arbitrary fixed choice. *)
Retain(known) ==
  IF Cardinality(DOMAIN known) <= MaxSamples
  THEN known
  ELSE LET kept == CHOOSE ids \in SUBSET DOMAIN known :
                     /\ Cardinality(ids) = MaxSamples
                     /\ \A in \in ids, out \in DOMAIN known \ ids :
                          known[in].time >= known[out].time
       IN [id \in kept |-> known[id]]

(* The tweets of a response, one after the other. *)
PrepareAll(tweets, previous) ==
  LET after[n \in 0 .. Len(tweets)] ==
        IF n = 0 THEN [accepted |-> <<>>, samples |-> previous]
        ELSE PrepareOne(after[n - 1], tweets[n])
  IN after[Len(tweets)]

(* prepareObservations: what to deliver, and the samples to keep. *)
PrepareObservations(tweets, previous) ==
  LET run == PrepareAll(tweets, previous)
  IN [accepted |-> run.accepted, samples |-> Retain(run.samples)]
=============================================================================
