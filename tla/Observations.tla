---------------------------- MODULE Observations ----------------------------
(***************************************************************************)
(* A stream of responses through the sampling rule.  Every response is     *)
(* prepared against the samples left by the one before, and both results   *)
(* of the preparation are committed together, as poolEnqueue does.         *)
(***************************************************************************)
EXTENDS Sampling

CONSTANTS
  Tweets,    \* the posts that responses can contain, as captured
  Payloads,  \* the responses: sequences of tweets
  MaxSeen    \* bound of the model: tweets after which no response is observed

ASSUME StreamAssumption ==
  /\ Payloads \subseteq Seq(Tweets)
  /\ MaxSeen \in Nat
  /\ \A t \in Tweets : t.time \in Nat

VARIABLES samples,   \* post id -> [time, content] of its newest sample
          captured,  \* the tweets of every response so far, in order (history)
          accepted   \* the observations delivered so far, in order (history)

streamVars == <<samples, captured, accepted>>

-----------------------------------------------------------------------------
StreamInit ==
  /\ samples = NoSamples
  /\ captured = <<>>
  /\ accepted = <<>>

(* One response prepared and committed, as poolEnqueue does. *)
Observe(tweets) ==
  LET prepared == PrepareObservations(tweets, samples) IN
  /\ samples' = prepared.samples
  /\ captured' = captured \o tweets
  /\ accepted' = accepted \o prepared.accepted

StreamNext ==
  /\ Len(captured) < MaxSeen
  /\ \E tweets \in Payloads : Observe(tweets)

StreamSpec == StreamInit /\ [][StreamNext]_streamVars

-----------------------------------------------------------------------------
TypeOK ==
  /\ captured \in Seq(Tweets)
  /\ accepted \in Seq(Tweets)
  /\ DOMAIN samples \subseteq {t.id : t \in Tweets}
  /\ Cardinality(DOMAIN samples) <= MaxSamples

(* Sampling loses nothing but repetitions: each captured post has an       *)
(* observation of the same post with the same content in the same interval.*)
(* The code skips a tweet for a sample it holds, so every sample it can    *)
(* hold must be one that was delivered, also after late samples, repeats   *)
(* inside one response and evictions.  A capture in a new interval, late   *)
(* or not, is therefore never silent.                                      *)
EveryPostHasItsSample ==
  \A i \in DOMAIN captured : \E j \in DOMAIN accepted : SameSample(captured[i], accepted[j])

(* Enough other posts were delivered to evict the sample of this one. *)
Crowded(id, n) == Cardinality({accepted[m].id : m \in 1 .. n} \ {id}) >= MaxSamples

(* Unless it was evicted, the kept sample of a post is its newest          *)
(* delivery, so a late sample cannot rewind the comparison to an older     *)
(* time.                                                                   *)
SampleIsNewestDelivery ==
  \A j \in DOMAIN accepted :
    \/ /\ accepted[j].id \in DOMAIN samples
       /\ accepted[j].time <= samples[accepted[j].id].time
    \/ Crowded(accepted[j].id, Len(accepted))

(* One visit is delivered once: two deliveries of one post are never the   *)
(* same sample, unless another delivery of the post came before the second *)
(* (a late sample is delivered without being remembered), or its sample    *)
(* was evicted.                                                            *)
RepeatsAreSampled ==
  \A j, k \in DOMAIN accepted :
    /\ j < k
    /\ SameSample(accepted[j], accepted[k])
    => \/ \E m \in 1 .. k - 1 :
            /\ accepted[m].id = accepted[k].id
            /\ ~SameSample(accepted[m], accepted[k])
       \/ Crowded(accepted[k].id, k - 1)
=============================================================================
