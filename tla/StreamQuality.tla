--------------------------- MODULE StreamQuality ---------------------------
(***************************************************************************)
(* From the counters of a connection to the word a person reads: what      *)
(* StatsTracker computes between two samples of a received stream and how  *)
(* classifyQuality grades it (services/webrtc/stats-tracker.ts,            *)
(* connection-quality.ts).  A latency and a frame rate enter as the rating *)
(* that rate() and rateInverted() give them; a loss is a fraction.         *)
(***************************************************************************)
EXTENDS Integers

CONSTANT Unmeasured   \* null

Ratings == {"excellent", "good", "poor"}
ASSUME UnmeasuredAssumption == Unmeasured \notin Ratings

Qualities == Ratings \union {"reconnecting"}
\* iceConnectionState.
DeadPath == {"disconnected", "failed", "closed"}
LivePath == {"connected", "completed"}
PathStates == {"new", "checking"} \union LivePath \union DeadPath

\* packetsReceived and packetsLost, which late packets may lower again.
Counters(n) == [delivered : 0 .. n, lost : 0 .. n]
NoPrevious == [delivered |-> -1, lost |-> -1]

(***************************************************************************)
(* #lossOverInterval of the "receive" direction: a stalled interval says   *)
(* nothing.                                                                *)
(***************************************************************************)
LossOverInterval(previous, current) ==
  LET delivered == current.delivered - previous.delivered
      lost == current.lost - previous.lost IN
  IF previous = NoPrevious \/ delivered + lost <= 0 THEN Unmeasured
  ELSE [lost |-> IF lost > 0 THEN lost ELSE 0, total |-> delivered + lost]

\* Faulty variant: the threshold itself still counts as the better rating.
LossRatingLenient(loss) ==
  IF loss = Unmeasured THEN Unmeasured
  ELSE IF 100 * loss.lost <= loss.total THEN "excellent"
  ELSE IF 100 * loss.lost <= 3 * loss.total THEN "good"
  ELSE "poor"

\* rate() of a loss, with its thresholds of 1 and 3 percent.
LossRating(loss) ==
  IF loss = Unmeasured THEN Unmeasured
  ELSE IF 100 * loss.lost < loss.total THEN "excellent"
  ELSE IF 100 * loss.lost < 3 * loss.total THEN "good"
  ELSE "poor"

\* Faulty variant: one good dimension is enough.
BestOf(ratings) ==
  IF "excellent" \in ratings THEN "excellent" ELSE IF "good" \in ratings THEN "good" ELSE "poor"

\* worst(), of ratings that are not all Unmeasured.
WorstOf(ratings) ==
  IF "poor" \in ratings THEN "poor" ELSE IF "good" \in ratings THEN "good" ELSE "excellent"

\* classifyQuality.
Classify(latency, loss, frames, path) ==
  LET measured == {latency, LossRating(loss), frames} \ {Unmeasured} IN
  IF path \in DeadPath THEN "reconnecting"
  ELSE IF measured # {} THEN WorstOf(measured)
  ELSE IF path \in LivePath THEN "good" ELSE "reconnecting"
=============================================================================
