---------------------------- MODULE DropOldest ----------------------------
(***************************************************************************)
(* What the audio worklet's buffer promises: a queue of samples of bounded *)
(* length that forgets the oldest when it is full, and is played a block   *)
(* of frames at a time, with silence for what is not there.                *)
(***************************************************************************)
EXTENDS Integers, Sequences

CONSTANTS Channels, Capacity, BlockFrames, Chunks, Silence
VARIABLES queue, played

Newest(s) == IF Len(s) > Capacity THEN SubSeq(s, Len(s) - Capacity + 1, Len(s)) ELSE s
Frame(s, f) == SubSeq(s, Channels * (f - 1) + 1, Channels * f)
FramesOf(s) == Len(s) \div Channels

Init ==
  /\ queue = <<>>
  /\ played = [f \in 1 .. BlockFrames |-> [c \in 1 .. Channels |-> Silence]]

Put(chunk) == queue' = Newest(queue \o chunk) /\ UNCHANGED played

Play ==
  LET n == IF FramesOf(queue) < BlockFrames THEN FramesOf(queue) ELSE BlockFrames IN
  /\ played' = [f \in 1 .. BlockFrames |->
                 IF f <= n THEN Frame(queue, f) ELSE [c \in 1 .. Channels |-> Silence]]
  /\ queue' = SubSeq(queue, Channels * n + 1, Len(queue))

Forget == queue' = <<>> /\ UNCHANGED played

Next == Play \/ Forget \/ \E chunk \in Chunks : Put(chunk)

Spec == Init /\ [][Next]_<<queue, played>>
=============================================================================
