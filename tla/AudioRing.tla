----------------------------- MODULE AudioRing -----------------------------
(***************************************************************************)
(* AppAudioProcessor (apps/desktop/public/app-audio-worklet.js): the ring  *)
(* buffer between the bursts in which Windows delivers audio and the       *)
(* fixed blocks in which Web Audio plays it.  The JavaScript runs each     *)
(* method to completion; indices count samples, which are interleaved.     *)
(***************************************************************************)
EXTENDS Integers, Sequences

CONSTANTS
  Channels,      \* samples in a frame
  Capacity,      \* length of `buffer`, a whole number of frames
  BlockFrames,   \* frames that one call of process() plays
  Sounds,        \* what a frame may sound like
  MaxChunk,      \* bound: frames in a chunk
  Silence        \* the sample 0

\* A sample remembers the channel it was recorded from.
Samples == (1 .. Channels) \X Sounds

ASSUME RingAssumption ==
  /\ Channels \in Nat /\ Channels > 0
  /\ Capacity \in Nat /\ Capacity > 0 /\ Capacity % Channels = 0
  /\ BlockFrames \in Nat /\ MaxChunk \in Nat
  /\ Silence \notin Samples

VARIABLES
  buffer, readIndex, writeIndex, available,   \* the fields
  output                                      \* what the last process() played

ringVars == <<buffer, readIndex, writeIndex, available, output>>

Slots == 0 .. Capacity - 1
\* Rust sends whole frames, interleaved: a sound for each frame makes a chunk.
Interleaved(sounds) ==
  [i \in 1 .. Channels * Len(sounds) |->
    <<((i - 1) % Channels) + 1, sounds[((i - 1) \div Channels) + 1]>>]
Chunks == {Interleaved(sounds) : sounds \in UNION {[1 .. n -> Sounds] : n \in 1 .. MaxChunk}}

RingTypeOK ==
  /\ buffer \in [Slots -> Samples \union {Silence}]
  /\ readIndex \in Slots /\ writeIndex \in Slots
  /\ available \in 0 .. Capacity
  /\ output \in [1 .. BlockFrames -> [1 .. Channels -> Samples \union {Silence}]]

SilentFrame == [c \in 1 .. Channels |-> Silence]

RingInit ==
  /\ buffer = [k \in Slots |-> Silence]
  /\ readIndex = 0 /\ writeIndex = 0 /\ available = 0
  /\ output = [f \in 1 .. BlockFrames |-> SilentFrame]
-----------------------------------------------------------------------------
\* Faulty variant: room is made for one sample too many.
OverflowByOne(n) == IF available + n >= Capacity THEN available + n - Capacity + 1 ELSE 0

\* How many of the oldest samples give way to n new ones.
Overflow(n) == IF available + n > Capacity THEN available + n - Capacity ELSE 0

\* What slot k holds after the samples were written: the last of those that fell on it.
AfterWrite(k, samples) ==
  LET n == Len(samples)
      offset == (k - writeIndex) % Capacity IN
  IF offset < n THEN samples[offset + 1 + Capacity * ((n - offset - 1) \div Capacity)]
  ELSE buffer[k]

\* Faulty variant: the reader stays where it was.
ReaderStays(n) == readIndex
ReaderAfter(n) == (readIndex + Overflow(n)) % Capacity

Write(samples) ==
  /\ readIndex' = ReaderAfter(Len(samples))
  /\ buffer' = [k \in Slots |-> AfterWrite(k, samples)]
  /\ writeIndex' = (writeIndex + Len(samples)) % Capacity
  /\ available' = available - Overflow(Len(samples)) + Len(samples)
  /\ UNCHANGED output

\* The n-th oldest sample.
Oldest(n) == buffer[(readIndex + n - 1) % Capacity]

\* How many frames of the next block there is sound for.
Playable ==
  LET frames == available \div Channels IN
  IF frames < BlockFrames THEN frames ELSE BlockFrames

Process ==
  /\ output' = [f \in 1 .. BlockFrames |->
                 IF f <= Playable THEN [c \in 1 .. Channels |-> Oldest(Channels * (f - 1) + c)]
                 ELSE SilentFrame]
  /\ readIndex' = (readIndex + Channels * Playable) % Capacity
  /\ available' = available - Channels * Playable
  /\ UNCHANGED <<buffer, writeIndex>>

Flush ==
  /\ readIndex' = 0 /\ writeIndex' = 0 /\ available' = 0
  /\ UNCHANGED <<buffer, output>>

RingNext == Process \/ Flush \/ \E chunk \in Chunks : Write(chunk)

RingSpec == RingInit /\ [][RingNext]_ringVars
-----------------------------------------------------------------------------
(***************************************************************************)
(* The buffer never plays one channel's samples on another, whatever was   *)
(* dropped and wherever it wrapped (write and process).                    *)
(***************************************************************************)
ChannelsApart ==
  \A f \in 1 .. BlockFrames, c \in 1 .. Channels :
    output[f][c] # Silence => output[f][c][1] = c

(***************************************************************************)
(* The ring is a queue that drops the oldest samples when it is full, also *)
(* for a chunk that is longer than the buffer.                             *)
(***************************************************************************)
Queue == INSTANCE DropOldest WITH
  queue <- [i \in 1 .. available |-> Oldest(i)], played <- output

ImplementsQueue == Queue!Spec
=============================================================================
