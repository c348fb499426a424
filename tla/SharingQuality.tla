--------------------------- MODULE SharingQuality ---------------------------
(***************************************************************************)
(* How well a share runs and how well it may: the statistics that a timer  *)
(* makes SharingManager collect from every viewer's connection, and the    *)
(* preset that useSharing keeps and that reaches the capture and every     *)
(* encoder (sharing-manager.ts, viewer-connection-manager.ts,              *)
(* hooks/use-sharing.ts, services/settings.ts).  A reading is the number   *)
(* of the connection it was taken from.  Shares that fail, are stopped in  *)
(* the picker or are started twice are ScreenShare's matter.               *)
(***************************************************************************)
EXTENDS Mishaps

CONSTANTS
  Viewers, Presets,
  DefaultPreset,    \* DEFAULT in settings.ts
  None,
  MaxShares,        \* bound: calls of start()
  MaxConnections,   \* bound: connections made
  MaxPolls          \* bound: polls in flight at a time

ASSUME QualityAssumption ==
  /\ DefaultPreset \in Presets /\ None \notin Presets
  /\ {MaxShares, MaxConnections, MaxPolls} \subseteq Nat

VARIABLES
  phase,      \* of the share, see Phases
  shares,     \* calls of start() so far
  entry,      \* #viewers: viewer -> its entry, see Entries
  madeFor,    \* connections made so far -> the share they were made for
  readings,   \* #quality: viewer -> the connection that was graded, 0 if none
  stats,      \* #stats: the connections whose samples were folded, {} if it is null
  polls,      \* slot -> a pollQuality() that has not returned, see Polls
  preset,     \* what the quality screen shows
  stored,     \* the preset that loadPreset would find in localStorage
  profile,    \* the manager's #profile, None before there is a manager
  wanted,     \* the profile that the capture awaited was requested with
  track,      \* the capture's content hint and size, each by its preset
  encoding    \* the ViewerConnectionManager's #encoding

shareVars == <<phase, shares, entry, madeFor>>
readingVars == <<readings, stats, polls>>
presetVars == <<preset, stored, profile>>
encoderVars == <<wanted, track, encoding>>
qualityVars == <<shareVars, readingVars, presetVars, encoderVars, happened>>

\* "picking" awaits startCapture, "asking" has a stream and awaits its room.
Phases == {"idle", "picking", "asking", "sharing"}
Connections == 1 .. MaxConnections
Slots == 1 .. MaxPolls
Setting == Presets \union {None}
\* ceiling: the preset that the connection's video sender is held to.
Entries == [conn : 0 .. MaxConnections, sampled : BOOLEAN, ceiling : Setting]
NoEntry == [conn |-> 0, sampled |-> FALSE, ceiling |-> None]
NoEntries == [v \in Viewers |-> NoEntry]
Nobody == [v \in Viewers |-> 0]
NoTrack == [hint |-> None, size |-> None]
\* of: the entries the poll walks over; awaited: those whose getStats is pending.
Polls == [of : [Viewers -> 0 .. MaxConnections], awaited : SUBSET Viewers]
NoPoll == [of |-> Nobody, awaited |-> Viewers]

SQTypeOK ==
  /\ phase \in Phases /\ shares \in 0 .. MaxShares
  /\ entry \in [Viewers -> Entries]
  /\ madeFor \in [1 .. Cardinality(DOMAIN madeFor) -> 1 .. MaxShares]
  /\ stats \subseteq Connections
  /\ readings \in [Viewers -> 0 .. MaxConnections]
  /\ polls \in [Slots -> Polls]
  /\ {preset, stored} \subseteq Presets
  /\ {profile, wanted, encoding, track.hint, track.size} \subseteq Setting
  /\ happened \subseteq MishapKinds

SQInit ==
  /\ phase = "idle" /\ shares = 0 /\ entry = NoEntries /\ madeFor = [c \in 1 .. 0 |-> 0]
  /\ readings = Nobody /\ stats = {}
  /\ polls = [k \in Slots |-> NoPoll]
  /\ stored = DefaultPreset /\ preset = stored /\ profile = None
  /\ wanted = None /\ track = NoTrack /\ encoding = None
  /\ happened = {}

Made == Cardinality(DOMAIN madeFor)
Connected == {v \in Viewers : entry[v] # NoEntry}
Polling(k) == polls[k] # NoPoll
-----------------------------------------------------------------------------
(***************************************************************************)
(* The share.                                                              *)
(***************************************************************************)
\* A signaling client is there: useSharing makes its manager.
MakeManager ==
  /\ profile = None
  /\ profile' = preset
  /\ UNCHANGED <<shareVars, readingVars, preset, stored, encoderVars, happened>>

Start ==
  /\ phase = "idle" /\ profile # None /\ shares < MaxShares
  /\ phase' = "picking" /\ shares' = shares + 1
  /\ wanted' = profile
  /\ UNCHANGED <<entry, madeFor, readingVars, presetVars, track, encoding, happened>>

\* Faulty variant: the numbers are let go and the verdicts stay.
ForgetStatsOnly == stats' = {} /\ UNCHANGED readings
\* What #cleanup does to the readings.
ForgetReadings == stats' = {} /\ readings' = Nobody

PickerFails ==
  /\ phase = "picking"
  /\ phase' = "idle"
  /\ ForgetReadings /\ wanted' = None
  /\ UNCHANGED <<shares, entry, madeFor, polls, presetVars, track, encoding, happened>>

CaptureStarts ==
  /\ phase = "picking"
  /\ phase' = "asking"
  /\ track' = [hint |-> wanted, size |-> wanted] /\ wanted' = None
  /\ UNCHANGED <<shares, entry, madeFor, readingVars, presetVars, encoding, happened>>

RoomCreated ==
  /\ phase = "asking"
  /\ phase' = "sharing" /\ encoding' = profile
  /\ UNCHANGED <<shares, entry, madeFor, readingVars, presetVars, wanted, track, happened>>

\* addViewer: the parameters are set before the offer.
ViewerJoins(v) ==
  /\ phase = "sharing" /\ entry[v] = NoEntry /\ Made < MaxConnections
  /\ entry' = [entry EXCEPT ![v] = [conn |-> Made + 1, sampled |-> FALSE, ceiling |-> encoding]]
  /\ madeFor' = [c \in 1 .. Made + 1 |-> IF c <= Made THEN madeFor[c] ELSE shares]
  /\ UNCHANGED <<phase, shares, readingVars, presetVars, encoderVars, happened>>

\* viewer-left, for a viewer that may have been dropped already.
ViewerLeaves(v) ==
  /\ phase = "sharing"
  /\ entry[v] # NoEntry \/ readings[v] # 0
  /\ entry' = [entry EXCEPT ![v] = NoEntry]
  /\ readings' = [readings EXCEPT ![v] = 0]
  /\ UNCHANGED <<phase, shares, madeFor, stats, polls, presetVars, encoderVars, happened>>

\* ICE reports "failed", or the negotiation throws: the reading stays.
ConnectionFails(v) ==
  /\ entry[v] # NoEntry
  /\ entry' = [entry EXCEPT ![v] = NoEntry]
  /\ UNCHANGED <<phase, shares, madeFor, readingVars, presetVars, encoderVars, happened>>

Stop ==
  /\ phase \in {"asking", "sharing"}
  /\ Befalls(OnlyIf(\E k \in Slots : Polling(k), "stop during poll"))
  /\ phase' = "idle" /\ entry' = NoEntries
  /\ ForgetReadings
  /\ track' = NoTrack /\ encoding' = None
  /\ UNCHANGED <<shares, madeFor, polls, presetVars, wanted>>
-----------------------------------------------------------------------------
(***************************************************************************)
(* The timer polls whether or not the last poll has returned.              *)
(***************************************************************************)
PollStarts(k) ==
  /\ phase = "sharing" /\ ~Polling(k)
  /\ polls' = [polls EXCEPT ![k] =
                 [of |-> [v \in Viewers |-> entry[v].conn], awaited |-> Connected]]
  /\ UNCHANGED <<shareVars, readings, stats, presetVars, encoderVars, happened>>

\* The poll's entry of v is the one that the manager still has.
StillThere(k, v) == polls[k].of[v] = entry[v].conn

\* getStats is answered, or rejects and the last sample is dropped.
PollReads(k, v) ==
  /\ Polling(k) /\ v \in polls[k].awaited
  /\ polls' = [polls EXCEPT ![k].awaited = @ \ {v}]
  /\ \E answered \in BOOLEAN :
       entry' = IF StillThere(k, v) THEN [entry EXCEPT ![v].sampled = answered] ELSE entry
  /\ UNCHANGED <<phase, shares, madeFor, readings, stats, presetVars, encoderVars, happened>>

\* A connection that was closed may owe its answer for ever, and so the poll.
PollHangs(k, v) ==
  /\ Polling(k) /\ v \in polls[k].awaited /\ ~StillThere(k, v)
  /\ polls' = [polls EXCEPT ![k] = NoPoll]
  /\ UNCHANGED <<shareVars, readings, stats, presetVars, encoderVars, happened>>

\* Faulty variant: what was read is added to what is there.
ReadingsAfterMerged(poll) ==
  [v \in Viewers |-> IF poll.of[v] # 0 THEN poll.of[v] ELSE readings[v]]
\* What pollQuality makes of #quality.
ReadingsAfter(poll) == poll.of

(***************************************************************************)
(* pollQuality goes on.  If the share was stopped meanwhile, #viewers is   *)
(* undefined: it throws between its two assignments.                       *)
(***************************************************************************)
PollFinishes(k) ==
  /\ Polling(k) /\ polls[k].awaited = {}
  /\ polls' = [polls EXCEPT ![k] = NoPoll]
  /\ readings' = ReadingsAfter(polls[k])
  /\ stats' = IF phase = "sharing" THEN {entry[v].conn : v \in {w \in Viewers : entry[w].sampled}}
              ELSE stats
  /\ UNCHANGED <<shareVars, presetVars, encoderVars, happened>>

PollGoesOn(k) == PollFinishes(k) \/ \E v \in Viewers : PollReads(k, v) \/ PollHangs(k, v)
-----------------------------------------------------------------------------
\* The entries once every sender is re-aimed at p, but for those that refuse.
Reaimed(p, refusing) ==
  [v \in Viewers |-> IF v \in Connected \ refusing THEN [entry[v] EXCEPT !.ceiling = p] ELSE entry[v]]

\* Faulty variant: who joins later gets the ceiling the share began with.
SetEncodingOfSenders(p, refusing) == entry' = Reaimed(p, refusing) /\ UNCHANGED encoding

\* setEncoding, if there is a manager of viewers.
SetEncoding(p, refusing) ==
  /\ entry' = Reaimed(p, refusing)
  /\ encoding' = IF phase = "sharing" THEN p ELSE encoding

\* applyConstraints may refuse: the hint changes, the size stays.
Retrack(p, resized) ==
  track' = IF phase \in {"asking", "sharing"}
           THEN [hint |-> p, size |-> IF resized THEN p ELSE track.size] ELSE track

\* setPreset and the setQuality it calls; the storage may refuse.
SetPreset(p) ==
  /\ preset' = p /\ stored' \in {p, stored}
  /\ IF profile = None THEN UNCHANGED <<profile, entry, encoderVars, happened>>
     ELSE /\ profile' = p
          /\ \E refusing \in SUBSET Connected, resized \in BOOLEAN :
               /\ SetEncoding(p, refusing) /\ Retrack(p, resized)
               /\ Befalls(OnlyIf(phase = "picking", "preset in picker")
                          \union OnlyIf(refusing # {}, "ceiling refused")
                          \union OnlyIf(~resized, "size refused"))
          /\ UNCHANGED wanted
  /\ UNCHANGED <<phase, shares, madeFor, readingVars>>

\* The application is closed, or dies, and is opened again.
Restart ==
  /\ preset' = stored /\ profile' = None
  /\ phase' = "idle" /\ entry' = NoEntries
  /\ stats' = {} /\ readings' = Nobody /\ polls' = [k \in Slots |-> NoPoll]
  /\ wanted' = None /\ track' = NoTrack /\ encoding' = None
  /\ UNCHANGED <<shares, madeFor, stored, happened>>

SQNext ==
  \/ MakeManager \/ Start \/ PickerFails \/ CaptureStarts \/ RoomCreated \/ Stop \/ Restart
  \/ \E v \in Viewers : ViewerJoins(v) \/ ViewerLeaves(v) \/ ConnectionFails(v)
  \/ \E k \in Slots : PollStarts(k) \/ PollGoesOn(k)
  \/ \E p \in Presets : SetPreset(p)

SQSpec == SQInit /\ [][SQNext]_qualityVars

\* The timer fires, and an open connection answers for its statistics.
SQFairSpec ==
  /\ SQSpec
  /\ WF_qualityVars(\E k \in Slots : PollStarts(k))
  /\ \A k \in Slots : WF_qualityVars(PollGoesOn(k))
-----------------------------------------------------------------------------
OfThisShare(c) == phase # "idle" /\ madeFor[c] = shares

(***************************************************************************)
(* The numbers shown are those of the present share, although a poll of an *)
(* earlier one may return during it; so are the verdicts, unless the share *)
(* was stopped while it was polled (pollQuality, #cleanup).                *)
(***************************************************************************)
ReadingsOfThisShare ==
  /\ \A c \in stats : OfThisShare(c)
  /\ Spared({"stop during poll"}) =>
       \A v \in Viewers : readings[v] # 0 => OfThisShare(readings[v])

(***************************************************************************)
(* "stale numbers on a dead connection read as a healthy share": a verdict *)
(* on a connection that has gone is not shown for ever, whichever polls    *)
(* overlapped (pollQuality, viewer-left).                                  *)
(***************************************************************************)
StaleReadingsGo ==
  \A v \in Viewers :
    LET stale == phase = "sharing" /\ readings[v] \notin {0, entry[v].conn} IN stale ~> ~stale

(***************************************************************************)
(* The preset on the screen is the one in force: on every viewer's encoder,*)
(* also of those who join later, and on the capture, unless the browser    *)
(* refuses or the picker was open (setQuality, setEncoding, room-created,  *)
(* loadPreset).                                                            *)
(***************************************************************************)
PresetReachesTheShare ==
  /\ profile \in {None, preset}
  /\ Spared({"ceiling refused"}) => \A v \in Connected : entry[v].ceiling = preset
  /\ track # NoTrack /\ Spared({"preset in picker"}) =>
       /\ track.hint = preset
       /\ Spared({"size refused"}) => track.size = preset
=============================================================================
