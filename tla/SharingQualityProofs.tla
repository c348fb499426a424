------------------------ MODULE SharingQualityProofs ------------------------
(***************************************************************************)
(* Theorems about readings and presets, for any viewers, presets and       *)
(* numbers of shares, connections and overlapping polls.                   *)
(***************************************************************************)
EXTENDS SharingQuality, FiniteSetTheorems, TLAPS

\* A connection that was made for the share there is.
Ours(c) == phase = "sharing" /\ c \in DOMAIN madeFor /\ madeFor[c] = shares

(***************************************************************************)
(* Entries belong to the present share; a share needs a manager.           *)
(***************************************************************************)
ShareInv ==
  /\ \A v \in Viewers : entry[v] # NoEntry => Ours(entry[v].conn)
  /\ phase # "idle" => shares \in Nat /\ shares >= 1 /\ profile # None

(***************************************************************************)
(* On its way to the senders the preset is held in three places: what the  *)
(* picker was asked for, the track, and the ceiling for those who join.    *)
(***************************************************************************)
PresetInv ==
  /\ profile \in {None, preset}
  /\ phase = "sharing" => encoding = profile
  /\ Spared({"ceiling refused"}) => \A v \in Viewers : entry[v] # NoEntry => entry[v].ceiling = preset
  /\ phase \in {"idle", "picking"} => track = NoTrack
  /\ phase = "picking" /\ Spared({"preset in picker"}) => wanted = preset
  /\ phase \in {"asking", "sharing"} /\ Spared({"preset in picker"}) =>
       track.hint = preset /\ (Spared({"size refused"}) => track.size = preset)

(***************************************************************************)
(* A poll reads #viewers when it starts and again when it ends: unless the *)
(* share was stopped in between, both are of the present share.            *)
(***************************************************************************)
ReadingInv ==
  /\ \A c \in stats : Ours(c)
  /\ \A k \in Slots : Polling(k) => \A v \in polls[k].awaited : polls[k].of[v] # 0
  /\ Spared({"stop during poll"}) =>
       /\ \A v \in Viewers : readings[v] # 0 => Ours(readings[v])
       /\ \A k \in Slots : Polling(k) =>
            phase = "sharing" /\ \A v \in Viewers : polls[k].of[v] # 0 => Ours(polls[k].of[v])

(***************************************************************************)
(* The types by part.                                                      *)
(***************************************************************************)
ShareTypes ==
  /\ phase \in Phases /\ shares \in 0 .. MaxShares
  /\ entry \in [Viewers -> Entries]
  /\ madeFor \in [1 .. Made -> 1 .. MaxShares]

ReadingTypes ==
  /\ stats \subseteq Connections
  /\ readings \in [Viewers -> 0 .. MaxConnections]
  /\ polls \in [Slots -> Polls]

PresetTypes ==
  /\ {preset, stored} \subseteq Presets
  /\ {profile, wanted, encoding, track.hint, track.size} \subseteq Setting

TypesInv ==
  ShareTypes /\ ReadingTypes /\ PresetTypes /\ happened \subseteq MishapKinds
  /\ Made \in 0 .. MaxConnections

AllInv == TypesInv /\ ShareInv /\ PresetInv /\ ReadingInv

LEMMA TypesMean == TypesInv => SQTypeOK
BY DEF TypesInv, ShareTypes, ReadingTypes, PresetTypes, SQTypeOK, Made

\* A part that a step does not touch.
LEMMA SharesUntouched ==
  ASSUME ShareTypes, UNCHANGED shareVars PROVE ShareTypes'
BY DEF ShareTypes, shareVars, Made

LEMMA ReadingsUntouched ==
  ASSUME ReadingTypes, UNCHANGED readingVars PROVE ReadingTypes'
BY DEF ReadingTypes, readingVars

LEMMA PresetsUntouched ==
  ASSUME PresetTypes, UNCHANGED <<presetVars, encoderVars>> PROVE PresetTypes'
BY DEF PresetTypes, presetVars, encoderVars

LEMMA NothingThere ==
  /\ NoEntry \in Entries /\ NoEntries \in [Viewers -> Entries]
  /\ NoEntry.conn = 0 /\ NoEntry.sampled = FALSE /\ \A v \in Viewers : NoEntries[v] = NoEntry
  /\ Nobody \in [Viewers -> 0 .. MaxConnections] /\ \A v \in Viewers : Nobody[v] = 0
  /\ NoPoll \in Polls /\ NoPoll.of = Nobody
  /\ NoTrack.hint = None /\ NoTrack.size = None /\ None \in Setting
  /\ 0 \in 0 .. MaxConnections /\ 0 \in 0 .. MaxShares
<1>1. 0 \in 0 .. MaxConnections /\ 0 \in 0 .. MaxShares
  BY QualityAssumption
<1>2. NoEntry \in Entries
  BY <1>1 DEF NoEntry, Entries, Setting
<1>3. Nobody \in [Viewers -> 0 .. MaxConnections] /\ NoPoll \in Polls
  BY <1>1 DEF Nobody, NoPoll, Polls
<1> QED
  BY <1>1, <1>2, <1>3 DEF NoEntry, NoEntries, Nobody, NoPoll, NoTrack, Setting

LEMMA QualityInit == SQInit => AllInv
<1> SUFFICES ASSUME SQInit PROVE AllInv
  OBVIOUS
<1> USE QualityAssumption, NothingThere DEF SQInit
<1>1. DOMAIN madeFor = 1 .. 0 /\ Made = 0
  BY FS_Interval DEF Made
<1>2. ShareTypes
  BY <1>1 DEF ShareTypes, Phases
<1>3. ReadingTypes
  BY DEF ReadingTypes
<1>4. PresetTypes
  BY DEF PresetTypes, Setting
<1>5. ShareInv /\ PresetInv
  BY DEF ShareInv, PresetInv
<1>6. ReadingInv
  BY DEF ReadingInv, Polling
<1> QED
  BY <1>1, <1>2, <1>3, <1>4, <1>5, <1>6 DEF AllInv, TypesInv
-----------------------------------------------------------------------------
(***************************************************************************)
(* The share's steps.                                                      *)
(***************************************************************************)
LEMMA MakeManagerKeeps == ASSUME AllInv, MakeManager PROVE AllInv'
<1> USE DEF MakeManager
<1>1. phase = "idle" /\ \A v \in Viewers : entry[v] = NoEntry
  BY DEF AllInv, ShareInv, Ours
<1>2. ShareTypes' /\ ReadingTypes' /\ Made' = Made /\ happened' = happened
  BY SharesUntouched, ReadingsUntouched DEF AllInv, TypesInv, shareVars, Made
<1>3. PresetTypes'
  BY DEF AllInv, TypesInv, PresetTypes, encoderVars, Setting
<1>4. ShareInv'
  BY <1>1 DEF ShareInv, shareVars
<1>5. PresetInv'
  BY <1>1 DEF AllInv, PresetInv, Spared, shareVars, encoderVars
<1>6. ReadingInv'
  BY DEF AllInv, ReadingInv, Ours, Polling, Spared, shareVars, readingVars
<1> QED
  BY <1>2, <1>3, <1>4, <1>5, <1>6 DEF AllInv, TypesInv

LEMMA StartKeeps == ASSUME AllInv, Start PROVE AllInv'
<1> USE DEF Start
<1>1. stats = {} /\ \A v \in Viewers : entry[v] = NoEntry
  BY DEF AllInv, ShareInv, ReadingInv, Ours
<1>2. shares \in 0 .. MaxShares /\ MaxShares \in Nat
  BY QualityAssumption DEF AllInv, TypesInv, ShareTypes
<1>3. ShareTypes' /\ Made' = Made /\ happened' = happened
  BY <1>2 DEF AllInv, TypesInv, ShareTypes, Phases, Made
<1>4. ReadingTypes'
  BY ReadingsUntouched DEF AllInv, TypesInv
<1>5. PresetTypes'
  BY DEF AllInv, TypesInv, PresetTypes, presetVars
<1>6. ShareInv'
  BY <1>1, <1>2 DEF ShareInv, presetVars
<1>7. PresetInv'
  BY <1>1 DEF AllInv, PresetInv, Spared, presetVars
<1>8. ReadingInv'
  BY <1>1 DEF AllInv, ReadingInv, Ours, Polling, Spared, readingVars
<1> QED
  BY <1>3, <1>4, <1>5, <1>6, <1>7, <1>8 DEF AllInv, TypesInv

LEMMA PickerFailsKeeps == ASSUME AllInv, PickerFails PROVE AllInv'
<1> USE DEF PickerFails, ForgetReadings
<1>1. \A v \in Viewers : entry[v] = NoEntry
  BY DEF AllInv, ShareInv, Ours
<1>2. ShareTypes' /\ Made' = Made /\ happened' = happened
  BY DEF AllInv, TypesInv, ShareTypes, Phases, Made
<1>3. ReadingTypes'
  BY NothingThere DEF AllInv, TypesInv, ReadingTypes
<1>4. PresetTypes'
  BY NothingThere DEF AllInv, TypesInv, PresetTypes, presetVars
<1>5. ShareInv'
  BY <1>1 DEF ShareInv
<1>6. PresetInv'
  BY <1>1 DEF AllInv, PresetInv, Spared, presetVars
<1>7. ReadingInv'
  BY NothingThere DEF AllInv, ReadingInv, Polling, Spared
<1> QED
  BY <1>2, <1>3, <1>4, <1>5, <1>6, <1>7 DEF AllInv, TypesInv

LEMMA CaptureStartsKeeps == ASSUME AllInv, CaptureStarts PROVE AllInv'
<1> USE DEF CaptureStarts
<1>1. stats = {} /\ \A v \in Viewers : entry[v] = NoEntry
  BY DEF AllInv, ShareInv, ReadingInv, Ours
<1>2. ShareTypes' /\ Made' = Made /\ happened' = happened
  BY DEF AllInv, TypesInv, ShareTypes, Phases, Made
<1>3. ReadingTypes'
  BY ReadingsUntouched DEF AllInv, TypesInv
<1>4. PresetTypes'
  BY NothingThere DEF AllInv, TypesInv, PresetTypes, presetVars
<1>5. ShareInv'
  BY <1>1 DEF AllInv, ShareInv, presetVars
<1>6. PresetInv'
  BY <1>1 DEF AllInv, PresetInv, Spared, presetVars
<1>7. ReadingInv'
  BY <1>1 DEF AllInv, ReadingInv, Ours, Polling, Spared, readingVars
<1> QED
  BY <1>2, <1>3, <1>4, <1>5, <1>6, <1>7 DEF AllInv, TypesInv

LEMMA RoomCreatedKeeps == ASSUME AllInv, RoomCreated PROVE AllInv'
<1> USE DEF RoomCreated
<1>1. stats = {} /\ \A v \in Viewers : entry[v] = NoEntry
  BY DEF AllInv, ShareInv, ReadingInv, Ours
<1>2. ShareTypes' /\ Made' = Made /\ happened' = happened
  BY DEF AllInv, TypesInv, ShareTypes, Phases, Made
<1>3. ReadingTypes'
  BY ReadingsUntouched DEF AllInv, TypesInv
<1>4. PresetTypes'
  BY DEF AllInv, TypesInv, PresetTypes, presetVars
<1>5. ShareInv'
  BY <1>1 DEF AllInv, ShareInv, presetVars
<1>6. PresetInv'
  BY <1>1 DEF AllInv, PresetInv, Spared, presetVars
<1>7. ReadingInv'
  BY <1>1 DEF AllInv, ReadingInv, Ours, Polling, Spared, readingVars
<1> QED
  BY <1>2, <1>3, <1>4, <1>5, <1>6, <1>7 DEF AllInv, TypesInv
-----------------------------------------------------------------------------
(***************************************************************************)
(* Viewers.                                                                *)
(***************************************************************************)
\* A connection more: those made before keep their share.
LEMMA OneMoreMade ==
  ASSUME TypesInv, Made < MaxConnections,
         madeFor' = [c \in 1 .. Made + 1 |-> IF c <= Made THEN madeFor[c] ELSE shares]
  PROVE  /\ Made' = Made + 1 /\ Made + 1 \in Connections /\ Made + 1 \in 0 .. MaxConnections
         /\ DOMAIN madeFor = 1 .. Made /\ Made + 1 \in DOMAIN madeFor' /\ madeFor'[Made + 1] = shares
         /\ \A c \in DOMAIN madeFor : c \in DOMAIN madeFor' /\ madeFor'[c] = madeFor[c]
<1>1. Made \in Nat /\ MaxConnections \in Nat /\ DOMAIN madeFor = 1 .. Made
  BY QualityAssumption DEF TypesInv, ShareTypes
<1>2. DOMAIN madeFor' = 1 .. Made + 1
  OBVIOUS
<1>3. Cardinality(1 .. Made + 1) = Made + 1
  BY <1>1, FS_Interval
<1>4. Made' = Made + 1
  BY <1>2, <1>3 DEF Made
<1>5. Made + 1 \in Connections /\ Made + 1 \in 0 .. MaxConnections
  BY <1>1 DEF Connections
<1>6. /\ Made + 1 \in DOMAIN madeFor' /\ madeFor'[Made + 1] = shares
      /\ \A c \in DOMAIN madeFor : c \in DOMAIN madeFor' /\ madeFor'[c] = madeFor[c]
  BY <1>1, <1>2
<1> QED
  BY <1>1, <1>4, <1>5, <1>6

LEMMA ViewerJoinsKeeps == ASSUME AllInv, NEW v \in Viewers, ViewerJoins(v) PROVE AllInv'
<1>1. /\ phase = "sharing" /\ Made < MaxConnections
      /\ entry' = [entry EXCEPT ![v] = [conn |-> Made + 1, sampled |-> FALSE, ceiling |-> encoding]]
      /\ madeFor' = [c \in 1 .. Made + 1 |-> IF c <= Made THEN madeFor[c] ELSE shares]
      /\ UNCHANGED <<phase, shares, readingVars, presetVars, encoderVars, happened>>
  BY DEF ViewerJoins
<1>2. /\ TypesInv /\ ShareTypes /\ encoding \in Setting
      /\ encoding = preset /\ shares \in 1 .. MaxShares
  <2>1. TypesInv /\ ShareTypes /\ encoding \in Setting
    BY DEF AllInv, TypesInv, PresetTypes
  <2>2. encoding = preset
    BY <1>1 DEF AllInv, ShareInv, PresetInv
  <2>3. shares \in 1 .. MaxShares
    BY <1>1, <2>1, QualityAssumption DEF AllInv, ShareInv, ShareTypes
  <2> QED
    BY <2>1, <2>2, <2>3
<1>3. /\ Made' = Made + 1 /\ Made + 1 \in Connections /\ Made + 1 \in 0 .. MaxConnections
      /\ DOMAIN madeFor = 1 .. Made /\ Made + 1 \in DOMAIN madeFor' /\ madeFor'[Made + 1] = shares
      /\ \A c \in DOMAIN madeFor : c \in DOMAIN madeFor' /\ madeFor'[c] = madeFor[c]
  BY <1>1, <1>2, OneMoreMade
<1>4. \A c : Ours(c) => c \in DOMAIN madeFor' /\ madeFor'[c] = shares
  BY <1>3 DEF Ours
<1>5. ShareTypes'
  <2>1. [conn |-> Made + 1, sampled |-> FALSE, ceiling |-> encoding] \in Entries
    BY <1>2, <1>3 DEF Entries
  <2>2. madeFor' \in [1 .. Made + 1 -> 1 .. MaxShares]
    BY <1>1, <1>2, <1>3 DEF ShareTypes
  <2> QED
    BY <1>1, <1>2, <1>3, <2>1, <2>2 DEF ShareTypes
<1>6. ReadingTypes' /\ PresetTypes' /\ happened' = happened
  BY <1>1, ReadingsUntouched, PresetsUntouched DEF AllInv, TypesInv
<1>7. /\ entry'[v].conn = Made + 1 /\ entry'[v].ceiling = preset
      /\ \A w \in Viewers : w # v => entry'[w] = entry[w]
  BY <1>1, <1>2 DEF ShareTypes
<1>8. ShareInv'
  <2>1. \A w \in Viewers : entry'[w] # NoEntry =>
          entry'[w].conn \in DOMAIN madeFor' /\ madeFor'[entry'[w].conn] = shares
    BY <1>3, <1>4, <1>7 DEF AllInv, ShareInv
  <2> QED
    BY <1>1, <2>1 DEF AllInv, ShareInv, Ours, presetVars, NoEntry
<1>9. PresetInv'
  BY <1>1, <1>7 DEF AllInv, PresetInv, Spared, presetVars, encoderVars, NoEntry
<1>10. ReadingInv'
  BY <1>1, <1>4 DEF AllInv, ReadingInv, Ours, Polling, Spared, readingVars
<1> QED
  BY <1>2, <1>3, <1>5, <1>6, <1>8, <1>9, <1>10 DEF AllInv, TypesInv

LEMMA ViewerLeavesKeeps == ASSUME AllInv, NEW v \in Viewers, ViewerLeaves(v) PROVE AllInv'
<1> USE DEF ViewerLeaves
<1>1. /\ ShareTypes /\ ReadingTypes
  BY DEF AllInv, TypesInv
<1>2. ShareTypes' /\ Made' = Made /\ happened' = happened
  BY <1>1, NothingThere DEF ShareTypes, Made
<1>3. ReadingTypes'
  BY <1>1, NothingThere DEF ReadingTypes
<1>4. PresetTypes'
  BY PresetsUntouched DEF AllInv, TypesInv
<1>5. ShareInv'
  BY <1>1 DEF AllInv, ShareInv, Ours, ShareTypes, presetVars
<1>6. PresetInv'
  BY <1>1 DEF AllInv, PresetInv, Spared, ShareTypes, presetVars, encoderVars
<1>7. ReadingInv'
  BY <1>1 DEF AllInv, ReadingInv, Ours, Polling, Spared, ReadingTypes
<1> QED
  BY <1>2, <1>3, <1>4, <1>5, <1>6, <1>7 DEF AllInv, TypesInv

LEMMA ConnectionFailsKeeps == ASSUME AllInv, NEW v \in Viewers, ConnectionFails(v) PROVE AllInv'
<1> USE DEF ConnectionFails
<1>1. ShareTypes
  BY DEF AllInv, TypesInv
<1>2. ShareTypes' /\ Made' = Made /\ happened' = happened
  BY <1>1, NothingThere DEF ShareTypes, Made
<1>3. ReadingTypes' /\ PresetTypes'
  BY ReadingsUntouched, PresetsUntouched DEF AllInv, TypesInv
<1>4. ShareInv'
  BY <1>1 DEF AllInv, ShareInv, Ours, ShareTypes, presetVars
<1>5. PresetInv'
  BY <1>1 DEF AllInv, PresetInv, Spared, ShareTypes, presetVars, encoderVars
<1>6. ReadingInv'
  BY DEF AllInv, ReadingInv, Ours, Polling, Spared, readingVars
<1> QED
  BY <1>2, <1>3, <1>4, <1>5, <1>6 DEF AllInv, TypesInv
-----------------------------------------------------------------------------
(***************************************************************************)
(* The ends of a share.                                                    *)
(***************************************************************************)
LEMMA StopKeeps == ASSUME AllInv, Stop PROVE AllInv'
<1>1. /\ \A v \in Viewers : entry'[v] = NoEntry
      /\ phase' = "idle" /\ entry' = NoEntries /\ stats' = {} /\ readings' = Nobody
      /\ track' = NoTrack /\ encoding' = None
      /\ UNCHANGED <<shares, madeFor, polls, presetVars, wanted>>
  BY NothingThere DEF Stop, ForgetReadings
<1>2. happened \subseteq happened' /\ happened' \subseteq MishapKinds
  BY DEF Stop, Befalls, AllInv, TypesInv
<1>3. Spared({"stop during poll"})' => \A k \in Slots : ~Polling(k)
  BY DEF Stop, Befalls, OnlyIf, Spared
<1>4. ShareTypes' /\ Made' = Made
  BY <1>1, NothingThere DEF AllInv, TypesInv, ShareTypes, Phases, Made
<1>5. ReadingTypes'
  BY <1>1, NothingThere DEF AllInv, TypesInv, ReadingTypes
<1>6. PresetTypes'
  BY <1>1, NothingThere DEF AllInv, TypesInv, PresetTypes, presetVars
<1>7. ShareInv'
  BY <1>1 DEF ShareInv
<1>8. PresetInv'
  BY <1>1 DEF AllInv, PresetInv, presetVars
<1>9. ReadingInv'
  BY <1>1, <1>3, NothingThere DEF AllInv, ReadingInv, Polling
<1> QED
  BY <1>2, <1>4, <1>5, <1>6, <1>7, <1>8, <1>9 DEF AllInv, TypesInv

LEMMA RestartKeeps == ASSUME AllInv, Restart PROVE AllInv'
<1> USE DEF Restart
<1>1. \A v \in Viewers : entry'[v] = NoEntry
  BY NothingThere
<1>2. ShareTypes' /\ Made' = Made /\ happened' = happened
  BY NothingThere DEF AllInv, TypesInv, ShareTypes, Phases, Made
<1>3. ReadingTypes'
  BY NothingThere DEF AllInv, TypesInv, ReadingTypes
<1>4. PresetTypes'
  BY NothingThere DEF AllInv, TypesInv, PresetTypes
<1>5. ShareInv' /\ PresetInv'
  BY <1>1 DEF ShareInv, PresetInv
<1>6. ReadingInv'
  BY NothingThere DEF ReadingInv, Polling
<1> QED
  BY <1>2, <1>3, <1>4, <1>5, <1>6 DEF AllInv, TypesInv
-----------------------------------------------------------------------------
(***************************************************************************)
(* Polls.                                                                  *)
(***************************************************************************)
LEMMA EntriesAreNumbered ==
  ASSUME AllInv, NEW v \in Viewers
  PROVE  entry[v] # NoEntry <=> entry[v].conn # 0
<1>1. DOMAIN madeFor = 1 .. Made /\ Made \in Nat
  BY QualityAssumption DEF AllInv, TypesInv, ShareTypes
<1> QED
  BY <1>1, NothingThere DEF AllInv, ShareInv, Ours

LEMMA PollStartsKeeps == ASSUME AllInv, NEW k \in Slots, PollStarts(k) PROVE AllInv'
<1> DEFINE poll == [of |-> [v \in Viewers |-> entry[v].conn], awaited |-> Connected]
<1>1. /\ phase = "sharing" /\ polls' = [polls EXCEPT ![k] = poll]
      /\ UNCHANGED <<shareVars, readings, stats, presetVars, encoderVars, happened>>
  BY DEF PollStarts
<1>2. poll \in Polls
  BY DEF AllInv, TypesInv, ShareTypes, Entries, Polls, Connected
<1>3. \A v \in Viewers : poll.of[v] # 0 => Ours(poll.of[v])
  BY EntriesAreNumbered DEF AllInv, ShareInv
<1>4. \A v \in poll.awaited : poll.of[v] # 0
  BY EntriesAreNumbered DEF Connected
<1> HIDE DEF poll
<1>5. ShareTypes' /\ PresetTypes' /\ Made' = Made /\ happened' = happened
  BY <1>1, SharesUntouched, PresetsUntouched DEF AllInv, TypesInv, shareVars, Made
<1>6. ReadingTypes'
  BY <1>1, <1>2 DEF AllInv, TypesInv, ReadingTypes
<1>7. ShareInv'
  BY <1>1 DEF AllInv, ShareInv, Ours, shareVars, presetVars
<1>8. PresetInv'
  BY <1>1 DEF AllInv, PresetInv, Spared, shareVars, presetVars, encoderVars
<1>9. \A j \in Slots : Polling(j)' => (j = k /\ polls'[j] = poll) \/ (Polling(j) /\ polls'[j] = polls[j])
  BY <1>1 DEF AllInv, TypesInv, ReadingTypes, Polling
<1>10. \A c : Ours(c)' <=> Ours(c)
  BY <1>1 DEF Ours, shareVars
<1>11. ReadingInv'
  <2>1. \A c \in stats' : Ours(c)'
    BY <1>1, <1>10 DEF AllInv, ReadingInv
  <2>2. \A j \in Slots : Polling(j)' => \A v \in polls'[j].awaited : polls'[j].of[v] # 0
    BY <1>4, <1>9 DEF AllInv, ReadingInv
  <2>3. ASSUME Spared({"stop during poll"}), NEW j \in Slots, Polling(j)', NEW v \in Viewers,
               polls'[j].of[v] # 0
        PROVE  Ours(polls'[j].of[v])
    BY <1>3, <1>9, <2>3 DEF AllInv, ReadingInv
  <2>4. Spared({"stop during poll"}) => \A v \in Viewers : readings[v] # 0 => Ours(readings[v])
    BY DEF AllInv, ReadingInv
  <2> QED
    BY <1>1, <1>10, <2>1, <2>2, <2>3, <2>4 DEF ReadingInv, Spared, Ours, shareVars
<1> QED
  BY <1>5, <1>6, <1>7, <1>8, <1>11 DEF AllInv, TypesInv

LEMMA PollReadsKeeps ==
  ASSUME AllInv, NEW k \in Slots, NEW v \in Viewers, PollReads(k, v)
  PROVE  AllInv'
<1>1. /\ Polling(k) /\ v \in polls[k].awaited
      /\ polls' = [polls EXCEPT ![k].awaited = @ \ {v}]
      /\ UNCHANGED <<phase, shares, madeFor, readings, stats, presetVars, encoderVars, happened>>
  BY DEF PollReads
<1>2. PICK answered \in BOOLEAN :
        entry' = IF StillThere(k, v) THEN [entry EXCEPT ![v].sampled = answered] ELSE entry
  BY DEF PollReads
<1>3. StillThere(k, v) => entry[v] # NoEntry
  BY <1>1, EntriesAreNumbered DEF AllInv, ReadingInv, StillThere
<1>4. ShareTypes /\ ReadingTypes
  BY DEF AllInv, TypesInv
<1>5. \A w \in Viewers :
        /\ entry'[w] # NoEntry => entry[w] # NoEntry
        /\ entry'[w].conn = entry[w].conn /\ entry'[w].ceiling = entry[w].ceiling
  BY <1>2, <1>3, <1>4 DEF ShareTypes, Entries
<1>6. entry' \in [Viewers -> Entries]
  BY <1>2, <1>4 DEF ShareTypes, Entries
<1>7. ShareTypes' /\ PresetTypes' /\ Made' = Made /\ happened' = happened
  BY <1>1, <1>4, <1>6, PresetsUntouched DEF AllInv, TypesInv, ShareTypes, Made
<1>8. ReadingTypes'
  BY <1>1, <1>4 DEF ReadingTypes, Polls
<1>9. ShareInv'
  BY <1>1, <1>5 DEF AllInv, ShareInv, Ours, presetVars, NoEntry
<1>10. PresetInv'
  BY <1>1, <1>5 DEF AllInv, PresetInv, Spared, presetVars, encoderVars, NoEntry
<1>11. \A j \in Slots : /\ polls'[j].of = polls[j].of /\ polls'[j].awaited \subseteq polls[j].awaited
                        /\ Polling(j)' => Polling(j)
  BY <1>1, <1>4 DEF ReadingTypes, Polls, Polling
<1>12. ReadingInv'
  <2>1. \A c \in stats' : Ours(c)'
    BY <1>1 DEF AllInv, ReadingInv, Ours
  <2>2. \A j \in Slots : Polling(j)' => \A w \in polls'[j].awaited : polls'[j].of[w] # 0
    BY <1>11 DEF AllInv, ReadingInv
  <2>3. Spared({"stop during poll"}) =>
          \A j \in Slots : Polling(j)' =>
            phase = "sharing" /\ \A w \in Viewers : polls'[j].of[w] # 0 => Ours(polls'[j].of[w])
    BY <1>11 DEF AllInv, ReadingInv
  <2>4. Spared({"stop during poll"}) => \A w \in Viewers : readings[w] # 0 => Ours(readings[w])
    BY DEF AllInv, ReadingInv
  <2> QED
    BY <1>1, <2>1, <2>2, <2>3, <2>4 DEF ReadingInv, Spared, Ours
<1> QED
  BY <1>7, <1>8, <1>9, <1>10, <1>12 DEF AllInv, TypesInv

\* A step within a share, after which there are no readings and polls but those before it.
LEMMA ReadingInvRemains ==
  ASSUME ReadingInv, UNCHANGED <<phase, shares, madeFor, readings, stats>>,
         Spared({"stop during poll"})' => Spared({"stop during poll"}),
         \A j \in Slots : Polling(j)' => Polling(j) /\ polls'[j] = polls[j]
  PROVE  ReadingInv'
<1>1. \A c \in stats' : Ours(c)
  BY DEF ReadingInv
<1>2. \A j \in Slots : Polling(j)' => \A w \in polls'[j].awaited : polls'[j].of[w] # 0
  BY DEF ReadingInv
<1>3. Spared({"stop during poll"})' =>
        /\ \A w \in Viewers : readings[w] # 0 => Ours(readings[w])
        /\ \A j \in Slots : Polling(j)' =>
             phase = "sharing" /\ \A w \in Viewers : polls'[j].of[w] # 0 => Ours(polls'[j].of[w])
  BY DEF ReadingInv
<1> QED
  BY <1>1, <1>2, <1>3 DEF ReadingInv, Ours

LEMMA PollHangsKeeps ==
  ASSUME AllInv, NEW k \in Slots, NEW v \in Viewers, PollHangs(k, v)
  PROVE  AllInv'
<1>1. /\ polls' = [polls EXCEPT ![k] = NoPoll]
      /\ UNCHANGED <<shareVars, readings, stats, presetVars, encoderVars, happened>>
  BY DEF PollHangs
<1>2. ReadingTypes
  BY DEF AllInv, TypesInv
<1>3. ShareTypes' /\ PresetTypes' /\ Made' = Made /\ happened' = happened
  BY <1>1, SharesUntouched, PresetsUntouched DEF AllInv, TypesInv, shareVars, Made
<1>4. ReadingTypes'
  BY <1>1, <1>2, NothingThere DEF ReadingTypes
<1>5. ShareInv'
  BY <1>1 DEF AllInv, ShareInv, Ours, shareVars, presetVars
<1>6. PresetInv'
  BY <1>1 DEF AllInv, PresetInv, Spared, shareVars, presetVars, encoderVars
<1>7. \A j \in Slots : Polling(j)' => Polling(j) /\ polls'[j] = polls[j]
  BY <1>1, <1>2 DEF ReadingTypes, Polling
<1>8. ReadingInv'
  BY <1>1, <1>7, ReadingInvRemains DEF AllInv, Spared, shareVars
<1> QED
  BY <1>3, <1>4, <1>5, <1>6, <1>8 DEF AllInv, TypesInv

\* What is folded into the numbers is read from the entries there are.
LEMMA PollFinishesKeeps ==
  ASSUME AllInv, NEW k \in Slots, PollFinishes(k)
  PROVE  AllInv'
<1> DEFINE sampled == {entry[v].conn : v \in {w \in Viewers : entry[w].sampled}}
<1>1. /\ Polling(k) /\ polls' = [polls EXCEPT ![k] = NoPoll] /\ readings' = polls[k].of
      /\ stats' = IF phase = "sharing" THEN sampled ELSE stats
      /\ UNCHANGED <<shareVars, presetVars, encoderVars, happened>>
  BY DEF PollFinishes, ReadingsAfter
<1>2. ReadingTypes /\ ShareTypes
  BY DEF AllInv, TypesInv
<1>3. \A c \in sampled : c \in Connections /\ Ours(c)
  <2> SUFFICES ASSUME NEW w \in Viewers, entry[w].sampled
               PROVE  entry[w].conn \in Connections /\ Ours(entry[w].conn)
    OBVIOUS
  <2>1. entry[w] # NoEntry
    BY NothingThere
  <2>2. Ours(entry[w].conn) /\ entry[w].conn # 0
    BY <2>1, EntriesAreNumbered DEF AllInv, ShareInv
  <2>3. entry[w].conn \in 0 .. MaxConnections
    BY <1>2 DEF ShareTypes, Entries
  <2> QED
    BY <2>2, <2>3, QualityAssumption DEF Connections
<1> HIDE DEF sampled
<1>4. ShareTypes' /\ PresetTypes' /\ Made' = Made /\ happened' = happened
  BY <1>1, SharesUntouched, PresetsUntouched DEF AllInv, TypesInv, shareVars, Made
<1>5. ReadingTypes'
  BY <1>1, <1>2, <1>3, NothingThere DEF ReadingTypes, Polls
<1>6. ShareInv'
  BY <1>1 DEF AllInv, ShareInv, Ours, shareVars, presetVars
<1>7. PresetInv'
  BY <1>1 DEF AllInv, PresetInv, Spared, shareVars, presetVars, encoderVars
<1>8. \A j \in Slots : Polling(j)' => Polling(j) /\ polls'[j] = polls[j]
  BY <1>1, <1>2 DEF ReadingTypes, Polling
<1>9. ReadingInv'
  <2>1. \A c \in stats' : Ours(c)
    BY <1>1, <1>3 DEF AllInv, ReadingInv
  <2>2. Spared({"stop during poll"}) => \A w \in Viewers : readings'[w] # 0 => Ours(readings'[w])
    BY <1>1 DEF AllInv, ReadingInv
  <2>3. \A j \in Slots : Polling(j)' => \A w \in polls'[j].awaited : polls'[j].of[w] # 0
    BY <1>8 DEF AllInv, ReadingInv
  <2>4. Spared({"stop during poll"}) =>
          \A j \in Slots : Polling(j)' =>
            phase = "sharing" /\ \A w \in Viewers : polls'[j].of[w] # 0 => Ours(polls'[j].of[w])
    BY <1>8 DEF AllInv, ReadingInv
  <2> QED
    BY <1>1, <2>1, <2>2, <2>3, <2>4 DEF ReadingInv, Ours, Spared, shareVars
<1> QED
  BY <1>4, <1>5, <1>6, <1>7, <1>9 DEF AllInv, TypesInv
-----------------------------------------------------------------------------
(***************************************************************************)
(* A change of the preset, in whatever phase the share is.                 *)
(***************************************************************************)
LEMMA SetPresetKeeps == ASSUME AllInv, NEW p \in Presets, SetPreset(p) PROVE AllInv'
<1>1. /\ preset' = p /\ stored' \in {p, stored}
      /\ UNCHANGED <<phase, shares, madeFor, readingVars>>
  BY DEF SetPreset
<1>2. ShareTypes /\ PresetTypes /\ p \in Setting /\ p # None
  BY QualityAssumption DEF AllInv, TypesInv, Setting
<1>3. CASE profile = None
  <2>1. UNCHANGED <<profile, entry, encoderVars, happened>>
    BY <1>3 DEF SetPreset
  <2>2. phase = "idle" /\ \A v \in Viewers : entry[v] = NoEntry
    BY <1>3 DEF AllInv, ShareInv, Ours
  <2>3. ShareTypes' /\ ReadingTypes' /\ Made' = Made /\ happened' = happened
    BY <1>1, <2>1, SharesUntouched, ReadingsUntouched DEF AllInv, TypesInv, shareVars, Made
  <2>4. PresetTypes'
    BY <1>1, <1>2, <2>1 DEF PresetTypes, encoderVars
  <2>5. ShareInv' /\ PresetInv'
    BY <1>1, <1>3, <2>1, <2>2 DEF AllInv, ShareInv, PresetInv, Spared, encoderVars
  <2>6. ReadingInv'
    BY <1>1, <2>1 DEF AllInv, ReadingInv, Ours, Polling, Spared, readingVars
  <2> QED
    BY <2>3, <2>4, <2>5, <2>6 DEF AllInv, TypesInv
<1>4. CASE profile # None
  <2>1. profile' = p /\ wanted' = wanted
    BY <1>4 DEF SetPreset
  <2>2. PICK refusing \in SUBSET Connected, resized \in BOOLEAN :
          /\ SetEncoding(p, refusing) /\ Retrack(p, resized)
          /\ Befalls(OnlyIf(phase = "picking", "preset in picker")
                     \union OnlyIf(refusing # {}, "ceiling refused")
                     \union OnlyIf(~resized, "size refused"))
    BY <1>4 DEF SetPreset
  <2>3. /\ Spared({"ceiling refused"})' => refusing = {}
        /\ Spared({"preset in picker"})' => phase # "picking"
        /\ Spared({"size refused"})' => resized = TRUE
    BY <2>2 DEF Befalls, OnlyIf, Spared
  <2>4. happened \subseteq happened' /\ happened' \subseteq MishapKinds
    BY <2>2 DEF Befalls, AllInv, TypesInv
  <2>5. \A ms : Spared(ms)' => Spared(ms)
    BY <2>4 DEF Spared
  <2>6. /\ entry' = Reaimed(p, refusing)
        /\ encoding' = IF phase = "sharing" THEN p ELSE encoding
    BY <2>2 DEF SetEncoding
  <2>7. \A v \in Viewers :
          /\ entry'[v] # NoEntry => entry[v] # NoEntry
          /\ entry'[v].conn = entry[v].conn
          /\ refusing = {} /\ entry[v] # NoEntry => entry'[v].ceiling = p
    BY <1>2, <2>6 DEF Reaimed, Connected, ShareTypes, Entries
  <2>8. entry' \in [Viewers -> Entries]
    BY <1>2, <2>6 DEF Reaimed, ShareTypes, Entries
  <2>9. ShareTypes' /\ ReadingTypes' /\ Made' = Made
    BY <1>1, <1>2, <2>8, ReadingsUntouched DEF AllInv, TypesInv, ShareTypes, Made
  <2>10. PresetTypes'
    BY <1>1, <1>2, <2>1, <2>2, <2>6 DEF PresetTypes, Retrack
  <2>11. ShareInv'
    BY <1>1, <1>2, <2>1, <2>7 DEF AllInv, ShareInv, Ours, NoEntry
  <2>12. PresetInv'
    <3>1. profile' \in {None, preset'} /\ (phase' = "sharing" => encoding' = profile')
      BY <1>1, <2>1, <2>6
    <3>2. Spared({"ceiling refused"})' =>
            \A v \in Viewers : entry'[v] # NoEntry => entry'[v].ceiling = preset'
      BY <1>1, <2>3, <2>7
    <3>3. phase' \in {"idle", "picking"} => track' = NoTrack
      BY <1>1, <2>2 DEF AllInv, PresetInv, Retrack
    <3>4. phase' = "picking" /\ Spared({"preset in picker"})' => wanted' = preset'
      BY <1>1, <2>3
    <3>5. phase' \in {"asking", "sharing"} /\ Spared({"preset in picker"})' =>
            track'.hint = preset' /\ (Spared({"size refused"})' => track'.size = preset')
      BY <1>1, <2>2, <2>3 DEF Retrack
    <3> QED
      BY <3>1, <3>2, <3>3, <3>4, <3>5 DEF PresetInv, NoEntry, NoTrack
  <2>13. ReadingInv'
    BY <1>1, <2>5, ReadingInvRemains DEF AllInv, Polling, readingVars
  <2> QED
    BY <2>4, <2>9, <2>10, <2>11, <2>12, <2>13 DEF AllInv, TypesInv
<1> QED
  BY <1>3, <1>4
-----------------------------------------------------------------------------
LEMMA QualityStep == AllInv /\ [SQNext]_qualityVars => AllInv'
<1> SUFFICES ASSUME AllInv, [SQNext]_qualityVars PROVE AllInv'
  OBVIOUS
<1>1. CASE UNCHANGED qualityVars
  <2>1. UNCHANGED <<shareVars, readingVars, presetVars, encoderVars, happened>>
    BY <1>1 DEF qualityVars
  <2>2. ShareTypes' /\ ReadingTypes' /\ PresetTypes' /\ Made' = Made
    BY <2>1, SharesUntouched, ReadingsUntouched, PresetsUntouched DEF AllInv, TypesInv, shareVars, Made
  <2>3. ShareInv' /\ PresetInv'
    BY <2>1 DEF AllInv, ShareInv, PresetInv, Ours, Spared, shareVars, presetVars, encoderVars
  <2>4. ReadingInv'
    BY <2>1 DEF AllInv, ReadingInv, Ours, Polling, Spared, shareVars, readingVars
  <2> QED
    BY <2>1, <2>2, <2>3, <2>4 DEF AllInv, TypesInv
<1>2. ASSUME NEW k \in Slots, PollGoesOn(k) PROVE AllInv'
  BY <1>2, PollFinishesKeeps, PollReadsKeeps, PollHangsKeeps DEF PollGoesOn
<1>3. CASE SQNext
  BY <1>2, <1>3, MakeManagerKeeps, StartKeeps, PickerFailsKeeps, CaptureStartsKeeps, RoomCreatedKeeps,
     StopKeeps, RestartKeeps, ViewerJoinsKeeps, ViewerLeavesKeeps, ConnectionFailsKeeps,
     PollStartsKeeps, SetPresetKeeps DEF SQNext
<1> QED
  BY <1>1, <1>3

LEMMA AllInvHolds == SQSpec => []AllInv
BY QualityInit, QualityStep, PTL DEF SQSpec

(***************************************************************************)
(* The entries, polls, readings and presets keep their types.              *)
(***************************************************************************)
THEOREM SQTypeCorrect == SQSpec => []SQTypeOK
<1>1. AllInv => SQTypeOK
  BY TypesMean DEF AllInv
<1> QED
  BY <1>1, AllInvHolds, PTL

(***************************************************************************)
(* However many polls overlap and however long they take, the numbers on   *)
(* the screen are the present share's, and so are the verdicts unless the  *)
(* share was stopped while it was polled (pollQuality, #cleanup).          *)
(***************************************************************************)
THEOREM ReadingsAreOfThisShare == SQSpec => []ReadingsOfThisShare
<1>1. AllInv => ReadingsOfThisShare
  BY DEF AllInv, ReadingInv, ReadingsOfThisShare, OfThisShare, Ours
<1> QED
  BY <1>1, AllInvHolds, PTL

(***************************************************************************)
(* The preset that is shown is the one in force, on every sender and on    *)
(* the capture, whenever it was changed, unless the browser refuses it or  *)
(* the picker was open (setQuality, setEncoding, room-created).            *)
(***************************************************************************)
THEOREM PresetIsInForce == SQSpec => []PresetReachesTheShare
<1>1. AllInv => PresetReachesTheShare
  <2> SUFFICES ASSUME AllInv PROVE PresetReachesTheShare
    OBVIOUS
  <2>1. track # NoTrack => phase \in {"asking", "sharing"}
    BY DEF AllInv, TypesInv, ShareTypes, PresetInv, Phases
  <2> QED
    BY <2>1 DEF AllInv, PresetInv, PresetReachesTheShare, Connected
<1> QED
  BY <1>1, AllInvHolds, PTL
=============================================================================
