--------------------------- MODULE DesktopProofs ----------------------------
(***************************************************************************)
(* Theorems about two parts of the desktop that stand alone: the panel     *)
(* with the tray, and the signaling client.                                *)
(***************************************************************************)
EXTENDS TrayPanel, SignalingClient, SequenceTheorems, TLAPS

(***************************************************************************)
(* The panel and the tray, for any number of starts, any length of the     *)
(* queue of commands, and whatever mishaps come together.  First the       *)
(* commands, by what they do to the shell when they run.                   *)
(***************************************************************************)
Pickers == {PickerMode(k, on) : k \in Calls, on \in BOOLEAN}
Hiders == Pickers \union {AutoHide(on) : on \in BOOLEAN}
Trays == {TrayStatus(s) : s \in {"idle", "sharing", "watching", "error"}}
Troubles == Pickers \union {AutoHide(TRUE)}
Commands == Hiders \union Trays \union {HidePanel}

\* What such a command leaves in AutoHide.
Hides(c) == IF c.cmd = "auto-hide" THEN c.arg ELSE ~c.arg

(***************************************************************************)
(* The shell as it will be once the queue q has been run is decided by the *)
(* last command of the kind that matters, or is as it is if there is none. *)
(***************************************************************************)
LastOf(q, S, c) ==
  /\ c \in S
  /\ \E i \in 1 .. Len(q) : q[i] = c /\ \A j \in 1 .. Len(q) : j > i => q[j] \notin S
Free(q, S) == \A i \in 1 .. Len(q) : q[i] \notin S

NoneOpening == \A k \in Calls : ~Opening(k)
PanelTyped ==
  /\ screen \in {"home", "share", "watch", "quality", "diagnostics"}
  /\ sharing \in {"idle", "starting", "sharing", "error"}
  /\ watching \in {"away", "lobby"} \union Live
  /\ screen = "watch" <=> watching # "away"
  /\ call \in [Calls -> {"none", "entering", "picking", "leaving", "done"}]
  /\ invoked \in Seq(Commands)
  /\ autoHide \in BOOLEAN
  /\ saved \in {"none", "panel", "picker"} /\ size \in {"panel", "picker"}
  /\ panel \in {"shown", "hidden", "vanished"}
  /\ tray \in {"idle", "sharing", "watching", "error"}

(***************************************************************************)
(* The window goes back once no start() has its picker before it: then the *)
(* last command that resizes it shrinks it.                                *)
(***************************************************************************)
Shrinks(q, was) ==
  \/ \E c \in Pickers : LastOf(q, Pickers, c) /\ c.arg = FALSE
  \/ Free(q, Pickers) /\ was = "none"
GeometryKnown == Spared({"geometry unknown"})
GeometryInv ==
  /\ saved # "none" => size = "picker"
  /\ GeometryKnown => (size = "picker" => saved # "none") /\ saved # "picker"
  /\ NoneOpening => Shrinks(invoked, saved)

(***************************************************************************)
(* One start() at a time: while it has its picker before it, the window    *)
(* has room, or is shrunk and then grown for it, and no command of the     *)
(* kind S comes after that.                                                *)
(***************************************************************************)
OneAtATime == Spared({"second start"})
Enters(k, S) ==
  \E p, s \in Seq(Commands) :
    /\ invoked = p \o (<<PickerMode(k, TRUE)>> \o s)
    /\ Shrinks(p, saved) /\ Free(s, S)
HasRoom(k) ==
  \/ call[k] = "entering" /\ Enters(k, Pickers)
  \/ Free(invoked, Pickers) /\ size = "picker"
RoomInv ==
  OneAtATime => /\ \A j, k \in Calls : Opening(j) /\ Opening(k) => j = k
                /\ \A k \in Calls : Opening(k) => HasRoom(k)

\* Nor can it vanish, if nothing else unpins it meanwhile.
Undisturbed == Spared({"start from watch", "watch during start", "stop in picker"})
Stays(k) ==
  \/ call[k] = "entering" /\ Enters(k, Troubles)
  \/ Free(invoked, Troubles) /\ autoHide = FALSE /\ panel # "vanished"
StayInv ==
  OneAtATime /\ Undisturbed =>
    \A k \in Calls : Opening(k) => screen # "watch" /\ Stays(k)

(***************************************************************************)
(* The last command that pins the panel, or does not, knows whether there  *)
(* is a picture in it, and the last one for the tray whether there is a    *)
(* share.                                                                  *)
(***************************************************************************)
Apart == Spared({"watch during start"})
ApartInv == Apart => \A k \in Calls : InFlight(k) => screen # "watch"

Pinnable == Spared({"watch during start", "stop while watching"})
PinInv ==
  Pinnable /\ NoneOpening =>
    \/ \E c \in Hiders : LastOf(invoked, Hiders, c) /\ (Hides(c) = TRUE <=> watching \notin Live)
    \/ Free(invoked, Hiders) /\ (autoHide = TRUE <=> watching \notin Live)

Tellable == Spared({"watch during start", "watch while sharing"})
TellInv ==
  Tellable =>
    /\ screen = "watch" => sharing # "sharing"
    /\ \/ \E c \in Trays : LastOf(invoked, Trays, c) /\ (c.arg = "sharing" <=> sharing = "sharing")
       \/ Free(invoked, Trays) /\ (tray = "sharing" <=> sharing = "sharing")

PanelInv == PanelTyped /\ GeometryInv /\ RoomInv /\ StayInv /\ ApartInv /\ PinInv /\ TellInv
-----------------------------------------------------------------------------
(***************************************************************************)
(* Queues.                                                                 *)
(***************************************************************************)
LEMMA Concatenated ==
  ASSUME NEW q \in Seq(Commands), NEW xs \in Seq(Commands), NEW S
  PROVE  /\ q \o xs \in Seq(Commands)
         /\ Free(q \o xs, S) <=> Free(q, S) /\ Free(xs, S)
         /\ \A c : LastOf(q \o xs, S, c) <=> LastOf(xs, S, c) \/ (Free(xs, S) /\ LastOf(q, S, c))
<1> DEFINE r == q \o xs
<1>1. /\ r \in Seq(Commands) /\ Len(r) = Len(q) + Len(xs)
      /\ Len(q) \in Nat /\ Len(xs) \in Nat
      /\ \A i \in 1 .. Len(q) : r[i] = q[i]
      /\ \A i \in 1 .. Len(xs) : r[Len(q) + i] = xs[i]
  OBVIOUS
<1> HIDE DEF r
<1>2. /\ \A i \in 1 .. Len(q) : i \in 1 .. Len(r)
      /\ \A i \in 1 .. Len(xs) : Len(q) + i \in 1 .. Len(r)
      /\ \A i \in 1 .. Len(r) : i \in 1 .. Len(q) \/ (i - Len(q) \in 1 .. Len(xs) /\ i = Len(q) + (i - Len(q)))
  BY <1>1
<1>3. Free(r, S) <=> Free(q, S) /\ Free(xs, S)
  <2>1. ASSUME Free(r, S) PROVE Free(q, S) /\ Free(xs, S)
    BY <1>1, <1>2, <2>1 DEF Free
  <2>2. ASSUME Free(q, S), Free(xs, S) PROVE Free(r, S)
    <3> SUFFICES ASSUME NEW i \in 1 .. Len(r) PROVE r[i] \notin S
      BY DEF Free
    <3>1. CASE i \in 1 .. Len(q)
      BY <1>1, <2>2, <3>1 DEF Free
    <3>2. CASE i - Len(q) \in 1 .. Len(xs) /\ i = Len(q) + (i - Len(q))
      <4>1. r[i] = xs[i - Len(q)]
        BY <1>1, <3>2
      <4> QED
        BY <2>2, <3>2, <4>1 DEF Free
    <3> QED
      BY <1>2, <3>1, <3>2
  <2> QED
    BY <2>1, <2>2
<1>4. ASSUME NEW c
      PROVE  LastOf(r, S, c) <=> LastOf(xs, S, c) \/ (Free(xs, S) /\ LastOf(q, S, c))
  <2>1. ASSUME LastOf(xs, S, c) PROVE LastOf(r, S, c)
    <3>1. PICK i \in 1 .. Len(xs) : xs[i] = c /\ \A j \in 1 .. Len(xs) : j > i => xs[j] \notin S
      BY <2>1 DEF LastOf
    <3>2. Len(q) + i \in 1 .. Len(r) /\ r[Len(q) + i] = c
      BY <1>1, <1>2, <3>1
    <3>3. ASSUME NEW j \in 1 .. Len(r), j > Len(q) + i PROVE r[j] \notin S
      <4>1. j - Len(q) \in 1 .. Len(xs) /\ j - Len(q) > i /\ r[j] = xs[j - Len(q)]
        BY <1>1, <1>2, <3>3
      <4> QED
        BY <3>1, <4>1
    <3> QED
      BY <2>1, <3>2, <3>3 DEF LastOf
  <2>2. ASSUME Free(xs, S), LastOf(q, S, c) PROVE LastOf(r, S, c)
    <3>1. PICK i \in 1 .. Len(q) : q[i] = c /\ \A j \in 1 .. Len(q) : j > i => q[j] \notin S
      BY <2>2 DEF LastOf
    <3>2. i \in 1 .. Len(r) /\ r[i] = c
      BY <1>1, <1>2, <3>1
    <3>3. ASSUME NEW j \in 1 .. Len(r), j > i PROVE r[j] \notin S
      <4>1. CASE j \in 1 .. Len(q)
        BY <1>1, <3>1, <3>3, <4>1
      <4>2. CASE j - Len(q) \in 1 .. Len(xs) /\ j = Len(q) + (j - Len(q))
        <5>1. r[j] = xs[j - Len(q)]
          BY <1>1, <4>2
        <5> QED
          BY <2>2, <4>2, <5>1 DEF Free
      <4> QED
        BY <1>2, <4>1, <4>2
    <3> QED
      BY <2>2, <3>2, <3>3 DEF LastOf
  <2>3. ASSUME LastOf(r, S, c), ~LastOf(xs, S, c) PROVE Free(xs, S) /\ LastOf(q, S, c)
    <3>1. PICK i \in 1 .. Len(r) : r[i] = c /\ \A j \in 1 .. Len(r) : j > i => r[j] \notin S
      BY <2>3 DEF LastOf
    <3>c. c \in S
      BY <2>3 DEF LastOf
    <3>2. i \in 1 .. Len(q)
      <4> SUFFICES ASSUME i - Len(q) \in 1 .. Len(xs), i = Len(q) + (i - Len(q)) PROVE FALSE
        BY <1>2
      <4> DEFINE k == i - Len(q)
      <4>1. k \in 1 .. Len(xs) /\ xs[k] = c
        BY <1>1, <3>1
      <4>2. ASSUME NEW j \in 1 .. Len(xs), j > k PROVE xs[j] \notin S
        BY <1>1, <1>2, <3>1, <4>2
      <4> QED
        BY <2>3, <3>c, <4>1, <4>2 DEF LastOf
    <3>3. ASSUME NEW j \in 1 .. Len(xs) PROVE xs[j] \notin S
      BY <1>1, <1>2, <3>1, <3>2
    <3>4. \A j \in 1 .. Len(q) : j > i => q[j] \notin S
      BY <1>1, <1>2, <3>1
    <3>5. q[i] = c
      BY <1>1, <3>1, <3>2
    <3> QED
      BY <3>c, <3>2, <3>3, <3>4, <3>5 DEF Free, LastOf
  <2> QED
    BY <2>1, <2>2, <2>3
<1> QED
  BY <1>1, <1>3, <1>4 DEF r

LEMMA ShortQueues ==
  ASSUME NEW S
  PROVE  /\ Free(<<>>, S) /\ \A c : ~LastOf(<<>>, S, c)
         /\ \A x : /\ Free(<<x>>, S) <=> x \notin S
                   /\ \A c : LastOf(<<x>>, S, c) <=> c = x /\ x \in S
<1>1. Free(<<>>, S) /\ \A c : ~LastOf(<<>>, S, c)
  BY DEF Free, LastOf
<1>2. ASSUME NEW x
      PROVE  /\ Free(<<x>>, S) <=> x \notin S
             /\ \A c : LastOf(<<x>>, S, c) <=> c = x /\ x \in S
  <2>1. Len(<<x>>) = 1 /\ <<x>>[1] = x /\ 1 .. 1 = {1}
    OBVIOUS
  <2> QED
    BY <2>1 DEF Free, LastOf
<1> QED
  BY <1>1, <1>2

LEMMA Ran ==
  ASSUME NEW q \in Seq(Commands), q # <<>>, NEW S
  PROVE  /\ Head(q) \in Commands /\ Tail(q) \in Seq(Commands) /\ q = <<Head(q)>> \o Tail(q)
         /\ Free(q, S) <=> Head(q) \notin S /\ Free(Tail(q), S)
         /\ \A c : LastOf(q, S, c) <=>
              LastOf(Tail(q), S, c) \/ (Free(Tail(q), S) /\ c = Head(q) /\ c \in S)
<1> DEFINE h == Head(q) t == Tail(q)
<1>1. h \in Commands /\ t \in Seq(Commands) /\ q = <<h>> \o t /\ <<h>> \in Seq(Commands)
  OBVIOUS
<1> HIDE DEF h, t
<1>2. /\ Free(<<h>> \o t, S) <=> Free(<<h>>, S) /\ Free(t, S)
      /\ \A c : LastOf(<<h>> \o t, S, c) <=> LastOf(t, S, c) \/ (Free(t, S) /\ LastOf(<<h>>, S, c))
  BY <1>1, Concatenated
<1>3. /\ Free(<<h>>, S) <=> h \notin S
      /\ \A c : LastOf(<<h>>, S, c) <=> c = h /\ h \in S
  BY ShortQueues
<1>4. /\ Free(q, S) <=> h \notin S /\ Free(t, S)
      /\ \A c : LastOf(q, S, c) <=> LastOf(t, S, c) \/ (Free(t, S) /\ c = h /\ c \in S)
  BY <1>1, <1>2, <1>3
<1> QED
  BY <1>1, <1>4 DEF h, t

LEMMA LastIsNotFree == \A q, S, c : LastOf(q, S, c) => ~Free(q, S)
BY DEF LastOf, Free

\* Which command is of which kind.
LEMMA Kinds ==
  /\ \A k \in Calls, on \in BOOLEAN :
       /\ PickerMode(k, on) \in Pickers /\ PickerMode(k, on) \in Hiders /\ PickerMode(k, on) \in Troubles
       /\ PickerMode(k, on) \in Commands /\ PickerMode(k, on) \notin Trays
       /\ PickerMode(k, on).arg = on /\ PickerMode(k, on).of = k
  /\ \A on \in BOOLEAN :
       /\ AutoHide(on) \in Hiders /\ AutoHide(on) \in Commands
       /\ AutoHide(on) \notin Pickers /\ AutoHide(on) \notin Trays
  /\ AutoHide(TRUE) \in Troubles /\ AutoHide(FALSE) \notin Troubles
  /\ \A s \in {"idle", "sharing", "watching", "error"} :
       /\ TrayStatus(s) \in Trays /\ TrayStatus(s) \in Commands
       /\ TrayStatus(s) \notin Hiders /\ TrayStatus(s) \notin Pickers /\ TrayStatus(s) \notin Troubles
       /\ TrayStatus(s).arg = s
  /\ HidePanel \in Commands /\ HidePanel \notin Hiders /\ HidePanel \notin Pickers
  /\ HidePanel \notin Troubles /\ HidePanel \notin Trays
  /\ Pickers \subseteq Hiders /\ Pickers \subseteq Troubles /\ Troubles \subseteq Hiders
<1>1. ASSUME NEW k, NEW on
      PROVE  /\ PickerMode(k, on).cmd = "picker-mode" /\ PickerMode(k, on).arg = on /\ PickerMode(k, on).of = k
             /\ AutoHide(on).cmd = "auto-hide" /\ AutoHide(on).arg = on
             /\ TrayStatus(on).cmd = "tray" /\ TrayStatus(on).arg = on
             /\ HidePanel.cmd = "hide"
  BY DEF PickerMode, AutoHide, TrayStatus, HidePanel
<1>2. /\ \A c \in Pickers : c.cmd = "picker-mode"
      /\ \A c \in Trays : c.cmd = "tray"
      /\ \A on : AutoHide(on).cmd = "auto-hide"
      /\ HidePanel.cmd = "hide"
  BY <1>1 DEF Pickers, Trays
<1>3. AutoHide(TRUE) # AutoHide(FALSE)
  BY SMT DEF AutoHide
<1>4. /\ \A c \in Hiders : c.cmd \in {"picker-mode", "auto-hide"}
      /\ \A c \in Troubles : c.cmd \in {"picker-mode", "auto-hide"}
  BY <1>2 DEF Hiders, Troubles
<1>5. Pickers \subseteq Hiders /\ Pickers \subseteq Troubles /\ Troubles \subseteq Hiders /\ Hiders \subseteq Commands
  BY DEF Hiders, Troubles, Commands
<1>6. \A k \in Calls, on \in BOOLEAN : PickerMode(k, on) \in Pickers
  BY DEF Pickers
<1>7. /\ \A on \in BOOLEAN : AutoHide(on) \in Hiders
      /\ AutoHide(TRUE) \in Troubles
      /\ \A s \in {"idle", "sharing", "watching", "error"} : TrayStatus(s) \in Trays
      /\ Trays \subseteq Commands /\ HidePanel \in Commands
  BY DEF Hiders, Troubles, Trays, Commands
<1>8. AutoHide(FALSE) \notin Troubles
  BY <1>2, <1>3 DEF Troubles
<1>9. \A k \in Calls, on \in BOOLEAN :
        /\ PickerMode(k, on) \in Pickers /\ PickerMode(k, on) \in Hiders /\ PickerMode(k, on) \in Troubles
        /\ PickerMode(k, on) \in Commands /\ PickerMode(k, on) \notin Trays
  BY <1>2, <1>5, <1>6
<1>10. \A k \in Calls, on \in BOOLEAN : PickerMode(k, on).arg = on /\ PickerMode(k, on).of = k
  BY SMT DEF PickerMode
<1>11. \A on \in BOOLEAN :
         /\ AutoHide(on) \in Hiders /\ AutoHide(on) \in Commands
         /\ AutoHide(on) \notin Pickers /\ AutoHide(on) \notin Trays
  BY <1>2, <1>5, <1>7
<1>12. \A s \in {"idle", "sharing", "watching", "error"} :
         /\ TrayStatus(s) \in Trays /\ TrayStatus(s) \in Commands
         /\ TrayStatus(s) \notin Hiders /\ TrayStatus(s) \notin Pickers /\ TrayStatus(s) \notin Troubles
         /\ TrayStatus(s).arg = s
  BY <1>1, <1>2, <1>4, <1>7
<1>13. /\ HidePanel \in Commands /\ HidePanel \notin Hiders /\ HidePanel \notin Pickers
       /\ HidePanel \notin Troubles /\ HidePanel \notin Trays
  BY <1>2, <1>4, <1>7
<1> QED
  BY <1>5, <1>7, <1>8, <1>9, <1>10, <1>11, <1>12, <1>13

LEMMA HidesIs ==
  /\ \A k \in Calls : Hides(PickerMode(k, TRUE)) = FALSE /\ Hides(PickerMode(k, FALSE)) = TRUE
  /\ \A on \in BOOLEAN : Hides(AutoHide(on)) = on
BY DEF Hides, PickerMode, AutoHide
-----------------------------------------------------------------------------
(***************************************************************************)
(* Mishaps: what they are recorded for.                                    *)
(***************************************************************************)
LEMMA Befallen ==
  ASSUME NEW ms, NEW m, NEW spared, Befalls(ms), m \in ms, Spared(spared)'
  PROVE  m \notin spared
BY Zenon DEF Befalls, Spared

LEMMA MishapsStay == TPNext => happened \subseteq happened'
<1>1. ASSUME NEW ms, Befalls(ms) PROVE happened \subseteq happened'
  BY <1>1, Zenon DEF Befalls
<1>2. ASSUME SetPickerMode(TRUE) \/ SetPickerMode(FALSE) PROVE happened \subseteq happened'
  BY <1>1, <1>2, Zenon DEF SetPickerMode, EnterPickerMode, LeavePickerMode
<1> SUFFICES ASSUME TPNext PROVE happened \subseteq happened'
  OBVIOUS
<1> QED
  BY <1>1, <1>2, Zenon DEF TPNext, GoTo, EscapeFromHome, Stop, ShareScreen, PickerOpens, StartReturns,
     PickerCloses, ShareChanges, WatchChanges, RunCommand, FocusLost, UserShowsOrHides, SetPickerMode,
     EnterPickerMode, LeavePickerMode

LEMMA SparedBefore ==
  ASSUME happened \subseteq happened', NEW ms, Spared(ms)'
  PROVE  Spared(ms)
BY Zenon DEF Spared

LEMMA SparedFewer ==
  /\ Undisturbed => Apart
  /\ Pinnable => Apart
  /\ Tellable => Apart
BY Zenon DEF Undisturbed, Pinnable, Tellable, Apart, Spared
-----------------------------------------------------------------------------
(***************************************************************************)
(* The steps: what they put in the queue, and what they record.            *)
(***************************************************************************)
LEMMA GoToIs ==
  ASSUME NEW s, GoTo(s)
  PROVE  /\ s # screen /\ screen' = s
         /\ watching' = IF s = "watch" THEN "lobby" ELSE "away"
         /\ invoked' = (invoked \o WatchCleanup) \o (IF s = "watch" THEN WatchEffect("lobby") ELSE <<>>)
         /\ UNCHANGED <<sharing, call, shellVars>>
         /\ s = "watch" /\ Apart' => \A k \in Calls : ~InFlight(k)
         /\ s = "watch" /\ Tellable' => sharing # "sharing"
<1>1. /\ s # screen /\ screen' = s
      /\ watching' = IF s = "watch" THEN "lobby" ELSE "away"
      /\ invoked' = (invoked \o WatchCleanup) \o (IF s = "watch" THEN WatchEffect("lobby") ELSE <<>>)
      /\ UNCHANGED <<sharing, call, shellVars>>
  BY Zenon DEF GoTo
<1>2. ASSUME s = "watch", Apart', NEW k \in Calls, InFlight(k) PROVE FALSE
  <2>1. PICK ms : Befalls(ms) /\ "watch during start" \in ms
    <3> DEFINE ms == OnlyIf(s = "watch" /\ \E j \in Calls : InFlight(j), "watch during start")
                     \union OnlyIf(s = "watch" /\ sharing = "sharing", "watch while sharing")
    <3>1. Befalls(ms)
      BY Zenon DEF GoTo
    <3>2. s = "watch" /\ \E j \in Calls : InFlight(j)
      BY <1>2, Zenon
    <3>3. "watch during start" \in ms
      BY <3>2, Zenon DEF OnlyIf
    <3> QED
      BY <3>1, <3>3, Zenon
  <2> QED
    BY <1>2, <2>1, Befallen, Zenon DEF Apart
<1>3. ASSUME s = "watch", Tellable', sharing = "sharing" PROVE FALSE
  <2>1. PICK ms : Befalls(ms) /\ "watch while sharing" \in ms
    <3> DEFINE ms == OnlyIf(s = "watch" /\ \E j \in Calls : InFlight(j), "watch during start")
                     \union OnlyIf(s = "watch" /\ sharing = "sharing", "watch while sharing")
    <3>1. Befalls(ms)
      BY Zenon DEF GoTo
    <3>2. "watch while sharing" \in ms
      BY <1>3, Zenon DEF OnlyIf
    <3> QED
      BY <3>1, <3>2, Zenon
  <2>2. "watch while sharing" \in {"watch during start", "watch while sharing"}
    BY Zenon
  <2> QED
    BY <1>3, <2>1, <2>2, Befallen, Zenon DEF Tellable
<1>4. s = "watch" /\ Apart' => \A k \in Calls : ~InFlight(k)
  BY <1>2, Zenon
<1>5. s = "watch" /\ Tellable' => sharing # "sharing"
  BY <1>3, Zenon
<1> QED
  BY <1>1, <1>4, <1>5, Zenon

LEMMA ShareScreenIs ==
  ASSUME NEW k, ShareScreen(k)
  PROVE  /\ sharing # "sharing" /\ call[k] = "none"
         /\ screen' = "share" /\ watching' = "away"
         /\ call' = [call EXCEPT ![k] = "entering"]
         /\ \/ invoked' = (invoked \o WatchCleanup) \o <<PickerMode(k, TRUE)>>
            \/ invoked' = (invoked \o <<PickerMode(k, TRUE)>>) \o WatchCleanup
         /\ UNCHANGED <<sharing, shellVars>>
         /\ OneAtATime' => NoneOpening
         /\ Undisturbed' => screen # "watch"
<1>1. /\ sharing # "sharing" /\ call[k] = "none"
      /\ screen' = "share" /\ watching' = "away"
      /\ call' = [call EXCEPT ![k] = "entering"]
      /\ \/ invoked' = (invoked \o WatchCleanup) \o <<PickerMode(k, TRUE)>>
         \/ invoked' = (invoked \o <<PickerMode(k, TRUE)>>) \o WatchCleanup
      /\ UNCHANGED <<sharing, shellVars>>
  BY Zenon DEF ShareScreen
<1>2. ASSUME OneAtATime', NEW j \in Calls, Opening(j) PROVE FALSE
  <2>1. PICK ms : Befalls(ms) /\ "second start" \in ms
    BY <1>2, Zenon DEF ShareScreen, OnlyIf
  <2> QED
    BY <1>2, <2>1, Befallen, Zenon DEF OneAtATime
<1>3. ASSUME Undisturbed', screen = "watch" PROVE FALSE
  <2>1. PICK ms : Befalls(ms) /\ "start from watch" \in ms
    BY <1>3, Zenon DEF ShareScreen, OnlyIf
  <2>2. "start from watch" \in {"start from watch", "watch during start", "stop in picker"}
    BY Zenon
  <2> QED
    BY <1>3, <2>1, <2>2, Befallen, Zenon DEF Undisturbed
<1>4. OneAtATime' => NoneOpening
  BY <1>2, Zenon DEF NoneOpening
<1>5. Undisturbed' => screen # "watch"
  BY <1>3, Zenon
<1> QED
  BY <1>1, <1>4, <1>5, Zenon

LEMMA StopIs ==
  ASSUME Stop
  PROVE  /\ panel' \in {panel, "shown"} /\ sharing' = "idle"
         /\ invoked' = (invoked \o (IF sharing = "idle" THEN <<>> ELSE SharingEffect("idle"))) \o <<AutoHide(TRUE)>>
         /\ UNCHANGED <<screen, watching, call, autoHide, saved, size, tray>>
         /\ Pinnable' => watching \notin Live
         /\ Undisturbed' => NoneOpening
<1>1. /\ panel' \in {panel, "shown"} /\ sharing' = "idle"
      /\ invoked' = (invoked \o (IF sharing = "idle" THEN <<>> ELSE SharingEffect("idle"))) \o <<AutoHide(TRUE)>>
      /\ UNCHANGED <<screen, watching, call, autoHide, saved, size, tray>>
  BY Zenon DEF Stop
<1>2. ASSUME Pinnable', watching \in Live PROVE FALSE
  <2>1. PICK ms : Befalls(ms) /\ "stop while watching" \in ms
    BY <1>2, Zenon DEF Stop, OnlyIf
  <2>2. "stop while watching" \in {"watch during start", "stop while watching"}
    BY Zenon
  <2> QED
    BY <1>2, <2>1, <2>2, Befallen, Zenon DEF Pinnable
<1>3. ASSUME Undisturbed', NEW k \in Calls, Opening(k) PROVE FALSE
  <2>1. PICK ms : Befalls(ms) /\ "stop in picker" \in ms
    BY <1>3, Zenon DEF Stop, OnlyIf
  <2>2. "stop in picker" \in {"start from watch", "watch during start", "stop in picker"}
    BY Zenon
  <2> QED
    BY <1>3, <2>1, <2>2, Befallen, Zenon DEF Undisturbed
<1>4. Pinnable' => watching \notin Live
  BY <1>2, Zenon
<1>5. Undisturbed' => NoneOpening
  BY <1>3, Zenon DEF NoneOpening
<1> QED
  BY <1>1, <1>4, <1>5, Zenon

LEMMA EnterIs ==
  ASSUME EnterPickerMode
  PROVE  IF saved # "none" THEN UNCHANGED <<saved, size, panel>>
         ELSE /\ saved' = size \/ saved' = "none"
              /\ GeometryKnown' => saved' = size
              /\ size' = "picker" /\ panel' = "shown"
<1>1. ASSUME saved = "none", saved' # size, GeometryKnown' PROVE FALSE
  BY <1>1, Befallen, Zenon DEF EnterPickerMode, GeometryKnown
<1>2. IF saved # "none" THEN UNCHANGED <<saved, size, panel>>
      ELSE /\ saved' = size \/ saved' = "none"
           /\ size' = "picker" /\ panel' = "shown"
  BY Zenon DEF EnterPickerMode
<1> QED
  BY <1>1, <1>2, Zenon

LEMMA PairIs ==
  ASSUME NEW S, NEW x \in S, NEW y \in S
  PROVE  /\ <<x, y>> = <<x>> \o <<y>>
         /\ <<x>> \in Seq(S) /\ <<y>> \in Seq(S)
<1>1. <<x>> \in Seq(S) /\ <<y>> \in Seq(S) /\ Len(<<x>>) = 1 /\ Len(<<y>>) = 1
  OBVIOUS
<1> DEFINE r == <<x>> \o <<y>>
<1>2. r \in Seq(S) /\ Len(r) = 2 /\ r[1] = x /\ r[2] = y
  BY <1>1
<1>3. <<x, y>> \in Seq(S) /\ Len(<<x, y>>) = 2 /\ <<x, y>>[1] = x /\ <<x, y>>[2] = y
  OBVIOUS
<1> HIDE DEF r
<1>4. \A i \in 1 .. 2 : i = 1 \/ i = 2
  OBVIOUS
<1>5. <<x, y>> = r
  BY <1>2, <1>3, <1>4, SeqEqual
<1> QED
  BY <1>1, <1>5 DEF r

LEMMA WatchCleanupIs ==
  /\ WatchCleanup \in Seq(Commands) /\ Free(WatchCleanup, Pickers)
  /\ IF screen = "watch"
     THEN /\ LastOf(WatchCleanup, Hiders, AutoHide(TRUE))
          /\ LastOf(WatchCleanup, Trays, TrayStatus("idle"))
     ELSE WatchCleanup = <<>>
<1>1. CASE screen = "watch"
  <2> DEFINE x == AutoHide(TRUE) y == TrayStatus("idle")
  <2>1. x \in Commands /\ y \in Commands /\ x \notin Pickers /\ y \notin Pickers
        /\ x \in Hiders /\ y \notin Hiders /\ x \notin Trays /\ y \in Trays
    BY Kinds
  <2>2. WatchCleanup = <<x, y>>
    BY <1>1 DEF WatchCleanup
  <2> HIDE DEF x, y
  <2>3. /\ WatchCleanup = <<x>> \o <<y>>
        /\ <<x>> \in Seq(Commands) /\ <<y>> \in Seq(Commands)
    BY <2>1, <2>2, PairIs
  <2>4. /\ Free(WatchCleanup, Pickers)
        /\ LastOf(WatchCleanup, Hiders, x)
        /\ LastOf(WatchCleanup, Trays, y)
        /\ WatchCleanup \in Seq(Commands)
    BY <2>1, <2>3, Concatenated, ShortQueues
  <2> QED
    BY <1>1, <2>4 DEF x, y
<1>2. CASE screen # "watch"
  BY <1>2, ShortQueues DEF WatchCleanup
<1> QED
  BY <1>1, <1>2

LEMMA WatchEffectIs ==
  ASSUME NEW st \in {"lobby"} \union Live
  PROVE  /\ WatchEffect(st) \in Seq(Commands) /\ Free(WatchEffect(st), Pickers)
         /\ LastOf(WatchEffect(st), Hiders, AutoHide(st \notin Live))
         /\ IF st = "connected" THEN LastOf(WatchEffect(st), Trays, TrayStatus("watching"))
            ELSE Free(WatchEffect(st), Trays)
<1> DEFINE x == AutoHide(st \notin Live) y == TrayStatus("watching")
           z == IF st = "connected" THEN <<y>> ELSE <<>>
<1>1. x \in Commands /\ y \in Commands /\ x \notin Pickers /\ y \notin Pickers
      /\ x \in Hiders /\ y \notin Hiders /\ x \notin Trays /\ y \in Trays
  BY Kinds
<1>2. WatchEffect(st) = <<x>> \o z
  BY DEF WatchEffect
<1> HIDE DEF x, y
<1>3. <<x>> \in Seq(Commands) /\ z \in Seq(Commands)
  BY <1>1
<1>4. /\ Free(z, Pickers) /\ Free(z, Hiders)
      /\ IF st = "connected" THEN LastOf(z, Trays, y) ELSE Free(z, Trays)
  BY <1>1, ShortQueues
<1>5. Free(<<x>>, Pickers) /\ LastOf(<<x>>, Hiders, x) /\ Free(<<x>>, Trays)
  BY <1>1, ShortQueues
<1> HIDE DEF z
<1>6. /\ WatchEffect(st) \in Seq(Commands) /\ Free(WatchEffect(st), Pickers)
      /\ LastOf(WatchEffect(st), Hiders, x)
  <2>1. /\ <<x>> \o z \in Seq(Commands)
        /\ Free(<<x>> \o z, Pickers) <=> Free(<<x>>, Pickers) /\ Free(z, Pickers)
    BY <1>3, Concatenated
  <2>2. LastOf(<<x>> \o z, Hiders, x) <=> LastOf(z, Hiders, x) \/ (Free(z, Hiders) /\ LastOf(<<x>>, Hiders, x))
    BY <1>3, Concatenated
  <2> QED
    BY <1>2, <1>4, <1>5, <2>1, <2>2
<1>7. /\ LastOf(z, Trays, y) => LastOf(WatchEffect(st), Trays, y)
      /\ Free(z, Trays) => Free(WatchEffect(st), Trays)
  BY <1>2, <1>3, <1>5, Concatenated
<1> QED
  BY <1>4, <1>6, <1>7 DEF x, y

Adds(xs) == xs \in Seq(Commands) /\ invoked' = invoked \o xs

LEMMA JoinedAdds ==
  ASSUME PanelTyped, NEW x \in Seq(Commands), NEW y \in Seq(Commands), invoked' = (invoked \o x) \o y
  PROVE  Adds(x \o y)
<1>1. (invoked \o x) \o y = invoked \o (x \o y) /\ x \o y \in Seq(Commands)
  <2>1. invoked \in Seq(Commands)
    BY DEF PanelTyped
  <2>2. (invoked \o x) \o y = invoked \o (x \o y)
    BY <2>1, ConcatAssociative
  <2> QED
    BY <2>2
<1> QED
  BY <1>1 DEF Adds

LEMMA NothingAdds == PanelTyped /\ UNCHANGED invoked => Adds(<<>>)
<1>1. ASSUME NEW q \in Seq(Commands) PROVE q = q \o <<>> /\ <<>> \in Seq(Commands)
  OBVIOUS
<1> QED
  BY <1>1 DEF PanelTyped, Adds

LEMMA GoToAdds ==
  ASSUME PanelTyped, NEW s, GoTo(s)
  PROVE  \E xs : /\ Adds(xs) /\ Free(xs, Pickers)
                 /\ IF screen = "watch" \/ s = "watch" THEN LastOf(xs, Hiders, AutoHide(TRUE)) ELSE xs = <<>>
                 /\ IF screen = "watch" THEN LastOf(xs, Trays, TrayStatus("idle")) ELSE Free(xs, Trays)
<1> DEFINE y == IF s = "watch" THEN WatchEffect("lobby") ELSE <<>>
<1>1. /\ y \in Seq(Commands) /\ Free(y, Pickers) /\ Free(y, Trays)
      /\ IF s = "watch" THEN LastOf(y, Hiders, AutoHide(TRUE)) ELSE y = <<>>
  <2>1. CASE s = "watch"
    <3>1. ("lobby" \notin Live) = TRUE /\ "lobby" # "connected" /\ "lobby" \in {"lobby"} \union Live
      BY DEF Live
    <3> QED
      BY <2>1, <3>1, WatchEffectIs
  <2>2. CASE s # "watch"
    BY <2>2, ShortQueues
  <2> QED
    BY <2>1, <2>2
<1>2. invoked' = (invoked \o WatchCleanup) \o y
  BY GoToIs
<1>3. s # screen
  BY GoToIs
<1> HIDE DEF y
<1>4. Adds(WatchCleanup \o y)
  BY <1>1, <1>2, WatchCleanupIs, JoinedAdds
<1>5. Free(WatchCleanup \o y, Pickers)
  BY <1>1, WatchCleanupIs, Concatenated
<1>6. LastOf(WatchCleanup \o y, Hiders, AutoHide(TRUE)) <=>
        LastOf(y, Hiders, AutoHide(TRUE)) \/ (Free(y, Hiders) /\ LastOf(WatchCleanup, Hiders, AutoHide(TRUE)))
  BY <1>1, WatchCleanupIs, Concatenated
<1>7. /\ Free(WatchCleanup \o y, Trays) <=> Free(WatchCleanup, Trays) /\ Free(y, Trays)
      /\ LastOf(WatchCleanup \o y, Trays, TrayStatus("idle")) <=>
           LastOf(y, Trays, TrayStatus("idle")) \/ (Free(y, Trays) /\ LastOf(WatchCleanup, Trays, TrayStatus("idle")))
  BY <1>1, WatchCleanupIs, Concatenated
<1>8. CASE screen = "watch"
  <2>1. y = <<>> /\ Free(y, Hiders) /\ Free(y, Trays)
    BY <1>1, <1>3, <1>8, ShortQueues
  <2>2. /\ LastOf(WatchCleanup, Hiders, AutoHide(TRUE))
        /\ LastOf(WatchCleanup, Trays, TrayStatus("idle"))
    BY <1>8, WatchCleanupIs
  <2>3. /\ LastOf(WatchCleanup \o y, Hiders, AutoHide(TRUE))
        /\ LastOf(WatchCleanup \o y, Trays, TrayStatus("idle"))
    BY <1>6, <1>7, <2>1, <2>2
  <2> QED
    BY <1>4, <1>5, <1>8, <2>3
<1>9. CASE screen # "watch"
  <2>1. WatchCleanup = <<>> /\ Free(WatchCleanup, Trays)
    BY <1>9, WatchCleanupIs, ShortQueues
  <2>2. s # "watch" => WatchCleanup \o y = <<>>
    BY <1>1, <2>1
  <2> QED
    BY <1>1, <1>4, <1>5, <1>6, <1>7, <1>9, <2>1, <2>2
<1> QED
  BY <1>8, <1>9

LEMMA EscapeAdds ==
  ASSUME PanelTyped, EscapeFromHome
  PROVE  \E xs : Adds(xs) /\ Free(xs, Hiders) /\ Free(xs, Trays) /\ Free(xs, Pickers)
<1>1. invoked' = invoked \o <<HidePanel>> /\ HidePanel \in Commands
  BY Kinds DEF EscapeFromHome, PanelTyped
<1> DEFINE h == HidePanel
<1> HIDE DEF h
<1>2. <<h>> \in Seq(Commands)
  BY <1>1 DEF h
<1> QED
  BY <1>1, <1>2, Kinds, ShortQueues DEF Adds, h

LEMMA SharingEffectIs ==
  ASSUME NEW st \in {"idle", "sharing", "error"}
  PROVE  /\ SharingEffect(st) \in Seq(Commands) /\ Free(SharingEffect(st), Hiders)
         /\ Free(SharingEffect(st), Pickers) /\ LastOf(SharingEffect(st), Trays, TrayStatus(st))
<1> DEFINE t == TrayStatus(st)
<1>1. SharingEffect(st) = <<t>>
  BY DEF SharingEffect
<1>2. t \in Commands /\ t \in Trays /\ t \notin Hiders /\ t \notin Pickers
  BY Kinds
<1> HIDE DEF t
<1>3. <<t>> \in Seq(Commands)
  BY <1>2
<1>4. Free(<<t>>, Hiders) /\ Free(<<t>>, Pickers)
  BY <1>2, ShortQueues
<1>5. LastOf(<<t>>, Trays, t)
  BY <1>2, ShortQueues
<1> QED
  BY <1>1, <1>3, <1>4, <1>5 DEF t

LEMMA StopAdds ==
  ASSUME PanelTyped, Stop
  PROVE  \E xs : /\ Adds(xs) /\ Free(xs, Pickers) /\ LastOf(xs, Hiders, AutoHide(TRUE))
                 /\ IF sharing = "idle" THEN Free(xs, Trays) ELSE LastOf(xs, Trays, TrayStatus("idle"))
<1> DEFINE x == IF sharing = "idle" THEN <<>> ELSE SharingEffect("idle")
           h == AutoHide(TRUE)
<1>1. /\ x \in Seq(Commands) /\ Free(x, Pickers)
      /\ IF sharing = "idle" THEN Free(x, Trays) ELSE LastOf(x, Trays, TrayStatus("idle"))
  BY SharingEffectIs, ShortQueues
<1>2. invoked' = (invoked \o x) \o <<h>>
  BY StopIs
<1>3. h \in Commands /\ h \in Hiders /\ h \notin Pickers /\ h \notin Trays
  BY Kinds
<1> HIDE DEF x, h
<1>4. <<h>> \in Seq(Commands)
  BY <1>3
<1>5. Adds(x \o <<h>>)
  BY <1>1, <1>2, <1>4, JoinedAdds
<1>6. Free(<<h>>, Pickers) /\ LastOf(<<h>>, Hiders, h) /\ Free(<<h>>, Trays)
  BY <1>3, ShortQueues
<1>7. Free(x \o <<h>>, Pickers) /\ LastOf(x \o <<h>>, Hiders, h)
  BY <1>1, <1>4, <1>6, Concatenated
<1>8. IF sharing = "idle" THEN Free(x \o <<h>>, Trays) ELSE LastOf(x \o <<h>>, Trays, TrayStatus("idle"))
  BY <1>1, <1>4, <1>6, Concatenated
<1> QED
  BY <1>5, <1>7, <1>8 DEF h

LEMMA ShareChangesAdds ==
  ASSUME PanelTyped, NEW st \in {"idle", "sharing", "error"}, ShareChanges(st)
  PROVE  \E xs : /\ Adds(xs) /\ Free(xs, Hiders) /\ Free(xs, Pickers)
                 /\ LastOf(xs, Trays, TrayStatus(st))
BY SharingEffectIs DEF ShareChanges, Adds

LEMMA WatchChangesAdds ==
  ASSUME PanelTyped, NEW st \in {"lobby"} \union Live, WatchChanges(st)
  PROVE  \E xs : /\ Adds(xs) /\ Free(xs, Pickers) /\ LastOf(xs, Hiders, AutoHide(st \notin Live))
                 /\ \/ st = "connected" /\ LastOf(xs, Trays, TrayStatus("watching"))
                    \/ Free(xs, Trays)
<1>1. invoked' = invoked \o WatchEffect(st)
  BY DEF WatchChanges
<1> QED
  BY <1>1, WatchEffectIs DEF Adds

LEMMA PickerOpensIs ==
  ASSUME PanelTyped, NEW k \in Calls, PickerOpens(k)
  PROVE  \E xs :
           /\ Adds(xs) /\ Free(xs, Trays)
           /\ \/ /\ sharing \in {"idle", "error"} /\ sharing' = "starting"
                 /\ call' = [call EXCEPT ![k] = "picking"] /\ xs = <<>>
              \/ /\ call' = [call EXCEPT ![k] = "leaving"] /\ UNCHANGED sharing
                 /\ LastOf(xs, Pickers, PickerMode(k, FALSE)) /\ LastOf(xs, Hiders, PickerMode(k, FALSE))
<1> DEFINE c == PickerMode(k, FALSE)
<1>1. c \in Commands /\ c \in Pickers /\ c \in Hiders /\ c \notin Trays
  BY Kinds
<1>2. CASE sharing \in {"idle", "error"}
  <2>1. invoked' = invoked \o <<>>
    BY <1>2 DEF PickerOpens, SharingEffect
  <2>2. Adds(<<>>) /\ Free(<<>>, Trays)
    BY <2>1, ShortQueues DEF Adds
  <2> QED
    BY <1>2, <2>2 DEF PickerOpens
<1>3. CASE sharing \notin {"idle", "error"}
  <2>1. invoked' = Append(invoked, c)
    BY <1>3 DEF PickerOpens
  <2> HIDE DEF c
  <2>2. invoked' = invoked \o <<c>> /\ <<c>> \in Seq(Commands)
    BY <1>1, <2>1 DEF PanelTyped
  <2>3. Adds(<<c>>) /\ Free(<<c>>, Trays) /\ LastOf(<<c>>, Pickers, c) /\ LastOf(<<c>>, Hiders, c)
    BY <1>1, <2>2, ShortQueues DEF Adds
  <2> QED
    BY <1>3, <2>3 DEF PickerOpens, c
<1> QED
  BY <1>2, <1>3

LEMMA PickerClosesAdds ==
  ASSUME PanelTyped, NEW k \in Calls, NEW st \in {"idle", "sharing", "error"}, PickerCloses(k, st)
  PROVE  \E xs : /\ Adds(xs)
                 /\ LastOf(xs, Pickers, PickerMode(k, FALSE)) /\ LastOf(xs, Hiders, PickerMode(k, FALSE))
                 /\ LastOf(xs, Trays, TrayStatus(st))
<1> DEFINE x == SharingEffect(st)
           c == PickerMode(k, FALSE)
<1>1. x \in Seq(Commands) /\ LastOf(x, Trays, TrayStatus(st))
  BY SharingEffectIs
<1>2. invoked' = (invoked \o x) \o <<c>>
  BY DEF PickerCloses
<1>3. c \in Commands /\ c \in Pickers /\ c \in Hiders /\ c \notin Trays
  BY Kinds
<1> HIDE DEF x, c
<1>4. <<c>> \in Seq(Commands)
  BY <1>3
<1>5. Adds(x \o <<c>>)
  BY <1>1, <1>2, <1>4, JoinedAdds
<1>6. LastOf(<<c>>, Pickers, c) /\ LastOf(<<c>>, Hiders, c) /\ Free(<<c>>, Trays)
  BY <1>3, ShortQueues
<1>7. LastOf(x \o <<c>>, Pickers, c) /\ LastOf(x \o <<c>>, Hiders, c)
  BY <1>1, <1>4, <1>6, Concatenated
<1>8. LastOf(x \o <<c>>, Trays, TrayStatus(st))
  BY <1>1, <1>4, <1>6, Concatenated
<1> QED
  BY <1>5, <1>7, <1>8 DEF c

LEMMA ShareScreenAdds ==
  ASSUME PanelTyped, NEW k \in Calls, ShareScreen(k)
  PROVE  \E p, s \in Seq(Commands) :
           /\ Adds(p \o (<<PickerMode(k, TRUE)>> \o s))
           /\ Free(p, Pickers) /\ Free(s, Pickers)
           /\ screen # "watch" => s = <<>>
           /\ LET xs == p \o (<<PickerMode(k, TRUE)>> \o s) IN
              \/ screen # "watch" /\ Free(xs, Trays)
              \/ LastOf(xs, Trays, TrayStatus("idle"))
<1> DEFINE c == PickerMode(k, TRUE) w == WatchCleanup
<1>1. c \in Commands /\ c \notin Trays
  BY Kinds
<1>2. \/ invoked' = (invoked \o w) \o <<c>>
      \/ invoked' = (invoked \o <<c>>) \o w
  BY ShareScreenIs
<1>3. /\ w \in Seq(Commands) /\ Free(w, Pickers)
      /\ screen # "watch" => w = <<>> /\ Free(w, Trays)
      /\ screen = "watch" => LastOf(w, Trays, TrayStatus("idle"))
  BY WatchCleanupIs, ShortQueues
<1> HIDE DEF c, w
<1>c. <<c>> \in Seq(Commands) /\ <<>> \in Seq(Commands)
  BY <1>1
<1>4. <<c>> \in Seq(Commands) /\ Free(<<c>>, Trays) /\ <<>> \in Seq(Commands) /\ Free(<<>>, Pickers)
  BY <1>1, <1>c, ShortQueues
<1>5. <<c>> \o <<>> = <<c>> /\ <<>> \o (<<c>> \o w) = <<c>> \o w
  BY <1>3, <1>4
<1>6. CASE invoked' = (invoked \o w) \o <<c>>
  <2>1. Adds(w \o <<c>>)
    BY <1>3, <1>4, <1>6, JoinedAdds
  <2>2. /\ screen # "watch" => Free(w \o <<c>>, Trays)
        /\ screen = "watch" => LastOf(w \o <<c>>, Trays, TrayStatus("idle"))
    BY <1>3, <1>4, Concatenated
  <2>3. Adds(w \o (<<c>> \o <<>>))
    BY <1>5, <2>1
  <2> QED
    BY <1>3, <1>4, <1>5, <2>2, <2>3 DEF c
<1>7. CASE invoked' = (invoked \o <<c>>) \o w
  <2>1. Adds(<<c>> \o w)
    BY <1>3, <1>4, <1>7, JoinedAdds
  <2>2. /\ screen # "watch" => Free(<<c>> \o w, Trays)
        /\ screen = "watch" => LastOf(<<c>> \o w, Trays, TrayStatus("idle"))
    BY <1>3, <1>4, Concatenated
  <2>3. Adds(<<>> \o (<<c>> \o w))
    BY <1>5, <2>1
  <2> QED
    BY <1>3, <1>4, <1>5, <2>2, <2>3 DEF c
<1> QED
  BY <1>2, <1>6, <1>7

\* The main thread runs a command.
LEMMA RunIs ==
  ASSUME PanelTyped, RunCommand
  PROVE  /\ invoked # <<>> /\ invoked' = Tail(invoked) /\ UNCHANGED screenVars
         /\ LET c == Head(invoked) IN
            \/ \E k \in Calls :
                 /\ c = PickerMode(k, TRUE) /\ autoHide' = FALSE /\ UNCHANGED tray
                 /\ IF saved # "none" THEN UNCHANGED <<saved, size, panel>>
                    ELSE /\ saved' = size \/ saved' = "none"
                         /\ GeometryKnown' => saved' = size
                         /\ size' = "picker" /\ panel' = "shown"
            \/ \E k \in Calls :
                 /\ c = PickerMode(k, FALSE) /\ autoHide' = TRUE /\ UNCHANGED <<tray, panel>>
                 /\ saved' = "none" /\ size' = IF saved = "none" THEN size ELSE saved
            \/ \E on \in BOOLEAN :
                 c = AutoHide(on) /\ autoHide' = on /\ UNCHANGED <<saved, size, panel, tray>>
            \/ \E s \in {"idle", "sharing", "watching", "error"} :
                 c = TrayStatus(s) /\ tray' = s /\ UNCHANGED <<autoHide, saved, size, panel>>
            \/ c = HidePanel /\ panel' = "hidden" /\ UNCHANGED <<autoHide, saved, size, tray>>
<1> DEFINE c == Head(invoked)
<1>1. invoked # <<>> /\ invoked' = Tail(invoked) /\ UNCHANGED screenVars
  BY DEF RunCommand
<1>2. c \in Commands
  BY <1>1, Ran DEF PanelTyped
<1>3. \/ c.cmd = "picker-mode" /\ SetPickerMode(c.arg)
      \/ c.cmd = "auto-hide" /\ autoHide' = c.arg /\ UNCHANGED <<saved, size, panel, tray, happened>>
      \/ c.cmd = "tray" /\ tray' = c.arg /\ UNCHANGED <<autoHide, saved, size, panel, happened>>
      \/ c.cmd = "hide" /\ panel' = "hidden" /\ UNCHANGED <<autoHide, saved, size, tray, happened>>
  BY DEF RunCommand
<1> HIDE DEF c
<1>4. ASSUME NEW k \in Calls, c = PickerMode(k, TRUE)
      PROVE  /\ autoHide' = FALSE /\ UNCHANGED tray
             /\ IF saved # "none" THEN UNCHANGED <<saved, size, panel>>
                ELSE /\ saved' = size \/ saved' = "none"
                     /\ GeometryKnown' => saved' = size
                     /\ size' = "picker" /\ panel' = "shown"
  <2>1. SetPickerMode(TRUE)
    BY <1>3, <1>4 DEF PickerMode
  <2> QED
    BY <2>1, EnterIs DEF SetPickerMode, AutoHideAfterPicker
<1>5. ASSUME NEW k \in Calls, c = PickerMode(k, FALSE)
      PROVE  /\ autoHide' = TRUE /\ UNCHANGED <<tray, panel>>
             /\ saved' = "none" /\ size' = IF saved = "none" THEN size ELSE saved
  <2>1. SetPickerMode(FALSE)
    BY <1>3, <1>5 DEF PickerMode
  <2> QED
    BY <2>1 DEF SetPickerMode, AutoHideAfterPicker, LeavePickerMode
<1>6. ASSUME NEW on \in BOOLEAN, c = AutoHide(on)
      PROVE  autoHide' = on /\ UNCHANGED <<saved, size, panel, tray>>
  BY <1>3, <1>6 DEF AutoHide
<1>7. ASSUME NEW s \in {"idle", "sharing", "watching", "error"}, c = TrayStatus(s)
      PROVE  tray' = s /\ UNCHANGED <<autoHide, saved, size, panel>>
  BY <1>3, <1>7 DEF TrayStatus
<1>8. ASSUME c = HidePanel PROVE panel' = "hidden" /\ UNCHANGED <<autoHide, saved, size, tray>>
  BY <1>3, <1>8 DEF HidePanel
<1>9. \/ \E k \in Calls : c = PickerMode(k, TRUE) \/ c = PickerMode(k, FALSE)
      \/ \E on \in BOOLEAN : c = AutoHide(on)
      \/ \E s \in {"idle", "sharing", "watching", "error"} : c = TrayStatus(s)
      \/ c = HidePanel
  <2>1. \A on \in BOOLEAN : on = TRUE \/ on = FALSE
    OBVIOUS
  <2>2. ASSUME c \in Pickers PROVE \E k \in Calls : c = PickerMode(k, TRUE) \/ c = PickerMode(k, FALSE)
    <3>1. PICK k \in Calls, on \in BOOLEAN : c = PickerMode(k, on)
      BY <2>2 DEF Pickers
    <3>2. CASE on = TRUE
      BY <3>1, <3>2, Zenon
    <3>3. CASE on = FALSE
      BY <3>1, <3>3, Zenon
    <3> QED
      BY <2>1, <3>2, <3>3
  <2> QED
    BY <1>2, <2>2 DEF Commands, Hiders, Trays
<1> QED
  BY <1>1, <1>4, <1>5, <1>6, <1>7, <1>8, <1>9 DEF c
-----------------------------------------------------------------------------
(***************************************************************************)
(* What additions and runs leave of the invariant's parts.                 *)
(***************************************************************************)
LEMMA ShrinksAdds ==
  ASSUME NEW q \in Seq(Commands), NEW xs \in Seq(Commands), NEW was
  PROVE  /\ Free(xs, Pickers) /\ Shrinks(q, was) => Shrinks(q \o xs, was)
         /\ \A k \in Calls : LastOf(xs, Pickers, PickerMode(k, FALSE)) => Shrinks(q \o xs, was)
<1>1. /\ Free(q \o xs, Pickers) <=> Free(q, Pickers) /\ Free(xs, Pickers)
      /\ \A c : LastOf(q \o xs, Pickers, c) <=>
                  LastOf(xs, Pickers, c) \/ (Free(xs, Pickers) /\ LastOf(q, Pickers, c))
  BY Concatenated
<1>2. \A k \in Calls : PickerMode(k, FALSE) \in Pickers /\ PickerMode(k, FALSE).arg = FALSE
  BY Kinds
<1> QED
  BY <1>1, <1>2 DEF Shrinks

LEMMA ShrinksRan ==
  ASSUME NEW q \in Seq(Commands), q # <<>>, NEW was, Shrinks(q, was)
  PROVE  /\ Head(q) \notin Pickers => Shrinks(Tail(q), was)
         /\ \A k \in Calls : Head(q) = PickerMode(k, FALSE) => Shrinks(Tail(q), "none")
         /\ \A k \in Calls : Head(q) = PickerMode(k, TRUE) => \A now : Shrinks(Tail(q), now)
<1> DEFINE h == Head(q) t == Tail(q)
<1>1. /\ Free(q, Pickers) <=> h \notin Pickers /\ Free(t, Pickers)
      /\ \A c : LastOf(q, Pickers, c) <=>
                  LastOf(t, Pickers, c) \/ (Free(t, Pickers) /\ c = h /\ c \in Pickers)
  BY Ran
<1>2. \A k \in Calls, on \in BOOLEAN : PickerMode(k, on) \in Pickers /\ PickerMode(k, on).arg = on
  BY Kinds
<1> HIDE DEF h, t
<1>3. h \notin Pickers => Shrinks(t, was)
  BY <1>1 DEF Shrinks
<1>4. ASSUME NEW k \in Calls, h = PickerMode(k, FALSE) PROVE Shrinks(t, "none")
  BY <1>1, <1>2, <1>4 DEF Shrinks
<1>5. ASSUME NEW k \in Calls, h = PickerMode(k, TRUE), NEW now PROVE Shrinks(t, now)
  <2>1. ~Free(q, Pickers)
    BY <1>1, <1>2, <1>5
  <2>2. PICK c \in Pickers : LastOf(q, Pickers, c) /\ c.arg = FALSE
    BY <2>1 DEF Shrinks
  <2>3. c # h
    BY <1>2, <1>5, <2>2
  <2>4. LastOf(t, Pickers, c)
    BY <1>1, <2>2, <2>3
  <2> QED
    BY <2>2, <2>4 DEF Shrinks
<1> QED
  BY <1>3, <1>4, <1>5 DEF h, t

LEMMA EntersAdds ==
  ASSUME NEW k \in Calls, NEW S, Enters(k, S), NEW xs, Adds(xs), Free(xs, S), UNCHANGED saved
  PROVE  Enters(k, S)'
<1> DEFINE c == PickerMode(k, TRUE)
<1>1. PICK p, s \in Seq(Commands) : invoked = p \o (<<c>> \o s) /\ Shrinks(p, saved) /\ Free(s, S)
  BY DEF Enters
<1>2. c \in Commands
  BY Kinds
<1>3. invoked' = invoked \o xs /\ xs \in Seq(Commands)
  BY DEF Adds
<1> HIDE DEF c
<1>4. <<c>> \in Seq(Commands)
  BY <1>2
<1>5. s \o xs \in Seq(Commands) /\ Free(s \o xs, S)
  BY <1>1, <1>3, Concatenated
<1>6. (p \o (<<c>> \o s)) \o xs = p \o (<<c>> \o (s \o xs))
  BY <1>1, <1>3, <1>4, ConcatAssociative, ConcatProperties
<1>7. invoked' = p \o (<<c>> \o (s \o xs)) /\ Shrinks(p, saved')
  BY <1>1, <1>3, <1>6
<1> QED
  BY <1>5, <1>7 DEF Enters, c

LEMMA EntersNew ==
  ASSUME PanelTyped, NEW k \in Calls, NEW S, Shrinks(invoked, saved), UNCHANGED saved,
         NEW p \in Seq(Commands), NEW s \in Seq(Commands),
         Adds(p \o (<<PickerMode(k, TRUE)>> \o s)), Free(p, Pickers), Free(s, S)
  PROVE  Enters(k, S)'
<1> DEFINE c == PickerMode(k, TRUE) q == invoked \o p
<1>1. c \in Commands
  BY Kinds
<1>2. invoked' = invoked \o (p \o (<<c>> \o s)) /\ invoked \in Seq(Commands)
  BY DEF Adds, PanelTyped
<1>3. Shrinks(invoked \o p, saved) /\ invoked \o p \in Seq(Commands)
  BY <1>2, ShrinksAdds, Concatenated
<1> HIDE DEF c
<1>4. <<c>> \in Seq(Commands)
  BY <1>1
<1>5. invoked \o (p \o (<<c>> \o s)) = (invoked \o p) \o (<<c>> \o s)
  BY <1>2, <1>4, ConcatAssociative, ConcatProperties
<1>6. invoked' = q \o (<<c>> \o s) /\ q \in Seq(Commands) /\ Shrinks(q, saved')
  BY <1>2, <1>3, <1>5
<1> HIDE DEF q
<1> QED
  BY <1>6 DEF Enters, c

LEMMA Heads ==
  ASSUME NEW c \in Commands, NEW s \in Seq(Commands), NEW p \in Seq(Commands)
  PROVE  /\ Head(<<c>> \o s) = c /\ Tail(<<c>> \o s) = s
         /\ p = <<>> => p \o (<<c>> \o s) = <<c>> \o s
         /\ p # <<>> => /\ Head(p \o (<<c>> \o s)) = Head(p)
                        /\ Tail(p \o (<<c>> \o s)) = Tail(p) \o (<<c>> \o s)
         /\ \E i \in DOMAIN (p \o (<<c>> \o s)) : (p \o (<<c>> \o s))[i] = c
<1> DEFINE r == <<c>> \o s
<1>1. <<c>> \in Seq(Commands) /\ Len(<<c>>) = 1 /\ <<c>>[1] = c
  OBVIOUS
<1>2. r \in Seq(Commands) /\ r # <<>> /\ Len(r) = 1 + Len(s) /\ r[1] = c
      /\ \A i \in 1 .. Len(s) : r[1 + i] = s[i]
  BY <1>1
<1>3. Head(r) = c /\ Tail(r) = s
  <2>1. Head(r) = c /\ Tail(r) \in Seq(Commands) /\ Len(Tail(r)) = Len(r) - 1
        /\ \A i \in 1 .. Len(Tail(r)) : Tail(r)[i] = r[i + 1]
    BY <1>2, HeadTailProperties
  <2>2. Len(s) \in Nat
    OBVIOUS
  <2> HIDE DEF r
  <2>3. Len(Tail(r)) = Len(s) /\ \A i \in 1 .. Len(s) : Tail(r)[i] = s[i]
    BY <1>2, <2>1, <2>2
  <2>4. Tail(r) = s
    BY <2>1, <2>3, SeqEqual
  <2> QED
    BY <2>1, <2>4
<1> HIDE DEF r
<1>4. p = <<>> => p \o r = r
  BY <1>2
<1>5. p # <<>> => Head(p \o r) = Head(p) /\ Tail(p \o r) = Tail(p) \o r
  <2> SUFFICES ASSUME p # <<>> PROVE Head(p \o r) = Head(p) /\ Tail(p \o r) = Tail(p) \o r
    OBVIOUS
  <2> DEFINE u == Tail(p) w == p \o r t == u \o r
  <2>1. w \in Seq(Commands) /\ Len(w) = Len(p) + Len(r) /\ Len(p) \in Nat /\ Len(r) \in Nat /\ Len(p) > 0
        /\ (\A i \in 1 .. Len(p) : w[i] = p[i]) /\ (\A i \in 1 .. Len(r) : w[Len(p) + i] = r[i])
    BY <1>2
  <2>2. u \in Seq(Commands) /\ Len(u) = Len(p) - 1
        /\ (\A i \in 1 .. Len(p) - 1 : u[i] = p[i + 1])
    BY HeadTailProperties
  <2> HIDE DEF u
  <2>3. t \in Seq(Commands) /\ Len(t) = Len(p) - 1 + Len(r)
        /\ (\A i \in 1 .. Len(p) - 1 : t[i] = u[i])
        /\ (\A i \in 1 .. Len(r) : t[Len(p) - 1 + i] = r[i])
    <3>1. t \in Seq(Commands) /\ Len(t) = Len(u) + Len(r)
          /\ (\A i \in 1 .. Len(u) : t[i] = u[i]) /\ (\A i \in 1 .. Len(r) : t[Len(u) + i] = r[i])
      <4>1. ASSUME NEW a \in Seq(Commands), NEW b \in Seq(Commands)
            PROVE  /\ a \o b \in Seq(Commands) /\ Len(a \o b) = Len(a) + Len(b)
                   /\ (\A i \in 1 .. Len(a) : (a \o b)[i] = a[i])
                   /\ (\A i \in 1 .. Len(b) : (a \o b)[Len(a) + i] = b[i])
        OBVIOUS
      <4>2. u \in Seq(Commands) /\ r \in Seq(Commands)
        BY <1>2, <2>2
      <4> QED
        BY <4>1, <4>2
    <3> HIDE DEF t
    <3> QED
      BY <2>2, <3>1
  <2> HIDE DEF w, t
  <2>w. w # <<>>
    BY <2>1
  <2>4. w # <<>> /\ Head(w) = w[1] /\ Tail(w) \in Seq(Commands) /\ Len(Tail(w)) = Len(w) - 1
        /\ (\A i \in 1 .. Len(w) - 1 : Tail(w)[i] = w[i + 1])
    BY <2>1, <2>w, HeadTailProperties
  <2>5. Head(p) = p[1]
    OBVIOUS
  <2>6. Head(w) = Head(p)
    BY <2>1, <2>4, <2>5
  <2>7. ASSUME NEW i \in 1 .. Len(Tail(w)) PROVE Tail(w)[i] = t[i]
    <3>1. CASE i \in 1 .. Len(p) - 1
      BY <2>1, <2>2, <2>3, <2>4, <3>1
    <3>2. CASE i \notin 1 .. Len(p) - 1
      <4> DEFINE j == i - (Len(p) - 1)
      <4>1. j \in 1 .. Len(r) /\ i = Len(p) - 1 + j /\ i + 1 = Len(p) + j /\ i \in 1 .. Len(w) - 1
        BY <2>1, <2>4, <3>2
      <4> HIDE DEF j
      <4>2. t[i] = r[j] /\ w[i + 1] = r[j]
        BY <2>1, <2>3, <4>1
      <4> QED
        BY <2>4, <4>1, <4>2
    <3> QED
      BY <3>1, <3>2
  <2>8. Len(Tail(w)) = Len(t)
    BY <2>1, <2>3, <2>4
  <2>9. Tail(w) = t
    BY <2>3, <2>4, <2>7, <2>8, SeqEqual
  <2> QED
    BY <2>6, <2>9 DEF u, w, t
<1>6. \E i \in DOMAIN (p \o r) : (p \o r)[i] = c
  <2>1. Len(p) + 1 \in 1 .. Len(p \o r) /\ (p \o r)[Len(p) + 1] = c /\ DOMAIN (p \o r) = 1 .. Len(p \o r)
    BY <1>2
  <2> QED
    BY <2>1
<1> QED
  BY <1>3, <1>4, <1>5, <1>6 DEF r

LEMMA EntersIsUnanswered ==
  ASSUME NEW k \in Calls, NEW S, Enters(k, S)
  PROVE  ~Answered(k)
<1> DEFINE c == PickerMode(k, TRUE)
<1>1. PICK p, s \in Seq(Commands) : invoked = p \o (<<c>> \o s)
  BY DEF Enters
<1>2. c \in Commands /\ c.of = k
  BY Kinds
<1> HIDE DEF c
<1>3. \E i \in DOMAIN (p \o (<<c>> \o s)) : (p \o (<<c>> \o s))[i] = c
  BY <1>2, Heads
<1>4. \E i \in DOMAIN invoked : invoked[i] = c
  BY <1>1, <1>3
<1> QED
  BY <1>2, <1>4 DEF Answered

\* Of the window, what the head of the queue is decides.
LEMMA RunPickers ==
  ASSUME PanelTyped, RunCommand
  PROVE  \/ \E j \in Calls : Head(invoked) = PickerMode(j, TRUE)
         \/ \E j \in Calls : Head(invoked) = PickerMode(j, FALSE) /\ saved' = "none"
         \/ Head(invoked) \notin Pickers /\ UNCHANGED <<saved, size>>
<1>1. \/ \E j \in Calls : Head(invoked) = PickerMode(j, TRUE)
      \/ \E j \in Calls : Head(invoked) = PickerMode(j, FALSE) /\ saved' = "none"
      \/ \E on \in BOOLEAN : Head(invoked) = AutoHide(on) /\ UNCHANGED <<saved, size>>
      \/ \E t \in {"idle", "sharing", "watching", "error"} :
           Head(invoked) = TrayStatus(t) /\ UNCHANGED <<saved, size>>
      \/ Head(invoked) = HidePanel /\ UNCHANGED <<saved, size>>
  BY RunIs
<1>2. \A on \in BOOLEAN : AutoHide(on) \notin Pickers
  BY Kinds
<1>3. \A t \in {"idle", "sharing", "watching", "error"} : TrayStatus(t) \notin Pickers
  BY Kinds
<1>4. HidePanel \notin Pickers
  BY Kinds
<1> QED
  BY <1>1, <1>2, <1>3, <1>4, Zenon

\* A command that grows the window, and pins it.
LEMMA RunEnters ==
  ASSUME PanelTyped, RunCommand, NEW k \in Calls, Head(invoked) = PickerMode(k, TRUE)
  PROVE  autoHide' = FALSE /\ (saved = "none" => size' = "picker" /\ panel' = "shown")
<1>1. SetPickerMode(TRUE)
  <2> DEFINE c == Head(invoked)
  <2>1. \/ c.cmd = "picker-mode" /\ SetPickerMode(c.arg)
        \/ c.cmd = "auto-hide" \/ c.cmd = "tray" \/ c.cmd = "hide"
    BY DEF RunCommand
  <2>2. c = PickerMode(k, TRUE)
    OBVIOUS
  <2> HIDE DEF c
  <2> QED
    BY <2>1, <2>2 DEF PickerMode
<1> QED
  BY <1>1, EnterIs DEF SetPickerMode, AutoHideAfterPicker

\* No other command unpins it, or takes it away as a click elsewhere does.
LEMMA RunUntroubled ==
  ASSUME PanelTyped, RunCommand, Head(invoked) \notin Troubles, autoHide = FALSE, panel # "vanished"
  PROVE  autoHide' = FALSE /\ panel' # "vanished"
<1>1. \A k \in Calls : Head(invoked) # PickerMode(k, TRUE) /\ Head(invoked) # PickerMode(k, FALSE)
  BY Kinds
<1>2. \A on \in BOOLEAN : Head(invoked) = AutoHide(on) => on = FALSE
  BY Kinds
<1>3. \/ \E k \in Calls : Head(invoked) = PickerMode(k, TRUE) \/ Head(invoked) = PickerMode(k, FALSE)
      \/ \E on \in BOOLEAN : Head(invoked) = AutoHide(on) /\ autoHide' = on /\ UNCHANGED panel
      \/ UNCHANGED <<autoHide, panel>>
      \/ panel' = "hidden" /\ UNCHANGED autoHide
  BY RunIs
<1> QED
  BY <1>1, <1>2, <1>3

\* What is left in AutoHide, and on the icon.
LEMMA RunHiders ==
  ASSUME PanelTyped, RunCommand
  PROVE  /\ Head(invoked) \in Hiders => autoHide' = Hides(Head(invoked))
         /\ Head(invoked) \notin Hiders => autoHide' = autoHide
<1> DEFINE c == Head(invoked)
<1>1. \/ \E k \in Calls : c = PickerMode(k, TRUE) /\ autoHide' = FALSE
      \/ \E k \in Calls : c = PickerMode(k, FALSE) /\ autoHide' = TRUE
      \/ \E on \in BOOLEAN : c = AutoHide(on) /\ autoHide' = on
      \/ \E s \in {"idle", "sharing", "watching", "error"} : c = TrayStatus(s) /\ autoHide' = autoHide
      \/ c = HidePanel /\ autoHide' = autoHide
  BY RunIs
<1>2. \A k \in Calls : PickerMode(k, TRUE) \in Hiders /\ PickerMode(k, FALSE) \in Hiders
  BY Kinds
<1>3. \A on \in BOOLEAN : AutoHide(on) \in Hiders
  BY Kinds
<1>4. \A s \in {"idle", "sharing", "watching", "error"} : TrayStatus(s) \notin Hiders
  BY Kinds
<1>5. HidePanel \notin Hiders
  BY Kinds
<1> HIDE DEF c
<1>6. /\ c \in Hiders => autoHide' = Hides(c)
      /\ c \notin Hiders => autoHide' = autoHide
  BY <1>1, <1>2, <1>3, <1>4, <1>5, HidesIs
<1> QED
  BY <1>6 DEF c

LEMMA RunTrays ==
  ASSUME PanelTyped, RunCommand
  PROVE  /\ Head(invoked) \in Trays => tray' = Head(invoked).arg
         /\ Head(invoked) \notin Trays => tray' = tray
<1> DEFINE c == Head(invoked)
<1>1. \/ \E k \in Calls : c = PickerMode(k, TRUE) /\ tray' = tray
      \/ \E k \in Calls : c = PickerMode(k, FALSE) /\ tray' = tray
      \/ \E on \in BOOLEAN : c = AutoHide(on) /\ tray' = tray
      \/ \E s \in {"idle", "sharing", "watching", "error"} : c = TrayStatus(s) /\ tray' = s
      \/ c = HidePanel /\ tray' = tray
  BY RunIs
<1>2. \A k \in Calls : PickerMode(k, TRUE) \notin Trays /\ PickerMode(k, FALSE) \notin Trays
  BY Kinds
<1>3. \A on \in BOOLEAN : AutoHide(on) \notin Trays
  BY Kinds
<1>4. \A s \in {"idle", "sharing", "watching", "error"} : TrayStatus(s) \in Trays /\ TrayStatus(s).arg = s
  BY Kinds
<1>5. HidePanel \notin Trays
  BY Kinds
<1> HIDE DEF c
<1>6. /\ c \in Trays => tray' = c.arg
      /\ c \notin Trays => tray' = tray
  BY <1>1, <1>2, <1>3, <1>4, <1>5
<1> QED
  BY <1>6 DEF c

LEMMA EntersRan ==
  ASSUME PanelTyped, RunCommand, NEW k \in Calls, NEW S, Enters(k, S)
  PROVE  \/ Enters(k, S)'
         \/ Head(invoked) = PickerMode(k, TRUE) /\ saved = "none" /\ Free(invoked', S)
<1> DEFINE c == PickerMode(k, TRUE)
<1>1. PICK p, s \in Seq(Commands) : invoked = p \o (<<c>> \o s) /\ Shrinks(p, saved) /\ Free(s, S)
  BY DEF Enters
<1>2. c \in Commands
  BY Kinds
<1>3. invoked # <<>> /\ invoked' = Tail(invoked)
  BY RunIs
<1> HIDE DEF c
<1>4. CASE p = <<>>
  <2>1. Head(invoked) = c /\ invoked' = s
    BY <1>1, <1>2, <1>3, <1>4, Heads
  <2>2. saved = "none"
    BY <1>1, <1>4, ShortQueues DEF Shrinks
  <2> QED
    BY <1>1, <2>1, <2>2 DEF c
<1>5. CASE p # <<>>
  <2>1. Head(invoked) = Head(p) /\ invoked' = Tail(p) \o (<<c>> \o s)
    BY <1>1, <1>2, <1>3, <1>5, Heads
  <2>2. Tail(p) \in Seq(Commands)
    BY <1>5
  <2>3. /\ Head(p) \notin Pickers => Shrinks(Tail(p), saved)
        /\ \A j \in Calls : Head(p) = PickerMode(j, FALSE) => Shrinks(Tail(p), "none")
        /\ \A j \in Calls : Head(p) = PickerMode(j, TRUE) => \A now : Shrinks(Tail(p), now)
    BY <1>1, <1>5, ShrinksRan
  <2>4. \/ \E j \in Calls : Head(p) = PickerMode(j, TRUE)
        \/ \E j \in Calls : Head(p) = PickerMode(j, FALSE) /\ saved' = "none"
        \/ Head(p) \notin Pickers /\ saved' = saved
    BY <2>1, RunPickers
  <2>5. Shrinks(Tail(p), saved')
    BY <2>3, <2>4
  <2> QED
    BY <1>1, <2>1, <2>2, <2>5 DEF Enters, c
<1> QED
  BY <1>4, <1>5
-----------------------------------------------------------------------------
(***************************************************************************)
(* The invariant holds.                                                    *)
(***************************************************************************)
LEMMA FirstPanelInv == TPInit => PanelInv
<1> SUFFICES ASSUME TPInit PROVE PanelInv
  OBVIOUS
<1>1. /\ screen = "home" /\ sharing = "idle" /\ watching = "away"
      /\ call = [k \in Calls |-> "none"] /\ invoked = <<>>
      /\ autoHide = TRUE /\ saved = "none" /\ size = "panel" /\ panel = "hidden" /\ tray = "idle"
  BY Zenon DEF TPInit
<1>2. \A S : Free(invoked, S)
  BY <1>1, ShortQueues
<1>3. \A k \in Calls : ~InFlight(k) /\ ~Opening(k)
  BY <1>1 DEF InFlight, Opening
<1>4. PanelTyped
  BY <1>1 DEF PanelTyped
<1>5. GeometryInv
  BY <1>1, <1>2 DEF GeometryInv, Shrinks
<1>6. RoomInv /\ StayInv /\ ApartInv
  BY <1>3, Zenon DEF RoomInv, StayInv, ApartInv
<1>7. PinInv
  BY <1>1, <1>2 DEF PinInv, Live
<1>8. TellInv
  BY <1>1, <1>2 DEF TellInv
<1> QED
  BY <1>4, <1>5, <1>6, <1>7, <1>8 DEF PanelInv

\* No step opens a start() but ShareScreen, and every one is in flight while it opens.
LEMMA StartsOnlyAt ==
  ASSUME PanelTyped, TPNext
  PROVE  \/ \E k \in Calls : ShareScreen(k)
         \/ \A k \in Calls : (Opening(k)' => Opening(k)) /\ (InFlight(k)' => InFlight(k))
<1>1. ASSUME NEW k \in Calls, NEW to \in {"picking", "leaving"},
             call' = [call EXCEPT ![k] = to], call[k] \in {"entering", "picking"}
      PROVE  \A j \in Calls : (Opening(j)' => Opening(j)) /\ (InFlight(j)' => InFlight(j))
  BY <1>1 DEF PanelTyped, Opening, InFlight
<1>2. ASSUME UNCHANGED call
      PROVE  \A j \in Calls : (Opening(j)' => Opening(j)) /\ (InFlight(j)' => InFlight(j))
  BY <1>2 DEF Opening, InFlight
<1>3. ASSUME NEW k \in Calls, StartReturns(k)
      PROVE  \A j \in Calls : (Opening(j)' => Opening(j)) /\ (InFlight(j)' => InFlight(j))
  BY <1>3 DEF StartReturns, PanelTyped, Opening, InFlight
<1>4. ASSUME NEW k \in Calls, PickerOpens(k)
      PROVE  \A j \in Calls : (Opening(j)' => Opening(j)) /\ (InFlight(j)' => InFlight(j))
  <2>1. call[k] \in {"entering", "picking"}
    BY <1>4 DEF PickerOpens
  <2>2. call' = [call EXCEPT ![k] = "picking"] \/ call' = [call EXCEPT ![k] = "leaving"]
    BY <1>4, Zenon DEF PickerOpens
  <2> QED
    BY <1>1, <2>1, <2>2
<1>5. ASSUME NEW k \in Calls, NEW st, PickerCloses(k, st)
      PROVE  \A j \in Calls : (Opening(j)' => Opening(j)) /\ (InFlight(j)' => InFlight(j))
  <2>1. call[k] \in {"entering", "picking"} /\ call' = [call EXCEPT ![k] = "leaving"]
    BY <1>5 DEF PickerCloses
  <2> QED
    BY <1>1, <2>1
<1>6. ASSUME \/ \E s \in {"home", "share", "watch", "quality", "diagnostics"} : GoTo(s)
             \/ EscapeFromHome \/ Stop \/ RunCommand \/ FocusLost \/ UserShowsOrHides
             \/ \E st \in {"sharing", "idle", "error"} : ShareChanges(st)
             \/ \E st \in {"lobby"} \union Live : WatchChanges(st)
      PROVE  UNCHANGED call
  BY <1>6, Zenon DEF GoTo, EscapeFromHome, Stop, RunCommand, FocusLost, UserShowsOrHides,
     ShareChanges, WatchChanges, screenVars
<1> QED
  BY <1>2, <1>3, <1>4, <1>5, <1>6, Zenon DEF TPNext

\* Escape, the end of focus and the tray's icon touch nothing else.
LEMMA PlainSteps ==
  /\ EscapeFromHome => UNCHANGED <<screenVars, shellVars>>
  /\ FocusLost => UNCHANGED <<screenVars, invoked, autoHide, saved, size, tray>> /\ autoHide = TRUE
  /\ UserShowsOrHides => /\ UNCHANGED <<screenVars, invoked, autoHide, saved, size, tray>>
                         /\ panel' \in {"shown", "hidden"}
BY DEF EscapeFromHome, FocusLost, UserShowsOrHides

LEMMA AddsTyped == PanelTyped /\ (\E xs : Adds(xs)) => invoked' \in Seq(Commands)
BY ConcatProperties DEF PanelTyped, Adds
LEMMA PanelTypedStep ==
  ASSUME PanelTyped, TPNext
  PROVE  PanelTyped'
<1>1. ASSUME NEW s \in {"home", "share", "watch", "quality", "diagnostics"}, GoTo(s) PROVE PanelTyped'
  <2>1. invoked' \in Seq(Commands)
    BY <1>1, GoToAdds, AddsTyped
  <2>2. /\ screen' = s /\ watching' = IF s = "watch" THEN "lobby" ELSE "away"
        /\ UNCHANGED <<sharing, call, shellVars>>
    BY <1>1, GoToIs
  <2> QED
    BY <2>1, <2>2 DEF PanelTyped, shellVars
<1>2. ASSUME EscapeFromHome PROVE PanelTyped'
  <2>1. invoked' \in Seq(Commands)
    BY <1>2, EscapeAdds, AddsTyped
  <2> QED
    BY <1>2, <2>1, PlainSteps DEF PanelTyped, screenVars, shellVars
<1>3. ASSUME Stop PROVE PanelTyped'
  <2>1. invoked' \in Seq(Commands)
    BY <1>3, StopAdds, AddsTyped
  <2> QED
    BY <1>3, <2>1, StopIs DEF PanelTyped
<1>4. ASSUME NEW k \in Calls, ShareScreen(k) PROVE PanelTyped'
  <2>1. invoked' \in Seq(Commands)
    BY <1>4, ShareScreenAdds, AddsTyped
  <2>2. /\ screen' = "share" /\ watching' = "away" /\ call' = [call EXCEPT ![k] = "entering"]
        /\ UNCHANGED <<sharing, shellVars>>
    BY <1>4, ShareScreenIs
  <2> QED
    BY <2>1, <2>2 DEF PanelTyped, shellVars
<1>5. ASSUME NEW k \in Calls, PickerOpens(k) PROVE PanelTyped'
  <2>1. invoked' \in Seq(Commands)
    BY <1>5, PickerOpensIs, AddsTyped
  <2>2. /\ call' = [call EXCEPT ![k] = "picking"] \/ call' = [call EXCEPT ![k] = "leaving"]
        /\ sharing' \in {"starting", sharing}
        /\ UNCHANGED <<screen, watching, shellVars>>
    BY <1>5 DEF PickerOpens
  <2> QED
    BY <2>1, <2>2 DEF PanelTyped, shellVars
<1>6. ASSUME NEW k \in Calls, StartReturns(k) PROVE PanelTyped'
  BY <1>6 DEF StartReturns, PanelTyped, shellVars
<1>7. ASSUME NEW k \in Calls, NEW st \in {"sharing", "idle", "error"}, PickerCloses(k, st)
      PROVE  PanelTyped'
  <2>1. invoked' \in Seq(Commands)
    BY <1>7, PickerClosesAdds, AddsTyped
  <2> QED
    BY <1>7, <2>1 DEF PickerCloses, PanelTyped, shellVars
<1>8. ASSUME NEW st \in {"sharing", "idle", "error"}, ShareChanges(st) PROVE PanelTyped'
  <2>1. invoked' \in Seq(Commands)
    BY <1>8, ShareChangesAdds, AddsTyped
  <2> QED
    BY <1>8, <2>1 DEF ShareChanges, PanelTyped, shellVars
<1>9. ASSUME NEW st \in {"lobby"} \union Live, WatchChanges(st) PROVE PanelTyped'
  <2>1. invoked' \in Seq(Commands)
    BY <1>9, WatchChangesAdds, AddsTyped
  <2> QED
    BY <1>9, <2>1 DEF WatchChanges, PanelTyped, shellVars, Live
<1>10. ASSUME RunCommand PROVE PanelTyped'
  <2>1. invoked' \in Seq(Commands) /\ UNCHANGED screenVars
    BY <1>10, RunIs, Ran DEF PanelTyped
  <2>2. /\ autoHide' \in BOOLEAN /\ saved' \in {"none", "panel", "picker"} /\ size' \in {"panel", "picker"}
        /\ panel' \in {"shown", "hidden", "vanished"} /\ tray' \in {"idle", "sharing", "watching", "error"}
    BY <1>10, RunIs DEF PanelTyped
  <2> QED
    BY <2>1, <2>2 DEF PanelTyped, screenVars
<1>11. ASSUME FocusLost PROVE PanelTyped'
  BY <1>11 DEF FocusLost, PanelTyped, screenVars
<1>12. ASSUME UserShowsOrHides PROVE PanelTyped'
  BY <1>12 DEF UserShowsOrHides, PanelTyped, screenVars
<1> QED
  BY <1>1, <1>2, <1>3, <1>4, <1>5, <1>6, <1>7, <1>8, <1>9, <1>10, <1>11, <1>12, Zenon DEF TPNext

\* The window, and what it is to go back to, change only when a command runs.
LEMMA WindowStep ==
  ASSUME PanelTyped, TPNext
  PROVE  RunCommand \/ UNCHANGED <<saved, size>>
BY Zenon DEF TPNext, GoTo, EscapeFromHome, Stop, ShareScreen, PickerOpens, StartReturns, PickerCloses,
   ShareChanges, WatchChanges, FocusLost, UserShowsOrHides, shellVars

LEMMA GeometryStep ==
  ASSUME PanelTyped, GeometryInv, TPNext
  PROVE  GeometryInv'
<1>k. GeometryKnown' => GeometryKnown
  BY MishapsStay, SparedBefore, Zenon DEF GeometryKnown
<1>1. /\ saved' # "none" => size' = "picker"
      /\ GeometryKnown' => (size' = "picker" => saved' # "none") /\ saved' # "picker"
  <2>1. CASE RunCommand
    <3>1. \/ /\ saved = "none" /\ (saved' = size \/ saved' = "none")
             /\ GeometryKnown' => saved' = size
             /\ size' = "picker"
          \/ saved' = "none" /\ size' = IF saved = "none" THEN size ELSE saved
          \/ UNCHANGED <<saved, size>>
      BY <2>1, RunIs
    <3> QED
      BY <1>k, <3>1 DEF GeometryInv, PanelTyped
  <2>2. CASE UNCHANGED <<saved, size>>
    BY <1>k, <2>2 DEF GeometryInv
  <2> QED
    BY <2>1, <2>2, WindowStep
<1>2. ASSUME NoneOpening' PROVE Shrinks(invoked, saved)'
  <2>a. ASSUME NoneOpening, UNCHANGED saved, \E xs : Adds(xs) /\ Free(xs, Pickers)
        PROVE  Shrinks(invoked', saved')
    <3>1. PICK xs : Adds(xs) /\ Free(xs, Pickers)
      BY <2>a
    <3> QED
      BY <2>a, <3>1, ShrinksAdds DEF Adds, GeometryInv, PanelTyped
  <2>b. ASSUME NEW k \in Calls, UNCHANGED saved, \E xs : Adds(xs) /\ LastOf(xs, Pickers, PickerMode(k, FALSE))
        PROVE  Shrinks(invoked', saved')
    <3>1. PICK xs : Adds(xs) /\ LastOf(xs, Pickers, PickerMode(k, FALSE))
      BY <2>b
    <3> QED
      BY <2>b, <3>1, ShrinksAdds DEF Adds, PanelTyped
  <2>c. UNCHANGED call => NoneOpening
    BY <1>2, Zenon DEF NoneOpening, Opening
  <2>d. shellVars' = shellVars => UNCHANGED saved
    BY DEF shellVars
  <2>1. ASSUME NEW s, GoTo(s) PROVE Shrinks(invoked', saved')
    BY <2>1, <2>a, <2>c, <2>d, GoToIs, GoToAdds
  <2>2. ASSUME EscapeFromHome PROVE Shrinks(invoked', saved')
    BY <2>2, <2>a, <2>c, <2>d, EscapeAdds, PlainSteps DEF screenVars
  <2>3. ASSUME Stop PROVE Shrinks(invoked', saved')
    BY <2>3, <2>a, <2>c, StopAdds, StopIs
  <2>4. ASSUME NEW k \in Calls, ShareScreen(k) PROVE FALSE
    <3>1. call' = [call EXCEPT ![k] = "entering"]
      BY <2>4, ShareScreenIs
    <3> QED
      BY <1>2, <3>1 DEF NoneOpening, Opening, PanelTyped
  <2>5. ASSUME NEW k \in Calls, PickerOpens(k) PROVE Shrinks(invoked', saved')
    <3>1. call' # [call EXCEPT ![k] = "picking"]
      BY <1>2 DEF NoneOpening, Opening, PanelTyped
    <3>2. UNCHANGED saved
      BY <2>5, <2>d DEF PickerOpens
    <3> QED
      BY <2>5, <2>b, <3>1, <3>2, PickerOpensIs
  <2>6. ASSUME NEW k \in Calls, StartReturns(k) PROVE Shrinks(invoked', saved')
    <3>1. NoneOpening
      BY <1>2, <2>6 DEF StartReturns, PanelTyped, NoneOpening, Opening
    <3> QED
      BY <2>6, <3>1 DEF StartReturns, shellVars, GeometryInv
  <2>7. ASSUME NEW k \in Calls, NEW st \in {"sharing", "idle", "error"}, PickerCloses(k, st)
        PROVE  Shrinks(invoked', saved')
    <3>1. UNCHANGED saved
      BY <2>7, <2>d DEF PickerCloses
    <3> QED
      BY <2>7, <2>b, <3>1, PickerClosesAdds
  <2>8. ASSUME NEW st \in {"sharing", "idle", "error"}, ShareChanges(st) PROVE Shrinks(invoked', saved')
    BY <2>8, <2>a, <2>c, <2>d, ShareChangesAdds DEF ShareChanges
  <2>9. ASSUME NEW st \in {"lobby"} \union Live, WatchChanges(st) PROVE Shrinks(invoked', saved')
    BY <2>9, <2>a, <2>c, <2>d, WatchChangesAdds DEF WatchChanges
  <2>10. ASSUME RunCommand PROVE Shrinks(invoked', saved')
    <3>1. Shrinks(invoked, saved) /\ invoked # <<>> /\ invoked' = Tail(invoked) /\ invoked \in Seq(Commands)
      BY <2>10, <2>c, RunIs DEF GeometryInv, screenVars, PanelTyped
    <3>2. \/ \E k \in Calls : Head(invoked) = PickerMode(k, TRUE)
          \/ \E k \in Calls : Head(invoked) = PickerMode(k, FALSE) /\ saved' = "none"
          \/ Head(invoked) \notin Pickers /\ UNCHANGED saved
      BY <2>10, RunPickers
    <3> QED
      BY <3>1, <3>2, ShrinksRan
  <2>11. ASSUME FocusLost \/ UserShowsOrHides PROVE Shrinks(invoked', saved')
    BY <2>11, <2>c, PlainSteps DEF GeometryInv, screenVars
  <2> QED
    BY <2>1, <2>2, <2>3, <2>4, <2>5, <2>6, <2>7, <2>8, <2>9, <2>10, <2>11, Zenon DEF TPNext
<1> QED
  BY <1>1, <1>2 DEF GeometryInv
\* What no addition of that kind disturbs.
LEMMA RoomAdds ==
  ASSUME PanelTyped, NEW k \in Calls, HasRoom(k), NEW xs, Adds(xs), Free(xs, Pickers),
         UNCHANGED <<call, saved, size>>
  PROVE  HasRoom(k)'
<1>1. CASE call[k] = "entering" /\ Enters(k, Pickers)
  BY <1>1, EntersAdds DEF HasRoom
<1>2. CASE Free(invoked, Pickers) /\ size = "picker"
  BY <1>2, Concatenated DEF HasRoom, Adds, PanelTyped
<1> QED
  BY <1>1, <1>2 DEF HasRoom

LEMMA RoomKept ==
  ASSUME NEW k \in Calls, HasRoom(k), UNCHANGED <<invoked, saved, size>>, call'[k] = call[k]
  PROVE  HasRoom(k)'
BY Zenon DEF HasRoom, Enters

LEMMA RoomStep ==
  ASSUME PanelTyped, GeometryInv, RoomInv, TPNext
  PROVE  RoomInv'
<1> SUFFICES ASSUME OneAtATime'
             PROVE  /\ \A j, k \in Calls : Opening(j)' /\ Opening(k)' => j = k
                    /\ \A k \in Calls : Opening(k)' => HasRoom(k)'
  BY DEF RoomInv
<1>1. /\ \A j, k \in Calls : Opening(j) /\ Opening(k) => j = k
      /\ \A k \in Calls : Opening(k) => HasRoom(k)
  BY MishapsStay, SparedBefore, Zenon DEF OneAtATime, RoomInv
<1>2. ASSUME NEW k \in Calls, ShareScreen(k)
      PROVE  /\ NoneOpening /\ Shrinks(invoked, saved)
             /\ \A j \in Calls : Opening(j)' => j = k
  <2>1. call' = [call EXCEPT ![k] = "entering"] /\ NoneOpening
    BY <1>2, ShareScreenIs
  <2> QED
    BY <2>1 DEF GeometryInv, NoneOpening, Opening, PanelTyped
<1>3. \A j, k \in Calls : Opening(j)' /\ Opening(k)' => j = k
  BY <1>1, <1>2, StartsOnlyAt, Zenon
<1>4. ASSUME NEW k \in Calls, Opening(k)' PROVE HasRoom(k)'
  <2>o. (~\E j \in Calls : ShareScreen(j)) => Opening(k) /\ HasRoom(k)
    BY <1>1, <1>4, StartsOnlyAt
  <2>p. PickerMode(k, TRUE) \in Pickers
    BY Kinds
  <2>d. shellVars' = shellVars => UNCHANGED <<saved, size>>
    BY DEF shellVars
  <2>a. ASSUME HasRoom(k), UNCHANGED <<call, saved, size>>, \E xs : Adds(xs) /\ Free(xs, Pickers)
        PROVE  HasRoom(k)'
    BY <2>a, RoomAdds
  <2>1. ASSUME NEW s, GoTo(s), HasRoom(k) PROVE HasRoom(k)'
    BY <2>1, <2>a, <2>d, GoToIs, GoToAdds
  <2>2. ASSUME EscapeFromHome, HasRoom(k) PROVE HasRoom(k)'
    BY <2>2, <2>a, <2>d, EscapeAdds, PlainSteps DEF screenVars
  <2>3. ASSUME Stop, HasRoom(k) PROVE HasRoom(k)'
    BY <2>3, <2>a, StopAdds, StopIs
  <2>4. ASSUME NEW j \in Calls, ShareScreen(j) PROVE HasRoom(k)'
    <3>1. j = k /\ Shrinks(invoked, saved)
      BY <1>2, <1>4, <2>4
    <3>2. PICK p, s \in Seq(Commands) :
            Adds(p \o (<<PickerMode(k, TRUE)>> \o s)) /\ Free(p, Pickers) /\ Free(s, Pickers)
      BY <2>4, <3>1, ShareScreenAdds
    <3>3. call' = [call EXCEPT ![k] = "entering"] /\ UNCHANGED saved
      BY <2>4, <2>d, <3>1, ShareScreenIs
    <3>4. call'[k] = "entering"
      BY <3>3 DEF PanelTyped
    <3>5. Enters(k, Pickers)'
      BY <3>1, <3>2, <3>3, EntersNew
    <3> QED
      BY <3>4, <3>5 DEF HasRoom
  <2>5. ASSUME NEW j \in Calls, PickerOpens(j), Opening(k), HasRoom(k) PROVE HasRoom(k)'
    <3>1. Opening(j)
      BY <2>5 DEF PickerOpens, Opening
    <3>2. j = k
      BY <1>1, <2>5, <3>1
    <3>3. Free(invoked, Pickers) /\ size = "picker"
      BY <2>5, <3>2, EntersIsUnanswered DEF HasRoom, PickerOpens
    <3>4. call' # [call EXCEPT ![k] = "leaving"]
      BY <1>4 DEF Opening, PanelTyped
    <3>5. Adds(<<>>)
      BY <2>5, <3>2, <3>4, PickerOpensIs
    <3>6. UNCHANGED size
      BY <2>5, <2>d DEF PickerOpens
    <3>7. invoked' = invoked
      BY <3>5 DEF Adds, PanelTyped
    <3> QED
      BY <3>3, <3>6, <3>7 DEF HasRoom
  <2>6. ASSUME NEW j \in Calls, StartReturns(j), Opening(k), HasRoom(k) PROVE HasRoom(k)'
    <3>1. call'[k] = call[k]
      BY <2>6 DEF StartReturns, Opening, PanelTyped
    <3>2. UNCHANGED <<invoked, saved, size>>
      BY <2>6 DEF StartReturns, shellVars
    <3> QED
      BY <2>6, <3>1, <3>2, RoomKept
  <2>7. ASSUME NEW j \in Calls, NEW st \in {"sharing", "idle", "error"}, PickerCloses(j, st), Opening(k)
        PROVE  FALSE
    <3>1. Opening(j) /\ call' = [call EXCEPT ![j] = "leaving"]
      BY <2>7 DEF PickerCloses, Opening
    <3>2. j = k
      BY <1>1, <2>7, <3>1
    <3> QED
      BY <1>4, <3>1, <3>2 DEF Opening, PanelTyped
  <2>8. ASSUME NEW st \in {"sharing", "idle", "error"}, ShareChanges(st), HasRoom(k) PROVE HasRoom(k)'
    BY <2>8, <2>a, <2>d, ShareChangesAdds DEF ShareChanges
  <2>9. ASSUME NEW st \in {"lobby"} \union Live, WatchChanges(st), HasRoom(k) PROVE HasRoom(k)'
    BY <2>9, <2>a, <2>d, WatchChangesAdds DEF WatchChanges
  <2>10. ASSUME RunCommand, HasRoom(k) PROVE HasRoom(k)'
    <3>1. call' = call /\ invoked # <<>> /\ invoked' = Tail(invoked) /\ invoked \in Seq(Commands)
      BY <2>10, RunIs DEF screenVars, PanelTyped
    <3>2. CASE Free(invoked, Pickers) /\ size = "picker"
      <4>1. Head(invoked) \notin Pickers /\ Free(invoked', Pickers)
        BY <3>1, <3>2, Ran
      <4>2. UNCHANGED size
        BY <2>10, <4>1, RunPickers, Kinds
      <4> QED
        BY <3>2, <4>1, <4>2 DEF HasRoom
    <3>3. CASE call[k] = "entering" /\ Enters(k, Pickers)
      <4>1. CASE Enters(k, Pickers)'
        BY <3>1, <3>3, <4>1 DEF HasRoom
      <4>2. CASE Head(invoked) = PickerMode(k, TRUE) /\ saved = "none" /\ Free(invoked', Pickers)
        <5>1. size' = "picker"
          BY <2>10, <4>2, RunEnters
        <5> QED
          BY <4>2, <5>1 DEF HasRoom
      <4> QED
        BY <2>10, <3>3, <4>1, <4>2, EntersRan
    <3> QED
      BY <2>10, <3>2, <3>3 DEF HasRoom
  <2>11. ASSUME FocusLost \/ UserShowsOrHides, HasRoom(k) PROVE HasRoom(k)'
    BY <2>11, RoomKept, PlainSteps DEF screenVars
  <2> QED
    BY <2>o, <2>1, <2>2, <2>3, <2>4, <2>5, <2>6, <2>7, <2>8, <2>9, <2>10, <2>11, Zenon DEF TPNext
<1> QED
  BY <1>3, <1>4
LEMMA StaysKept ==
  ASSUME NEW k \in Calls, Stays(k), UNCHANGED <<invoked, saved, autoHide>>, call'[k] = call[k],
         panel' # "vanished" \/ autoHide = TRUE \/ panel' = panel
  PROVE  Stays(k)'
<1>1. CASE call[k] = "entering" /\ Enters(k, Troubles)
  BY <1>1, Zenon DEF Stays, Enters
<1>2. CASE Free(invoked, Troubles) /\ autoHide = FALSE /\ panel # "vanished"
  BY <1>2 DEF Stays
<1> QED
  BY <1>1, <1>2 DEF Stays

LEMMA StaysAdds ==
  ASSUME PanelTyped, NEW k \in Calls, Stays(k), NEW xs, Adds(xs), Free(xs, Hiders),
         UNCHANGED <<call, saved, autoHide, panel>>
  PROVE  Stays(k)'
<1>1. Free(xs, Troubles)
  BY Kinds DEF Free
<1>2. CASE call[k] = "entering" /\ Enters(k, Troubles)
  BY <1>1, <1>2, EntersAdds DEF Stays
<1>3. CASE Free(invoked, Troubles) /\ autoHide = FALSE /\ panel # "vanished"
  <2>1. Free(invoked', Troubles)
    BY <1>1, <1>3, Concatenated DEF Adds, PanelTyped
  <2> QED
    BY <1>3, <2>1 DEF Stays
<1> QED
  BY <1>2, <1>3 DEF Stays

LEMMA StayStep ==
  ASSUME PanelTyped, GeometryInv, RoomInv, StayInv, TPNext
  PROVE  StayInv'
<1> SUFFICES ASSUME OneAtATime', Undisturbed', NEW k \in Calls, Opening(k)'
             PROVE  screen' # "watch" /\ Stays(k)'
  BY DEF StayInv
<1>1. /\ \A i, j \in Calls : Opening(i) /\ Opening(j) => i = j
      /\ \A j \in Calls : Opening(j) => screen # "watch" /\ Stays(j)
  BY MishapsStay, SparedBefore, Zenon DEF OneAtATime, Undisturbed, RoomInv, StayInv
<1>o. (~\E j \in Calls : ShareScreen(j)) => Opening(k) /\ screen # "watch" /\ Stays(k)
  BY <1>1, StartsOnlyAt
<1>c. UNCHANGED call => Opening(k)
  BY DEF Opening
<1>d. shellVars' = shellVars => UNCHANGED <<autoHide, saved, size, panel>>
  BY DEF shellVars
<1>2. ASSUME NEW s, GoTo(s), screen # "watch", Stays(k) PROVE screen' # "watch" /\ Stays(k)'
  <2>0. Opening(k) => InFlight(k)
    BY DEF Opening, InFlight
  <2>1. screen' = s /\ UNCHANGED <<call, shellVars>> /\ (s = "watch" /\ Apart' => ~InFlight(k))
    BY <1>2, GoToIs
  <2>2. Apart'
    BY SparedFewer, PTL
  <2>3. s # "watch"
    BY <1>c, <2>0, <2>1, <2>2
  <2>4. Adds(<<>>)
    BY <1>2, <2>3, GoToAdds
  <2>5. invoked' = invoked
    BY <2>4 DEF Adds, PanelTyped
  <2> QED
    BY <1>2, <1>d, <2>1, <2>3, <2>5, StaysKept
<1>3. ASSUME EscapeFromHome, screen # "watch", Stays(k) PROVE screen' # "watch" /\ Stays(k)'
  BY <1>3, <1>d, EscapeAdds, PlainSteps, StaysAdds DEF screenVars
<1>4. ASSUME Stop PROVE FALSE
  BY <1>4, <1>c, StopIs DEF NoneOpening
<1>5. ASSUME NEW j \in Calls, ShareScreen(j) PROVE screen' # "watch" /\ Stays(k)'
  <2>1. /\ NoneOpening /\ screen # "watch" /\ screen' = "share"
        /\ call' = [call EXCEPT ![j] = "entering"] /\ UNCHANGED saved
    BY <1>5, <1>d, ShareScreenIs
  <2>2. j = k /\ Shrinks(invoked, saved) /\ call'[k] = "entering"
    BY <2>1 DEF NoneOpening, Opening, PanelTyped, GeometryInv
  <2>3. PICK p, s \in Seq(Commands) :
          Adds(p \o (<<PickerMode(k, TRUE)>> \o s)) /\ Free(p, Pickers) /\ s = <<>>
    BY <1>5, <2>1, <2>2, ShareScreenAdds
  <2>4. Free(s, Troubles)
    BY <2>3, ShortQueues
  <2>5. Enters(k, Troubles)'
    BY <2>1, <2>2, <2>3, <2>4, EntersNew
  <2> QED
    BY <2>1, <2>2, <2>5 DEF Stays
<1>6. ASSUME NEW j \in Calls, PickerOpens(j), Opening(k), screen # "watch", Stays(k)
      PROVE  screen' # "watch" /\ Stays(k)'
  <2>1. Opening(j)
    BY <1>6 DEF PickerOpens, Opening
  <2>2. j = k
    BY <1>1, <1>6, <2>1
  <2>3. Free(invoked, Troubles) /\ autoHide = FALSE /\ panel # "vanished"
    BY <1>6, <2>2, EntersIsUnanswered DEF Stays, PickerOpens
  <2>4. call' # [call EXCEPT ![k] = "leaving"]
    BY DEF Opening, PanelTyped
  <2>5. Adds(<<>>)
    BY <1>6, <2>2, <2>4, PickerOpensIs
  <2>6. UNCHANGED <<screen, autoHide, panel>>
    BY <1>6, <1>d DEF PickerOpens
  <2>7. invoked' = invoked
    BY <2>5 DEF Adds, PanelTyped
  <2> QED
    BY <1>6, <2>3, <2>6, <2>7 DEF Stays
<1>7. ASSUME NEW j \in Calls, StartReturns(j), Opening(k), screen # "watch", Stays(k)
      PROVE  screen' # "watch" /\ Stays(k)'
  <2>1. call'[k] = call[k]
    BY <1>7 DEF StartReturns, Opening, PanelTyped
  <2>2. UNCHANGED <<invoked, saved, autoHide, panel, screen>>
    BY <1>7, <1>d DEF StartReturns
  <2> QED
    BY <1>7, <2>1, <2>2, StaysKept
<1>8. ASSUME NEW j \in Calls, NEW st \in {"sharing", "idle", "error"}, PickerCloses(j, st), Opening(k)
      PROVE  FALSE
  <2>1. Opening(j) /\ call' = [call EXCEPT ![j] = "leaving"]
    BY <1>8 DEF PickerCloses, Opening
  <2>2. j = k
    BY <1>1, <1>8, <2>1
  <2> QED
    BY <2>1, <2>2 DEF Opening, PanelTyped
<1>9. ASSUME NEW st \in {"sharing", "idle", "error"}, ShareChanges(st), screen # "watch", Stays(k)
      PROVE  screen' # "watch" /\ Stays(k)'
  <2>1. UNCHANGED <<screen, call, autoHide, saved, panel>>
    BY <1>9, <1>d DEF ShareChanges
  <2> QED
    BY <1>9, <2>1, ShareChangesAdds, StaysAdds
<1>10. ASSUME NEW st \in {"lobby"} \union Live, WatchChanges(st), screen # "watch" PROVE FALSE
  BY <1>10 DEF WatchChanges, PanelTyped
<1>11. ASSUME RunCommand, screen # "watch", Stays(k) PROVE screen' # "watch" /\ Stays(k)'
  <2>1. /\ screen' = screen /\ call' = call
        /\ invoked # <<>> /\ invoked' = Tail(invoked) /\ invoked \in Seq(Commands)
    BY <1>11, RunIs DEF screenVars, PanelTyped
  <2>2. CASE Free(invoked, Troubles) /\ autoHide = FALSE /\ panel # "vanished"
    <3>1. Head(invoked) \notin Troubles /\ Free(invoked', Troubles)
      BY <2>1, <2>2, Ran
    <3>2. autoHide' = FALSE /\ panel' # "vanished"
      BY <1>11, <2>2, <3>1, RunUntroubled
    <3> QED
      BY <1>11, <2>1, <3>1, <3>2 DEF Stays
  <2>3. CASE call[k] = "entering" /\ Enters(k, Troubles)
    <3>1. CASE Enters(k, Troubles)'
      BY <1>11, <2>1, <2>3, <3>1 DEF Stays
    <3>2. CASE Head(invoked) = PickerMode(k, TRUE) /\ saved = "none" /\ Free(invoked', Troubles)
      <4>1. autoHide' = FALSE /\ panel' = "shown"
        BY <1>11, <3>2, RunEnters
      <4> QED
        BY <1>11, <2>1, <3>2, <4>1 DEF Stays
    <3> QED
      BY <1>11, <2>3, <3>1, <3>2, EntersRan
  <2> QED
    BY <1>11, <2>2, <2>3 DEF Stays
<1>12. ASSUME FocusLost \/ UserShowsOrHides, screen # "watch", Stays(k) PROVE screen' # "watch" /\ Stays(k)'
  <2>1. UNCHANGED <<screen, call, invoked, autoHide, saved>>
    BY <1>12, PlainSteps DEF screenVars
  <2>2. panel' # "vanished" \/ autoHide = TRUE
    BY <1>12, PlainSteps
  <2> QED
    BY <1>12, <2>1, <2>2, StaysKept
<1> QED
  BY <1>o, <1>2, <1>3, <1>4, <1>5, <1>6, <1>7, <1>8, <1>9, <1>10, <1>11, <1>12, Zenon DEF TPNext
LEMMA ApartStep ==
  ASSUME PanelTyped, ApartInv, TPNext
  PROVE  ApartInv'
<1> SUFFICES ASSUME Apart', NEW k \in Calls, InFlight(k)' PROVE screen' # "watch"
  BY DEF ApartInv
<1>1. \A j \in Calls : InFlight(j) => screen # "watch"
  BY MishapsStay, SparedBefore, Zenon DEF Apart, ApartInv
<1>2. (\E j \in Calls : ShareScreen(j)) \/ InFlight(k)
  BY StartsOnlyAt
<1>3. ASSUME NEW j \in Calls, ShareScreen(j) PROVE screen' # "watch"
  BY <1>3, ShareScreenIs
<1>4. ASSUME NEW s, GoTo(s), InFlight(k) PROVE screen' # "watch"
  BY <1>4, GoToIs
<1>5. (\E j \in Calls : ShareScreen(j)) \/ (\E s : GoTo(s)) \/ UNCHANGED screen
  BY Zenon DEF TPNext, EscapeFromHome, Stop, PickerOpens, StartReturns, PickerCloses,
     ShareChanges, WatchChanges, RunCommand, FocusLost, UserShowsOrHides, screenVars
<1> QED
  BY <1>1, <1>2, <1>3, <1>4, <1>5

\* The last command that hides or pins: after what a step adds, and after a run.
LEMMA HidesAdds ==
  ASSUME PanelTyped, NEW xs, Adds(xs)
  PROVE  /\ \A c \in Hiders : LastOf(xs, Hiders, c) => LastOf(invoked', Hiders, c)
         /\ Free(xs, Hiders) => /\ Free(invoked, Hiders) => Free(invoked', Hiders)
                                /\ \A c : LastOf(invoked, Hiders, c) => LastOf(invoked', Hiders, c)
BY Concatenated DEF Adds, PanelTyped

LEMMA TraysAdds ==
  ASSUME PanelTyped, NEW xs, Adds(xs)
  PROVE  /\ \A c : LastOf(xs, Trays, c) => LastOf(invoked', Trays, c)
         /\ Free(xs, Trays) => /\ Free(invoked, Trays) => Free(invoked', Trays)
                               /\ \A c : LastOf(invoked, Trays, c) => LastOf(invoked', Trays, c)
BY Concatenated DEF Adds, PanelTyped

Unpinned == watching \notin Live
PinnedAsDue ==
  \/ \E c \in Hiders : LastOf(invoked, Hiders, c) /\ (Hides(c) = TRUE <=> Unpinned)
  \/ Free(invoked, Hiders) /\ (autoHide = TRUE <=> Unpinned)

LEMMA PinStep ==
  ASSUME PanelTyped, ApartInv, PinInv, TPNext
  PROVE  PinInv'
<1> SUFFICES ASSUME Pinnable', NoneOpening' PROVE PinnedAsDue'
  BY Zenon DEF PinInv, PinnedAsDue, Unpinned
<1>1. NoneOpening => PinnedAsDue
  BY MishapsStay, SparedBefore, Zenon DEF Pinnable, PinInv, PinnedAsDue, Unpinned
<1>c. UNCHANGED call => NoneOpening
  BY Zenon DEF NoneOpening, Opening
<1>d. shellVars' = shellVars => UNCHANGED <<autoHide, saved, size, panel>>
  BY DEF shellVars
<1>a. ASSUME NEW c \in Hiders, \E xs : Adds(xs) /\ LastOf(xs, Hiders, c), Hides(c) = TRUE <=> Unpinned'
      PROVE  PinnedAsDue'
  BY <1>a, HidesAdds DEF PinnedAsDue
<1>b. ASSUME NoneOpening, \E xs : Adds(xs) /\ Free(xs, Hiders), UNCHANGED autoHide, Unpinned' <=> Unpinned
      PROVE  PinnedAsDue'
  <2>1. PICK xs : Adds(xs) /\ Free(xs, Hiders)
    BY <1>b
  <2>2. CASE Free(invoked, Hiders) /\ (autoHide = TRUE <=> Unpinned)
    BY <1>b, <2>1, <2>2, HidesAdds DEF PinnedAsDue
  <2>3. ASSUME NEW c \in Hiders, LastOf(invoked, Hiders, c), Hides(c) = TRUE <=> Unpinned PROVE PinnedAsDue'
    BY <1>b, <2>1, <2>3, HidesAdds DEF PinnedAsDue
  <2> QED
    BY <1>1, <1>b, <2>2, <2>3 DEF PinnedAsDue
<1>e. AutoHide(TRUE) \in Hiders /\ Hides(AutoHide(TRUE)) = TRUE
  BY Kinds, HidesIs
<1>f. \A k \in Calls : PickerMode(k, FALSE) \in Hiders /\ Hides(PickerMode(k, FALSE)) = TRUE
  BY Kinds, HidesIs
<1>g. \A k \in Calls : InFlight(k) => Unpinned
  <2>1. Apart
    BY MishapsStay, SparedBefore, SparedFewer, Zenon DEF Pinnable
  <2> QED
    BY <2>1 DEF ApartInv, PanelTyped, Unpinned, Live
<1>2. ASSUME NEW s, GoTo(s) PROVE PinnedAsDue'
  <2>1. watching' = (IF s = "watch" THEN "lobby" ELSE "away") /\ UNCHANGED call /\ UNCHANGED shellVars
    BY <1>2, GoToIs
  <2>2. Unpinned'
    BY <2>1 DEF Unpinned, Live
  <2>3. PICK xs : /\ Adds(xs)
                  /\ IF screen = "watch" \/ s = "watch" THEN LastOf(xs, Hiders, AutoHide(TRUE)) ELSE xs = <<>>
    BY <1>2, GoToAdds
  <2>4. CASE screen = "watch" \/ s = "watch"
    BY <1>a, <1>e, <2>2, <2>3, <2>4
  <2>5. CASE ~(screen = "watch" \/ s = "watch")
    <3>1. Unpinned
      BY <2>5 DEF PanelTyped, Unpinned, Live
    <3>2. Free(xs, Hiders)
      BY <2>3, <2>5, ShortQueues
    <3> QED
      BY <1>b, <1>c, <1>d, <2>1, <2>2, <2>3, <3>1, <3>2
  <2> QED
    BY <2>4, <2>5
<1>3. ASSUME EscapeFromHome PROVE PinnedAsDue'
  <2>1. UNCHANGED <<call, watching, autoHide>>
    BY <1>3, <1>d, PlainSteps DEF screenVars
  <2> QED
    BY <1>3, <1>b, <1>c, <2>1, EscapeAdds DEF Unpinned
<1>4. ASSUME Stop PROVE PinnedAsDue'
  <2>1. Unpinned'
    BY <1>4, StopIs DEF Unpinned
  <2> QED
    BY <1>4, <1>a, <1>e, <2>1, StopAdds
<1>5. ASSUME NEW k \in Calls, ShareScreen(k) PROVE FALSE
  <2>1. call' = [call EXCEPT ![k] = "entering"]
    BY <1>5, ShareScreenIs
  <2> QED
    BY <2>1 DEF NoneOpening, Opening, PanelTyped
<1>6. ASSUME NEW k \in Calls, PickerOpens(k) PROVE PinnedAsDue'
  <2>1. call' # [call EXCEPT ![k] = "picking"]
    BY DEF NoneOpening, Opening, PanelTyped
  <2>2. InFlight(k) /\ UNCHANGED watching
    BY <1>6 DEF PickerOpens, InFlight
  <2>3. Unpinned'
    BY <1>g, <2>2 DEF Unpinned
  <2> QED
    BY <1>6, <1>a, <1>f, <2>1, <2>3, PickerOpensIs
<1>7. ASSUME NEW k \in Calls, StartReturns(k) PROVE PinnedAsDue'
  <2>1. NoneOpening
    BY <1>7 DEF StartReturns, PanelTyped, NoneOpening, Opening
  <2>2. UNCHANGED <<invoked, autoHide, watching>>
    BY <1>7, <1>d DEF StartReturns
  <2> QED
    BY <1>1, <2>1, <2>2, Zenon DEF PinnedAsDue, Unpinned
<1>8. ASSUME NEW k \in Calls, NEW st \in {"sharing", "idle", "error"}, PickerCloses(k, st)
      PROVE  PinnedAsDue'
  <2>1. InFlight(k) /\ UNCHANGED watching
    BY <1>8 DEF PickerCloses, InFlight
  <2>2. Unpinned'
    BY <1>g, <2>1 DEF Unpinned
  <2> QED
    BY <1>8, <1>a, <1>f, <2>2, PickerClosesAdds
<1>9. ASSUME NEW st \in {"sharing", "idle", "error"}, ShareChanges(st) PROVE PinnedAsDue'
  <2>1. UNCHANGED <<call, watching, autoHide>>
    BY <1>9, <1>d DEF ShareChanges
  <2> QED
    BY <1>9, <1>b, <1>c, <2>1, ShareChangesAdds DEF Unpinned
<1>10. ASSUME NEW st \in {"lobby"} \union Live, WatchChanges(st) PROVE PinnedAsDue'
  <2>1. watching' = st
    BY <1>10 DEF WatchChanges
  <2>2. (st \notin Live) \in BOOLEAN
    OBVIOUS
  <2>3. AutoHide(st \notin Live) \in Hiders /\ Hides(AutoHide(st \notin Live)) = (st \notin Live)
    BY <2>2, Kinds, HidesIs
  <2> QED
    BY <1>10, <1>a, <2>1, <2>3, WatchChangesAdds DEF Unpinned
<1>11. ASSUME RunCommand PROVE PinnedAsDue'
  <2>1. /\ UNCHANGED <<call, watching>>
        /\ invoked # <<>> /\ invoked' = Tail(invoked) /\ invoked \in Seq(Commands)
    BY <1>11, RunIs DEF screenVars, PanelTyped
  <2>2. PinnedAsDue /\ (Unpinned' <=> Unpinned)
    BY <1>1, <1>c, <2>1 DEF Unpinned
  <2>3. /\ Free(invoked, Hiders) <=> Head(invoked) \notin Hiders /\ Free(invoked', Hiders)
        /\ \A c : LastOf(invoked, Hiders, c) <=>
             LastOf(invoked', Hiders, c) \/ (Free(invoked', Hiders) /\ c = Head(invoked) /\ c \in Hiders)
    BY <2>1, Ran
  <2>4. /\ Head(invoked) \in Hiders => autoHide' = Hides(Head(invoked))
        /\ Head(invoked) \notin Hiders => autoHide' = autoHide
    BY <1>11, RunHiders
  <2>5. CASE Free(invoked, Hiders) /\ (autoHide = TRUE <=> Unpinned)
    BY <2>2, <2>3, <2>4, <2>5 DEF PinnedAsDue
  <2>6. ASSUME NEW c \in Hiders, LastOf(invoked, Hiders, c), Hides(c) = TRUE <=> Unpinned PROVE PinnedAsDue'
    <3>1. CASE LastOf(invoked', Hiders, c)
      BY <2>2, <2>6, <3>1 DEF PinnedAsDue
    <3>2. CASE Free(invoked', Hiders) /\ c = Head(invoked)
      <4>1. autoHide' = Hides(c)
        BY <2>4, <2>6, <3>2
      <4> QED
        BY <2>2, <2>6, <3>2, <4>1 DEF PinnedAsDue
    <3> QED
      BY <2>3, <2>6, <3>1, <3>2
  <2> QED
    BY <2>2, <2>5, <2>6 DEF PinnedAsDue
<1>12. ASSUME FocusLost \/ UserShowsOrHides PROVE PinnedAsDue'
  <2>1. UNCHANGED <<call, watching, invoked, autoHide>>
    BY <1>12, PlainSteps DEF screenVars
  <2> QED
    BY <1>1, <1>c, <2>1, Zenon DEF PinnedAsDue, Unpinned
<1> QED
  BY <1>2, <1>3, <1>4, <1>5, <1>6, <1>7, <1>8, <1>9, <1>10, <1>11, <1>12, Zenon DEF TPNext
\* What the icon is to say.
ToldAsDue ==
  \/ \E c \in Trays : LastOf(invoked, Trays, c) /\ (c.arg = "sharing" <=> sharing = "sharing")
  \/ Free(invoked, Trays) /\ (tray = "sharing" <=> sharing = "sharing")

LEMMA TellStep ==
  ASSUME PanelTyped, ApartInv, TellInv, TPNext
  PROVE  TellInv'
<1> SUFFICES ASSUME Tellable' PROVE (screen' = "watch" => sharing' # "sharing") /\ ToldAsDue'
  BY Zenon DEF TellInv, ToldAsDue
<1>1. (screen = "watch" => sharing # "sharing") /\ ToldAsDue
  BY MishapsStay, SparedBefore, Zenon DEF Tellable, TellInv, ToldAsDue
<1>d. shellVars' = shellVars => UNCHANGED tray
  BY DEF shellVars
<1>a. ASSUME NEW c \in Trays, \E xs : Adds(xs) /\ LastOf(xs, Trays, c), c.arg = "sharing" <=> sharing' = "sharing"
      PROVE  ToldAsDue'
  BY <1>a, TraysAdds DEF ToldAsDue
<1>b. ASSUME \E xs : Adds(xs) /\ Free(xs, Trays), UNCHANGED tray, sharing' = "sharing" <=> sharing = "sharing"
      PROVE  ToldAsDue'
  <2>1. PICK xs : Adds(xs) /\ Free(xs, Trays)
    BY <1>b
  <2>2. CASE Free(invoked, Trays) /\ (tray = "sharing" <=> sharing = "sharing")
    BY <1>b, <2>1, <2>2, TraysAdds DEF ToldAsDue
  <2>3. ASSUME NEW c \in Trays, LastOf(invoked, Trays, c), c.arg = "sharing" <=> sharing = "sharing"
        PROVE  ToldAsDue'
    BY <1>b, <2>1, <2>3, TraysAdds DEF ToldAsDue
  <2> QED
    BY <1>1, <2>2, <2>3 DEF ToldAsDue
<1>e. \A s \in {"idle", "sharing", "watching", "error"} : TrayStatus(s) \in Trays /\ TrayStatus(s).arg = s
  BY Kinds
<1>g. \A k \in Calls : InFlight(k) => screen # "watch"
  BY MishapsStay, SparedBefore, SparedFewer, Zenon DEF Tellable, ApartInv
<1>2. ASSUME NEW s, GoTo(s) PROVE (screen' = "watch" => sharing' # "sharing") /\ ToldAsDue'
  <2>1. screen' = s /\ sharing' = sharing /\ UNCHANGED shellVars /\ (s = "watch" => sharing # "sharing")
    BY <1>2, GoToIs
  <2>2. PICK xs : Adds(xs) /\ IF screen = "watch" THEN LastOf(xs, Trays, TrayStatus("idle")) ELSE Free(xs, Trays)
    BY <1>2, GoToAdds
  <2>3. CASE screen = "watch"
    BY <1>1, <1>a, <1>e, <2>1, <2>2, <2>3
  <2>4. CASE screen # "watch"
    BY <1>b, <1>d, <2>1, <2>2, <2>4
  <2> QED
    BY <2>1, <2>3, <2>4
<1>3. ASSUME EscapeFromHome PROVE (screen' = "watch" => sharing' # "sharing") /\ ToldAsDue'
  <2>1. UNCHANGED <<screen, sharing, tray>>
    BY <1>3, <1>d, PlainSteps DEF screenVars
  <2> QED
    BY <1>1, <1>3, <1>b, <2>1, EscapeAdds
<1>4. ASSUME Stop PROVE (screen' = "watch" => sharing' # "sharing") /\ ToldAsDue'
  <2>1. sharing' = "idle" /\ UNCHANGED tray
    BY <1>4, StopIs
  <2>2. PICK xs : Adds(xs) /\ IF sharing = "idle" THEN Free(xs, Trays) ELSE LastOf(xs, Trays, TrayStatus("idle"))
    BY <1>4, StopAdds
  <2>3. CASE sharing = "idle"
    BY <1>b, <2>1, <2>2, <2>3
  <2>4. CASE sharing # "idle"
    BY <1>a, <1>e, <2>1, <2>2, <2>4
  <2> QED
    BY <2>1, <2>3, <2>4
<1>5. ASSUME NEW k \in Calls, ShareScreen(k) PROVE (screen' = "watch" => sharing' # "sharing") /\ ToldAsDue'
  <2>1. screen' = "share" /\ sharing' = sharing /\ sharing # "sharing" /\ UNCHANGED tray
    BY <1>5, <1>d, ShareScreenIs
  <2>2. PICK xs : Adds(xs) /\ (Free(xs, Trays) \/ LastOf(xs, Trays, TrayStatus("idle")))
    BY <1>5, ShareScreenAdds
  <2>3. CASE Free(xs, Trays)
    BY <1>b, <2>1, <2>2, <2>3
  <2>4. CASE LastOf(xs, Trays, TrayStatus("idle"))
    BY <1>a, <1>e, <2>1, <2>2, <2>4
  <2> QED
    BY <2>1, <2>2, <2>3, <2>4
<1>6. ASSUME NEW k \in Calls, PickerOpens(k) PROVE (screen' = "watch" => sharing' # "sharing") /\ ToldAsDue'
  <2>1. sharing' = "sharing" <=> sharing = "sharing"
    BY <1>6 DEF PickerOpens
  <2>2. UNCHANGED <<screen, tray>>
    BY <1>6, <1>d DEF PickerOpens
  <2> QED
    BY <1>1, <1>6, <1>b, <2>1, <2>2, PickerOpensIs
<1>7. ASSUME NEW k \in Calls, StartReturns(k) PROVE (screen' = "watch" => sharing' # "sharing") /\ ToldAsDue'
  <2>1. UNCHANGED <<screen, sharing, invoked, tray>>
    BY <1>7, <1>d DEF StartReturns
  <2> QED
    BY <1>1, <2>1, Zenon DEF ToldAsDue
<1>8. ASSUME NEW k \in Calls, NEW st \in {"sharing", "idle", "error"}, PickerCloses(k, st)
      PROVE  (screen' = "watch" => sharing' # "sharing") /\ ToldAsDue'
  <2>1. InFlight(k) /\ screen' = screen /\ sharing' = st
    BY <1>8 DEF PickerCloses, InFlight
  <2> QED
    BY <1>8, <1>a, <1>e, <1>g, <2>1, PickerClosesAdds
<1>9. ASSUME NEW st \in {"sharing", "idle", "error"}, ShareChanges(st)
      PROVE  (screen' = "watch" => sharing' # "sharing") /\ ToldAsDue'
  <2>1. sharing = "sharing" /\ screen' = screen /\ sharing' = st
    BY <1>9 DEF ShareChanges
  <2> QED
    BY <1>1, <1>9, <1>a, <1>e, <2>1, ShareChangesAdds
<1>10. ASSUME NEW st \in {"lobby"} \union Live, WatchChanges(st)
       PROVE  (screen' = "watch" => sharing' # "sharing") /\ ToldAsDue'
  <2>1. screen = "watch" /\ UNCHANGED <<screen, sharing, tray>>
    BY <1>10, <1>d DEF WatchChanges, PanelTyped
  <2>2. PICK xs : Adds(xs) /\ (Free(xs, Trays) \/ LastOf(xs, Trays, TrayStatus("watching")))
    BY <1>10, WatchChangesAdds
  <2>3. CASE Free(xs, Trays)
    BY <1>1, <1>b, <2>1, <2>2, <2>3
  <2>4. ASSUME LastOf(xs, Trays, TrayStatus("watching")) PROVE ToldAsDue'
    <3>1. TrayStatus("watching") \in Trays /\ TrayStatus("watching").arg = "watching"
      BY <1>e
    <3>2. TrayStatus("watching").arg = "sharing" <=> sharing' = "sharing"
      BY <1>1, <2>1, <3>1
    <3> QED
      BY <1>a, <2>2, <2>4, <3>1, <3>2
  <2> QED
    BY <1>1, <2>1, <2>2, <2>3, <2>4
<1>11. ASSUME RunCommand PROVE (screen' = "watch" => sharing' # "sharing") /\ ToldAsDue'
  <2>1. /\ UNCHANGED <<screen, sharing>>
        /\ invoked # <<>> /\ invoked' = Tail(invoked) /\ invoked \in Seq(Commands)
    BY <1>11, RunIs DEF screenVars, PanelTyped
  <2>3. /\ Free(invoked, Trays) <=> Head(invoked) \notin Trays /\ Free(invoked', Trays)
        /\ \A c : LastOf(invoked, Trays, c) <=>
             LastOf(invoked', Trays, c) \/ (Free(invoked', Trays) /\ c = Head(invoked) /\ c \in Trays)
    BY <2>1, Ran
  <2>4. /\ Head(invoked) \in Trays => tray' = Head(invoked).arg
        /\ Head(invoked) \notin Trays => tray' = tray
    BY <1>11, RunTrays
  <2>5. CASE Free(invoked, Trays) /\ (tray = "sharing" <=> sharing = "sharing")
    BY <1>1, <2>1, <2>3, <2>4, <2>5 DEF ToldAsDue
  <2>6. ASSUME NEW c \in Trays, LastOf(invoked, Trays, c), c.arg = "sharing" <=> sharing = "sharing" PROVE ToldAsDue'
    <3>1. CASE LastOf(invoked', Trays, c)
      BY <2>1, <2>6, <3>1 DEF ToldAsDue
    <3>2. CASE Free(invoked', Trays) /\ c = Head(invoked)
      <4>1. tray' = c.arg
        BY <2>4, <2>6, <3>2
      <4> QED
        BY <2>1, <2>6, <3>2, <4>1 DEF ToldAsDue
    <3> QED
      BY <2>3, <2>6, <3>1, <3>2
  <2> QED
    BY <1>1, <2>1, <2>5, <2>6 DEF ToldAsDue
<1>12. ASSUME FocusLost \/ UserShowsOrHides PROVE (screen' = "watch" => sharing' # "sharing") /\ ToldAsDue'
  <2>1. UNCHANGED <<screen, sharing, invoked, tray>>
    BY <1>12, PlainSteps DEF screenVars
  <2> QED
    BY <1>1, <2>1, Zenon DEF ToldAsDue
<1> QED
  BY <1>2, <1>3, <1>4, <1>5, <1>6, <1>7, <1>8, <1>9, <1>10, <1>11, <1>12, Zenon DEF TPNext

LEMMA PanelHolds == TPSpec => []PanelInv
<1>1. TPInit => PanelInv
  BY FirstPanelInv
<1>2. PanelInv /\ [TPNext]_panelVars => PanelInv'
  <2>1. ASSUME PanelInv, TPNext PROVE PanelInv'
    BY <2>1, PanelTypedStep, GeometryStep, RoomStep, StayStep, ApartStep, PinStep, TellStep DEF PanelInv
  <2>2. ASSUME PanelInv, UNCHANGED panelVars PROVE PanelInv'
    <3>1. UNCHANGED <<screen, sharing, watching, call, invoked, autoHide, saved, size, panel, tray, happened>>
      BY <2>2, Zenon DEF panelVars, screenVars, shellVars
    <3>2. PanelTyped'
      BY <2>2, <3>1 DEF PanelInv, PanelTyped
    <3>3. /\ GeometryKnown' = GeometryKnown /\ OneAtATime' = OneAtATime
          /\ Undisturbed' = Undisturbed /\ Apart' = Apart /\ Pinnable' = Pinnable /\ Tellable' = Tellable
      BY <3>1, Zenon DEF Spared, GeometryKnown, OneAtATime, Undisturbed, Apart, Pinnable, Tellable
    <3>4. /\ NoneOpening' = NoneOpening
          /\ \A k \in Calls : Opening(k)' = Opening(k) /\ InFlight(k)' = InFlight(k)
      BY <3>1, Zenon DEF NoneOpening, Opening, InFlight
    <3>5. GeometryInv'
      BY <2>2, <3>1, <3>3, <3>4, Zenon DEF PanelInv, GeometryInv
    <3>6. \A k \in Calls : (HasRoom(k) => HasRoom(k)') /\ (Stays(k) => Stays(k)')
      BY <3>1, Zenon DEF HasRoom, Stays, Enters
    <3>7. RoomInv' /\ StayInv' /\ ApartInv'
      BY <2>2, <3>1, <3>3, <3>4, <3>6, Zenon DEF PanelInv, RoomInv, StayInv, ApartInv
    <3>8. PinInv' /\ TellInv'
      BY <2>2, <3>1, <3>3, <3>4, Zenon DEF PanelInv, PinInv, TellInv
    <3> QED
      BY <3>2, <3>5, <3>7, <3>8 DEF PanelInv
  <2> QED
    BY <2>1, <2>2
<1> QED
  BY <1>1, <1>2, PTL DEF TPSpec
-----------------------------------------------------------------------------
MishapsKnown == happened \subseteq MishapKinds

\* The panel's state has its type: at most what may befall is recorded.
THEOREM PanelTypeCorrect == TPSpec => []TPTypeOK
<1>1. TPInit => MishapsKnown
  BY Zenon DEF TPInit, MishapsKnown
<1>2. MishapsKnown /\ [TPNext]_panelVars => MishapsKnown'
  <2>1. ASSUME NEW ms, Befalls(ms), happened \subseteq MishapKinds PROVE happened' \subseteq MishapKinds
    BY <2>1, Zenon DEF Befalls
  <2>2. ASSUME SetPickerMode(TRUE) \/ SetPickerMode(FALSE), happened \subseteq MishapKinds
        PROVE  happened' \subseteq MishapKinds
    BY <2>1, <2>2, Zenon DEF SetPickerMode, EnterPickerMode, LeavePickerMode
  <2> SUFFICES ASSUME happened \subseteq MishapKinds, [TPNext]_panelVars PROVE happened' \subseteq MishapKinds
    BY Zenon DEF MishapsKnown
  <2> QED
    BY <2>1, <2>2, Zenon DEF TPNext, GoTo, EscapeFromHome, Stop, ShareScreen, PickerOpens, StartReturns,
       PickerCloses, ShareChanges, WatchChanges, RunCommand, FocusLost, UserShowsOrHides, SetPickerMode,
       EnterPickerMode, LeavePickerMode, panelVars
<1>3. TPSpec => []PanelInv
  BY PanelHolds
<1>4. PanelInv /\ MishapsKnown => TPTypeOK
  BY DEF MishapsKnown, PanelInv, PanelTyped, TPTypeOK
<1> QED
  BY <1>1, <1>2, <1>3, <1>4, PTL DEF TPSpec

LEMMA NothingLeft ==
  ASSUME Settled
  PROVE  invoked = <<>> /\ NoneOpening
BY Zenon DEF Settled, NoneOpening, Opening, InFlight

\* However many starts were cancelled, failed or came on top of another, and in
\* whatever order the shell ran what they asked for, the window ends at the
\* panel's size (use-sharing's start, enter_picker_mode, leave_picker_mode).
THEOREM WindowGoesBack == TPSpec => []GeometryComesBack
<1>1. ASSUME PanelInv, Settled, GeometryKnown PROVE size = "panel" /\ saved = "none"
  <2>1. invoked = <<>> /\ Shrinks(invoked, saved)
    BY <1>1, NothingLeft DEF PanelInv, GeometryInv
  <2>2. saved = "none"
    BY <2>1, ShortQueues DEF Shrinks
  <2> QED
    BY <1>1, <2>2 DEF PanelInv, PanelTyped, GeometryInv
<1>2. PanelInv => GeometryComesBack
  BY <1>1, Zenon DEF GeometryComesBack, GeometryKnown
<1> QED
  BY <1>2, PanelHolds, PTL

\* An open picker has the room it needs, and no click elsewhere takes it away
\* (set_picker_mode pins before it grows; nothing unpins until it is over).
THEOREM OpenPickerIsUsable == TPSpec => []PickerIsUsable
<1>1. ASSUME PanelInv, NEW k \in Calls, call[k] = "picking", OneAtATime
      PROVE  size = "picker" /\ (Undisturbed => panel # "vanished")
  <2>1. Opening(k)
    BY <1>1 DEF Opening
  <2>2. HasRoom(k) /\ (Undisturbed => Stays(k))
    BY <1>1, <2>1, Zenon DEF PanelInv, RoomInv, StayInv
  <2>3. size = "picker"
    BY <1>1, <2>2 DEF HasRoom
  <2>4. Undisturbed => panel # "vanished"
    BY <1>1, <2>2 DEF Stays
  <2> QED
    BY <2>3, <2>4
<1>2. PanelInv => PickerIsUsable
  BY <1>1, Zenon DEF PickerIsUsable, OneAtATime, Undisturbed
<1> QED
  BY <1>2, PanelHolds, PTL

\* Once every command has been run, a click elsewhere closes the panel exactly
\* when there is no picture in it (WatchScreen's effects, the end of start()).
THEOREM PictureKeepsThePanel == TPSpec => []PinnedWhileWatching
<1>1. ASSUME PanelInv, Settled, Pinnable PROVE autoHide <=> watching \notin Live
  <2>1. invoked = <<>> /\ NoneOpening /\ autoHide \in BOOLEAN
    BY <1>1, NothingLeft DEF PanelInv, PanelTyped
  <2>2. autoHide = TRUE <=> watching \notin Live
    BY <1>1, <2>1, ShortQueues DEF PanelInv, PinInv
  <2> QED
    BY <2>1, <2>2
<1>2. PanelInv => PinnedWhileWatching
  BY <1>1, Zenon DEF PinnedWhileWatching, Pinnable
<1> QED
  BY <1>2, PanelHolds, PTL

\* Once every command has been run, the icon says that a share is running
\* exactly when one is (use-sharing's effect, set_tray_status).
THEOREM TrayIsTruthful == TPSpec => []TrayTellsOfTheShare
<1>1. ASSUME PanelInv, invoked = <<>>, Tellable PROVE tray = "sharing" <=> sharing = "sharing"
  BY <1>1, ShortQueues DEF PanelInv, TellInv
<1>2. PanelInv => TrayTellsOfTheShare
  BY <1>1, Zenon DEF TrayTellsOfTheShare, Tellable
<1> QED
  BY <1>2, PanelHolds, PTL
-----------------------------------------------------------------------------
(***************************************************************************)
(* The desktop's signaling client, for any number of sockets, timers,      *)
(* attempts and calls.  Its types hold whatever connect() is called for;   *)
(* its order holds until a call is Untimely.                               *)
(***************************************************************************)
FieldTypes ==
  /\ state \in States
  /\ socket \in Sockets \union {None}
  /\ attempt \in Nat
  /\ timer \in Timers \union {None}
  /\ shuttingDown \in BOOLEAN
  /\ phase \in [Sockets -> Phases]
  /\ pending \subseteq Timers
  /\ connects \in 0 .. MaxConnects
  /\ happened \subseteq MishapKinds

(***************************************************************************)
(* What each event needs of the others: a socket is closing only when the  *)
(* client shuts down, so that no late onclose schedules anything; while it *)
(* shuts down it is idle; the timer is remembered as long as it is         *)
(* pending.                                                                *)
(***************************************************************************)
Quiet ==
  /\ shuttingDown => state = "idle" /\ socket = None
  /\ ~shuttingDown => ClosingSockets = {}
  /\ pending = {timer} \ {None}

Timely == Spared(Untimely)
Orderly == Quiet /\ OneConnection /\ ConnectedCanSend /\ OneWayBack
ClientInv == FieldTypes /\ (Timely => Orderly)

LEMMA ClientInvInit == SCInit => ClientInv
<1> SUFFICES ASSUME SCInit PROVE ClientInv
  OBVIOUS
<1> USE NoneAssumption, AttemptsAssumption DEF SCInit
<1>1. LiveSockets = {} /\ ClosingSockets = {}
  BY DEF LiveSockets, ClosingSockets
<1>2. FieldTypes
  <2>1. shuttingDown \in BOOLEAN
    OBVIOUS
  <2> QED
    BY <2>1 DEF FieldTypes, States, Phases
<1>3. Orderly
  BY <1>1 DEF Orderly, Quiet, OneConnection, ConnectedCanSend, OneWayBack
<1> QED
  BY <1>2, <1>3 DEF ClientInv

\* connect(), but for the record of mishaps.
ConnectFrame(k) ==
  /\ state \notin {"connected", "connecting"}
  /\ connects < MaxConnects /\ connects' = connects + 1
  /\ shuttingDown' = FALSE
  /\ OpenSocket(k)
  /\ UNCHANGED <<attempt, timer, pending>>

LEMMA ConnectIs == ASSUME NEW k, Connect(k) PROVE ConnectFrame(k)
BY Zenon DEF Connect, ConnectFrame

\* The types do not depend on the order of the calls.
LEMMA FieldTypesStep == FieldTypes /\ [SCNext]_scVars => FieldTypes'
<1> SUFFICES ASSUME FieldTypes, [SCNext]_scVars PROVE FieldTypes'
  OBVIOUS
<1> USE NoneAssumption, AttemptsAssumption DEF FieldTypes
<1>0. ASSUME NEW t \in Timers, ScheduleReconnect(t)
      PROVE  /\ attempt' \in Nat /\ state' \in States
             /\ timer' \in Timers \union {None} /\ pending' \subseteq Timers
  BY <1>0 DEF ScheduleReconnect, States
<1>1. ASSUME NEW k \in Sockets, OpenSocket(k)
      PROVE  /\ phase' \in [Sockets -> Phases] /\ socket' \in Sockets \union {None}
             /\ state' \in States
  BY <1>1 DEF OpenSocket, States, Phases
<1>2. CASE UNCHANGED scVars
  BY <1>2 DEF scVars, fields, runtime
<1>3. CASE Close
  BY <1>3 DEF Close, States, Phases
<1>4. ASSUME NEW k \in Sockets, Connect(k) PROVE FieldTypes'
  <2>1. happened' \subseteq MishapKinds
    BY <1>4, Zenon DEF Connect, Befalls
  <2>2. ConnectFrame(k)
    BY <1>4, ConnectIs
  <2>3. connects' \in 0 .. MaxConnects
    BY <2>2 DEF ConnectFrame
  <2>4. /\ shuttingDown' \in BOOLEAN /\ attempt' \in Nat
        /\ timer' \in Timers \union {None} /\ pending' \subseteq Timers
    BY <2>2 DEF ConnectFrame
  <2>5. OpenSocket(k)
    BY <2>2 DEF ConnectFrame
  <2> QED
    BY <1>1, <2>1, <2>3, <2>4, <2>5
<1>5. ASSUME NEW k \in Sockets, OnOpen(k) PROVE FieldTypes'
  BY <1>5 DEF OnOpen, States, Phases
<1>6. ASSUME NEW k \in Sockets, NEW t \in Timers, OnClose(k, t) PROVE FieldTypes'
  <2>1. /\ phase' \in [Sockets -> Phases] /\ socket' = None
        /\ UNCHANGED <<shuttingDown, connects, happened>>
    BY <1>6 DEF OnClose, Phases
  <2>2. /\ attempt' \in Nat /\ state' \in States
        /\ timer' \in Timers \union {None} /\ pending' \subseteq Timers
    BY <1>0, <1>6 DEF OnClose
  <2> QED
    BY <2>1, <2>2
<1>7. ASSUME NEW k \in Sockets, NEW t \in Timers, TimerFires(t, k) PROVE FieldTypes'
  BY <1>1, <1>7 DEF TimerFires
<1> QED
  BY <1>2, <1>3, <1>4, <1>5, <1>6, <1>7 DEF SCNext

(***************************************************************************)
(* An Untimely call stays on the record, and a call that is not finds no   *)
(* socket closing and no reconnection under way.                           *)
(***************************************************************************)
LEMMA TimelyBefore ==
  ASSUME [SCNext]_scVars, Timely'
  PROVE  Timely
<1>1. happened \subseteq happened'
  BY Zenon DEF SCNext, Connect, Close, OnOpen, OnClose, TimerFires, Befalls, scVars
<1> QED
  BY <1>1, Zenon DEF Timely, Spared

LEMMA TimelyConnect ==
  ASSUME NEW k \in Sockets, Connect(k), Timely'
  PROVE  ClosingSockets = {} /\ state # "reconnecting"
<1>1. ASSUME NEW p, NEW q, NEW m, NEW n, m \in Untimely, n \in Untimely,
             Befalls(OnlyIf(p, m) \union OnlyIf(q, n))
      PROVE  ~p /\ ~q
  BY <1>1, Zenon DEF Timely, Spared, Befalls, OnlyIf
<1>2. "connect while closing" \in Untimely /\ "connect while reconnecting" \in Untimely
  BY Zenon DEF Untimely
<1>3. ~(ClosingSockets # {}) /\ ~(state = "reconnecting")
  BY <1>1, <1>2, Zenon DEF Connect
<1> QED
  BY <1>3

(***************************************************************************)
(* A new socket, opened while there is none and no timer is pending.       *)
(***************************************************************************)
LEMMA OpenSocketIsTheOne ==
  ASSUME FieldTypes, LiveSockets = {}, NEW k \in Sockets, OpenSocket(k)
  PROVE  /\ LiveSockets' = {k} /\ socket' = k /\ phase'[k] = "connecting"
         /\ state' \in {"connecting", "reconnecting"}
         /\ ClosingSockets' \subseteq ClosingSockets
BY DEF FieldTypes, OpenSocket, LiveSockets, ClosingSockets, Phases

LEMMA ConnectKeeps ==
  ASSUME FieldTypes, Orderly, Timely, NEW k \in Sockets, Connect(k), Timely'
  PROVE  Orderly'
<1> USE NoneAssumption, AttemptsAssumption
<1>1. state \in {"idle", "failed"} /\ ClosingSockets = {}
  BY TimelyConnect, ConnectIs DEF ConnectFrame, FieldTypes, States
<1>2. LiveSockets = {} /\ pending = {}
  BY <1>1 DEF Orderly, OneWayBack, Timely
<1>3. OpenSocket(k) /\ ~shuttingDown' /\ UNCHANGED <<timer, pending>>
  BY ConnectIs DEF ConnectFrame
<1>4. /\ LiveSockets' = {k} /\ socket' = k /\ phase'[k] = "connecting"
      /\ state' \in {"connecting", "reconnecting"} /\ ClosingSockets' = {}
  BY <1>1, <1>2, <1>3, OpenSocketIsTheOne
<1>5. Quiet'
  BY <1>3, <1>4 DEF Orderly, Quiet
<1>6. OneConnection' /\ ConnectedCanSend' /\ OneWayBack'
  BY <1>2, <1>3, <1>4 DEF OneConnection, ConnectedCanSend, OneWayBack
<1> QED
  BY <1>5, <1>6 DEF Orderly

LEMMA CloseKeeps ==
  ASSUME FieldTypes, Orderly, Timely, Close
  PROVE  Orderly'
<1> USE NoneAssumption, AttemptsAssumption
<1>1. LiveSockets' = {} /\ pending' = {} /\ socket' = None /\ state' = "idle"
  BY DEF FieldTypes, Orderly, Quiet, OneConnection, Timely, LiveSockets, Close
<1>2. Quiet'
  BY <1>1 DEF Quiet, Close
<1>3. OneConnection' /\ ConnectedCanSend' /\ OneWayBack'
  BY <1>1 DEF OneConnection, ConnectedCanSend, OneWayBack
<1> QED
  BY <1>2, <1>3 DEF Orderly

LEMMA OnOpenKeeps ==
  ASSUME FieldTypes, Orderly, Timely, NEW k \in Sockets, OnOpen(k)
  PROVE  Orderly'
<1> USE NoneAssumption, AttemptsAssumption
<1>1. k \in LiveSockets /\ socket = k /\ ~shuttingDown
  BY DEF FieldTypes, Orderly, Quiet, OneConnection, Timely, LiveSockets, OnOpen
<1>2. LiveSockets = {k} /\ pending = {}
  BY <1>1 DEF Orderly, OneConnection, OneWayBack, Timely
<1>3. LiveSockets' = {k} /\ phase'[k] = "open" /\ ClosingSockets' = ClosingSockets
  BY <1>2 DEF FieldTypes, LiveSockets, ClosingSockets, OnOpen
<1>4. Quiet'
  BY <1>1, <1>3 DEF Orderly, Quiet, OnOpen
<1>5. OneConnection' /\ ConnectedCanSend' /\ OneWayBack'
  BY <1>1, <1>2, <1>3 DEF OneConnection, ConnectedCanSend, OneWayBack, OnOpen
<1> QED
  BY <1>4, <1>5 DEF Orderly

(***************************************************************************)
(* A late onclose finds the client shutting down and changes nothing but   *)
(* the socket's phase; any other is the current socket's.                  *)
(***************************************************************************)
LEMMA OnCloseKeeps ==
  ASSUME FieldTypes, Orderly, Timely, NEW k \in Sockets, NEW t \in Timers, OnClose(k, t)
  PROVE  Orderly'
<1> USE NoneAssumption, AttemptsAssumption
<1>1. /\ socket' = None /\ LiveSockets' = LiveSockets \ {k}
      /\ ClosingSockets' \subseteq ClosingSockets
  BY DEF FieldTypes, OnClose, LiveSockets, ClosingSockets, Phases
<1>2. None \notin LiveSockets'
  BY DEF LiveSockets
<1>3. CASE shuttingDown
  <2>1. LiveSockets = {} /\ pending = {} /\ state = "idle"
    BY <1>3 DEF Orderly, Quiet, OneWayBack, Timely
  <2>2. UNCHANGED <<state, timer, pending, shuttingDown>>
    BY <1>3 DEF OnClose
  <2>3. Quiet'
    BY <1>1, <1>3, <2>1, <2>2 DEF Orderly, Quiet
  <2>4. OneConnection' /\ ConnectedCanSend' /\ OneWayBack'
    BY <1>1, <1>2, <2>1, <2>2 DEF OneConnection, ConnectedCanSend, OneWayBack
  <2> QED
    BY <2>3, <2>4 DEF Orderly
<1>4. CASE ~shuttingDown
  <2>1. k \in LiveSockets /\ socket = k
    BY <1>4 DEF FieldTypes, Orderly, Quiet, OneConnection, Timely, LiveSockets, ClosingSockets,
                OnClose, Phases
  <2>2. LiveSockets' = {} /\ pending = {}
    BY <1>1, <2>1 DEF Orderly, OneConnection, OneWayBack, Timely
  <2>3. timer = None
    BY <2>2 DEF FieldTypes, Orderly, Quiet
  <2>4. ScheduleReconnect(t) /\ UNCHANGED shuttingDown
    BY <1>4 DEF OnClose
  <2>5. ClosingSockets' = {}
    BY <1>1, <1>4 DEF Orderly, Quiet
  <2>6. CASE attempt' > MaxAttempts
    <3>1. state' = "failed" /\ timer' = None /\ pending' = {}
      BY <2>2, <2>3, <2>4, <2>6 DEF ScheduleReconnect
    <3>2. Quiet'
      BY <1>4, <2>4, <2>5, <3>1 DEF Quiet
    <3>3. OneConnection' /\ ConnectedCanSend' /\ OneWayBack'
      BY <2>2, <3>1 DEF OneConnection, ConnectedCanSend, OneWayBack
    <3> QED
      BY <3>2, <3>3 DEF Orderly
  <2>7. CASE ~(attempt' > MaxAttempts)
    <3>1. state' = "reconnecting" /\ timer' = t /\ pending' = {t}
      BY <2>2, <2>4, <2>7 DEF ScheduleReconnect
    <3>2. Quiet'
      BY <1>4, <2>4, <2>5, <3>1 DEF Quiet
    <3>3. OneConnection' /\ ConnectedCanSend' /\ OneWayBack'
      BY <1>1, <2>2, <3>1 DEF OneConnection, ConnectedCanSend, OneWayBack
    <3> QED
      BY <3>2, <3>3 DEF Orderly
  <2> QED
    BY <2>6, <2>7
<1> QED
  BY <1>3, <1>4

LEMMA TimerFiresKeeps ==
  ASSUME FieldTypes, Orderly, Timely, NEW t \in Timers, NEW k \in Sockets, TimerFires(t, k)
  PROVE  Orderly'
<1> USE NoneAssumption, AttemptsAssumption
<1>1. t \in pending /\ timer = t /\ state = "reconnecting" /\ socket = None
  BY DEF FieldTypes, Orderly, Quiet, OneWayBack, Timely, TimerFires
<1>2. LiveSockets = {} /\ ~shuttingDown /\ ClosingSockets = {}
  BY <1>1 DEF Orderly, Quiet, OneConnection, Timely, LiveSockets
<1>3. OpenSocket(k) /\ UNCHANGED shuttingDown
  BY DEF TimerFires
<1>4. /\ LiveSockets' = {k} /\ socket' = k /\ phase'[k] = "connecting"
      /\ state' \in {"connecting", "reconnecting"} /\ ClosingSockets' = {}
  BY <1>2, <1>3, OpenSocketIsTheOne
<1>5. pending' = {} /\ timer' = None
  BY <1>1 DEF FieldTypes, Orderly, Quiet, TimerFires
<1>6. Quiet'
  BY <1>2, <1>3, <1>4, <1>5 DEF Quiet
<1>7. OneConnection' /\ ConnectedCanSend' /\ OneWayBack'
  BY <1>4, <1>5 DEF OneConnection, ConnectedCanSend, OneWayBack
<1> QED
  BY <1>6, <1>7 DEF Orderly

LEMMA ClientInvStep == ClientInv /\ [SCNext]_scVars => ClientInv'
<1> SUFFICES ASSUME ClientInv, [SCNext]_scVars PROVE ClientInv'
  OBVIOUS
<1>1. FieldTypes /\ FieldTypes'
  BY FieldTypesStep DEF ClientInv
<1>2. ASSUME Timely' PROVE Orderly'
  <2>1. Timely /\ Orderly
    BY <1>2, TimelyBefore DEF ClientInv
  <2>2. CASE UNCHANGED scVars
    BY <2>1, <2>2 DEF scVars, fields, runtime, Orderly, Quiet, OneConnection, ConnectedCanSend,
                      OneWayBack, Timely, Spared, LiveSockets, ClosingSockets
  <2>3. CASE SCNext
    BY <1>1, <1>2, <2>1, <2>3, ConnectKeeps, CloseKeeps, OnOpenKeeps, OnCloseKeeps, TimerFiresKeeps
       DEF SCNext
  <2> QED
    BY <2>2, <2>3
<1> QED
  BY <1>1, <1>2 DEF ClientInv

LEMMA ClientInvHolds == SCSpec => []ClientInv
BY ClientInvInit, ClientInvStep, PTL DEF SCSpec

(***************************************************************************)
(* The client's fields keep their types, whenever connect() is called      *)
(* (SignalingClient).                                                      *)
(***************************************************************************)
THEOREM SCTypeCorrect == SCSpec => []SCTypeOK
<1>1. ClientInv => SCTypeOK
  BY DEF ClientInv, FieldTypes, SCTypeOK
<1> QED
  BY <1>1, ClientInvHolds, PTL

(***************************************************************************)
(* Every socket that connects or is open is the current one, whatever      *)
(* events, timers and calls come in whatever order, as long as no call of  *)
(* connect() is Untimely (#open, onclose, close).                          *)
(***************************************************************************)
THEOREM OneConnectionHolds == SCSpec => []OneConnection
<1>1. ClientInv => OneConnection
  BY DEF ClientInv, Orderly, Timely, OneConnection
<1> QED
  BY <1>1, ClientInvHolds, PTL

(***************************************************************************)
(* The state shown is "connected" exactly when send() reaches an open      *)
(* socket, as long as no call of connect() is Untimely (#setState, send).  *)
(***************************************************************************)
THEOREM ConnectedIsTrue == SCSpec => []ConnectedCanSend
<1>1. ClientInv => ConnectedCanSend
  BY DEF ClientInv, Orderly, Timely, ConnectedCanSend
<1> QED
  BY <1>1, ClientInvHolds, PTL

(***************************************************************************)
(* At most one reconnection is on its way, it is the one close() would     *)
(* clear, and an idle or failed client has none, as long as no call of     *)
(* connect() is Untimely (#scheduleReconnect, close).                      *)
(***************************************************************************)
THEOREM OneWayBackHolds == SCSpec => []OneWayBack
<1>1. ClientInv => OneWayBack
  BY DEF ClientInv, Orderly, Timely, OneWayBack
<1> QED
  BY <1>1, ClientInvHolds, PTL
=============================================================================
