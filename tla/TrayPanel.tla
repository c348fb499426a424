----------------------------- MODULE TrayPanel -----------------------------
(***************************************************************************)
(* The popover at the tray: the window and the tray icon of the Rust shell *)
(* (src-tauri/src/lib.rs, popover.rs, tray.rs), the screens that drive     *)
(* them (App.tsx, hooks/use-sharing.ts, WatchScreen.tsx), and the queue of *)
(* invoked commands between the two (services/panel.ts, tray-status.ts),   *)
(* which the main thread runs in order.  What the two managers do is       *)
(* reduced to the states that the screens react to.                        *)
(***************************************************************************)
EXTENDS Mishaps, Sequences

CONSTANTS
  MaxStarts,   \* bound: calls of the hook's start()
  MaxInvoked   \* bound: commands in the queue when the user acts

VARIABLES
  screen,      \* which screen is shown
  sharing,     \* SharingManager's state
  watching,    \* ViewingManager's state, as far as WatchScreen reacts to it
  call,        \* start() call of use-sharing -> where it stands
  invoked,     \* commands not run yet
  autoHide,    \* AutoHide
  saved,       \* PanelGeometry: "none", or the size to go back to
  size,        \* of the window: the panel's or the picker's
  panel,       \* is it on screen, hidden by the user, or gone at a click elsewhere
  tray         \* what the icon says

screenVars == <<screen, sharing, watching, call>>
shellVars == <<autoHide, saved, size, panel, tray>>
panelVars == <<screenVars, invoked, shellVars, happened>>

Calls == 1 .. MaxStarts
Live == {"connected", "reconnecting"}
\* A command; start() call `of` awaits its reply.
AutoHide(on) == [cmd |-> "auto-hide", arg |-> on, of |-> 0]
PickerMode(k, on) == [cmd |-> "picker-mode", arg |-> on, of |-> k]
TrayStatus(s) == [cmd |-> "tray", arg |-> s, of |-> 0]
HidePanel == [cmd |-> "hide", arg |-> TRUE, of |-> 0]
Answered(k) == \A i \in DOMAIN invoked : invoked[i].of # k

TPTypeOK ==
  /\ screen \in {"home", "share", "watch", "quality", "diagnostics"}
  /\ sharing \in {"idle", "starting", "sharing", "error"}
  /\ watching \in {"away", "lobby"} \union Live
  /\ screen = "watch" <=> watching # "away"
  /\ call \in [Calls -> {"none", "entering", "picking", "leaving", "done"}]
  /\ autoHide \in BOOLEAN
  /\ saved \in {"none", "panel", "picker"} /\ size \in {"panel", "picker"}
  /\ panel \in {"shown", "hidden", "vanished"}
  /\ tray \in {"idle", "sharing", "watching", "error"}
  /\ happened \subseteq MishapKinds

TPInit ==
  /\ screen = "home" /\ sharing = "idle" /\ watching = "away"
  /\ call = [k \in Calls |-> "none"]
  /\ invoked = <<>>
  /\ autoHide = TRUE /\ saved = "none" /\ size = "panel"
  /\ panel = "hidden" /\ tray = "idle"
  /\ happened = {}

Room == Len(invoked) <= MaxInvoked
InFlight(k) == call[k] \notin {"none", "done"}
Opening(k) == call[k] \in {"entering", "picking"}
-----------------------------------------------------------------------------
(***************************************************************************)
(* What effects invoke.  Effects of one commit run one after the other.    *)
(***************************************************************************)
\* Faulty variant: the end of a share is no news for the tray.
SharingEffectLiveOnly(state) ==
  IF state \in {"sharing", "error"} THEN <<TrayStatus(state)>> ELSE <<>>

\* use-sharing, when the manager's snapshot changes to this state.
SharingEffect(state) == IF state = "starting" THEN <<>> ELSE <<TrayStatus(state)>>

\* Faulty variant: only "connected" pins the panel.
WatchEffectConnectedOnly(state) ==
  <<AutoHide(state # "connected")>> \o
  IF state = "connected" THEN <<TrayStatus("watching")>> ELSE <<>>

\* WatchScreen, when mounted or when the viewing manager changes to this state.
WatchEffect(state) ==
  <<AutoHide(state \notin Live)>> \o
  IF state = "connected" THEN <<TrayStatus("watching")>> ELSE <<>>

\* WatchScreen, when it is left.
WatchCleanup == IF screen = "watch" THEN <<AutoHide(TRUE), TrayStatus("idle")>> ELSE <<>>

GoTo(s) ==
  /\ Room /\ s # screen /\ panel = "shown"
  /\ screen' = s
  /\ watching' = IF s = "watch" THEN "lobby" ELSE "away"
  /\ invoked' = invoked \o WatchCleanup \o IF s = "watch" THEN WatchEffect("lobby") ELSE <<>>
  /\ Befalls(OnlyIf(s = "watch" /\ \E k \in Calls : InFlight(k), "watch during start")
             \union OnlyIf(s = "watch" /\ sharing = "sharing", "watch while sharing"))
  /\ UNCHANGED <<sharing, call, shellVars>>

\* Escape on the first screen.
EscapeFromHome ==
  /\ Room /\ screen = "home" /\ panel = "shown"
  /\ invoked' = Append(invoked, HidePanel)
  /\ UNCHANGED <<screenVars, shellVars, happened>>

(***************************************************************************)
(* "Compartilhar", Ctrl+S or "Tentar de novo": start() up to the reply of  *)
(* set_picker_mode, while React leaves the old screen.  Which of the two   *)
(* invokes first is up to the microtasks.                                  *)
(***************************************************************************)
ShareScreen(k) ==
  /\ Room /\ panel = "shown" /\ sharing # "sharing"
  /\ call[k] = "none" /\ \A j \in 1 .. k - 1 : call[j] # "none"
  /\ screen' = "share" /\ watching' = "away"
  /\ call' = [call EXCEPT ![k] = "entering"]
  /\ invoked' \in {invoked \o WatchCleanup \o <<PickerMode(k, TRUE)>>,
                   invoked \o <<PickerMode(k, TRUE)>> \o WatchCleanup}
  /\ Befalls(OnlyIf(\E j \in Calls : Opening(j), "second start")
             \union OnlyIf(screen = "watch", "start from watch"))
  /\ UNCHANGED <<sharing, shellVars>>

\* Ctrl+S while live only changes the screen: a GoTo("share").

\* set_picker_mode has answered: the manager's start() opens the picker, or returns at once.
PickerOpens(k) ==
  /\ call[k] = "entering" /\ Answered(k)
  /\ IF sharing \in {"idle", "error"}
     THEN /\ call' = [call EXCEPT ![k] = "picking"]
          /\ sharing' = "starting"
          /\ invoked' = invoked \o SharingEffect("starting")
     ELSE /\ call' = [call EXCEPT ![k] = "leaving"]
          /\ invoked' = Append(invoked, PickerMode(k, FALSE))
          /\ UNCHANGED sharing
  /\ UNCHANGED <<screen, watching, shellVars, happened>>

(***************************************************************************)
(* The manager's start() is over, `finally` takes the window back.  The    *)
(* picker and, once a source is chosen, the wait for room-created are one  *)
(* wait here: between the two only the manager's own fields change, and    *)
(* neither the screens nor the shell tell the one from the other.          *)
(***************************************************************************)
PickerCloses(k, state) ==
  /\ call[k] = "picking"
  /\ sharing' = state
  /\ call' = [call EXCEPT ![k] = "leaving"]
  /\ invoked' = invoked \o SharingEffect(state) \o <<PickerMode(k, FALSE)>>
  /\ UNCHANGED <<screen, watching, shellVars, happened>>

StartReturns(k) ==
  /\ call[k] = "leaving" /\ Answered(k)
  /\ call' = [call EXCEPT ![k] = "done"]
  /\ UNCHANGED <<screen, sharing, watching, invoked, shellVars, happened>>

\* The hook's stop(): Ctrl+., a button, or the tray's menu, which shows the panel first.
Stop ==
  /\ Room
  /\ panel' \in {panel, "shown"}
  /\ sharing' = "idle"
  /\ invoked' = invoked \o (IF sharing = "idle" THEN <<>> ELSE SharingEffect("idle"))
                  \o <<AutoHide(TRUE)>>
  /\ Befalls(OnlyIf(watching \in Live, "stop while watching")
             \union OnlyIf(\E k \in Calls : Opening(k), "stop in picker"))
  /\ UNCHANGED <<screen, watching, call, autoHide, saved, size, tray>>

\* The capture ends, the server reports an error, or the viewers change.
ShareChanges(state) ==
  /\ Room /\ sharing = "sharing"
  /\ sharing' = state
  /\ invoked' = invoked \o SharingEffect(state)
  /\ UNCHANGED <<screen, watching, call, shellVars, happened>>

\* "reconnecting" needs no picture before: a connection may fail while it is set up.
WatchChanges(state) ==
  /\ Room /\ watching # "away"
  /\ state # watching \/ state = "lobby"
  /\ watching' = state
  /\ invoked' = invoked \o WatchEffect(state)
  /\ UNCHANGED <<screen, sharing, call, shellVars, happened>>
-----------------------------------------------------------------------------
(***************************************************************************)
(* The shell.  set_picker_mode sets the flag before it looks at the slot.  *)
(***************************************************************************)
\* Faulty variant: a second enter saves what the first one made of the window.
EnterPickerModeTwice ==
  /\ saved' = size
  /\ size' = "picker" /\ panel' = "shown"
  /\ UNCHANGED happened

\* Where the window was may be unknown: it grows all the same.
EnterPickerMode ==
  IF saved # "none" THEN UNCHANGED <<saved, size, panel, happened>>
  ELSE /\ \/ saved' = size /\ UNCHANGED happened
          \/ saved' = "none" /\ Befalls({"geometry unknown"})
       /\ size' = "picker" /\ panel' = "shown"

LeavePickerMode ==
  /\ saved' = "none"
  /\ size' = IF saved = "none" THEN size ELSE saved
  /\ UNCHANGED <<panel, happened>>

\* Faulty variant: growing the window does not pin it.
AutoHideAfterPickerKept(on) == autoHide
\* What set_picker_mode leaves in AutoHide.
AutoHideAfterPicker(on) == ~on

SetPickerMode(on) ==
  /\ autoHide' = AutoHideAfterPicker(on)
  /\ IF on THEN EnterPickerMode ELSE LeavePickerMode
  /\ UNCHANGED tray

RunCommand ==
  /\ invoked # <<>>
  /\ invoked' = Tail(invoked)
  /\ LET c == Head(invoked) IN
     \/ c.cmd = "picker-mode" /\ SetPickerMode(c.arg)
     \/ c.cmd = "auto-hide" /\ autoHide' = c.arg /\ UNCHANGED <<saved, size, panel, tray, happened>>
     \/ c.cmd = "tray" /\ tray' = c.arg /\ UNCHANGED <<autoHide, saved, size, panel, happened>>
     \/ c.cmd = "hide" /\ panel' = "hidden" /\ UNCHANGED <<autoHide, saved, size, tray, happened>>
  /\ UNCHANGED screenVars

\* WindowEvent::Focused(false).
FocusLost ==
  /\ panel = "shown" /\ autoHide
  /\ panel' = "vanished"
  /\ UNCHANGED <<screenVars, invoked, autoHide, saved, size, tray, happened>>

\* A click on the icon, "Abrir", or the window's close button.
UserShowsOrHides ==
  /\ panel' = IF panel = "shown" THEN "hidden" ELSE "shown"
  /\ UNCHANGED <<screenVars, invoked, autoHide, saved, size, tray, happened>>

TPNext ==
  \/ \E s \in {"home", "share", "watch", "quality", "diagnostics"} : GoTo(s)
  \/ EscapeFromHome \/ Stop
  \/ \E k \in Calls : ShareScreen(k) \/ PickerOpens(k) \/ StartReturns(k)
  \/ \E k \in Calls, state \in {"sharing", "idle", "error"} : PickerCloses(k, state)
  \/ \E state \in {"sharing", "idle", "error"} : ShareChanges(state)
  \/ \E state \in {"lobby"} \union Live : WatchChanges(state)
  \/ RunCommand \/ FocusLost \/ UserShowsOrHides

TPSpec == TPInit /\ [][TPNext]_panelVars
-----------------------------------------------------------------------------
Settled == invoked = <<>> /\ \A k \in Calls : ~InFlight(k)

(***************************************************************************)
(* "hiding on blur now would kill it mid-choice", "shrink the window while *)
(* the picker is still open, which is what clipped it": while the picker   *)
(* is open it has room, and only the user can make it disappear            *)
(* (set_picker_mode, use-sharing's start, WatchScreen's cleanup).          *)
(***************************************************************************)
PickerIsUsable ==
  (\E k \in Calls : call[k] = "picking") /\ Spared({"second start"}) =>
    /\ size = "picker"
    /\ Spared({"start from watch", "watch during start", "stop in picker"}) => panel # "vanished"

(***************************************************************************)
(* Once everything has been run, a click elsewhere closes the panel unless *)
(* there is a picture in it (WatchScreen's effects, the end of start()).   *)
(***************************************************************************)
PinnedWhileWatching ==
  Settled /\ Spared({"watch during start", "stop while watching"})
    => (autoHide <=> watching \notin Live)

(***************************************************************************)
(* Once everything has been run, the window is back at the panel's size,   *)
(* however many starts were cancelled, failed or came on top of another    *)
(* (PanelGeometry, enter_picker_mode, leave_picker_mode).                  *)
(***************************************************************************)
GeometryComesBack ==
  Settled /\ Spared({"geometry unknown"}) => size = "panel" /\ saved = "none"

(***************************************************************************)
(* "the only thing telling the user a share is still running": once the    *)
(* commands have been run the icon says so exactly when one is             *)
(* (use-sharing's effect).                                                 *)
(***************************************************************************)
TrayTellsOfTheShare ==
  invoked = <<>> /\ Spared({"watch during start", "watch while sharing"})
    => (tray = "sharing" <=> sharing = "sharing")
=============================================================================
