------------------------------ MODULE AppAudio ------------------------------
(***************************************************************************)
(* Capturing what one application plays: the audio half of SharingManager  *)
(* (sharing-manager.ts, screen-capture.ts, app-audio.ts) in the WebView,   *)
(* the commands start_app_audio and stop_app_audio (src-tauri/src/lib.rs)  *)
(* that Tauri runs one at a time on the main thread, and the capture       *)
(* threads they start and join (app_audio.rs).  A start(), its             *)
(* AudioContext and its thread bear the same number.                       *)
(***************************************************************************)
EXTENDS Mishaps, Sequences

CONSTANT MaxStarts    \* bound: calls of start()

ASSUME StartsAssumption == MaxStarts \in Nat

VARIABLES
  state,       \* the manager's #state
  held,        \* the capture whose stop function the manager holds, 0 if none
  starting,    \* start() call -> where it stands
  open,        \* the AudioContexts that were created and not closed
  commands,    \* invoked commands, of which the main thread runs the first
  main,        \* what the main thread is at, see MainStates
  slot,        \* AudioCapture: the thread whose handle it holds, 0 if none
  thread,      \* start() call -> its capture thread
  stopAsked,   \* threads whose stop flag is set
  startup,     \* start() call -> what its thread reported
  answer       \* start() call -> what start_app_audio returned

managerVars == <<state, held, starting, open>>
nativeVars == <<main, slot, thread, stopAsked, startup, answer>>
audioVars == <<managerVars, commands, nativeVars, happened>>

Starts == 1 .. MaxStarts
\* "loading" awaits addModule, "invoked" start_app_audio, "answered" has its outcome.
StartPhases == {"none", "picker", "loading", "invoked", "answered", "done"}
\* "joining" waits for thread `of` to end, "waiting" for its report.
MainStates == [at : {"idle", "joining", "waiting"}, of : 0 .. MaxStarts]
Idle == [at |-> "idle", of |-> 0]
StartCommand(n) == [type |-> "start", of |-> n]
StopCommand(n) == [type |-> "stop", of |-> n]
Commands == [type : {"start", "stop"}, of : Starts]

AATypeOK ==
  /\ state \in {"idle", "starting", "sharing", "error"}
  /\ held \in 0 .. MaxStarts
  /\ starting \in [Starts -> StartPhases]
  /\ open \subseteq Starts
  /\ commands \in Seq(Commands)
  /\ main \in MainStates
  /\ slot \in 0 .. MaxStarts
  /\ thread \in [Starts -> {"none", "activating", "capturing", "ended"}]
  /\ stopAsked \subseteq Starts
  /\ startup \in [Starts -> {"none", "ok", "error"}]
  /\ answer \in [Starts -> {"none", "ok", "error"}]
  /\ main.at = "waiting" => Head(commands) = StartCommand(main.of)
  /\ happened \subseteq MishapKinds

AAInit ==
  /\ state = "idle" /\ held = 0
  /\ starting = [n \in Starts |-> "none"]
  /\ open = {}
  /\ commands = <<>> /\ main = Idle /\ slot = 0
  /\ thread = [n \in Starts |-> "none"]
  /\ stopAsked = {}
  /\ startup = [n \in Starts |-> "none"]
  /\ answer = [n \in Starts |-> "none"]
  /\ happened = {}

Pending == \E n \in Starts : starting[n] \in {"picker", "loading", "invoked", "answered"}
-----------------------------------------------------------------------------
(***************************************************************************)
(* The manager.  A capture's stop function invokes stop_app_audio at once  *)
(* and closes the context when the command has answered.                   *)
(***************************************************************************)
\* Faulty variant: the native capture is not stopped.
CleanUpKeepsAudio(h) == held' = 0 /\ UNCHANGED commands

\* #cleanup of a manager that holds h.
CleanUp(h) ==
  /\ held' = 0
  /\ commands' = IF h = 0 THEN commands ELSE Append(commands, StopCommand(h))

Start(n) ==
  /\ state \in {"idle", "error"}
  /\ starting[n] = "none" /\ \A k \in 1 .. n - 1 : starting[k] # "none"
  /\ Befalls(OnlyIf(held # 0, "start over error"))
  /\ state' = "starting"
  /\ starting' = [starting EXCEPT ![n] = "picker"]
  /\ UNCHANGED <<held, open, commands, nativeVars>>

\* A window or a screen was picked: a context for its sound is created.
PickerAnswers(n) ==
  /\ starting[n] = "picker"
  /\ starting' = [starting EXCEPT ![n] = "loading"]
  /\ open' = open \union {n}
  /\ UNCHANGED <<state, held, commands, nativeVars, happened>>

PickerFails(n) ==
  /\ starting[n] = "picker"
  /\ starting' = [starting EXCEPT ![n] = "done"]
  /\ state' \in {"idle", "error"}
  /\ CleanUp(held)
  /\ UNCHANGED <<open, nativeVars, happened>>

InvokeStart(n) ==
  /\ starting[n] = "loading"
  /\ starting' = [starting EXCEPT ![n] = "invoked"]
  /\ commands' = Append(commands, StartCommand(n))
  /\ UNCHANGED <<state, held, open, nativeVars, happened>>

\* addModule rejects: no command is invoked, and nobody closes the context.
WorkletFails(n) ==
  /\ starting[n] = "loading"
  /\ Befalls({"worklet fails"})
  /\ starting' = [starting EXCEPT ![n] = "answered"]
  /\ UNCHANGED <<state, held, open, commands, nativeVars>>

\* The contexts that remain once the outcome of n is known.
ContextsAfter(n) == IF answer[n] = "error" THEN open \ {n} ELSE open

(***************************************************************************)
(* start() goes on with the sound of the application or, refused, without: *)
(* whatever stop function it held is overwritten.  Then the room is asked  *)
(* for, which succeeds here, or throws while offline.                      *)
(***************************************************************************)
StartGoesOn(n) ==
  LET mine == IF answer[n] = "ok" THEN n ELSE 0 IN
  /\ starting[n] = "answered"
  /\ starting' = [starting EXCEPT ![n] = "done"]
  /\ open' = ContextsAfter(n)
  /\ \/ state' = "sharing" /\ held' = mine /\ UNCHANGED commands
     \/ state' = "error" /\ CleanUp(mine)
  /\ UNCHANGED <<nativeVars, happened>>

ShareFails ==
  /\ state = "sharing"
  /\ state' = "error"
  /\ UNCHANGED <<held, starting, open, commands, nativeVars, happened>>

Stop ==
  /\ state # "idle"
  /\ Befalls(OnlyIf(Pending, "stop in picker"))
  /\ CleanUp(held)
  /\ state' = "idle"
  /\ UNCHANGED <<starting, open, nativeVars>>
-----------------------------------------------------------------------------
(***************************************************************************)
(* The main thread.  A start first replaces the capture in the slot, joins *)
(* its thread, then spawns its own and waits for its report.               *)
(***************************************************************************)
Begins(command) == main = Idle /\ commands # <<>> /\ Head(commands) = command
Waits(n) == main = [at |-> "waiting", of |-> n]

\* The command that ran returns.
Returns == main' = Idle /\ commands' = Tail(commands)

\* start_app_audio returns, and with it the invoke that start() n awaits.
Answers(n, outcome) ==
  /\ Returns
  /\ answer' = [answer EXCEPT ![n] = outcome]
  /\ starting' = [starting EXCEPT ![n] = "answered"]
  /\ UNCHANGED <<state, held, open, thread, startup, happened>>

\* The label names no window, or no process owns it: refused before anything is replaced.
StartRefused(n) ==
  /\ Begins(StartCommand(n))
  /\ Answers(n, "error")
  /\ UNCHANGED <<slot, stopAsked>>

\* app_audio::start up to its wait.
Spawns(n) ==
  /\ thread' = [thread EXCEPT ![n] = "activating"]
  /\ main' = [at |-> "waiting", of |-> n]

\* CaptureHandle::stop of the thread in the slot, up to its join.
StopsSlot ==
  /\ slot' = 0
  /\ stopAsked' = stopAsked \union {slot}
  /\ main' = [at |-> "joining", of |-> slot]

StartBegins(n) ==
  /\ Begins(StartCommand(n))
  /\ IF slot = 0 THEN Spawns(n) /\ UNCHANGED <<slot, stopAsked>>
     ELSE StopsSlot /\ UNCHANGED thread
  /\ UNCHANGED <<managerVars, commands, startup, answer, happened>>

\* The replaced thread has ended.
StartContinues(n) ==
  /\ main.at = "joining" /\ thread[main.of] = "ended"
  /\ Head(commands) = StartCommand(n)
  /\ Spawns(n)
  /\ UNCHANGED <<managerVars, commands, slot, stopAsked, startup, answer, happened>>

StartSucceeds(n) ==
  /\ Waits(n) /\ startup[n] = "ok"
  /\ slot' = n
  /\ Answers(n, "ok")
  /\ UNCHANGED stopAsked

StartFails(n) ==
  /\ Waits(n) /\ startup[n] = "error"
  /\ Answers(n, "error")
  /\ UNCHANGED <<slot, stopAsked>>

\* Faulty variant: nobody tells the thread that nobody waits for it any more.
StartTimesOutSilently(n) ==
  /\ Waits(n) /\ startup[n] = "none"
  /\ Answers(n, "error")
  /\ UNCHANGED <<slot, stopAsked>>

\* Faulty variant: the handle is kept for a later stop.
StartTimesOutKept(n) ==
  /\ Waits(n) /\ startup[n] = "none"
  /\ slot' = n
  /\ Answers(n, "error")
  /\ UNCHANGED stopAsked

\* Five seconds without a report: the thread is told to stop, and is not joined.
StartTimesOut(n) ==
  /\ Waits(n) /\ startup[n] = "none"
  /\ stopAsked' = stopAsked \union {n}
  /\ Answers(n, "error")
  /\ UNCHANGED slot

\* stop_app_audio, invoked for context n, stops whatever is in the slot.
StopBegins(n) ==
  /\ Begins(StopCommand(n))
  /\ IF slot = 0 THEN Returns /\ open' = open \ {n} /\ UNCHANGED <<slot, stopAsked>>
     ELSE StopsSlot /\ UNCHANGED <<commands, open>>
  /\ UNCHANGED <<state, held, starting, thread, startup, answer, happened>>

StopReturns(n) ==
  /\ main.at = "joining" /\ thread[main.of] = "ended"
  /\ Head(commands) = StopCommand(n)
  /\ Returns
  /\ open' = open \ {n}
  /\ UNCHANGED <<state, held, starting, slot, thread, stopAsked, startup, answer, happened>>
-----------------------------------------------------------------------------
(***************************************************************************)
(* The capture threads.  One that was told to stop before it got as far as *)
(* capturing reports its success and captures nothing.                     *)
(***************************************************************************)
Reports(n, outcome) ==
  /\ startup' = [startup EXCEPT ![n] = outcome]
  /\ UNCHANGED <<managerVars, commands, main, slot, stopAsked, answer, happened>>

Activates(n) ==
  /\ thread[n] = "activating"
  /\ thread' = [thread EXCEPT ![n] = IF n \in stopAsked THEN "ended" ELSE "capturing"]
  /\ Reports(n, "ok")

\* Windows refuses, or does not answer within three seconds.
ActivationFails(n) ==
  /\ thread[n] = "activating"
  /\ thread' = [thread EXCEPT ![n] = "ended"]
  /\ Reports(n, "error")

\* The loop sees the flag, at the latest when its 200 ms wait is over.
ThreadEnds(n) ==
  /\ thread[n] = "capturing" /\ n \in stopAsked
  /\ thread' = [thread EXCEPT ![n] = "ended"]
  /\ UNCHANGED <<managerVars, commands, main, slot, stopAsked, startup, answer, happened>>

MainStep(n) ==
  \/ StartRefused(n) \/ StartBegins(n) \/ StartContinues(n)
  \/ StartSucceeds(n) \/ StartFails(n) \/ StartTimesOut(n)
  \/ StopBegins(n) \/ StopReturns(n)

ManagerStep(n) ==
  \/ Start(n) \/ PickerAnswers(n) \/ PickerFails(n)
  \/ InvokeStart(n) \/ WorkletFails(n) \/ StartGoesOn(n)

ThreadStep(n) == Activates(n) \/ ActivationFails(n) \/ ThreadEnds(n)

AANext ==
  \/ \E n \in Starts : ManagerStep(n) \/ MainStep(n) \/ ThreadStep(n)
  \/ ShareFails \/ Stop

AASpec == AAInit /\ [][AANext]_audioVars

(***************************************************************************)
(* The main thread runs, its clock too, and the capture loop comes round;  *)
(* Windows may take for ever to activate anything.                         *)
(***************************************************************************)
AAFairSpec ==
  /\ AASpec
  /\ \A n \in Starts : WF_audioVars(MainStep(n)) /\ WF_audioVars(ThreadEnds(n))
                       /\ WF_audioVars(InvokeStart(n) \/ StartGoesOn(n))
-----------------------------------------------------------------------------
Restarts == {"start over error", "stop in picker"}

\* Nothing is under way between the WebView, the main thread and the threads.
AAAtRest ==
  /\ ~Pending /\ commands = <<>>
  /\ \A n \in Starts : thread[n] # "activating" /\ (thread[n] = "capturing" => n \notin stopAsked)

(***************************************************************************)
(* "two of them would double the audio": whatever starts, stops and        *)
(* timeouts come together, one thread captures.  It is one that the next   *)
(* stop finds in the slot, or is on its way into it, and not one whose     *)
(* start was given up, so that the share took the system's sound           *)
(* (start_app_audio, CaptureHandle, the timeout in app_audio::start).      *)
(***************************************************************************)
NoStrayCapture ==
  \A n \in Starts : thread[n] = "capturing" =>
    /\ n \in stopAsked \/ slot = n \/ Waits(n)
    /\ answer[n] # "error"
    /\ \A m \in Starts : thread[m] = "capturing" => m = n

(***************************************************************************)
(* At rest the native side captures exactly what the share that runs sends *)
(* as its sound: nothing is left running behind an idle panel, and no      *)
(* share claims an application whose capture another stop has ended.  The  *)
(* AudioContexts of refused and stopped captures are closed (#cleanup,     *)
(* startAppAudio).                                                         *)
(***************************************************************************)
SoundIsHeld ==
  AAAtRest /\ Spared(Restarts) =>
    /\ slot = held
    /\ Spared({"worklet fails"}) => open \subseteq {held}

(***************************************************************************)
(* A share that asked for an application's sound gets it or goes on        *)
(* without, although the main thread joins threads and Windows may never   *)
(* answer one: it joins only those that captured, and these notice the     *)
(* flag (the timeout, the join, the 200 ms wait of the loop).              *)
(***************************************************************************)
EveryStartAnswered == \A n \in Starts : starting[n] = "invoked" ~> starting[n] = "done"
=============================================================================
