--------------------------- MODULE AppAudioProofs ---------------------------
(***************************************************************************)
(* Theorems about an application's sound.  The capture of it, for any      *)
(* number of starts, and whatever the user, Windows and the five second    *)
(* timeout do; and, below, the worklet's ring, which is a queue that drops *)
(* the oldest and keeps the channels apart, for any capacity, number of    *)
(* channels, block and chunk.                                              *)
(***************************************************************************)
EXTENDS AppAudio, AudioRing, SequenceTheorems, TLAPS

(***************************************************************************)
(* A start is invoked once: its command stands in the queue once, until it *)
(* is answered, and its thread comes into being only when the main thread  *)
(* has come to it.                                                         *)
(***************************************************************************)
QueuedOnce ==
  \A n \in Starts : \A i \in DOMAIN commands : commands[i] = StartCommand(n) =>
    /\ starting[n] = "invoked" /\ answer[n] = "none"
    /\ thread[n] = "none" \/ (i = 1 /\ Waits(n))
    /\ \A j \in DOMAIN commands : commands[j] = StartCommand(n) => j = i

\* Where start() stands before it has invoked anything.
Early == {"none", "picker", "loading"}
NothingBefore ==
  \A n \in Starts : starting[n] \in Early => answer[n] = "none" /\ thread[n] = "none"

BusyWithCommand == main.at # "idle" => commands # <<>> /\ main.of \in Starts

CommandsInv == QueuedOnce /\ NothingBefore /\ BusyWithCommand

\* What the main thread and the slot know of the one thread they deal with.
MainInv ==
  /\ main.at # "idle" => slot = 0
  /\ main.at = "joining" => main.of \in stopAsked /\ thread[main.of] \in {"capturing", "ended"}
  /\ main.at = "waiting" =>
       /\ main.of \notin stopAsked
       /\ \/ startup[main.of] = "none" /\ thread[main.of] = "activating"
          \/ startup[main.of] = "ok" /\ thread[main.of] = "capturing"
          \/ startup[main.of] = "error" /\ thread[main.of] = "ended"
  /\ slot # 0 => slot \notin stopAsked /\ thread[slot] = "capturing"

\* What each thread is to them.
ThreadInv ==
  \A n \in Starts :
    /\ thread[n] = "none" => startup[n] = "none" /\ n \notin stopAsked
    /\ thread[n] = "activating" => Waits(n) \/ n \in stopAsked
    /\ thread[n] = "capturing" => slot = n \/ (main.at # "idle" /\ main.of = n)
    /\ answer[n] = "error" =>
         thread[n] \in {"none", "ended"} \/ (thread[n] = "activating" /\ n \in stopAsked)

AudioInv == AATypeOK /\ CommandsInv /\ MainInv /\ ThreadInv

(***************************************************************************)
(* Facts about the queue.                                                  *)
(***************************************************************************)
LEMMA StartsAreNumbers == Starts \subseteq Nat /\ 0 \notin Starts /\ \A n \in Starts : n \in 0 .. MaxStarts
BY StartsAssumption DEF Starts

LEMMA CommandsAreCommands ==
  ASSUME NEW n \in Starts
  PROVE  /\ StartCommand(n) \in Commands /\ StopCommand(n) \in Commands
         /\ \A m : StartCommand(m) # StopCommand(n) /\ (StartCommand(m) = StartCommand(n) => m = n)
BY DEF Commands, StartCommand, StopCommand

LEMMA Enqueued ==
  ASSUME NEW s \in Seq(Commands), NEW c \in Commands
  PROVE  /\ Append(s, c) \in Seq(Commands) /\ Append(s, c) # <<>>
         /\ DOMAIN Append(s, c) = 1 .. Len(s) + 1 /\ DOMAIN s = 1 .. Len(s) /\ Len(s) \in Nat
         /\ Append(s, c)[Len(s) + 1] = c
         /\ \A i \in DOMAIN s : Append(s, c)[i] = s[i] /\ i \in DOMAIN Append(s, c)
         /\ \A i \in DOMAIN Append(s, c) : i \in DOMAIN s \/ i = Len(s) + 1
         /\ s # <<>> => Head(Append(s, c)) = Head(s)
OBVIOUS

LEMMA Dequeued ==
  ASSUME NEW s \in Seq(Commands), s # <<>>
  PROVE  /\ Tail(s) \in Seq(Commands) /\ 1 \in DOMAIN s /\ s[1] = Head(s)
         /\ \A i \in DOMAIN Tail(s) : /\ i \in Nat /\ i # 0 /\ i + 1 \in DOMAIN s
                                      /\ Tail(s)[i] = s[i + 1]
OBVIOUS

(***************************************************************************)
(* The books start in order.                                               *)
(***************************************************************************)
LEMMA AudioInvInit == AAInit => AudioInv
<1> SUFFICES ASSUME AAInit PROVE AudioInv
  OBVIOUS
<1> USE StartsAssumption, StartsAreNumbers DEF AAInit
<1>1. AATypeOK
  BY DEF AATypeOK, StartPhases, MainStates, Idle, Commands
<1>2. CommandsInv
  BY DEF CommandsInv, QueuedOnce, NothingBefore, BusyWithCommand, Idle
<1>3. MainInv /\ ThreadInv
  BY DEF MainInv, ThreadInv, Idle
<1> QED
  BY <1>1, <1>2, <1>3 DEF AudioInv
-----------------------------------------------------------------------------
(***************************************************************************)
(* The manager's steps leave the native side alone.                        *)
(***************************************************************************)
LEMMA NativeUntouched ==
  ASSUME AudioInv, UNCHANGED nativeVars
  PROVE  MainInv' /\ ThreadInv'
BY DEF AudioInv, MainInv, ThreadInv, nativeVars, Waits

LEMMA SameStarts ==
  ASSUME AudioInv, UNCHANGED nativeVars,
         commands' = commands \/ \E h \in Starts : commands' = Append(commands, StopCommand(h)),
         \A k \in Starts : /\ starting[k] = "invoked" => starting'[k] = "invoked"
                           /\ starting'[k] \in Early => starting[k] \in Early
  PROVE  CommandsInv'
<1>1. NothingBefore'
  BY DEF AudioInv, CommandsInv, NothingBefore, nativeVars
<1>2. CASE commands' = commands
  <2>1. QueuedOnce'
    BY <1>2 DEF AudioInv, CommandsInv, QueuedOnce, nativeVars, Waits
  <2>2. BusyWithCommand'
    BY <1>2 DEF AudioInv, CommandsInv, BusyWithCommand, nativeVars
  <2> QED
    BY <1>1, <2>1, <2>2 DEF CommandsInv
<1>3. CASE \E h \in Starts : commands' = Append(commands, StopCommand(h))
  <2>1. PICK h \in Starts : commands' = Append(commands, StopCommand(h))
    BY <1>3
  <2>2. commands \in Seq(Commands) /\ StopCommand(h) \in Commands
    BY CommandsAreCommands DEF AudioInv, AATypeOK
  <2>3. \A n \in Starts : \A i \in DOMAIN commands' : commands'[i] = StartCommand(n) =>
          i \in DOMAIN commands /\ commands[i] = StartCommand(n)
    BY <2>1, <2>2, Enqueued DEF StartCommand, StopCommand
  <2>4. QueuedOnce'
    BY <2>3 DEF AudioInv, CommandsInv, QueuedOnce, nativeVars, Waits
  <2>5. BusyWithCommand'
    BY <2>1, <2>2, Enqueued DEF AudioInv, CommandsInv, BusyWithCommand, nativeVars
  <2> QED
    BY <1>1, <2>4, <2>5 DEF CommandsInv
<1> QED
  BY <1>2, <1>3

LEMMA InvokeStartKeeps ==
  ASSUME AudioInv, NEW n \in Starts, InvokeStart(n)
  PROVE  CommandsInv'
<1> USE DEF InvokeStart
<1>1. /\ commands \in Seq(Commands) /\ starting \in [Starts -> StartPhases]
      /\ starting' = [starting EXCEPT ![n] = "invoked"] /\ starting[n] \in Early
      /\ commands' = Append(commands, StartCommand(n)) /\ StartCommand(n) \in Commands
      /\ UNCHANGED nativeVars
  BY CommandsAreCommands DEF AudioInv, AATypeOK, Early
<1>2. \A i \in DOMAIN commands : commands[i] # StartCommand(n)
  BY <1>1 DEF AudioInv, CommandsInv, QueuedOnce, Early
<1>3. QueuedOnce'
  <2> SUFFICES ASSUME NEW m \in Starts, NEW i \in DOMAIN commands', commands'[i] = StartCommand(m)
               PROVE  /\ starting'[m] = "invoked" /\ answer'[m] = "none"
                      /\ thread'[m] = "none" \/ (i = 1 /\ Waits(m)')
                      /\ \A j \in DOMAIN commands' : commands'[j] = StartCommand(m) => j = i
    BY DEF QueuedOnce, StartCommand
  <2>1. CASE m = n
    <3>1. i = Len(commands) + 1
      BY <1>1, <1>2, <2>1, Enqueued
    <3>2. answer[n] = "none" /\ thread[n] = "none"
      BY <1>1 DEF AudioInv, CommandsInv, NothingBefore
    <3>3. \A j \in DOMAIN commands' : commands'[j] = StartCommand(n) => j = i
      BY <1>1, <1>2, <3>1, Enqueued
    <3> QED
      BY <1>1, <2>1, <3>2, <3>3 DEF nativeVars
  <2>2. CASE m # n
    <3>1. \A j \in DOMAIN commands' : commands'[j] = StartCommand(m) =>
            j \in DOMAIN commands /\ commands[j] = StartCommand(m)
      BY <1>1, <2>2, Enqueued, CommandsAreCommands
    <3>2. /\ starting[m] = "invoked" /\ answer[m] = "none"
          /\ thread[m] = "none" \/ (i = 1 /\ Waits(m))
          /\ \A j \in DOMAIN commands : commands[j] = StartCommand(m) => j = i
      BY <3>1 DEF AudioInv, CommandsInv, QueuedOnce
    <3> QED
      BY <1>1, <2>2, <3>1, <3>2 DEF nativeVars, Waits
  <2> QED
    BY <2>1, <2>2
<1>4. NothingBefore'
  BY <1>1 DEF AudioInv, CommandsInv, NothingBefore, nativeVars, Early
<1>5. BusyWithCommand'
  BY <1>1, Enqueued DEF AudioInv, CommandsInv, BusyWithCommand, nativeVars
<1> QED
  BY <1>3, <1>4, <1>5 DEF CommandsInv

(***************************************************************************)
(* Types.  A manager's step leaves the types of the native side alone, but *)
(* the queue's head must stay what it is.                                  *)
(***************************************************************************)
ManagerTypes ==
  /\ state \in {"idle", "starting", "sharing", "error"}
  /\ held \in 0 .. MaxStarts
  /\ starting \in [Starts -> StartPhases]
  /\ open \subseteq Starts

QueueTypes ==
  /\ commands \in Seq(Commands)
  /\ main.at = "waiting" => Head(commands) = StartCommand(main.of)

NativeTypes ==
  /\ main \in MainStates
  /\ slot \in 0 .. MaxStarts
  /\ thread \in [Starts -> {"none", "activating", "capturing", "ended"}]
  /\ stopAsked \subseteq Starts
  /\ startup \in [Starts -> {"none", "ok", "error"}]
  /\ answer \in [Starts -> {"none", "ok", "error"}]

LEMMA TypesByPart ==
  AATypeOK <=> ManagerTypes /\ QueueTypes /\ NativeTypes /\ happened \subseteq MishapKinds
BY DEF AATypeOK, ManagerTypes, QueueTypes, NativeTypes

LEMMA CleanUpEnqueues ==
  ASSUME NEW h \in 0 .. MaxStarts, CleanUp(h)
  PROVE  commands' = commands \/ \E k \in Starts : commands' = Append(commands, StopCommand(k))
BY DEF CleanUp, Starts

LEMMA EnqueuedTypes ==
  ASSUME AudioInv, UNCHANGED nativeVars,
         \/ commands' = commands
         \/ \E c \in Commands : commands' = Append(commands, c)
  PROVE  QueueTypes' /\ NativeTypes'
<1>1. QueueTypes /\ NativeTypes /\ BusyWithCommand
  BY TypesByPart DEF AudioInv, CommandsInv
<1>2. NativeTypes'
  BY <1>1 DEF NativeTypes, nativeVars, MainStates
<1>3. CASE commands' = commands
  BY <1>1, <1>2, <1>3 DEF QueueTypes, nativeVars, Commands, StartCommand
<1>4. CASE \E c \in Commands : commands' = Append(commands, c)
  <2>1. PICK c \in Commands : commands' = Append(commands, c)
    BY <1>4
  <2>2. /\ commands' \in Seq(Commands)
        /\ commands # <<>> => Head(commands') = Head(commands)
    BY <1>1, <2>1, Enqueued DEF QueueTypes
  <2>3. QueueTypes'
    BY <1>1, <2>2 DEF QueueTypes, BusyWithCommand, nativeVars, Commands, StartCommand
  <2> QED
    BY <1>2, <2>3
<1> QED
  BY <1>3, <1>4

LEMMA ManagerKeeps ==
  ASSUME AudioInv, UNCHANGED nativeVars, ManagerTypes', happened' \subseteq MishapKinds,
         commands' = commands \/ \E h \in Starts : commands' = Append(commands, StopCommand(h)),
         \A k \in Starts : /\ starting[k] = "invoked" => starting'[k] = "invoked"
                           /\ starting'[k] \in Early => starting[k] \in Early
  PROVE  AudioInv'
<1>1. QueueTypes' /\ NativeTypes'
  BY EnqueuedTypes, CommandsAreCommands
<1>2. AATypeOK'
  BY <1>1 DEF AATypeOK, ManagerTypes, QueueTypes, NativeTypes
<1> QED
  BY <1>2, NativeUntouched, SameStarts DEF AudioInv

LEMMA ManagerStepKeeps ==
  ASSUME AudioInv, NEW n \in Starts, ManagerStep(n)
  PROVE  AudioInv'
<1>1. /\ ManagerTypes /\ happened \subseteq MishapKinds
      /\ held \in 0 .. MaxStarts /\ starting \in [Starts -> StartPhases] /\ n \in 0 .. MaxStarts
      /\ state \in {"idle", "starting", "sharing", "error"}
  BY TypesByPart, StartsAreNumbers DEF AudioInv, ManagerTypes
<1> USE StartsAssumption
<1>2. CASE Start(n)
  <2>1. /\ UNCHANGED nativeVars /\ commands' = commands /\ happened' \subseteq MishapKinds
        /\ starting' = [starting EXCEPT ![n] = "picker"] /\ starting[n] = "none"
    BY <1>1, <1>2 DEF Start, Befalls
  <2>2. ManagerTypes'
    BY <1>1, <1>2 DEF Start, ManagerTypes, StartPhases
  <2> QED
    BY <1>1, <2>1, <2>2, ManagerKeeps DEF Early
<1>3. CASE PickerAnswers(n)
  <2>1. /\ UNCHANGED nativeVars /\ commands' = commands /\ happened' \subseteq MishapKinds
        /\ starting' = [starting EXCEPT ![n] = "loading"] /\ starting[n] = "picker"
    BY <1>1, <1>3 DEF PickerAnswers
  <2>2. ManagerTypes'
    BY <1>1, <1>3 DEF PickerAnswers, ManagerTypes, StartPhases
  <2> QED
    BY <1>1, <2>1, <2>2, ManagerKeeps DEF Early
<1>4. CASE PickerFails(n)
  <2>1. /\ UNCHANGED nativeVars /\ CleanUp(held) /\ happened' \subseteq MishapKinds
        /\ starting' = [starting EXCEPT ![n] = "done"] /\ starting[n] = "picker"
    BY <1>1, <1>4 DEF PickerFails
  <2>2. ManagerTypes'
    BY <1>1, <1>4 DEF PickerFails, ManagerTypes, StartPhases, CleanUp
  <2>3. commands' = commands \/ \E k \in Starts : commands' = Append(commands, StopCommand(k))
    BY <1>1, <2>1, CleanUpEnqueues
  <2> QED
    BY <1>1, <2>1, <2>2, <2>3, ManagerKeeps DEF Early
<1>5. CASE InvokeStart(n)
  <2>1. UNCHANGED nativeVars /\ happened' \subseteq MishapKinds
    BY <1>1, <1>5 DEF InvokeStart
  <2>2. ManagerTypes'
    BY <1>1, <1>5 DEF InvokeStart, ManagerTypes, StartPhases
  <2>3. QueueTypes' /\ NativeTypes'
    BY <1>5, <2>1, EnqueuedTypes, CommandsAreCommands DEF InvokeStart
  <2>4. AATypeOK'
    BY <2>1, <2>2, <2>3 DEF AATypeOK, ManagerTypes, QueueTypes, NativeTypes
  <2> QED
    BY <1>5, <2>1, <2>4, NativeUntouched, InvokeStartKeeps DEF AudioInv
<1>6. CASE WorkletFails(n)
  <2>1. /\ UNCHANGED nativeVars /\ commands' = commands /\ happened' \subseteq MishapKinds
        /\ starting' = [starting EXCEPT ![n] = "answered"] /\ starting[n] = "loading"
    BY <1>1, <1>6 DEF WorkletFails, Befalls
  <2>2. ManagerTypes'
    BY <1>1, <1>6 DEF WorkletFails, ManagerTypes, StartPhases
  <2> QED
    BY <1>1, <2>1, <2>2, ManagerKeeps DEF Early
<1>7. CASE StartGoesOn(n)
  <2> DEFINE mine == IF answer[n] = "ok" THEN n ELSE 0
  <2>1. mine \in 0 .. MaxStarts
    BY <1>1
  <2>2. /\ UNCHANGED nativeVars /\ happened' \subseteq MishapKinds
        /\ starting' = [starting EXCEPT ![n] = "done"] /\ starting[n] = "answered"
        /\ open' = ContextsAfter(n)
        /\ \/ state' = "sharing" /\ held' = mine /\ UNCHANGED commands
           \/ state' = "error" /\ CleanUp(mine)
    BY <1>1, <1>7 DEF StartGoesOn
  <2> HIDE DEF mine
  <2>3. held' \in 0 .. MaxStarts
    BY <2>1, <2>2 DEF CleanUp
  <2>4. ManagerTypes'
    BY <1>1, <2>2, <2>3 DEF ManagerTypes, StartPhases, ContextsAfter
  <2>5. commands' = commands \/ \E k \in Starts : commands' = Append(commands, StopCommand(k))
    BY <2>1, <2>2, CleanUpEnqueues
  <2> QED
    BY <1>1, <2>2, <2>4, <2>5, ManagerKeeps DEF Early
<1> QED
  BY <1>2, <1>3, <1>4, <1>5, <1>6, <1>7 DEF ManagerStep

LEMMA ShareFailsKeeps == ASSUME AudioInv, ShareFails PROVE AudioInv'
<1>1. /\ UNCHANGED nativeVars /\ commands' = commands /\ starting' = starting
      /\ happened' \subseteq MishapKinds
  BY TypesByPart DEF ShareFails, AudioInv
<1>2. ManagerTypes'
  BY TypesByPart DEF ShareFails, AudioInv, ManagerTypes
<1> QED
  BY <1>1, <1>2, ManagerKeeps

LEMMA StopKeeps == ASSUME AudioInv, Stop PROVE AudioInv'
<1>1. held \in 0 .. MaxStarts /\ ManagerTypes /\ happened \subseteq MishapKinds
  BY TypesByPart DEF AudioInv, ManagerTypes
<1>2. /\ \E ms : Befalls(ms)
      /\ CleanUp(held) /\ state' = "idle" /\ UNCHANGED <<starting, open, nativeVars>>
  BY Zenon DEF Stop
<1>3. happened' \subseteq MishapKinds
  BY <1>1, <1>2 DEF Befalls
<1>4. ManagerTypes'
  BY <1>1, <1>2, StartsAssumption DEF ManagerTypes, CleanUp
<1>5. commands' = commands \/ \E k \in Starts : commands' = Append(commands, StopCommand(k))
  BY <1>1, <1>2, CleanUpEnqueues
<1> QED
  BY <1>2, <1>3, <1>4, <1>5, ManagerKeeps
-----------------------------------------------------------------------------
(***************************************************************************)
(* The main thread.                                                        *)
(***************************************************************************)
LEMMA HeadIsInvoked ==
  ASSUME AudioInv, NEW n \in Starts, commands # <<>>, Head(commands) = StartCommand(n)
  PROVE  /\ starting[n] = "invoked" /\ answer[n] = "none"
         /\ thread[n] = "none" \/ Waits(n)
<1>1. 1 \in DOMAIN commands /\ commands[1] = StartCommand(n)
  BY Dequeued DEF AudioInv, AATypeOK
<1> QED
  BY <1>1 DEF AudioInv, CommandsInv, QueuedOnce

\* What is left of the queue was there before, one place behind.
LEMMA LeftInQueue ==
  ASSUME AudioInv, commands # <<>>, commands' = Tail(commands)
  PROVE  /\ commands' \in Seq(Commands)
         /\ \A n \in Starts : \A i \in DOMAIN commands' : commands'[i] = StartCommand(n) =>
              /\ starting[n] = "invoked" /\ answer[n] = "none" /\ thread[n] = "none"
              /\ Head(commands) # StartCommand(n)
              /\ \A j \in DOMAIN commands' : commands'[j] = StartCommand(n) => j = i
<1>1. commands \in Seq(Commands)
  BY DEF AudioInv, AATypeOK
<1>2. /\ commands' \in Seq(Commands) /\ 1 \in DOMAIN commands /\ commands[1] = Head(commands)
      /\ \A i \in DOMAIN commands' :
           i \in Nat /\ i # 0 /\ i + 1 \in DOMAIN commands /\ commands'[i] = commands[i + 1]
  BY <1>1, Dequeued
<1> SUFFICES ASSUME NEW n \in Starts, NEW i \in DOMAIN commands', commands'[i] = StartCommand(n)
             PROVE  /\ starting[n] = "invoked" /\ answer[n] = "none" /\ thread[n] = "none"
                    /\ Head(commands) # StartCommand(n)
                    /\ \A j \in DOMAIN commands' : commands'[j] = StartCommand(n) => j = i
  BY <1>2
<1>3. i \in Nat /\ i # 0 /\ i + 1 \in DOMAIN commands /\ commands[i + 1] = StartCommand(n)
  BY <1>2
<1>4. /\ starting[n] = "invoked" /\ answer[n] = "none"
      /\ thread[n] = "none" \/ i + 1 = 1
      /\ \A j \in DOMAIN commands : commands[j] = StartCommand(n) => j = i + 1
  BY <1>3 DEF AudioInv, CommandsInv, QueuedOnce
<1>5. i + 1 # 1
  BY <1>3
<1>6. Head(commands) # StartCommand(n)
  BY <1>2, <1>4, <1>5
<1>7. \A j \in DOMAIN commands' : commands'[j] = StartCommand(n) => j = i
  BY <1>2, <1>3, <1>4
<1> QED
  BY <1>4, <1>5, <1>6, <1>7

\* A command returns and nothing else happens to the threads.
LEMMA ReturnsKeeps ==
  ASSUME AudioInv, commands # <<>>, Returns,
         UNCHANGED <<starting, answer, thread>>
  PROVE  CommandsInv' /\ QueueTypes'
<1>1. main' = Idle /\ commands' = Tail(commands)
  BY DEF Returns
<1>2. QueuedOnce'
  BY <1>1, LeftInQueue DEF QueuedOnce, StartCommand
<1>3. NothingBefore' /\ BusyWithCommand'
  BY <1>1 DEF AudioInv, CommandsInv, NothingBefore, BusyWithCommand, Early, Idle
<1>4. QueueTypes'
  BY <1>1, LeftInQueue DEF QueueTypes, Idle, Commands
<1> QED
  BY <1>2, <1>3, <1>4 DEF CommandsInv

LEMMA AnswersKeep ==
  ASSUME AudioInv, NEW n \in Starts, NEW outcome \in {"ok", "error"},
         commands # <<>>, Head(commands) = StartCommand(n), Answers(n, outcome)
  PROVE  /\ CommandsInv' /\ QueueTypes' /\ ManagerTypes' /\ happened' \subseteq MishapKinds
         /\ main' = Idle /\ main' \in MainStates
         /\ answer' = [answer EXCEPT ![n] = outcome]
         /\ answer' \in [Starts -> {"none", "ok", "error"}]
         /\ thread' = thread /\ startup' = startup
<1>1. /\ main' = Idle /\ commands' = Tail(commands)
      /\ answer' = [answer EXCEPT ![n] = outcome] /\ starting' = [starting EXCEPT ![n] = "answered"]
      /\ UNCHANGED <<state, held, open, thread, startup, happened>>
  BY DEF Answers, Returns
<1>2. ManagerTypes /\ NativeTypes /\ happened \subseteq MishapKinds
  BY TypesByPart DEF AudioInv
<1>3. ManagerTypes' /\ happened' \subseteq MishapKinds
  BY <1>1, <1>2 DEF ManagerTypes, StartPhases
<1>4. main' \in MainStates /\ answer' \in [Starts -> {"none", "ok", "error"}]
  BY <1>1, <1>2, StartsAssumption DEF NativeTypes, MainStates, Idle
<1>5. QueuedOnce'
  <2> SUFFICES ASSUME NEW m \in Starts, NEW i \in DOMAIN commands', commands'[i] = StartCommand(m)
               PROVE  /\ starting'[m] = "invoked" /\ answer'[m] = "none"
                      /\ thread'[m] = "none"
                      /\ \A j \in DOMAIN commands' : commands'[j] = StartCommand(m) => j = i
    BY DEF QueuedOnce, StartCommand
  <2>1. m # n
    BY <1>1, LeftInQueue
  <2> QED
    BY <1>1, <1>2, <2>1, LeftInQueue DEF ManagerTypes, NativeTypes
<1>6. NothingBefore'
  BY <1>1, <1>2 DEF AudioInv, CommandsInv, NothingBefore, ManagerTypes, NativeTypes, Early
<1>7. BusyWithCommand' /\ QueueTypes'
  BY <1>1, LeftInQueue DEF BusyWithCommand, QueueTypes, Idle, Commands
<1> QED
  BY <1>1, <1>3, <1>4, <1>5, <1>6, <1>7 DEF CommandsInv

\* While no thread captures, the command at the head of the queue starts its own.
LEMMA SpawnsKeeps ==
  ASSUME AudioInv, NEW n \in Starts, commands # <<>>, Head(commands) = StartCommand(n),
         slot = 0, ~Waits(n), \A m \in Starts : thread[m] # "capturing" /\ ~Waits(m),
         Spawns(n), UNCHANGED <<managerVars, commands, slot, stopAsked, startup, answer, happened>>
  PROVE  AudioInv'
<1>1. starting[n] = "invoked" /\ answer[n] = "none" /\ thread[n] = "none"
  BY HeadIsInvoked
<1>2. startup[n] = "none" /\ n \notin stopAsked
  BY <1>1 DEF AudioInv, ThreadInv
<1>3. /\ thread' = [thread EXCEPT ![n] = "activating"]
      /\ main' = [at |-> "waiting", of |-> n]
      /\ UNCHANGED <<state, held, starting, open, commands, slot, stopAsked, startup, answer, happened>>
  BY DEF Spawns, managerVars
<1>4. /\ ManagerTypes /\ QueueTypes /\ NativeTypes /\ happened \subseteq MishapKinds
      /\ thread \in [Starts -> {"none", "activating", "capturing", "ended"}]
  BY TypesByPart DEF AudioInv, NativeTypes
<1>5. ManagerTypes' /\ happened' \subseteq MishapKinds
  BY <1>3, <1>4 DEF ManagerTypes
<1>6. QueueTypes'
  BY <1>3, <1>4 DEF QueueTypes, Commands, StartCommand
<1>7. NativeTypes'
  BY <1>3, <1>4, StartsAreNumbers DEF NativeTypes, MainStates
<1>8. QueuedOnce'
  <2>1. 1 \in DOMAIN commands /\ commands[1] = StartCommand(n)
    BY <1>4, Dequeued DEF QueueTypes
  <2> SUFFICES ASSUME NEW m \in Starts, NEW i \in DOMAIN commands, commands[i] = StartCommand(m)
               PROVE  /\ starting[m] = "invoked" /\ answer[m] = "none"
                      /\ thread'[m] = "none" \/ (i = 1 /\ Waits(m)')
                      /\ \A j \in DOMAIN commands : commands[j] = StartCommand(m) => j = i
    BY <1>3 DEF QueuedOnce, StartCommand
  <2>2. /\ starting[m] = "invoked" /\ answer[m] = "none"
        /\ thread[m] = "none"
        /\ \A j \in DOMAIN commands : commands[j] = StartCommand(m) => j = i
    BY DEF AudioInv, CommandsInv, QueuedOnce
  <2>3. m = n => i = 1
    BY <2>1, <2>2
  <2> QED
    BY <1>3, <1>4, <2>2, <2>3 DEF Waits
<1>9. NothingBefore' /\ BusyWithCommand'
  BY <1>1, <1>3, <1>4 DEF AudioInv, CommandsInv, NothingBefore, BusyWithCommand, Early
<1>10. MainInv'
  BY <1>2, <1>3, <1>4 DEF MainInv
<1>11. ThreadInv'
  BY <1>1, <1>2, <1>3, <1>4 DEF AudioInv, ThreadInv, Waits
<1> QED
  BY <1>5, <1>6, <1>7, <1>8, <1>9, <1>10, <1>11, TypesByPart
  DEF AudioInv, CommandsInv, AATypeOK, ManagerTypes, QueueTypes, NativeTypes

\* The capture in the slot is told to stop, and waited for.
LEMMA StopsSlotKeeps ==
  ASSUME AudioInv, main = Idle, slot # 0, commands # <<>>, StopsSlot,
         UNCHANGED <<managerVars, commands, thread, startup, answer, happened>>
  PROVE  AudioInv'
<1>1. /\ slot' = 0 /\ stopAsked' = stopAsked \union {slot}
      /\ main' = [at |-> "joining", of |-> slot]
      /\ UNCHANGED <<state, held, starting, open, commands, thread, startup, answer, happened>>
  BY DEF StopsSlot, managerVars
<1>2. ManagerTypes /\ QueueTypes /\ NativeTypes /\ happened \subseteq MishapKinds
  BY TypesByPart DEF AudioInv
<1>3. slot \in Starts /\ slot \in 0 .. MaxStarts /\ thread[slot] = "capturing"
  BY <1>2, StartsAssumption DEF AudioInv, MainInv, NativeTypes, Starts
<1>4. ManagerTypes' /\ QueueTypes' /\ happened' \subseteq MishapKinds
  BY <1>1, <1>2 DEF ManagerTypes, QueueTypes, Commands
<1>5. NativeTypes'
  BY <1>1, <1>2, <1>3, StartsAssumption DEF NativeTypes, MainStates
<1>6. \A n \in Starts : ~Waits(n) /\ ~Waits(n)'
  BY <1>1 DEF Waits, Idle
<1>7. QueuedOnce'
  BY <1>1, <1>6 DEF AudioInv, CommandsInv, QueuedOnce, StartCommand
<1>8. NothingBefore' /\ BusyWithCommand'
  BY <1>1, <1>3 DEF AudioInv, CommandsInv, NothingBefore, BusyWithCommand, Early
<1>9. MainInv'
  BY <1>1, <1>3 DEF MainInv
<1>10. ThreadInv'
  BY <1>1, <1>2, <1>3, <1>6 DEF AudioInv, ThreadInv, NativeTypes, Idle
<1> QED
  BY <1>4, <1>5, <1>7, <1>8, <1>9, <1>10
  DEF AudioInv, CommandsInv, AATypeOK, ManagerTypes, QueueTypes, NativeTypes

LEMMA StartRefusedKeeps ==
  ASSUME AudioInv, NEW n \in Starts, StartRefused(n)
  PROVE  AudioInv'
<1>1. /\ main = Idle /\ commands # <<>> /\ Head(commands) = StartCommand(n)
      /\ Answers(n, "error") /\ UNCHANGED <<slot, stopAsked>>
  BY DEF StartRefused, Begins
<1>2. /\ CommandsInv' /\ QueueTypes' /\ ManagerTypes' /\ happened' \subseteq MishapKinds
      /\ main' = Idle /\ main' \in MainStates
      /\ answer' = [answer EXCEPT ![n] = "error"]
      /\ answer' \in [Starts -> {"none", "ok", "error"}]
      /\ thread' = thread /\ startup' = startup
  BY <1>1, AnswersKeep
<1>3. NativeTypes /\ NativeTypes'
  BY <1>1, <1>2, TypesByPart DEF AudioInv, NativeTypes
<1>4. \A m \in Starts : ~Waits(m)
  BY <1>1 DEF Waits, Idle
<1>5. thread[n] = "none"
  BY <1>1, <1>4, HeadIsInvoked
<1>6. MainInv'
  BY <1>1, <1>2 DEF AudioInv, MainInv, Idle
<1>7. ThreadInv'
  BY <1>1, <1>2, <1>3, <1>4, <1>5 DEF AudioInv, ThreadInv, NativeTypes, Idle
<1> QED
  BY <1>2, <1>3, <1>6, <1>7
  DEF AudioInv, AATypeOK, ManagerTypes, QueueTypes, NativeTypes

LEMMA StartBeginsKeeps ==
  ASSUME AudioInv, NEW n \in Starts, StartBegins(n)
  PROVE  AudioInv'
<1>1. main = Idle /\ commands # <<>> /\ Head(commands) = StartCommand(n)
  BY DEF StartBegins, Begins
<1>2. \A m \in Starts : ~Waits(m)
  BY <1>1 DEF Waits, Idle
<1>3. CASE slot = 0
  <2>1. \A m \in Starts : thread[m] # "capturing"
    BY <1>1, <1>3, StartsAreNumbers DEF AudioInv, ThreadInv, Idle
  <2>2. Spawns(n) /\ UNCHANGED <<managerVars, commands, slot, stopAsked, startup, answer, happened>>
    BY <1>3 DEF StartBegins
  <2> QED
    BY <1>1, <1>2, <1>3, <2>1, <2>2, SpawnsKeeps
<1>4. CASE slot # 0
  <2>1. StopsSlot /\ UNCHANGED <<managerVars, commands, thread, startup, answer, happened>>
    BY <1>4 DEF StartBegins
  <2> QED
    BY <1>1, <1>4, <2>1, StopsSlotKeeps
<1> QED
  BY <1>3, <1>4

\* The thread that was joined has ended, and no other captures.
LEMMA NoneCapturesOnceJoined ==
  ASSUME AudioInv, main.at = "joining", thread[main.of] = "ended"
  PROVE  /\ slot = 0 /\ commands # <<>>
         /\ \A m \in Starts : thread[m] # "capturing" /\ ~Waits(m)
<1>1. slot = 0 /\ commands # <<>>
  BY DEF AudioInv, MainInv, CommandsInv, BusyWithCommand
<1>2. \A m \in Starts : ~Waits(m)
  BY DEF Waits
<1>3. \A m \in Starts : thread[m] # "capturing"
  BY <1>1, StartsAreNumbers DEF AudioInv, ThreadInv
<1> QED
  BY <1>1, <1>2, <1>3

LEMMA StartContinuesKeeps ==
  ASSUME AudioInv, NEW n \in Starts, StartContinues(n)
  PROVE  AudioInv'
<1>1. /\ main.at = "joining" /\ thread[main.of] = "ended" /\ Head(commands) = StartCommand(n)
      /\ Spawns(n) /\ UNCHANGED <<managerVars, commands, slot, stopAsked, startup, answer, happened>>
  BY DEF StartContinues
<1> QED
  BY <1>1, NoneCapturesOnceJoined, SpawnsKeeps

\* What waiting for a thread's report means.
LEMMA WaitingFor ==
  ASSUME AudioInv, NEW n \in Starts, Waits(n)
  PROVE  /\ commands # <<>> /\ Head(commands) = StartCommand(n) /\ slot = 0 /\ n \notin stopAsked
         /\ \/ startup[n] = "none" /\ thread[n] = "activating"
            \/ startup[n] = "ok" /\ thread[n] = "capturing"
            \/ startup[n] = "error" /\ thread[n] = "ended"
         /\ \A m \in Starts : m # n => thread[m] # "capturing" /\ ~Waits(m)
<1>1. main.at = "waiting" /\ main.of = n
  BY DEF Waits
<1>2. commands # <<>> /\ Head(commands) = StartCommand(n) /\ slot = 0
  BY <1>1 DEF AudioInv, AATypeOK, CommandsInv, BusyWithCommand, MainInv
<1>3. \A m \in Starts : m # n => thread[m] # "capturing" /\ ~Waits(m)
  BY <1>1, <1>2, StartsAreNumbers DEF AudioInv, ThreadInv, Waits
<1> QED
  BY <1>1, <1>2, <1>3 DEF AudioInv, MainInv

LEMMA StartEndsKeeps ==
  ASSUME AudioInv, NEW n \in Starts, StartSucceeds(n) \/ StartFails(n) \/ StartTimesOut(n)
  PROVE  AudioInv'
<1>1. Waits(n)
  BY DEF StartSucceeds, StartFails, StartTimesOut
<1>2. /\ commands # <<>> /\ Head(commands) = StartCommand(n) /\ slot = 0 /\ n \notin stopAsked
      /\ \/ startup[n] = "none" /\ thread[n] = "activating"
         \/ startup[n] = "ok" /\ thread[n] = "capturing"
         \/ startup[n] = "error" /\ thread[n] = "ended"
      /\ \A m \in Starts : m # n => thread[m] # "capturing" /\ ~Waits(m)
  BY <1>1, WaitingFor
<1>3. NativeTypes
  BY TypesByPart DEF AudioInv
<1>4. n \in Nat /\ n # 0 /\ n \in 0 .. MaxStarts
  BY StartsAreNumbers
<1>5. CASE StartSucceeds(n)
  <2>1. Answers(n, "ok") /\ slot' = n /\ stopAsked' = stopAsked /\ startup[n] = "ok"
    BY <1>5 DEF StartSucceeds
  <2>2. /\ CommandsInv' /\ QueueTypes' /\ ManagerTypes' /\ happened' \subseteq MishapKinds
        /\ main' = Idle /\ main' \in MainStates
        /\ answer' = [answer EXCEPT ![n] = "ok"]
        /\ answer' \in [Starts -> {"none", "ok", "error"}]
        /\ thread' = thread /\ startup' = startup
    BY <1>2, <2>1, AnswersKeep
  <2>3. NativeTypes'
    BY <1>3, <1>4, <2>1, <2>2 DEF NativeTypes
  <2>4. MainInv'
    BY <1>2, <2>1, <2>2 DEF MainInv, Idle
  <2>5. ThreadInv'
    BY <1>2, <1>3, <2>1, <2>2 DEF AudioInv, ThreadInv, NativeTypes, Idle
  <2> QED
    BY <2>2, <2>3, <2>4, <2>5 DEF AudioInv, AATypeOK, ManagerTypes, QueueTypes, NativeTypes
<1>6. CASE StartFails(n)
  <2>1. Answers(n, "error") /\ slot' = slot /\ stopAsked' = stopAsked /\ startup[n] = "error"
    BY <1>6 DEF StartFails
  <2>2. /\ CommandsInv' /\ QueueTypes' /\ ManagerTypes' /\ happened' \subseteq MishapKinds
        /\ main' = Idle /\ main' \in MainStates
        /\ answer' = [answer EXCEPT ![n] = "error"]
        /\ answer' \in [Starts -> {"none", "ok", "error"}]
        /\ thread' = thread /\ startup' = startup
    BY <1>2, <2>1, AnswersKeep
  <2>3. NativeTypes'
    BY <1>3, <2>1, <2>2 DEF NativeTypes
  <2>4. MainInv'
    BY <1>2, <2>1, <2>2 DEF MainInv, Idle
  <2>5. ThreadInv'
    BY <1>2, <1>3, <2>1, <2>2 DEF AudioInv, ThreadInv, NativeTypes, Idle
  <2> QED
    BY <2>2, <2>3, <2>4, <2>5 DEF AudioInv, AATypeOK, ManagerTypes, QueueTypes, NativeTypes
<1>7. CASE StartTimesOut(n)
  <2>1. /\ Answers(n, "error") /\ slot' = slot /\ stopAsked' = stopAsked \union {n}
        /\ startup[n] = "none"
    BY <1>7 DEF StartTimesOut
  <2>2. /\ CommandsInv' /\ QueueTypes' /\ ManagerTypes' /\ happened' \subseteq MishapKinds
        /\ main' = Idle /\ main' \in MainStates
        /\ answer' = [answer EXCEPT ![n] = "error"]
        /\ answer' \in [Starts -> {"none", "ok", "error"}]
        /\ thread' = thread /\ startup' = startup
    BY <1>2, <2>1, AnswersKeep
  <2>3. NativeTypes'
    BY <1>3, <2>1, <2>2 DEF NativeTypes
  <2>4. MainInv'
    BY <1>2, <2>1, <2>2 DEF MainInv, Idle
  <2>5. ThreadInv'
    BY <1>2, <1>3, <2>1, <2>2 DEF AudioInv, ThreadInv, NativeTypes, Idle
  <2> QED
    BY <2>2, <2>3, <2>4, <2>5 DEF AudioInv, AATypeOK, ManagerTypes, QueueTypes, NativeTypes
<1> QED
  BY <1>5, <1>6, <1>7

\* stop_app_audio returns: the main thread is idle, and no thread captures.
LEMMA StopEndsKeeps ==
  ASSUME AudioInv, commands # <<>>, NEW n \in Starts, Returns, open' = open \ {n},
         slot = 0, \A m \in Starts : thread[m] # "capturing" /\ ~Waits(m),
         UNCHANGED <<state, held, starting, slot, thread, stopAsked, startup, answer, happened>>
  PROVE  AudioInv'
<1>1. ManagerTypes /\ NativeTypes /\ happened \subseteq MishapKinds
  BY TypesByPart DEF AudioInv
<1>2. CommandsInv' /\ QueueTypes' /\ main' = Idle
  BY ReturnsKeeps DEF Returns
<1>3. ManagerTypes' /\ happened' \subseteq MishapKinds
  BY <1>1 DEF ManagerTypes
<1>4. NativeTypes'
  BY <1>1, <1>2, StartsAssumption DEF NativeTypes, MainStates, Idle
<1>5. MainInv' /\ ThreadInv'
  BY <1>2 DEF AudioInv, MainInv, ThreadInv, Idle
<1> QED
  BY <1>2, <1>3, <1>4, <1>5 DEF AudioInv, AATypeOK, ManagerTypes, QueueTypes, NativeTypes

LEMMA StopBeginsKeeps ==
  ASSUME AudioInv, NEW n \in Starts, StopBegins(n)
  PROVE  AudioInv'
<1>1. main = Idle /\ commands # <<>>
  BY DEF StopBegins, Begins
<1>2. CASE slot = 0
  <2>1. \A m \in Starts : thread[m] # "capturing" /\ ~Waits(m)
    BY <1>1, <1>2, StartsAreNumbers DEF AudioInv, ThreadInv, Waits, Idle
  <2> QED
    BY <1>1, <1>2, <2>1, StopEndsKeeps DEF StopBegins
<1>3. CASE slot # 0
  <2>1. StopsSlot /\ UNCHANGED <<managerVars, commands, thread, startup, answer, happened>>
    BY <1>3 DEF StopBegins, managerVars
  <2> QED
    BY <1>1, <1>3, <2>1, StopsSlotKeeps
<1> QED
  BY <1>2, <1>3

LEMMA StopReturnsKeeps ==
  ASSUME AudioInv, NEW n \in Starts, StopReturns(n)
  PROVE  AudioInv'
<1>1. main.at = "joining" /\ thread[main.of] = "ended"
  BY DEF StopReturns
<1> QED
  BY <1>1, NoneCapturesOnceJoined, StopEndsKeeps DEF StopReturns
-----------------------------------------------------------------------------
(***************************************************************************)
(* The capture threads.                                                    *)
(***************************************************************************)
LEMMA ThreadStepKeeps ==
  ASSUME AudioInv, NEW n \in Starts, ThreadStep(n)
  PROVE  AudioInv'
<1>1. /\ UNCHANGED <<managerVars, commands, main, slot, stopAsked, answer, happened>>
      /\ \/ /\ thread[n] = "activating"
            /\ \/ /\ startup' = [startup EXCEPT ![n] = "ok"]
                  /\ thread' = [thread EXCEPT ![n] = IF n \in stopAsked THEN "ended" ELSE "capturing"]
               \/ /\ startup' = [startup EXCEPT ![n] = "error"]
                  /\ thread' = [thread EXCEPT ![n] = "ended"]
         \/ /\ thread[n] = "capturing" /\ n \in stopAsked
            /\ startup' = startup /\ thread' = [thread EXCEPT ![n] = "ended"]
  BY DEF ThreadStep, Activates, ActivationFails, ThreadEnds, Reports
<1>2. ManagerTypes /\ QueueTypes /\ NativeTypes /\ happened \subseteq MishapKinds
  BY TypesByPart DEF AudioInv
<1>3. ManagerTypes' /\ QueueTypes' /\ happened' \subseteq MishapKinds
  BY <1>1, <1>2 DEF ManagerTypes, QueueTypes, Commands, StartCommand, managerVars
<1>4. NativeTypes'
  BY <1>1, <1>2 DEF NativeTypes, MainStates
<1>5. thread'[n] # "none" /\ \A m \in Starts : m # n => thread'[m] = thread[m] /\ startup'[m] = startup[m]
  BY <1>1, <1>2 DEF NativeTypes
<1>6. QueuedOnce'
  BY <1>1, <1>5 DEF AudioInv, CommandsInv, QueuedOnce, StartCommand, Waits, managerVars
<1>7. NothingBefore' /\ BusyWithCommand'
  BY <1>1, <1>5 DEF AudioInv, CommandsInv, NothingBefore, BusyWithCommand, Early, managerVars
<1>8. slot # n /\ (slot # 0 => slot \in Starts)
  BY <1>1, <1>2, StartsAreNumbers, StartsAssumption DEF AudioInv, MainInv, NativeTypes, Starts
<1>9. MainInv'
  <2>1. MainInv /\ (main.at # "idle" => main.of \in Starts)
    BY DEF AudioInv, CommandsInv, BusyWithCommand
  <2>2. slot # 0 => slot \notin stopAsked /\ thread'[slot] = "capturing"
    BY <1>5, <1>8, <2>1 DEF MainInv
  <2>3. CASE main.of = n
    BY <1>1, <1>2, <2>1, <2>2, <2>3 DEF MainInv, NativeTypes
  <2>4. CASE main.of # n
    BY <1>1, <1>5, <2>1, <2>2, <2>4 DEF MainInv
  <2> QED
    BY <2>3, <2>4
<1>10. ThreadInv'
  BY <1>1, <1>2, <1>5 DEF AudioInv, ThreadInv, NativeTypes, Waits
<1> QED
  BY <1>3, <1>4, <1>6, <1>7, <1>9, <1>10
  DEF AudioInv, CommandsInv, AATypeOK, ManagerTypes, QueueTypes, NativeTypes
-----------------------------------------------------------------------------
LEMMA AudioInvStep == AudioInv /\ [AANext]_audioVars => AudioInv'
<1> SUFFICES ASSUME AudioInv, [AANext]_audioVars PROVE AudioInv'
  OBVIOUS
<1>1. CASE UNCHANGED audioVars
  <2>1. UNCHANGED nativeVars /\ commands' = commands /\ starting' = starting
    BY <1>1 DEF audioVars, managerVars
  <2>2. ManagerTypes' /\ happened' \subseteq MishapKinds
    BY <1>1, TypesByPart DEF AudioInv, ManagerTypes, audioVars, managerVars
  <2> QED
    BY <2>1, <2>2, ManagerKeeps
<1>2. ASSUME NEW n \in Starts, MainStep(n) PROVE AudioInv'
  BY <1>2, StartRefusedKeeps, StartBeginsKeeps, StartContinuesKeeps, StartEndsKeeps,
     StopBeginsKeeps, StopReturnsKeeps DEF MainStep
<1>3. CASE AANext
  BY <1>2, <1>3, ManagerStepKeeps, ThreadStepKeeps, ShareFailsKeeps, StopKeeps DEF AANext
<1> QED
  BY <1>1, <1>3

LEMMA AudioInvHolds == AASpec => []AudioInv
BY AudioInvInit, AudioInvStep, PTL DEF AASpec

(***************************************************************************)
(* The manager, the queue, the slot and the threads keep their types, and  *)
(* the main thread waits only for the thread of the command it runs.       *)
(***************************************************************************)
THEOREM AATypeCorrect == AASpec => []AATypeOK
<1>1. AudioInv => AATypeOK
  BY DEF AudioInv
<1> QED
  BY <1>1, AudioInvHolds, PTL

(***************************************************************************)
(* However many starts and stops are queued, and whichever of them time    *)
(* out: one thread captures at a time, the next stop will find it, and a   *)
(* start that was given up leaves none behind (start_app_audio,            *)
(* stop_app_audio, app_audio::start, CaptureHandle).                       *)
(***************************************************************************)
THEOREM NoCaptureIsStray == AASpec => []NoStrayCapture
<1>1. AudioInv => NoStrayCapture
  <2> SUFFICES ASSUME AudioInv, NEW n \in Starts, thread[n] = "capturing"
               PROVE  /\ n \in stopAsked \/ slot = n \/ Waits(n)
                      /\ answer[n] # "error"
                      /\ \A m \in Starts : thread[m] = "capturing" => m = n
    BY DEF NoStrayCapture
  <2>1. slot = n \/ (main.at # "idle" /\ main.of = n)
    BY DEF AudioInv, ThreadInv
  <2>2. main \in MainStates
    BY DEF AudioInv, AATypeOK
  <2>3. n \in stopAsked \/ slot = n \/ Waits(n)
    BY <2>1, <2>2 DEF AudioInv, MainInv, MainStates, Waits
  <2>4. answer[n] # "error"
    BY DEF AudioInv, ThreadInv
  <2>5. \A m \in Starts : thread[m] = "capturing" => m = n
    BY <2>1, StartsAreNumbers DEF AudioInv, ThreadInv, MainInv
  <2> QED
    BY <2>3, <2>4, <2>5
<1> QED
  BY <1>1, AudioInvHolds, PTL
-----------------------------------------------------------------------------
(***************************************************************************)
(* What a share holds.  As long as no start() or stop() comes on top of    *)
(* another start, the queue ends in whatever the manager has in mind: a    *)
(* start that is under way stands last, and a capture nobody holds any     *)
(* more has a stop in the queue.                                           *)
(***************************************************************************)
Under(n) == starting[n] \in {"picker", "loading", "invoked", "answered"}
StopQueued(n) == \E i \in DOMAIN commands : commands[i] = StopCommand(n)

OneAtATime ==
  /\ \A m, n \in Starts : Under(m) /\ Under(n) => m = n
  /\ \A n \in Starts : Under(n) => state = "starting" /\ held = 0

StartIsLast == \A i \in DOMAIN commands : commands[i].type = "start" => i = Len(commands)

SlotAccounted ==
  /\ held # 0 => commands = <<>> /\ slot = held
  /\ \A n \in Starts : starting[n] = "answered" /\ answer[n] # "none" =>
       commands = <<>> /\ (answer[n] = "ok" => slot = n)
  /\ slot # 0 => \/ slot = held
                 \/ starting[slot] = "answered" /\ answer[slot] = "ok"
                 \/ \E n \in Starts : StopQueued(n)

ContextsAccounted ==
  /\ \A n \in Starts : starting[n] = "answered" => answer[n] # "none"
  /\ \A n \in open : n = held \/ starting[n] \in {"loading", "invoked", "answered"} \/ StopQueued(n)

HoldingInv ==
  Spared(Restarts) =>
    /\ OneAtATime /\ StartIsLast /\ SlotAccounted
    /\ Spared({"worklet fails"}) => ContextsAccounted

\* What has happened stays so.
LEMMA MishapsStay ==
  ASSUME [AANext]_audioVars
  PROVE  happened \subseteq happened'
<1>1. CASE UNCHANGED audioVars
  BY <1>1 DEF audioVars
<1>2. ASSUME NEW n \in Starts, ManagerStep(n) PROVE happened \subseteq happened'
  BY <1>2 DEF ManagerStep, Start, PickerAnswers, PickerFails, InvokeStart, WorkletFails,
              StartGoesOn, Befalls
<1>3. ASSUME NEW n \in Starts, MainStep(n) PROVE happened \subseteq happened'
  BY <1>3 DEF MainStep, StartRefused, StartBegins, StartContinues, StartSucceeds, StartFails,
              StartTimesOut, StopBegins, StopReturns, Answers
<1>4. ASSUME NEW n \in Starts, ThreadStep(n) PROVE happened \subseteq happened'
  BY <1>4 DEF ThreadStep, Activates, ActivationFails, ThreadEnds, Reports
<1>5. CASE ShareFails \/ Stop
  BY <1>5 DEF ShareFails, Stop, Befalls
<1> QED
  BY <1>1, <1>2, <1>3, <1>4, <1>5 DEF AANext

(***************************************************************************)
(* What each change of the queue does to what stands in it.                *)
(***************************************************************************)
LEMMA NoneQueued == commands = <<>> => \A n : ~StopQueued(n)
BY DEF StopQueued

LEMMA StopEnqueued ==
  ASSUME NEW h \in Starts, commands = <<>>, commands' = Append(commands, StopCommand(h))
  PROVE  StartIsLast' /\ StopQueued(h)'
<1>1. commands \in Seq(Commands) /\ StopCommand(h) \in Commands /\ Len(commands) = 0
  BY CommandsAreCommands
<1>2. DOMAIN commands' = 1 .. 1 /\ commands'[1] = StopCommand(h)
  BY <1>1, Enqueued
<1>3. StartIsLast'
  BY <1>2 DEF StartIsLast, StopCommand
<1>4. StopQueued(h)'
  BY <1>2 DEF StopQueued
<1> QED
  BY <1>3, <1>4

LEMMA StartEnqueued ==
  ASSUME AudioInv, NEW n \in Starts, commands' = Append(commands, StartCommand(n)),
         \A i \in DOMAIN commands : commands[i].type # "start"
  PROVE  StartIsLast' /\ \A m \in Starts : StopQueued(m) => StopQueued(m)'
<1>1. commands \in Seq(Commands) /\ StartCommand(n) \in Commands
  BY CommandsAreCommands DEF AudioInv, AATypeOK
<1>2. /\ DOMAIN commands' = 1 .. Len(commands) + 1 /\ Len(commands) \in Nat
      /\ Len(commands') = Len(commands) + 1
      /\ \A i \in DOMAIN commands : commands'[i] = commands[i] /\ i \in DOMAIN commands'
      /\ \A i \in DOMAIN commands' : i \in DOMAIN commands \/ i = Len(commands) + 1
  BY <1>1, Enqueued
<1>3. StartIsLast'
  BY <1>2 DEF StartIsLast
<1>4. ASSUME NEW m \in Starts, StopQueued(m) PROVE StopQueued(m)'
  BY <1>2, <1>4 DEF StopQueued
<1> QED
  BY <1>3, <1>4

LEMMA HeadDequeued ==
  ASSUME AudioInv, StartIsLast, commands # <<>>, commands' = Tail(commands)
  PROVE  /\ StartIsLast'
         /\ \A m \in Starts : StopQueued(m) => StopQueued(m)' \/ Head(commands) = StopCommand(m)
         /\ Head(commands).type = "start" => commands' = <<>>
<1>1. commands \in Seq(Commands)
  BY DEF AudioInv, AATypeOK
<1>2. /\ Len(commands) \in Nat \ {0} /\ DOMAIN commands = 1 .. Len(commands)
      /\ Len(commands') = Len(commands) - 1 /\ DOMAIN commands' = 1 .. Len(commands) - 1
      /\ commands[1] = Head(commands) /\ 1 \in DOMAIN commands
      /\ \A i \in DOMAIN commands' : commands'[i] = commands[i + 1] /\ i + 1 \in DOMAIN commands
  BY <1>1
<1>3. StartIsLast'
  BY <1>2 DEF StartIsLast
<1>4. ASSUME NEW m \in Starts, StopQueued(m)
      PROVE  StopQueued(m)' \/ Head(commands) = StopCommand(m)
  <2>1. PICK i \in DOMAIN commands : commands[i] = StopCommand(m)
    BY <1>4 DEF StopQueued
  <2>2. CASE i = 1
    BY <1>2, <2>1, <2>2
  <2>3. CASE i # 1
    <3>1. i - 1 \in DOMAIN commands' /\ commands'[i - 1] = commands[i]
      <4>1. i \in 1 .. Len(commands) /\ i - 1 \in 1 .. Len(commands) - 1 /\ (i - 1) + 1 = i
        BY <1>2, <2>3
      <4> QED
        BY <1>2, <4>1
    <3> QED
      BY <2>1, <3>1 DEF StopQueued
  <2> QED
    BY <2>2, <2>3
<1>5. ASSUME Head(commands).type = "start" PROVE commands' = <<>>
  <2>1. Len(commands) = 1
    BY <1>2, <1>5 DEF StartIsLast
  <2> QED
    BY <1>1, <2>1
<1> QED
  BY <1>3, <1>4, <1>5

(***************************************************************************)
(* The steps.  Holding is what HoldingInv says while it applies.           *)
(***************************************************************************)
Holding ==
  /\ OneAtATime /\ StartIsLast /\ SlotAccounted
  /\ Spared({"worklet fails"}) => ContextsAccounted
holdingVars == <<state, held, starting, open, commands, slot, answer>>

LEMMA HoldingUntouched ==
  ASSUME Holding, happened \subseteq happened', UNCHANGED holdingVars
  PROVE  Holding'
<1>1. OneAtATime' /\ StartIsLast'
  BY DEF Holding, holdingVars, OneAtATime, StartIsLast, Under
<1>2. SlotAccounted'
  BY DEF Holding, holdingVars, SlotAccounted, StopQueued
<1>3. Spared({"worklet fails"})' => ContextsAccounted'
  BY DEF Holding, holdingVars, ContextsAccounted, StopQueued, Under, Spared
<1> QED
  BY <1>1, <1>2, <1>3 DEF Holding

LEMMA SlotIsAStart == AudioInv => (slot # 0 => slot \in Starts) /\ (held # 0 => held \in Starts)
BY StartsAssumption DEF AudioInv, AATypeOK, Starts

LEMMA StartHolds ==
  ASSUME AudioInv, Holding, NEW n \in Starts, Start(n), Spared(Restarts)'
  PROVE  Holding'
<1>1. /\ state \in {"idle", "error"} /\ starting[n] = "none" /\ state' = "starting"
      /\ starting' = [starting EXCEPT ![n] = "picker"]
      /\ UNCHANGED <<held, open, commands, slot, answer>>
      /\ happened' = happened \union OnlyIf(held # 0, "start over error")
  BY DEF Start, Befalls, nativeVars
<1>2. held = 0
  BY <1>1 DEF Spared, Restarts, OnlyIf
<1>3. \A m \in Starts : ~Under(m)
  BY <1>1 DEF Holding, OneAtATime
<1>4. starting \in [Starts -> StartPhases]
  BY DEF AudioInv, AATypeOK
<1>5. OneAtATime'
  BY <1>1, <1>2, <1>3, <1>4 DEF OneAtATime, Under
<1>6. StartIsLast'
  BY <1>1 DEF Holding, StartIsLast
<1>7. SlotAccounted'
  BY <1>1, <1>3, <1>4, SlotIsAStart DEF Holding, SlotAccounted, StopQueued, Under
<1>8. Spared({"worklet fails"})' => ContextsAccounted'
  <2>1. open \subseteq Starts
    BY DEF AudioInv, AATypeOK
  <2> QED
    BY <1>1, <1>3, <1>4, <2>1 DEF Holding, ContextsAccounted, StopQueued, Under, Spared
<1> QED
  BY <1>5, <1>6, <1>7, <1>8 DEF Holding

LEMMA PickerHolds ==
  ASSUME AudioInv, Holding, NEW n \in Starts, PickerAnswers(n) \/ PickerFails(n)
  PROVE  Holding'
<1>1. starting[n] = "picker" /\ Under(n)
  BY DEF PickerAnswers, PickerFails, Under
<1>2. held = 0 /\ starting \in [Starts -> StartPhases]
  BY <1>1 DEF Holding, OneAtATime, AudioInv, AATypeOK
<1>3. /\ UNCHANGED <<held, commands, slot, answer, happened>>
      /\ \/ /\ starting' = [starting EXCEPT ![n] = "loading"]
            /\ open' = open \union {n} /\ state' = state
         \/ starting' = [starting EXCEPT ![n] = "done"] /\ open' = open
  BY <1>2 DEF PickerAnswers, PickerFails, CleanUp, nativeVars
<1>4. OneAtATime'
  BY <1>1, <1>2, <1>3 DEF Holding, OneAtATime, Under
<1>5. StartIsLast'
  BY <1>3 DEF Holding, StartIsLast
<1>6. SlotAccounted'
  BY <1>1, <1>2, <1>3, SlotIsAStart DEF Holding, SlotAccounted, StopQueued
<1>7. Spared({"worklet fails"})' => ContextsAccounted'
  <2> SUFFICES ASSUME ContextsAccounted PROVE ContextsAccounted'
    BY <1>3 DEF Holding, Spared
  <2>1. open \subseteq Starts
    BY DEF AudioInv, AATypeOK
  <2> QED
    BY <1>1, <1>2, <1>3, <2>1 DEF ContextsAccounted, StopQueued
<1> QED
  BY <1>4, <1>5, <1>6, <1>7 DEF Holding

LEMMA LoadingHolds ==
  ASSUME AudioInv, Holding, NEW n \in Starts, InvokeStart(n) \/ WorkletFails(n)
  PROVE  Holding'
<1>1. starting[n] = "loading" /\ Under(n) /\ answer[n] = "none"
  BY DEF InvokeStart, WorkletFails, Under, AudioInv, CommandsInv, NothingBefore, Early
<1>2. held = 0 /\ starting \in [Starts -> StartPhases] /\ open \subseteq Starts
  BY <1>1 DEF Holding, OneAtATime, AudioInv, AATypeOK
<1>3. UNCHANGED <<state, held, open, slot, answer>>
  BY DEF InvokeStart, WorkletFails, nativeVars
<1>4. \E phase \in {"invoked", "answered"} : starting' = [starting EXCEPT ![n] = phase]
  BY DEF InvokeStart, WorkletFails
<1>5. OneAtATime'
  BY <1>1, <1>2, <1>3, <1>4 DEF Holding, OneAtATime, Under
<1>6. \A i \in DOMAIN commands : commands[i].type # "start"
  <2> SUFFICES ASSUME NEW i \in DOMAIN commands, commands[i].type = "start" PROVE FALSE
    OBVIOUS
  <2>1. commands[i] \in Commands
    BY DEF AudioInv, AATypeOK
  <2>2. PICK m \in Starts : commands[i] = StartCommand(m)
    BY <2>1 DEF Commands, StartCommand
  <2>3. starting[m] = "invoked"
    BY <2>2 DEF AudioInv, CommandsInv, QueuedOnce
  <2> QED
    BY <1>1, <2>3 DEF Holding, OneAtATime, Under
<1>7. StartIsLast' /\ \A m \in Starts : StopQueued(m) => StopQueued(m)'
  <2>1. CASE InvokeStart(n)
    BY <1>6, <2>1, StartEnqueued DEF InvokeStart
  <2>2. CASE WorkletFails(n)
    BY <2>2 DEF WorkletFails, Holding, StartIsLast, StopQueued
  <2> QED
    BY <2>1, <2>2
<1>8. SlotAccounted'
  <2>1. \A m \in Starts : ~(starting[m] = "answered")
    BY <1>1 DEF Holding, OneAtATime, Under
  <2> QED
    BY <1>1, <1>2, <1>3, <1>4, <1>7, <2>1, SlotIsAStart DEF Holding, SlotAccounted
<1>9. Spared({"worklet fails"})' => ContextsAccounted'
  <2>1. CASE InvokeStart(n)
    <3>1. starting' = [starting EXCEPT ![n] = "invoked"] /\ happened' = happened
      BY <2>1 DEF InvokeStart
    <3> QED
      BY <1>1, <1>2, <1>3, <1>7, <3>1 DEF Holding, ContextsAccounted, Spared
  <2>2. CASE WorkletFails(n)
    BY <2>2 DEF WorkletFails, Befalls, Spared
  <2> QED
    BY <2>1, <2>2
<1> QED
  BY <1>5, <1>7, <1>8, <1>9 DEF Holding

LEMMA StartGoesOnHolds ==
  ASSUME AudioInv, Holding, NEW n \in Starts, StartGoesOn(n)
  PROVE  Holding'
<1>1. starting[n] = "answered" /\ Under(n) /\ starting' = [starting EXCEPT ![n] = "done"]
  BY DEF StartGoesOn, Under
<1>2. /\ held = 0 /\ starting \in [Starts -> StartPhases] /\ open \subseteq Starts
      /\ n # 0 /\ answer[n] \in {"none", "ok", "error"} /\ commands \in Seq(Commands)
      /\ \A m \in Starts : Under(m) => m = n
  BY <1>1, StartsAreNumbers DEF Holding, OneAtATime, AudioInv, AATypeOK
<1>3. UNCHANGED <<slot, answer, happened>> /\ open' = ContextsAfter(n)
  BY DEF StartGoesOn, nativeVars
<1>4. OneAtATime'
  <2>1. \A m \in Starts : ~Under(m)'
    BY <1>1, <1>2 DEF Under
  <2> QED
    BY <2>1 DEF OneAtATime
<1>5. CASE answer[n] = "ok"
  <2>1. commands = <<>> /\ slot = n
    BY <1>1, <1>5 DEF Holding, SlotAccounted
  <2>2. open' = open
    BY <1>3, <1>5 DEF ContextsAfter
  <2>3. CASE held' = n /\ commands' = commands
    <3>1. StartIsLast' /\ SlotAccounted'
      BY <1>1, <1>2, <1>3, <2>1, <2>3 DEF Holding, StartIsLast, SlotAccounted, Under
    <3>2. Spared({"worklet fails"})' => ContextsAccounted'
      <4> SUFFICES ASSUME ContextsAccounted PROVE ContextsAccounted'
        BY <1>3 DEF Holding, Spared
      <4>1. \A m \in open : m = n
        BY <1>2, <2>1, NoneQueued DEF ContextsAccounted, Under
      <4> QED
        BY <1>1, <1>2, <1>3, <2>2, <2>3, <4>1 DEF ContextsAccounted
    <3> QED
      BY <1>4, <3>1, <3>2 DEF Holding
  <2>4. CASE held' = 0 /\ commands' = Append(commands, StopCommand(n))
    <3>1. StartIsLast' /\ StopQueued(n)'
      BY <2>1, <2>4, StopEnqueued
    <3>2. SlotAccounted'
      BY <1>1, <1>2, <1>3, <2>1, <2>4, <3>1 DEF SlotAccounted, Under
    <3>3. Spared({"worklet fails"})' => ContextsAccounted'
      BY <1>1, <1>2, <1>3, <2>1, <2>2, <2>4, <3>1, NoneQueued DEF Holding, ContextsAccounted, Spared, Under
    <3> QED
      BY <1>4, <3>1, <3>2, <3>3 DEF Holding
  <2> QED
    BY <1>2, <1>5, <2>3, <2>4 DEF StartGoesOn, CleanUp
<1>6. CASE answer[n] # "ok"
  <2>1. held' = 0 /\ commands' = commands
    BY <1>6 DEF StartGoesOn, CleanUp
  <2>2. StartIsLast'
    BY <2>1 DEF Holding, StartIsLast
  <2>3. SlotAccounted'
    BY <1>1, <1>2, <1>3, <1>6, <2>1, SlotIsAStart DEF Holding, SlotAccounted, Under, StopQueued
  <2>4. Spared({"worklet fails"})' => ContextsAccounted'
    <3> SUFFICES ASSUME ContextsAccounted PROVE ContextsAccounted'
      BY <1>3 DEF Holding, Spared
    <3>1. open' = open \ {n}
      BY <1>1, <1>2, <1>3, <1>6 DEF ContextsAccounted, ContextsAfter
    <3> QED
      BY <1>1, <1>2, <1>3, <2>1, <3>1 DEF ContextsAccounted, StopQueued, Under
  <2> QED
    BY <1>4, <2>2, <2>3, <2>4 DEF Holding
<1> QED
  BY <1>5, <1>6

LEMMA ShareEndsHolds ==
  ASSUME AudioInv, Holding, ShareFails \/ Stop, Spared(Restarts)'
  PROVE  Holding'
<1>1. UNCHANGED <<starting, open, slot, answer>> /\ happened \subseteq happened'
  BY DEF ShareFails, Stop, nativeVars, Befalls
<1>2. \A n \in Starts : ~Under(n)
  <2>1. CASE ShareFails
    BY <2>1 DEF ShareFails, Holding, OneAtATime
  <2>2. CASE Stop
    <3>1. ~Pending
      BY <2>2 DEF Stop, Befalls, Spared, Restarts, OnlyIf
    <3> QED
      BY <3>1 DEF Pending, Under
  <2> QED
    BY <2>1, <2>2
<1>3. OneAtATime'
  BY <1>1, <1>2 DEF OneAtATime, Under
<1>4. CASE held' = held /\ commands' = commands
  <2>1. StartIsLast' /\ SlotAccounted'
    BY <1>1, <1>4 DEF Holding, StartIsLast, SlotAccounted, StopQueued
  <2>2. Spared({"worklet fails"})' => ContextsAccounted'
    BY <1>1, <1>4 DEF Holding, ContextsAccounted, Spared, StopQueued
  <2> QED
    BY <1>3, <2>1, <2>2 DEF Holding
<1>5. CASE held # 0 /\ held' = 0 /\ commands' = Append(commands, StopCommand(held))
  <2>1. PICK h \in Starts : h = held
    BY <1>5, SlotIsAStart
  <2>2. commands = <<>> /\ slot = h /\ commands' = Append(commands, StopCommand(h))
    BY <1>5, <2>1 DEF Holding, SlotAccounted
  <2>3. StartIsLast' /\ StopQueued(h)'
    BY <2>2, StopEnqueued
  <2>4. SlotAccounted'
    BY <1>1, <1>2, <1>5, <2>2, <2>3 DEF SlotAccounted, Under
  <2>5. Spared({"worklet fails"})' => ContextsAccounted'
    BY <1>1, <1>2, <2>1, <2>2, <2>3, NoneQueued DEF Holding, ContextsAccounted, Spared, Under
  <2> QED
    BY <1>3, <2>3, <2>4, <2>5 DEF Holding
<1> QED
  BY <1>4, <1>5 DEF ShareFails, Stop, CleanUp

\* A start that is on its way into the slot finds it empty, and is the last command there is.
LEMMA NothingInTheWay ==
  ASSUME AudioInv, Holding, NEW n \in Starts, commands # <<>>, Head(commands) = StartCommand(n)
  PROVE  /\ starting[n] = "invoked" /\ Under(n) /\ answer[n] = "none"
         /\ held = 0 /\ slot = 0
         /\ \A m \in Starts : ~StopQueued(m)
         /\ \A m \in Starts : Under(m) => m = n
<1>1. starting[n] = "invoked" /\ Under(n) /\ answer[n] = "none"
  BY HeadIsInvoked DEF Under
<1>2. held = 0 /\ \A m \in Starts : Under(m) => m = n
  BY <1>1 DEF Holding, OneAtATime
<1>3. \A m \in Starts : ~StopQueued(m)
  <2> SUFFICES ASSUME NEW i \in DOMAIN commands, NEW m \in Starts, commands[i] = StopCommand(m)
               PROVE  FALSE
    BY DEF StopQueued
  <2>1. commands \in Seq(Commands)
    BY DEF AudioInv, AATypeOK
  <2>2. 1 \in DOMAIN commands /\ commands[1] = StartCommand(n) /\ Len(commands) \in Nat
        /\ DOMAIN commands = 1 .. Len(commands)
    BY <2>1
  <2>3. Len(commands) = 1
    <3>1. commands[1].type = "start"
      BY <2>2 DEF StartCommand
    <3> QED
      BY <2>2, <3>1 DEF Holding, StartIsLast
  <2> QED
    BY <2>2, <2>3 DEF StartCommand, StopCommand
<1>4. slot = 0
  BY <1>1, <1>2, <1>3, SlotIsAStart DEF Holding, SlotAccounted, Under
<1> QED
  BY <1>1, <1>2, <1>3, <1>4

LEMMA AnswersHolds ==
  ASSUME AudioInv, Holding, NEW n \in Starts, NEW outcome \in {"ok", "error"},
         commands # <<>>, Head(commands) = StartCommand(n), Answers(n, outcome),
         slot' = IF outcome = "ok" THEN n ELSE slot
  PROVE  Holding'
<1>1. /\ commands' = Tail(commands)
      /\ answer' = [answer EXCEPT ![n] = outcome]
      /\ starting' = [starting EXCEPT ![n] = "answered"]
      /\ UNCHANGED <<state, held, open, happened>>
  BY DEF Answers, Returns
<1>2. /\ starting[n] = "invoked" /\ Under(n) /\ held = 0 /\ slot = 0
      /\ \A m \in Starts : ~StopQueued(m)
      /\ \A m \in Starts : Under(m) => m = n
  BY NothingInTheWay
<1>3. /\ starting \in [Starts -> StartPhases] /\ open \subseteq Starts
      /\ answer \in [Starts -> {"none", "ok", "error"}] /\ commands \in Seq(Commands)
  BY DEF AudioInv, AATypeOK
<1>4. commands' = <<>> /\ StartIsLast'
  <2>1. Head(commands).type = "start"
    BY DEF StartCommand
  <2> QED
    BY <1>1, <2>1, HeadDequeued DEF Holding
<1>5. OneAtATime'
  BY <1>1, <1>2, <1>3 DEF Holding, OneAtATime, Under
<1>6. SlotAccounted'
  BY <1>1, <1>2, <1>3, <1>4 DEF SlotAccounted, Under
<1>7. Spared({"worklet fails"})' => ContextsAccounted'
  <2> SUFFICES ASSUME ContextsAccounted PROVE ContextsAccounted'
    BY <1>1 DEF Holding, Spared
  <2>1. \A m \in open : m = n
    BY <1>2, <1>3 DEF ContextsAccounted, Under
  <2> QED
    BY <1>1, <1>2, <1>3, <2>1 DEF ContextsAccounted, Under
<1> QED
  BY <1>4, <1>5, <1>6, <1>7 DEF Holding

LEMMA StartCommandHolds ==
  ASSUME AudioInv, Holding, NEW n \in Starts,
         \/ StartRefused(n) \/ StartBegins(n) \/ StartContinues(n)
         \/ StartSucceeds(n) \/ StartFails(n) \/ StartTimesOut(n)
  PROVE  Holding'
<1>1. CASE StartRefused(n)
  BY <1>1, AnswersHolds DEF StartRefused, Begins
<1>2. CASE StartBegins(n)
  <2>1. commands # <<>> /\ Head(commands) = StartCommand(n)
    BY <1>2 DEF StartBegins, Begins
  <2>2. slot = 0
    BY <2>1, NothingInTheWay
  <2> QED
    BY <1>2, <2>2, HoldingUntouched DEF StartBegins, holdingVars, managerVars
<1>3. CASE StartContinues(n)
  BY <1>3, HoldingUntouched DEF StartContinues, holdingVars, managerVars
<1>4. CASE StartSucceeds(n) \/ StartFails(n) \/ StartTimesOut(n)
  <2>1. Waits(n) /\ n # 0
    BY <1>4, StartsAreNumbers DEF StartSucceeds, StartFails, StartTimesOut
  <2>2. commands # <<>> /\ Head(commands) = StartCommand(n)
    BY <2>1, WaitingFor
  <2> QED
    BY <1>4, <2>2, AnswersHolds DEF StartSucceeds, StartFails, StartTimesOut
<1> QED
  BY <1>1, <1>2, <1>3, <1>4

\* The stop of n has run.
LEMMA StopDoneHolds ==
  ASSUME AudioInv, Holding, NEW n \in Starts,
         commands # <<>>, Head(commands) = StopCommand(n), Returns, slot = 0, open' = open \ {n},
         UNCHANGED <<state, held, starting, slot, answer, happened>>
  PROVE  Holding'
<1>1. commands' = Tail(commands)
  BY DEF Returns
<1>2. /\ StartIsLast'
      /\ \A m \in Starts : m # n /\ StopQueued(m) => StopQueued(m)'
  <2>1. \A m : StopCommand(m) = StopCommand(n) => m = n
    BY DEF StopCommand
  <2> QED
    BY <1>1, <2>1, HeadDequeued DEF Holding
<1>3. OneAtATime'
  BY DEF Holding, OneAtATime, Under
<1>4. SlotAccounted'
  BY DEF Holding, SlotAccounted
<1>5. Spared({"worklet fails"})' => ContextsAccounted'
  <2> SUFFICES ASSUME ContextsAccounted PROVE ContextsAccounted'
    BY DEF Holding, Spared
  <2>1. open \subseteq Starts
    BY DEF AudioInv, AATypeOK
  <2> QED
    BY <1>2, <2>1 DEF ContextsAccounted
<1> QED
  BY <1>2, <1>3, <1>4, <1>5 DEF Holding

LEMMA StopCommandHolds ==
  ASSUME AudioInv, Holding, NEW n \in Starts, StopBegins(n) \/ StopReturns(n)
  PROVE  Holding'
<1>1. CASE StopBegins(n) /\ slot = 0
  BY <1>1, StopDoneHolds DEF StopBegins, Begins
<1>2. CASE StopBegins(n) /\ slot # 0
  <2>1. commands # <<>> /\ Head(commands) = StopCommand(n)
    BY <1>2 DEF StopBegins, Begins
  <2>2. slot' = 0 /\ UNCHANGED <<state, held, starting, open, commands, answer, happened>>
    BY <1>2 DEF StopBegins, StopsSlot
  <2>3. OneAtATime' /\ StartIsLast'
    BY <2>2 DEF Holding, OneAtATime, StartIsLast, Under
  <2>4. SlotAccounted'
    BY <2>1, <2>2 DEF Holding, SlotAccounted
  <2>5. Spared({"worklet fails"})' => ContextsAccounted'
    BY <2>2 DEF Holding, ContextsAccounted, StopQueued, Spared
  <2> QED
    BY <2>3, <2>4, <2>5 DEF Holding
<1>3. CASE StopReturns(n)
  <2>1. commands # <<>> /\ slot = 0
    BY <1>3 DEF StopReturns, AudioInv, CommandsInv, BusyWithCommand, MainInv
  <2> QED
    BY <1>3, <2>1, StopDoneHolds DEF StopReturns
<1> QED
  BY <1>1, <1>2, <1>3

LEMMA HoldingStep == AudioInv /\ HoldingInv /\ [AANext]_audioVars => HoldingInv'
<1> SUFFICES ASSUME AudioInv, HoldingInv, [AANext]_audioVars, Spared(Restarts)' PROVE Holding'
  BY DEF HoldingInv, Holding
<1>1. happened \subseteq happened'
  BY MishapsStay
<1>2. Holding
  BY <1>1 DEF HoldingInv, Holding, Spared
<1>3. CASE UNCHANGED audioVars
  BY <1>1, <1>2, <1>3, HoldingUntouched DEF audioVars, managerVars, nativeVars, holdingVars
<1>4. ASSUME NEW n \in Starts, ManagerStep(n) PROVE Holding'
  BY <1>2, <1>4, StartHolds, PickerHolds, LoadingHolds, StartGoesOnHolds DEF ManagerStep
<1>5. ASSUME NEW n \in Starts, MainStep(n) PROVE Holding'
  BY <1>2, <1>5, StartCommandHolds, StopCommandHolds DEF MainStep
<1>6. ASSUME NEW n \in Starts, ThreadStep(n) PROVE Holding'
  BY <1>1, <1>2, <1>6, HoldingUntouched
  DEF ThreadStep, Activates, ActivationFails, ThreadEnds, Reports, holdingVars, managerVars
<1>7. CASE ShareFails \/ Stop
  BY <1>2, <1>7, ShareEndsHolds
<1> QED
  BY <1>3, <1>4, <1>5, <1>6, <1>7 DEF AANext

(***************************************************************************)
(* What the share that runs sends as its sound is what is captured, and    *)
(* nothing else is: once the queue is empty the slot holds the capture of  *)
(* the stop function the manager holds, or neither holds any, and no       *)
(* AudioContext but its own is open (#cleanup, startAppAudio).             *)
(***************************************************************************)
THEOREM SoundIsAlwaysHeld == AASpec => []SoundIsHeld
<1>1. AAInit => HoldingInv
  BY DEF AAInit, HoldingInv, OneAtATime, StartIsLast, SlotAccounted, ContextsAccounted, Under
<1>2. AudioInv /\ HoldingInv => SoundIsHeld
  <2> SUFFICES ASSUME AudioInv, HoldingInv, AAAtRest, Spared(Restarts)
               PROVE  /\ slot = held
                      /\ Spared({"worklet fails"}) => open \subseteq {held}
    BY DEF SoundIsHeld
  <2>1. commands = <<>> /\ \A n \in Starts : ~Under(n)
    BY DEF AAAtRest, Pending, Under
  <2>2. slot = held
    BY <2>1, NoneQueued, SlotIsAStart DEF HoldingInv, SlotAccounted, Under
  <2>3. open \subseteq Starts
    BY DEF AudioInv, AATypeOK
  <2>4. Spared({"worklet fails"}) => open \subseteq {held}
    BY <2>1, <2>3, NoneQueued DEF HoldingInv, ContextsAccounted, Under
  <2> QED
    BY <2>2, <2>4
<1> QED
  BY <1>1, <1>2, AudioInvHolds, HoldingStep, PTL DEF AASpec
-----------------------------------------------------------------------------
(***************************************************************************)
(* Division by a number that is not known.                                 *)
(***************************************************************************)
LEMMA Distribute ==
  ASSUME NEW a \in Int, NEW b \in Int, NEW m \in Int
  PROVE  /\ m * (a + b) = m * a + m * b /\ m * (a - b) = m * a - m * b
         /\ m * a \in Int /\ m * b \in Int /\ m * 1 = m /\ m * 0 = 0
OBVIOUS

LEMMA Monotone ==
  ASSUME NEW a \in Int, NEW b \in Int, a <= b, NEW m \in Nat
  PROVE  m * a <= m * b
<1>1. m * (b - a) >= 0
  OBVIOUS
<1> QED
  BY <1>1, Distribute

LEMMA Division ==
  ASSUME NEW a \in Int, NEW m \in Nat, m > 0
  PROVE  /\ a \div m \in Int /\ a % m \in 0 .. m - 1
         /\ a = m * (a \div m) + (a % m)
OBVIOUS

LEMMA DivisionIsUnique ==
  ASSUME NEW a \in Int, NEW m \in Nat, m > 0, NEW k \in Int, NEW r \in 0 .. m - 1, a = m * k + r
  PROVE  a % m = r /\ a \div m = k
<1> DEFINE q == a \div m
           s == a % m
<1>1. q \in Int /\ s \in 0 .. m - 1 /\ a = m * q + s
  BY Division
<1> HIDE DEF q, s
<1>2. m * (q - k) = r - s /\ m * (k - q) = s - r
  BY <1>1, Distribute
<1>3. ~(q - k >= 1)
  <2> SUFFICES ASSUME q - k >= 1 PROVE FALSE
    OBVIOUS
  <2>1. m * 1 <= m * (q - k)
    BY <1>1, Monotone
  <2> QED
    BY <1>1, <1>2, <2>1, Distribute
<1>4. ~(k - q >= 1)
  <2> SUFFICES ASSUME k - q >= 1 PROVE FALSE
    OBVIOUS
  <2>1. m * 1 <= m * (k - q)
    BY <1>1, Monotone
  <2> QED
    BY <1>1, <1>2, <2>1, Distribute
<1>5. q = k
  BY <1>1, <1>3, <1>4
<1>6. s = r
  BY <1>1, <1>5
<1> QED
  BY <1>5, <1>6 DEF q, s

LEMMA RemainderOfSum ==
  ASSUME NEW a \in Int, NEW b \in Int, NEW m \in Nat, m > 0
  PROVE  ((a % m) + b) % m = (a + b) % m
<1> DEFINE q == a \div m
           r == a % m
           p == (r + b) \div m
           s == (r + b) % m
<1>1. q \in Int /\ r \in Int /\ a = m * q + r
  BY Division
<1>2. p \in Int /\ s \in 0 .. m - 1 /\ r + b = m * p + s
  BY <1>1, Division
<1> HIDE DEF q, r, p, s
<1>3. a + b = m * (q + p) + s
  BY <1>1, <1>2, Distribute
<1>4. (a + b) % m = s
  <2>1. a + b \in Int /\ q + p \in Int
    BY <1>1, <1>2
  <2> QED
    BY <1>2, <1>3, <2>1, DivisionIsUnique
<1> QED
  BY <1>4 DEF r, s

LEMMA RemainderOfDifference ==
  ASSUME NEW a \in Int, NEW b \in Int, NEW m \in Nat, m > 0
  PROVE  ((a % m) - (b % m)) % m = (a - b) % m
<1> DEFINE q == b \div m
           r == b % m
           d == (a - r) \div m
           s == (a - r) % m
<1>1. q \in Int /\ r \in Int /\ b = m * q + r
  BY Division
<1>2. d \in Int /\ s \in 0 .. m - 1 /\ a - r = m * d + s
  BY <1>1, Division
<1>3. ((a % m) - r) % m = s
  <2>1. ((a % m) + (-r)) % m = (a + (-r)) % m
    <3>1. -r \in Int
      BY <1>1
    <3> QED
      BY <3>1, RemainderOfSum
  <2>2. a % m \in Int
    BY Division
  <2>3. (a % m) + (-r) = (a % m) - r /\ a + (-r) = a - r
    BY <1>1, <2>2
  <2> QED
    BY <2>1, <2>3
<1> HIDE DEF q, r, d, s
<1>4. a - b = m * (d - q) + s
  BY <1>1, <1>2, Distribute
<1>5. (a - b) % m = s
  BY <1>1, <1>2, <1>4, DivisionIsUnique
<1> QED
  BY <1>3, <1>5 DEF r

LEMMA QuotientOfNatural ==
  ASSUME NEW a \in Nat, NEW m \in Nat, m > 0
  PROVE  a \div m \in Nat /\ m * (a \div m) \in 0 .. a /\ (a % m) \in 0 .. a
<1> DEFINE q == a \div m
           r == a % m
<1>1. q \in Int /\ r \in 0 .. m - 1 /\ a = m * q + r
  BY Division
<1> HIDE DEF q, r
<1>2. q >= 0
  <2> SUFFICES ASSUME q <= -1 PROVE FALSE
    BY <1>1
  <2>1. m * q <= m * (-1)
    BY <1>1, Monotone
  <2>2. m * (-1) = -m
    OBVIOUS
  <2> QED
    BY <1>1, <2>1, <2>2
<1>3. m * 0 <= m * q /\ m * 0 = 0 /\ m * q \in Int
  BY <1>1, <1>2, Monotone, Distribute
<1> QED
  BY <1>1, <1>2, <1>3 DEF q, r
-----------------------------------------------------------------------------
(***************************************************************************)
(* The reader, the writer and the count of what lies between them agree.   *)
(***************************************************************************)
Word == Samples \union {Silence}
IndicesAgree == writeIndex = (readIndex + available) % Capacity
RingInv == RingTypeOK /\ IndicesAgree

\* What the ring holds, oldest first: the queue of DropOldest.
Held == [i \in 1 .. available |-> Oldest(i)]

LEMMA HeldIsASequence ==
  ASSUME RingTypeOK
  PROVE  /\ Held \in Seq(Word) /\ Len(Held) = available
         /\ \A i \in 1 .. available : Held[i] = Oldest(i)
<1>1. \A i \in 1 .. available : Oldest(i) \in Word
  <2> SUFFICES ASSUME NEW i \in 1 .. available PROVE Oldest(i) \in Word
    OBVIOUS
  <2>1. readIndex + i - 1 \in Int
    BY DEF RingTypeOK, Slots
  <2>2. (readIndex + i - 1) % Capacity \in Slots
    BY <2>1, Division, RingAssumption DEF Slots
  <2> QED
    BY <2>2 DEF RingTypeOK, Oldest, Word
<1>2. available \in Nat
  BY RingAssumption DEF RingTypeOK
<1>3. Held \in [1 .. available -> Word]
  BY <1>1 DEF Held
<1>4. Held \in Seq(Word)
  BY <1>2, <1>3, SeqDef
<1>5. DOMAIN Held = 1 .. available
  BY DEF Held
<1>6. Len(Held) = available
  BY <1>2, <1>4, <1>5, LenProperties
<1> QED
  BY <1>4, <1>6 DEF Held

LEMMA ChunkShape ==
  ASSUME NEW chunk \in Chunks
  PROVE  chunk \in Seq(Samples) /\ Len(chunk) \in Nat
<1>0. PICK n \in 1 .. MaxChunk : \E sounds \in [1 .. n -> Sounds] : chunk = Interleaved(sounds)
  BY DEF Chunks
<1>1. PICK sounds \in [1 .. n -> Sounds] : chunk = Interleaved(sounds)
  BY <1>0
<1>2. n \in Nat
  BY <1>0, RingAssumption
<1>3. sounds \in Seq(Sounds) /\ Len(sounds) = n
  BY <1>1, <1>2, SeqDef, LenProperties
<1> DEFINE N == Channels * n
<1>4. N \in Nat
  BY <1>2, RingAssumption
<1>5. \A i \in 1 .. N : chunk[i] \in Samples
  <2> SUFFICES ASSUME NEW i \in 1 .. N PROVE chunk[i] \in Samples
    OBVIOUS
  <2> DEFINE q == (i - 1) \div Channels
             r == (i - 1) % Channels
  <2>1. i - 1 \in Nat /\ Channels \in Nat /\ Channels > 0
    BY RingAssumption
  <2>2. q \in Nat /\ r \in 0 .. Channels - 1 /\ i - 1 = Channels * q + r
    BY <2>1, Division, QuotientOfNatural
  <2>3. chunk[i] = <<r + 1, sounds[q + 1]>>
    BY <1>1, <1>3 DEF Interleaved
  <2> HIDE DEF q, r
  <2>4. q < n
    <3> SUFFICES ASSUME n <= q PROVE FALSE
      BY <1>2, <2>2
    <3>1. Channels * n <= Channels * q /\ Channels * q \in Int
      BY <1>2, <2>1, <2>2, Monotone, Distribute
    <3> HIDE DEF N
    <3>2. N <= Channels * q
      BY <3>1 DEF N
    <3> QED
      BY <1>4, <2>1, <2>2, <3>1, <3>2
  <2>5. sounds[q + 1] \in Sounds
    BY <1>1, <1>2, <2>2, <2>4
  <2>6. r + 1 \in 1 .. Channels
    BY <2>1, <2>2
  <2> QED
    BY <2>3, <2>5, <2>6 DEF Samples
<1>6. chunk = [i \in 1 .. N |-> chunk[i]]
  BY <1>1, <1>3 DEF Interleaved
<1>7. chunk \in [1 .. N -> Samples]
  BY <1>5, <1>6
<1> HIDE DEF N
<1> QED
  BY <1>4, <1>7, SeqDef, LenProperties

\* Where slot k lies from the writer, as the last sample that falls on it.
LEMMA LastOnSlot ==
  ASSUME NEW d \in Nat, NEW n \in Nat, d < n, n - d <= Capacity, NEW offset, offset = d % Capacity
  PROVE  /\ offset \in Nat /\ offset < n
         /\ offset + 1 + Capacity * ((n - offset - 1) \div Capacity) = d + 1
<1> DEFINE q == d \div Capacity
<1>1. /\ Capacity \in Nat /\ Capacity > 0
      /\ q \in Nat /\ offset \in 0 .. Capacity - 1 /\ offset \in 0 .. d
      /\ d = Capacity * q + offset /\ Capacity * q \in Nat
  BY RingAssumption, Division, QuotientOfNatural
<1> HIDE DEF q
<1>2. n - offset - 1 = Capacity * q + (n - 1 - d)
  BY <1>1
<1>3. (n - 1 - d) \in 0 .. Capacity - 1 /\ n - offset - 1 \in Int
  BY <1>1
<1>4. (n - offset - 1) \div Capacity = q
  BY <1>1, <1>2, <1>3, DivisionIsUnique
<1> QED
  BY <1>1, <1>4

LEMMA WrittenIsASample ==
  ASSUME RingTypeOK, NEW chunk \in Chunks, NEW k \in Slots
  PROVE  AfterWrite(k, chunk) \in Word
<1> DEFINE n == Len(chunk)
           offset == (k - writeIndex) % Capacity
           q == (n - offset - 1) \div Capacity
<1>1. /\ Capacity \in Nat /\ Capacity > 0 /\ n \in Nat /\ chunk \in Seq(Samples)
      /\ k \in Int /\ writeIndex \in Int
  BY RingAssumption, ChunkShape DEF RingTypeOK, Slots
<1>2. k - writeIndex \in Int
  BY <1>1
<1>3. offset \in Nat
  BY <1>1, <1>2, Division
<1>4. CASE offset < n
  <2>1. n - offset - 1 \in Nat
    BY <1>1, <1>3, <1>4
  <2>2. Capacity * q \in 0 .. n - offset - 1
    BY <1>1, <2>1, QuotientOfNatural
  <2>3. offset + 1 + Capacity * q \in 1 .. n
    BY <1>1, <1>3, <2>1, <2>2
  <2>4. chunk[offset + 1 + Capacity * q] \in Samples
    BY <1>1, <2>3, ElementOfSeq
  <2> QED
    BY <1>4, <2>4 DEF AfterWrite, Word
<1>5. CASE ~(offset < n)
  BY <1>5 DEF AfterWrite, RingTypeOK, Word
<1> QED
  BY <1>4, <1>5

\* What the ring holds after a write: what it held and the chunk, without the overflow.
LEMMA OldestAfterWrite ==
  ASSUME RingInv, NEW chunk \in Chunks, Write(chunk), NEW i \in 1 .. available'
  PROVE  buffer'[(readIndex' + i - 1) % Capacity] =
           IF i + Overflow(Len(chunk)) <= available THEN Oldest(i + Overflow(Len(chunk)))
           ELSE chunk[i + Overflow(Len(chunk)) - available]
<1> DEFINE n == Len(chunk)
           ov == Overflow(n)
           from == readIndex + ov + i - 1
           p == from % Capacity
           e == ov + i - 1 - available
           offset == (p - writeIndex) % Capacity
<1>1. /\ Capacity \in Nat /\ Capacity > 0 /\ n \in Nat /\ available \in 0 .. Capacity
      /\ readIndex \in Nat /\ IndicesAgree /\ buffer \in [Slots -> Word]
  BY RingAssumption, ChunkShape DEF RingInv, RingTypeOK, Slots, Word
<1>2. ov \in Nat /\ ov >= available + n - Capacity /\ available' = available - ov + n
  BY <1>1 DEF Overflow, Write
<1>3. i \in Nat /\ i >= 1 /\ i <= available - ov + n
  BY <1>1, <1>2
<1> HIDE DEF n, ov
<1>4. from \in Int /\ e \in Int /\ readIndex + available \in Int /\ readIndex + ov \in Int
  BY <1>1, <1>2, <1>3
<1>5. (readIndex' + i - 1) % Capacity = p
  <2>1. readIndex' = (readIndex + ov) % Capacity
    BY DEF Write, ReaderAfter, n, ov
  <2>2. i - 1 \in Int /\ (readIndex + ov) % Capacity \in Int
    BY <1>1, <1>3, <1>4, Division
  <2>3. (((readIndex + ov) % Capacity) + (i - 1)) % Capacity = ((readIndex + ov) + (i - 1)) % Capacity
    BY <1>1, <1>4, <2>2, RemainderOfSum
  <2>4. (readIndex + ov) + (i - 1) = from /\ readIndex' + i - 1 = ((readIndex + ov) % Capacity) + (i - 1)
    BY <1>1, <1>2, <1>3, <2>1, <2>2
  <2> QED
    BY <2>3, <2>4
<1>6. p \in Slots
  BY <1>1, <1>4, Division DEF Slots
<1>7. buffer'[(readIndex' + i - 1) % Capacity] = AfterWrite(p, chunk)
  BY <1>5, <1>6 DEF Write
<1>8. offset = e % Capacity
  <2>1. ((from % Capacity) - ((readIndex + available) % Capacity)) % Capacity
          = (from - (readIndex + available)) % Capacity
    BY <1>1, <1>4, RemainderOfDifference
  <2>2. from - (readIndex + available) = e
    BY <1>1, <1>2, <1>3
  <2> QED
    BY <1>1, <2>1, <2>2 DEF IndicesAgree
<1>9. CASE i + ov <= available
  <2>1. e = Capacity * (-1) + (e + Capacity) /\ e + Capacity \in 0 .. Capacity - 1
    BY <1>1, <1>2, <1>3, <1>9
  <2>2. offset = e + Capacity
    <3> HIDE DEF e, offset
    <3>1. -1 \in Int
      OBVIOUS
    <3>2. e % Capacity = e + Capacity
      BY <1>1, <1>4, <2>1, <3>1, DivisionIsUnique
    <3> QED
      BY <1>8, <3>2
  <2>3. ~(offset < n)
    BY <1>1, <1>2, <1>3, <2>2
  <2>4. AfterWrite(p, chunk) = buffer[p]
    BY <2>3 DEF AfterWrite, n
  <2>5. Oldest(i + ov) = buffer[p]
    <3>1. readIndex + (i + ov) - 1 = from
      BY <1>1, <1>2, <1>3
    <3> QED
      BY <3>1 DEF Oldest
  <2> QED
    BY <1>7, <1>9, <2>4, <2>5 DEF n, ov
<1>10. CASE ~(i + ov <= available)
  <2>1. e \in Nat /\ e < n /\ n - e <= Capacity
    BY <1>1, <1>2, <1>3, <1>10
  <2>2. /\ offset \in Nat /\ offset < n
        /\ offset + 1 + Capacity * ((n - offset - 1) \div Capacity) = e + 1
    BY <1>1, <1>8, <2>1, LastOnSlot
  <2>3. AfterWrite(p, chunk) = chunk[e + 1]
    BY <2>2 DEF AfterWrite, n
  <2>4. e + 1 = i + ov - available
    BY <1>1, <1>2, <1>3
  <2> QED
    BY <1>7, <1>10, <2>3, <2>4 DEF n, ov
<1> QED
  BY <1>9, <1>10

LEMMA PlayableFits ==
  ASSUME RingTypeOK
  PROVE  /\ Playable \in 0 .. BlockFrames /\ Channels * Playable \in 0 .. available
         /\ \A f \in 1 .. Playable :
              /\ Channels * (f - 1) \in Nat /\ Channels * f \in Nat
              /\ Channels * f = Channels * (f - 1) + Channels
              /\ Channels * f <= available
<1> DEFINE frames == available \div Channels
<1>1. /\ Channels \in Nat /\ Channels > 0 /\ BlockFrames \in Nat /\ available \in Nat
  BY RingAssumption DEF RingTypeOK
<1>2. frames \in Nat /\ Channels * frames \in 0 .. available
  BY <1>1, QuotientOfNatural
<1>3. Playable = IF frames < BlockFrames THEN frames ELSE BlockFrames
  BY DEF Playable
<1> HIDE DEF frames
<1>4. Playable \in 0 .. BlockFrames /\ Playable <= frames
  BY <1>1, <1>2, <1>3
<1>5. ASSUME NEW k \in 0 .. Playable PROVE Channels * k \in 0 .. available
  <2>1. k \in Int /\ 0 <= k /\ k <= frames
    BY <1>1, <1>2, <1>4
  <2>2. Channels * 0 <= Channels * k /\ Channels * k <= Channels * frames
    BY <1>1, <1>2, <2>1, Monotone
  <2>3. Channels * 0 = 0 /\ Channels * k \in Int
    BY <1>1, <2>1, Distribute
  <2> QED
    BY <1>1, <1>2, <2>2, <2>3
<1>6. Channels * Playable \in 0 .. available
  <2>1. Playable \in 0 .. Playable
    BY <1>1, <1>4
  <2> QED
    BY <1>5, <2>1
<1>7. ASSUME NEW f \in 1 .. Playable
      PROVE  /\ Channels * (f - 1) \in Nat /\ Channels * f \in Nat
             /\ Channels * f = Channels * (f - 1) + Channels
             /\ Channels * f <= available
  <2>1. f \in 0 .. Playable /\ f - 1 \in 0 .. Playable /\ f \in Int
    BY <1>1, <1>4
  <2>2. Channels * f \in 0 .. available /\ Channels * (f - 1) \in 0 .. available
    BY <1>5, <2>1
  <2>3. Channels * (f - 1) = Channels * f - Channels
    BY <1>1, <2>1, Distribute
  <2> QED
    BY <1>1, <2>2, <2>3
<1> QED
  BY <1>4, <1>6, <1>7

\* What the ring holds after a block was played.
LEMMA OldestAfterProcess ==
  ASSUME RingTypeOK, Process, NEW i \in 1 .. available'
  PROVE  buffer'[(readIndex' + i - 1) % Capacity] = Oldest(Channels * Playable + i)
<1> DEFINE P == Channels * Playable
<1>1. P \in 0 .. available /\ available' = available - P
  BY PlayableFits DEF Process
<1>2. readIndex' = (readIndex + P) % Capacity /\ buffer' = buffer
  BY DEF Process
<1> HIDE DEF P
<1>3. /\ Capacity \in Nat /\ Capacity > 0 /\ available \in Nat /\ readIndex \in Nat
      /\ i \in Nat /\ i >= 1
  BY <1>1, RingAssumption DEF RingTypeOK, Slots
<1>4. /\ readIndex + P \in Int /\ i - 1 \in Int /\ (readIndex + P) % Capacity \in Int
  BY <1>1, <1>3, Division
<1>5. (((readIndex + P) % Capacity) + (i - 1)) % Capacity = ((readIndex + P) + (i - 1)) % Capacity
  BY <1>3, <1>4, RemainderOfSum
<1>6. /\ readIndex' + i - 1 = ((readIndex + P) % Capacity) + (i - 1)
      /\ readIndex + (P + i) - 1 = (readIndex + P) + (i - 1)
  BY <1>1, <1>2, <1>3, <1>4
<1> QED
  BY <1>2, <1>5, <1>6 DEF Oldest, P
-----------------------------------------------------------------------------
LEMMA RingInvInit ==
  RingInit => RingInv
<1> SUFFICES ASSUME RingInit PROVE RingInv
  OBVIOUS
<1>1. 0 \in Slots
  BY RingAssumption DEF Slots
<1>2. IndicesAgree
  <2>1. 0 = Capacity * 0 + 0 /\ 0 \in 0 .. Capacity - 1
    BY RingAssumption
  <2>2. 0 % Capacity = 0
    BY <2>1, DivisionIsUnique, RingAssumption
  <2> QED
    BY <2>2 DEF RingInit, IndicesAgree
<1> QED
  BY <1>1, <1>2, RingAssumption DEF RingInit, RingInv, RingTypeOK, SilentFrame

LEMMA WriteKeepsInv ==
  ASSUME RingInv, NEW chunk \in Chunks, Write(chunk)
  PROVE  RingInv'
<1> DEFINE n == Len(chunk)
           ov == Overflow(n)
<1>1. /\ Capacity \in Nat /\ Capacity > 0 /\ n \in Nat /\ available \in 0 .. Capacity
      /\ readIndex \in Nat /\ writeIndex \in Nat
      /\ writeIndex = (readIndex + available) % Capacity
  BY RingAssumption, ChunkShape DEF RingInv, RingTypeOK, Slots, IndicesAgree
<1>2. ov \in Nat /\ available - ov + n \in 0 .. Capacity
  BY <1>1 DEF Overflow
<1>3. /\ readIndex' = (readIndex + ov) % Capacity /\ writeIndex' = (writeIndex + n) % Capacity
      /\ available' = available - ov + n /\ output' = output
      /\ buffer' = [k \in Slots |-> AfterWrite(k, chunk)]
  BY DEF Write, ReaderAfter
<1> HIDE DEF n, ov
<1>4. readIndex' \in Slots /\ writeIndex' \in Slots
  <2>1. readIndex + ov \in Int /\ writeIndex + n \in Int
    BY <1>1, <1>2
  <2> QED
    BY <1>1, <1>3, <2>1, Division DEF Slots
<1>5. buffer' \in [Slots -> Samples \union {Silence}]
  BY <1>3, WrittenIsASample DEF RingInv, Word
<1>6. IndicesAgree'
  <2>1. /\ readIndex + available \in Int /\ readIndex + ov \in Int /\ available - ov + n \in Int
    BY <1>1, <1>2
  <2>2. Capacity \in Nat /\ Capacity > 0 /\ n \in Int
    BY <1>1
  <2>3. (((readIndex + ov) % Capacity) + (available - ov + n)) % Capacity
          = ((readIndex + ov) + (available - ov + n)) % Capacity
    BY <1>1, <2>1, RemainderOfSum
  <2>4. (readIndex + ov) + (available - ov + n) = (readIndex + available) + n
    BY <1>1, <1>2
  <2>5. (((readIndex + available) % Capacity) + n) % Capacity = ((readIndex + available) + n) % Capacity
    BY <2>1, <2>2, RemainderOfSum
  <2>6. writeIndex' = (((readIndex + available) % Capacity) + n) % Capacity
    BY <1>1, <1>3
  <2>7. (readIndex' + available') % Capacity = writeIndex'
    BY <1>3, <2>3, <2>4, <2>5, <2>6
  <2> QED
    BY <2>7 DEF IndicesAgree
<1> QED
  BY <1>2, <1>3, <1>4, <1>5, <1>6 DEF RingInv, RingTypeOK

LEMMA ProcessKeepsInv ==
  ASSUME RingInv, Process
  PROVE  RingInv'
<1> DEFINE P == Channels * Playable
<1>1. /\ Capacity \in Nat /\ Capacity > 0 /\ available \in 0 .. Capacity
      /\ readIndex \in Nat /\ IndicesAgree /\ P \in 0 .. available
  BY RingAssumption, PlayableFits DEF RingInv, RingTypeOK, Slots
<1>2. /\ readIndex' = (readIndex + P) % Capacity /\ available' = available - P
      /\ buffer' = buffer /\ writeIndex' = writeIndex
  BY DEF Process
<1> HIDE DEF P
<1>3. /\ readIndex + P \in Int /\ available - P \in Int
  BY <1>1
<1>4. readIndex' \in Slots
  BY <1>1, <1>2, <1>3, Division DEF Slots
<1>5. IndicesAgree'
  <2>1. (((readIndex + P) % Capacity) + (available - P)) % Capacity
          = ((readIndex + P) + (available - P)) % Capacity
    BY <1>1, <1>3, RemainderOfSum
  <2>2. (readIndex + P) + (available - P) = readIndex + available
    BY <1>1
  <2> QED
    BY <1>1, <1>2, <2>1, <2>2 DEF IndicesAgree
<1>6. output' \in [1 .. BlockFrames -> [1 .. Channels -> Samples \union {Silence}]]
  <2>1. ASSUME NEW f \in 1 .. BlockFrames, f <= Playable, NEW c \in 1 .. Channels
        PROVE  Oldest(Channels * (f - 1) + c) \in Word
    <3>1. f \in 1 .. Playable
      BY <2>1, RingAssumption, PlayableFits DEF RingInv
    <3>2. /\ Channels * (f - 1) \in Nat /\ Channels * (f - 1) + Channels <= available
          /\ Channels \in Nat
      BY <3>1, RingAssumption, PlayableFits DEF RingInv
    <3>3. Channels * (f - 1) + c \in 1 .. available
      BY <1>1, <3>2
    <3>4. Held[Channels * (f - 1) + c] \in Word
      BY <3>3, HeldIsASequence, ElementOfSeq DEF RingInv
    <3> QED
      BY <3>3, <3>4, HeldIsASequence DEF RingInv
  <2>2. output' = [f \in 1 .. BlockFrames |->
                 IF f <= Playable THEN [c \in 1 .. Channels |-> Oldest(Channels * (f - 1) + c)]
                 ELSE SilentFrame]
    BY DEF Process
  <2>3. SilentFrame \in [1 .. Channels -> Word]
    BY DEF SilentFrame, Word
  <2>4. ASSUME NEW f \in 1 .. BlockFrames, f <= Playable
        PROVE  [c \in 1 .. Channels |-> Oldest(Channels * (f - 1) + c)] \in [1 .. Channels -> Word]
    BY <2>1, <2>4
  <2> QED
    BY <2>2, <2>3, <2>4 DEF Word
<1> QED
  BY <1>1, <1>2, <1>4, <1>5, <1>6 DEF RingInv, RingTypeOK

LEMMA FlushKeepsInv ==
  ASSUME RingInv, Flush
  PROVE  RingInv'
<1>1. 0 \in Slots /\ 0 \in 0 .. Capacity /\ 0 % Capacity = 0
  <2>1. 0 = Capacity * 0 + 0 /\ 0 \in 0 .. Capacity - 1
    BY RingAssumption
  <2> QED
    BY <2>1, DivisionIsUnique, RingAssumption DEF Slots
<1> QED
  BY <1>1 DEF RingInv, RingTypeOK, IndicesAgree, Flush

LEMMA RingInvStep ==
  RingInv /\ [RingNext]_ringVars => RingInv'
<1> SUFFICES ASSUME RingInv, [RingNext]_ringVars PROVE RingInv'
  OBVIOUS
<1>1. CASE Process
  BY <1>1, ProcessKeepsInv
<1>2. CASE Flush
  BY <1>2, FlushKeepsInv
<1>3. ASSUME NEW chunk \in Chunks, Write(chunk) PROVE RingInv'
  BY <1>3, WriteKeepsInv
<1>4. CASE UNCHANGED ringVars
  BY <1>4 DEF ringVars, RingInv, RingTypeOK, IndicesAgree
<1> QED
  BY <1>1, <1>2, <1>3, <1>4 DEF RingNext

(***************************************************************************)
(* Indices stay inside the buffer and never more is counted than fits,     *)
(* also when a chunk is longer than the buffer (write and process).        *)
(***************************************************************************)
THEOREM RingTypeCorrect ==
  RingSpec => []RingTypeOK
<1>1. RingInv => RingTypeOK
  BY DEF RingInv
<1> QED
  BY <1>1, RingInvInit, RingInvStep, PTL DEF RingSpec
-----------------------------------------------------------------------------
\* A slice of what the ring holds.
LEMMA HeldSlice ==
  ASSUME RingTypeOK, NEW lo \in Nat, NEW hi \in Nat, lo <= hi, hi <= available
  PROVE  SubSeq(Held, lo + 1, hi) = [i \in 1 .. hi - lo |-> Oldest(lo + i)]
<1> DEFINE s == SubSeq(Held, lo + 1, hi)
<1>1. /\ Held \in Seq(Word) /\ Len(Held) = available
      /\ \A i \in 1 .. available : Held[i] = Oldest(i)
  BY HeldIsASequence
<1>2. \A i \in lo + 1 .. hi : Held[i] \in Word
  BY <1>1, ElementOfSeq
<1>3. lo + 1 \in Int /\ hi \in Int
  OBVIOUS
<1>4. /\ s \in Seq(Word) /\ Len(s) = (IF lo + 1 <= hi THEN hi - (lo + 1) + 1 ELSE 0)
      /\ \A i \in 1 .. hi - (lo + 1) + 1 : s[i] = Held[(lo + 1) + i - 1]
  BY <1>2, <1>3, SubSeqProperties
<1>5. Len(s) = hi - lo
  BY <1>4
<1>6. s \in [1 .. hi - lo -> Word]
  BY <1>4, <1>5, LenProperties
<1>7. ASSUME NEW i \in 1 .. hi - lo PROVE s[i] = Oldest(lo + i)
  <2>1. i \in 1 .. hi - (lo + 1) + 1 /\ (lo + 1) + i - 1 = lo + i /\ lo + i \in 1 .. available
    BY RingAssumption DEF RingTypeOK
  <2> QED
    BY <1>1, <1>4, <2>1
<1> HIDE DEF s
<1>8. s = [i \in 1 .. hi - lo |-> s[i]]
  BY <1>6
<1> QED
  BY <1>7, <1>8 DEF s

\* A write is a Put of the queue.
LEMMA WritePuts ==
  ASSUME RingInv, NEW chunk \in Chunks, Write(chunk)
  PROVE  Held' = Queue!Newest(Held \o chunk)
<1> DEFINE n == Len(chunk)
           ov == Overflow(n)
           s == Held \o chunk
           t == Queue!Newest(s)
<1>1. /\ Held \in Seq(Word) /\ Len(Held) = available
      /\ \A i \in 1 .. available : Held[i] = Oldest(i)
  BY HeldIsASequence DEF RingInv
<1>2. chunk \in Seq(Samples) /\ n \in Nat
  BY ChunkShape
<1>3. chunk \in Seq(Word)
  <2>1. Samples \subseteq Word
    BY DEF Word
  <2> QED
    BY <1>2, <2>1, SeqMonotonic
<1>4. /\ s \in Seq(Word) /\ Len(s) = available + n
      /\ \A i \in 1 .. available + n : s[i] = IF i <= available THEN Held[i] ELSE chunk[i - available]
  BY <1>1, <1>3, ConcatProperties
<1>5. available \in 0 .. Capacity /\ Capacity \in Nat /\ Capacity > 0
  BY RingAssumption DEF RingInv, RingTypeOK
<1>6. /\ ov = IF Len(s) > Capacity THEN Len(s) - Capacity ELSE 0
      /\ ov \in Nat /\ available' = available - ov + n /\ available - ov + n \in Nat
  BY <1>2, <1>4, <1>5 DEF Overflow, Write
<1>7. t = IF Len(s) > Capacity THEN SubSeq(s, Len(s) - Capacity + 1, Len(s)) ELSE s
  BY DEF Queue!Newest
<1> HIDE DEF n, s, t, ov
<1>8. /\ t \in Seq(Word) /\ Len(t) = available - ov + n
      /\ \A i \in 1 .. available - ov + n : t[i] = s[ov + i]
  <2>1. CASE ~(Len(s) > Capacity)
    <3>1. t = s /\ ov = 0
      BY <1>6, <1>7, <2>1
    <3> QED
      BY <1>2, <1>4, <1>5, <3>1
  <2>2. CASE Len(s) > Capacity
    <3>0. Len(s) \in Int /\ ov = Len(s) - Capacity /\ Len(s) = available + n
      BY <1>2, <1>4, <1>5, <1>6, <2>2
    <3>1. t = SubSeq(s, ov + 1, Len(s))
      BY <1>7, <2>2, <3>0
    <3>2. \A i \in ov + 1 .. Len(s) : s[i] \in Word
      BY <1>4, <1>6, ElementOfSeq
    <3>3. ov + 1 \in Int /\ Len(s) \in Int /\ ov + 1 <= Len(s)
      BY <1>2, <1>4, <1>5, <1>6, <3>0
    <3>4. /\ t \in Seq(Word) /\ Len(t) = (IF ov + 1 <= Len(s) THEN Len(s) - (ov + 1) + 1 ELSE 0)
          /\ \A i \in 1 .. Len(s) - (ov + 1) + 1 : t[i] = s[(ov + 1) + i - 1]
      BY <3>1, <3>2, <3>3, SubSeqProperties
    <3>5. Len(s) - (ov + 1) + 1 = available - ov + n
      BY <1>2, <1>4, <1>5, <1>6
    <3>6. ASSUME NEW i \in 1 .. available - ov + n PROVE t[i] = s[ov + i]
      <4>1. (ov + 1) + i - 1 = ov + i
        BY <1>6
      <4> QED
        BY <3>4, <3>5, <4>1
    <3> QED
      BY <3>3, <3>4, <3>5, <3>6
  <2> QED
    BY <2>1, <2>2
<1>9. t = [i \in 1 .. available - ov + n |-> t[i]]
  <2>1. t \in [1 .. available - ov + n -> Word]
    BY <1>8, LenProperties
  <2> QED
    BY <2>1
<1>10. ASSUME NEW i \in 1 .. available'
       PROVE  buffer'[(readIndex' + i - 1) % Capacity] = t[i]
  <2>1. i \in 1 .. available - ov + n
    BY <1>6
  <2>2. buffer'[(readIndex' + i - 1) % Capacity] =
           IF i + ov <= available THEN Oldest(i + ov) ELSE chunk[i + ov - available]
    BY OldestAfterWrite DEF n, ov
  <2>3. t[i] = s[i + ov] /\ i + ov \in 1 .. available + n
    <3>1. ov + i = i + ov /\ i + ov \in 1 .. available + n
      BY <1>2, <1>5, <1>6, <2>1
    <3> QED
      BY <1>8, <2>1, <3>1
  <2>4. s[i + ov] = IF i + ov <= available THEN Held[i + ov] ELSE chunk[i + ov - available]
    <3> DEFINE k == i + ov
    <3>1. k \in 1 .. available + n
      BY <2>3
    <3> HIDE DEF k
    <3>2. s[k] = IF k <= available THEN Held[k] ELSE chunk[k - available]
      BY <1>4, <3>1
    <3>3. i \in Int /\ ov \in Int /\ available \in Int
      BY <1>5, <1>6, <2>1
    <3> QED
      BY <3>2, <3>3 DEF k
  <2>5. i + ov <= available => Held[i + ov] = Oldest(i + ov)
    BY <1>1, <1>5, <2>3
  <2> QED
    BY <2>2, <2>3, <2>4, <2>5
<1>11. Held' = [i \in 1 .. available' |-> buffer'[(readIndex' + i - 1) % Capacity]]
  BY DEF Held, Oldest
<1> QED
  BY <1>6, <1>9, <1>10, <1>11 DEF t, s

\* A block played is a Play of the queue.
LEMMA ProcessPlays ==
  ASSUME RingInv, Process
  PROVE  Queue!Play
<1> DEFINE P == Channels * Playable
<1>1. /\ Playable \in 0 .. BlockFrames /\ P \in 0 .. available /\ available' = available - P
      /\ \A f \in 1 .. Playable :
           /\ Channels * (f - 1) \in Nat /\ Channels * f \in Nat
           /\ Channels * f = Channels * (f - 1) + Channels
           /\ Channels * f <= available
  BY PlayableFits DEF RingInv, Process
<1>2. available \in Nat /\ Channels \in Nat /\ BlockFrames \in Nat /\ Len(Held) = available
  BY RingAssumption, HeldIsASequence DEF RingInv, RingTypeOK
<1>3. ASSUME NEW f \in 1 .. BlockFrames, f <= Playable
      PROVE  SubSeq(Held, Channels * (f - 1) + 1, Channels * f)
               = [c \in 1 .. Channels |-> Oldest(Channels * (f - 1) + c)]
  <2>1. f \in 1 .. Playable
    BY <1>1, <1>2, <1>3
  <2>2. /\ Channels * (f - 1) \in Nat /\ Channels * f \in Nat
        /\ Channels * f = Channels * (f - 1) + Channels
        /\ Channels * f <= available
    BY <1>1, <2>1
  <2> DEFINE lo == Channels * (f - 1)
             hi == Channels * f
  <2> HIDE DEF lo, hi
  <2>3. lo \in Nat /\ hi \in Nat /\ lo <= hi /\ hi <= available /\ hi - lo = Channels
    BY <1>2, <2>2 DEF lo, hi
  <2>4. SubSeq(Held, lo + 1, hi) = [i \in 1 .. hi - lo |-> Oldest(lo + i)]
    BY <2>3, HeldSlice DEF RingInv
  <2> QED
    BY <2>3, <2>4 DEF lo, hi
<1>4. output' = [f \in 1 .. BlockFrames |->
                 IF f <= Playable THEN SubSeq(Held, Channels * (f - 1) + 1, Channels * f)
                 ELSE SilentFrame]
  BY <1>3 DEF Process
<1>5. Held' = SubSeq(Held, P + 1, available)
  <2>1. Held' = [i \in 1 .. available' |-> buffer'[(readIndex' + i - 1) % Capacity]]
    BY DEF Held, Oldest
  <2>2. \A i \in 1 .. available' : buffer'[(readIndex' + i - 1) % Capacity] = Oldest(P + i)
    BY OldestAfterProcess DEF RingInv
  <2>3. P \in Nat /\ P <= available
    BY <1>1, <1>2
  <2> HIDE DEF P
  <2>4. SubSeq(Held, P + 1, available) = [i \in 1 .. available - P |-> Oldest(P + i)]
    BY <1>2, <2>3, HeldSlice DEF RingInv
  <2> QED
    BY <1>1, <2>1, <2>2, <2>4
<1>6. Playable = IF Queue!FramesOf(Held) < BlockFrames THEN Queue!FramesOf(Held) ELSE BlockFrames
  BY <1>2 DEF Playable, Queue!FramesOf
<1>7. SilentFrame = [c \in 1 .. Channels |-> Silence]
  BY DEF SilentFrame
<1> QED
  BY <1>2, <1>4, <1>5, <1>6, <1>7 DEF Queue!Play, Queue!Frame, Held

LEMMA QueueInit ==
  RingInit => Queue!Init
<1> SUFFICES ASSUME RingInit PROVE Queue!Init
  OBVIOUS
<1>1. Held = <<>>
  <2>1. RingTypeOK /\ available = 0
    BY RingInvInit DEF RingInv, RingInit
  <2>2. Held \in Seq(Word) /\ Len(Held) = 0
    BY <2>1, HeldIsASequence
  <2> QED
    BY <2>2, EmptySeq
<1> QED
  BY <1>1 DEF RingInit, SilentFrame, Queue!Init, Held

LEMMA QueueStep ==
  ASSUME RingInv, [RingNext]_ringVars
  PROVE  Queue!Next \/ UNCHANGED <<Held, output>>
<1>1. CASE Process
  BY <1>1, ProcessPlays DEF Queue!Next
<1>2. CASE Flush
  <2>1. RingTypeOK' /\ available' = 0 /\ output' = output
    BY <1>2, FlushKeepsInv DEF RingInv, Flush
  <2>2. Held' = <<>>
    <3>1. Held' = [i \in 1 .. 0 |-> buffer'[(readIndex' + i - 1) % Capacity]]
      BY <2>1 DEF Held, Oldest
    <3> QED
      BY <3>1
  <2> QED
    BY <2>1, <2>2 DEF Queue!Next, Queue!Forget, Held
<1>3. ASSUME NEW chunk \in Chunks, Write(chunk) PROVE Queue!Next
  <2>1. Held' = Queue!Newest(Held \o chunk) /\ output' = output
    BY <1>3, WritePuts DEF Write
  <2>2. Queue!Put(chunk)
    BY <2>1 DEF Queue!Put, Held
  <2> QED
    BY <2>2 DEF Queue!Next
<1>4. CASE UNCHANGED ringVars
  BY <1>4 DEF ringVars, Held, Oldest
<1> QED
  BY <1>1, <1>2, <1>3, <1>4 DEF RingNext

(***************************************************************************)
(* The ring is a queue that drops the oldest samples when it is full, for  *)
(* every capacity, and for chunks that are longer than the buffer (write   *)
(* and process).                                                           *)
(***************************************************************************)
THEOREM RingIsAQueue ==
  RingSpec => ImplementsQueue
<1>1. RingInv /\ [RingNext]_ringVars => [Queue!Next]_<<[i \in 1 .. available |-> Oldest(i)], output>>
  BY QueueStep DEF Held
<1> QED
  BY <1>1, QueueInit, RingInvInit, RingInvStep, PTL DEF RingSpec, ImplementsQueue, Queue!Spec
-----------------------------------------------------------------------------
(***************************************************************************)
(* Why the channels stay apart: the ring holds whole frames, and the n-th  *)
(* oldest sample is of the channel that is n-th in line.                   *)
(***************************************************************************)
ChannelOf(n) == ((n - 1) % Channels) + 1
WholeFrames == available % Channels = 0
InLine == \A i \in 1 .. available : Oldest(i)[1] = ChannelOf(i)
ApartInv == RingInv /\ WholeFrames /\ InLine /\ ChannelsApart

LEMMA WholeFramesAddUp ==
  ASSUME NEW a \in Int, NEW b \in Int
  PROVE  /\ a % Channels = 0 => (a + b) % Channels = b % Channels
         /\ a % Channels = 0 /\ b % Channels = 0 => (a - b) % Channels = 0
         /\ (Channels * a) % Channels = 0
<1>1. Channels \in Nat /\ Channels > 0 /\ 0 \in 0 .. Channels - 1
  BY RingAssumption
<1>2. ((a % Channels) + b) % Channels = (a + b) % Channels
  BY <1>1, RemainderOfSum
<1>3. ((a % Channels) - (b % Channels)) % Channels = (a - b) % Channels
  BY <1>1, RemainderOfDifference
<1>4. 0 % Channels = 0
  <2>1. 0 = Channels * 0 + 0
    BY <1>1
  <2> QED
    BY <1>1, <2>1, DivisionIsUnique
<1>5. (Channels * a) % Channels = 0
  <2>1. Channels * a \in Int /\ Channels * a = Channels * a + 0
    BY <1>1, Distribute
  <2> QED
    BY <1>1, <2>1, DivisionIsUnique
<1>6. a % Channels = 0 => (a + b) % Channels = b % Channels
  <2>1. 0 + b = b
    OBVIOUS
  <2> QED
    BY <1>2, <2>1
<1>7. a % Channels = 0 /\ b % Channels = 0 => (a - b) % Channels = 0
  <2>1. 0 - 0 = 0
    OBVIOUS
  <2> QED
    BY <1>3, <1>4, <2>1
<1> QED
  BY <1>5, <1>6, <1>7

LEMMA ChannelsOfAChunk ==
  ASSUME NEW chunk \in Chunks
  PROVE  /\ Len(chunk) % Channels = 0
         /\ \A i \in 1 .. Len(chunk) : chunk[i][1] = ChannelOf(i)
<1>0. PICK n \in 1 .. MaxChunk : \E sounds \in [1 .. n -> Sounds] : chunk = Interleaved(sounds)
  BY DEF Chunks
<1>1. PICK sounds \in [1 .. n -> Sounds] : chunk = Interleaved(sounds)
  BY <1>0
<1>2. n \in Nat /\ sounds \in Seq(Sounds) /\ Len(sounds) = n
  BY <1>0, <1>1, RingAssumption, SeqDef, LenProperties
<1>3. chunk \in Seq(Samples) /\ Len(chunk) \in Nat
  BY ChunkShape
<1> DEFINE N == Channels * n
<1>4. N \in Nat
  BY <1>2, RingAssumption
<1>5. DOMAIN chunk = 1 .. N
  BY <1>1, <1>2 DEF Interleaved
<1>6. Len(chunk) = N
  <2> HIDE DEF N
  <2>1. DOMAIN chunk = 1 .. Len(chunk)
    BY <1>3, LenProperties
  <2> QED
    BY <1>3, <1>4, <1>5, <2>1
<1>7. Len(chunk) % Channels = 0
  BY <1>2, <1>6, WholeFramesAddUp
<1>8. ASSUME NEW i \in 1 .. Len(chunk) PROVE chunk[i][1] = ChannelOf(i)
  BY <1>1, <1>2, <1>6, <1>8 DEF Interleaved, ChannelOf
<1> QED
  BY <1>7, <1>8

\* Skipping whole frames leaves the channels in line.
LEMMA SkippingFrames ==
  ASSUME NEW d \in Int, d % Channels = 0, NEW i \in Int
  PROVE  ChannelOf(d + i) = ChannelOf(i)
<1>1. (d + (i - 1)) % Channels = (i - 1) % Channels
  <2>1. i - 1 \in Int
    OBVIOUS
  <2> QED
    BY <2>1, WholeFramesAddUp
<1>2. d + (i - 1) = d + i - 1
  OBVIOUS
<1> QED
  BY <1>1, <1>2 DEF ChannelOf

LEMMA ApartInit ==
  RingInit => ApartInv
<1> SUFFICES ASSUME RingInit PROVE ApartInv
  OBVIOUS
<1>1. 0 % Channels = 0
  <2>1. Channels \in Nat /\ Channels > 0 /\ 0 = Channels * 0 + 0 /\ 0 \in 0 .. Channels - 1
    BY RingAssumption
  <2> QED
    BY <2>1, DivisionIsUnique
<1> QED
  BY <1>1, RingInvInit DEF RingInit, ApartInv, WholeFrames, InLine, ChannelsApart, SilentFrame

LEMMA WriteKeepsApart ==
  ASSUME ApartInv, NEW chunk \in Chunks, Write(chunk)
  PROVE  ApartInv'
<1> DEFINE n == Len(chunk)
           ov == Overflow(n)
<1>1. /\ Capacity \in Nat /\ Capacity > 0 /\ n \in Nat /\ available \in 0 .. Capacity
      /\ Capacity % Channels = 0 /\ available % Channels = 0 /\ n % Channels = 0
  BY RingAssumption, ChunkShape, ChannelsOfAChunk DEF ApartInv, RingInv, RingTypeOK, WholeFrames
<1>2. /\ ov = IF available + n > Capacity THEN available + n - Capacity ELSE 0
      /\ ov \in Nat /\ available' = available - ov + n
  BY <1>1 DEF Overflow, Write
<1>3. \A i \in 1 .. available' :
        buffer'[(readIndex' + i - 1) % Capacity] =
           IF i + ov <= available THEN Oldest(i + ov) ELSE chunk[i + ov - available]
  BY OldestAfterWrite DEF ApartInv
<1>4. \A i \in 1 .. n : chunk[i][1] = ChannelOf(i)
  BY ChannelsOfAChunk
<1> HIDE DEF n, ov
<1>5. (available + n) % Channels = 0
  BY <1>1, WholeFramesAddUp
<1>6. ov % Channels = 0
  <2>1. CASE available + n > Capacity
    BY <1>1, <1>2, <1>5, <2>1, WholeFramesAddUp
  <2>2. CASE ~(available + n > Capacity)
    <3>1. 0 = available - available
      BY <1>1
    <3>2. (available - available) % Channels = 0
      BY <1>1, WholeFramesAddUp
    <3> QED
      BY <1>2, <2>2, <3>1, <3>2
  <2> QED
    BY <2>1, <2>2
<1>7. WholeFrames'
  <2>1. available' = (available + n) - ov /\ available + n \in Int /\ ov \in Int
    BY <1>1, <1>2
  <2> QED
    BY <1>5, <1>6, <2>1, WholeFramesAddUp DEF WholeFrames
<1>8. ASSUME NEW i \in 1 .. available'
      PROVE  buffer'[(readIndex' + i - 1) % Capacity][1] = ChannelOf(i)
  <2>1. /\ i \in Int /\ i >= 1 /\ i + ov <= available + n /\ ov \in Int
        /\ available \in Int /\ i + ov = ov + i
    BY <1>1, <1>2
  <2>2. ChannelOf(ov + i) = ChannelOf(i)
    BY <1>6, <2>1, SkippingFrames
  <2>3. CASE i + ov <= available
    <3>1. i + ov \in 1 .. available
      BY <1>2, <2>1, <2>3
    <3>2. Oldest(i + ov)[1] = ChannelOf(i + ov)
      BY <3>1 DEF ApartInv, InLine
    <3>3. buffer'[(readIndex' + i - 1) % Capacity] = Oldest(i + ov)
      BY <1>3, <2>3
    <3> QED
      BY <2>1, <2>2, <3>2, <3>3
  <2>4. CASE ~(i + ov <= available)
    <3> DEFINE d == i + ov - available
    <3>1. d \in 1 .. n /\ d \in Int /\ available + d = ov + i
      BY <1>1, <1>2, <2>1, <2>4
    <3>2. buffer'[(readIndex' + i - 1) % Capacity] = chunk[d]
      BY <1>3, <2>4
    <3> HIDE DEF d
    <3>3. chunk[d][1] = ChannelOf(d)
      BY <1>4, <3>1
    <3>4. ChannelOf(available + d) = ChannelOf(d)
      BY <1>1, <2>1, <3>1, SkippingFrames
    <3> QED
      BY <2>2, <3>1, <3>2, <3>3, <3>4
  <2> QED
    BY <2>3, <2>4
<1>9. InLine'
  BY <1>8 DEF InLine, Oldest, ChannelOf
<1>10. ChannelsApart'
  BY DEF ApartInv, ChannelsApart, Write
<1> QED
  BY <1>7, <1>9, <1>10, WriteKeepsInv DEF ApartInv

LEMMA ProcessKeepsApart ==
  ASSUME ApartInv, Process
  PROVE  ApartInv'
<1> DEFINE P == Channels * Playable
<1>1. /\ Playable \in 0 .. BlockFrames /\ P \in 0 .. available
      /\ \A f \in 1 .. Playable :
           /\ Channels * (f - 1) \in Nat /\ Channels * f \in Nat
           /\ Channels * f = Channels * (f - 1) + Channels
           /\ Channels * f <= available
  BY PlayableFits DEF ApartInv, RingInv
<1>2. /\ available \in Nat /\ Channels \in Nat /\ Channels > 0 /\ BlockFrames \in Nat
      /\ available % Channels = 0
  BY RingAssumption DEF ApartInv, RingInv, RingTypeOK, WholeFrames
<1>3. P % Channels = 0
  <2>1. Playable \in Int
    BY <1>1, <1>2
  <2> QED
    BY <2>1, WholeFramesAddUp
<1>4. \A i \in 1 .. available' : buffer'[(readIndex' + i - 1) % Capacity] = Oldest(P + i)
  BY OldestAfterProcess DEF ApartInv, RingInv
<1>5. available' = available - P
  BY DEF Process
<1>6. ChannelsApart'
  <2>1. ASSUME NEW f \in 1 .. BlockFrames, NEW c \in 1 .. Channels, output'[f][c] # Silence
        PROVE  output'[f][c][1] = c
    <3>1. output'[f][c] = IF f <= Playable THEN Oldest(Channels * (f - 1) + c) ELSE Silence
      BY DEF Process, SilentFrame
    <3>2. f <= Playable
      BY <2>1, <3>1
    <3>3. f \in 1 .. Playable
      BY <1>1, <1>2, <3>2
    <3> DEFINE d == Channels * (f - 1)
    <3>4. d \in Nat /\ d + Channels <= available /\ d % Channels = 0
      <4>1. f - 1 \in Int
        BY <1>1, <1>2
      <4> QED
        BY <1>1, <3>3, <4>1, WholeFramesAddUp
    <3>5. output'[f][c] = Oldest(d + c)
      BY <3>1, <3>2
    <3> HIDE DEF d
    <3>6. d + c \in 1 .. available /\ c \in Int /\ d \in Int
      BY <1>2, <3>4
    <3>7. Oldest(d + c)[1] = ChannelOf(d + c)
      BY <3>6 DEF ApartInv, InLine
    <3>8. ChannelOf(d + c) = ChannelOf(c)
      BY <3>4, <3>6, SkippingFrames
    <3>9. ChannelOf(c) = c
      <4>1. c - 1 = Channels * 0 + (c - 1) /\ c - 1 \in 0 .. Channels - 1 /\ c - 1 \in Int
        BY <1>2
      <4>2. (c - 1) % Channels = c - 1
        BY <1>2, <4>1, DivisionIsUnique
      <4> QED
        BY <4>2 DEF ChannelOf
    <3> QED
      BY <3>5, <3>7, <3>8, <3>9
  <2> QED
    BY <2>1 DEF ChannelsApart
<1> HIDE DEF P
<1>7. WholeFrames'
  <2>1. P \in Int /\ available \in Int
    BY <1>1, <1>2
  <2> QED
    BY <1>2, <1>3, <1>5, <2>1, WholeFramesAddUp DEF WholeFrames
<1>8. ASSUME NEW i \in 1 .. available'
      PROVE  buffer'[(readIndex' + i - 1) % Capacity][1] = ChannelOf(i)
  <2>1. i \in Int /\ P \in Int /\ P + i \in 1 .. available
    BY <1>1, <1>2, <1>5
  <2>2. Oldest(P + i)[1] = ChannelOf(P + i)
    BY <2>1 DEF ApartInv, InLine
  <2>3. ChannelOf(P + i) = ChannelOf(i)
    BY <1>3, <2>1, SkippingFrames
  <2> QED
    BY <1>4, <2>2, <2>3
<1>9. InLine'
  BY <1>8 DEF InLine, Oldest, ChannelOf
<1> QED
  BY <1>6, <1>7, <1>9, ProcessKeepsInv DEF ApartInv

LEMMA ApartStep ==
  ApartInv /\ [RingNext]_ringVars => ApartInv'
<1> SUFFICES ASSUME ApartInv, [RingNext]_ringVars PROVE ApartInv'
  OBVIOUS
<1>1. CASE Process
  BY <1>1, ProcessKeepsApart
<1>2. CASE Flush
  <2>1. available' = 0 /\ output' = output /\ RingInv'
    BY <1>2, FlushKeepsInv DEF Flush, ApartInv
  <2>2. 0 % Channels = 0
    <3>1. Channels \in Nat /\ Channels > 0 /\ 0 = Channels * 0 + 0 /\ 0 \in 0 .. Channels - 1
      BY RingAssumption
    <3> QED
      BY <3>1, DivisionIsUnique
  <2> QED
    BY <2>1, <2>2 DEF ApartInv, WholeFrames, InLine, ChannelsApart
<1>3. ASSUME NEW chunk \in Chunks, Write(chunk) PROVE ApartInv'
  BY <1>3, WriteKeepsApart
<1>4. CASE UNCHANGED ringVars
  <2>1. RingInv'
    BY <1>4, RingInvStep DEF ApartInv
  <2> QED
    BY <1>4, <2>1 DEF ringVars, ApartInv, WholeFrames, InLine, ChannelsApart, Oldest
<1> QED
  BY <1>1, <1>2, <1>3, <1>4 DEF RingNext

(***************************************************************************)
(* No sample is ever played on another channel than it was recorded from,  *)
(* whatever was dropped and wherever the buffer wrapped (write, process).  *)
(***************************************************************************)
THEOREM ChannelsStayApart ==
  RingSpec => []ChannelsApart
<1>1. ApartInv => ChannelsApart
  BY DEF ApartInv
<1> QED
  BY <1>1, ApartInit, ApartStep, PTL DEF RingSpec
=============================================================================
