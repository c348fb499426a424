-------------------------- MODULE SignalingClient --------------------------
(***************************************************************************)
(* The desktop's SignalingClient                                           *)
(* (apps/desktop/src/services/signaling/signaling-client.ts): the one      *)
(* WebSocket of the app, its reconnection timer, and the sockets' events,  *)
(* which arrive whenever the runtime chooses, also those of a socket that  *)
(* has been replaced: close() leaves its handlers attached.                *)
(*                                                                         *)
(* Socket and timer identities are reused once the socket has closed or    *)
(* the timer has run; nothing in the code compares them with earlier ones. *)
(*                                                                         *)
(* connect() is allowed whenever the code allows it.  Called while an old  *)
(* socket is closing, or while a reconnection is under way, it is a mishap *)
(* (Untimely): the promises below do not survive either.  The one caller,  *)
(* use-signaling.ts, connects when the app mounts and closes when it       *)
(* unmounts, so the first needs a remount (StrictMode) and the second a    *)
(* caller that the app does not have yet.                                  *)
(***************************************************************************)
EXTENDS Mishaps

CONSTANTS
  Sockets,       \* identities for the sockets that are alive together
  Timers,        \* handles for the timers that are pending together
  None,          \* `undefined`
  MaxAttempts,   \* #maxAttempts
  MaxConnects    \* bound: calls of connect() in a behaviour

ASSUME NoneAssumption == None \notin Sockets \union Timers
ASSUME AttemptsAssumption == MaxAttempts \in Nat /\ MaxConnects \in Nat

VARIABLES
  state,          \* #state
  socket,         \* #socket
  attempt,        \* #attempt
  timer,          \* #reconnectTimer
  shuttingDown,   \* #shuttingDown
  phase,          \* socket -> where the runtime has it, see Phases
  pending,        \* timers that will run unless cleared
  connects        \* calls of connect() so far

fields == <<state, socket, attempt, timer, shuttingDown>>
runtime == <<phase, pending, connects>>
scVars == <<fields, runtime, happened>>

States == {"idle", "connecting", "connected", "reconnecting", "failed"}
\* "closing": close() was called, onclose is still to come.
Phases == {"none", "connecting", "open", "closing"}

SCTypeOK ==
  /\ state \in States
  /\ socket \in Sockets \union {None}
  /\ attempt \in Nat
  /\ timer \in Timers \union {None}
  /\ shuttingDown \in BOOLEAN
  /\ phase \in [Sockets -> Phases]
  /\ pending \subseteq Timers
  /\ connects \in 0 .. MaxConnects
  /\ happened \subseteq MishapKinds

SCInit ==
  /\ state = "idle" /\ socket = None /\ attempt = 0 /\ timer = None
  /\ shuttingDown = FALSE
  /\ phase = [k \in Sockets |-> "none"]
  /\ pending = {} /\ connects = 0 /\ happened = {}
-----------------------------------------------------------------------------
(***************************************************************************)
(* #open: a new socket becomes #socket; the attempt counter decides which  *)
(* state is shown meanwhile.                                               *)
(***************************************************************************)
OpenSocket(k) ==
  /\ phase[k] = "none"
  /\ phase' = [phase EXCEPT ![k] = "connecting"]
  /\ socket' = k
  /\ state' = IF attempt = 0 THEN "connecting" ELSE "reconnecting"

Untimely == {"connect while closing", "connect while reconnecting"}
ClosingSockets == {k \in Sockets : phase[k] = "closing"}

Connect(k) ==
  /\ connects < MaxConnects
  /\ state \notin {"connected", "connecting"}
  /\ shuttingDown' = FALSE
  /\ OpenSocket(k)
  /\ connects' = connects + 1
  /\ Befalls(OnlyIf(ClosingSockets # {}, "connect while closing")
               \union OnlyIf(state = "reconnecting", "connect while reconnecting"))
  /\ UNCHANGED <<attempt, timer, pending>>

\* Faulty variant: a reconnect that is already scheduled stays scheduled.
CloseKeepsTimer ==
  /\ shuttingDown' = TRUE
  /\ phase' = [k \in Sockets |-> IF k = socket THEN "closing" ELSE phase[k]]
  /\ socket' = None
  /\ state' = "idle"
  /\ UNCHANGED <<attempt, timer, pending, connects, happened>>

Close ==
  /\ shuttingDown' = TRUE
  /\ pending' = pending \ {timer}
  /\ timer' = None
  /\ phase' = [k \in Sockets |-> IF k = socket THEN "closing" ELSE phase[k]]
  /\ socket' = None
  /\ state' = "idle"
  /\ UNCHANGED <<attempt, connects, happened>>

\* Faulty variant: the state is left to whoever set it last.
OnOpenStateKept(k) ==
  /\ phase[k] = "connecting"
  /\ phase' = [phase EXCEPT ![k] = "open"]
  /\ attempt' = 0
  /\ UNCHANGED <<state, socket, timer, shuttingDown, pending, connects, happened>>

OnOpen(k) ==
  /\ phase[k] = "connecting"
  /\ phase' = [phase EXCEPT ![k] = "open"]
  /\ attempt' = 0
  /\ state' = "connected"
  /\ UNCHANGED <<socket, timer, shuttingDown, pending, connects, happened>>

\* Faulty variant: the attempts are not counted.
ScheduleReconnectForever(t) ==
  /\ t \notin pending
  /\ state' = "reconnecting" /\ timer' = t /\ pending' = pending \union {t}
  /\ UNCHANGED attempt

(***************************************************************************)
(* #scheduleReconnect: one more attempt, or give up for good.  t is the    *)
(* handle setTimeout returns.                                              *)
(***************************************************************************)
ScheduleReconnect(t) ==
  /\ t \notin pending
  /\ attempt' = attempt + 1
  /\ IF attempt' > MaxAttempts
     THEN state' = "failed" /\ UNCHANGED <<timer, pending>>
     ELSE state' = "reconnecting" /\ timer' = t /\ pending' = pending \union {t}

\* Faulty variant: the dropped socket is kept as the current one.
OnCloseKeepsSocket(k, t) ==
  /\ phase[k] # "none"
  /\ phase' = [phase EXCEPT ![k] = "none"]
  /\ IF shuttingDown THEN UNCHANGED <<attempt, state, timer, pending>>
     ELSE ScheduleReconnect(t)
  /\ UNCHANGED <<socket, shuttingDown, connects, happened>>

(***************************************************************************)
(* onclose of any socket that is still around, current or not: refused,    *)
(* dropped, or the answer to close().                                      *)
(***************************************************************************)
OnClose(k, t) ==
  /\ phase[k] # "none"
  /\ phase' = [phase EXCEPT ![k] = "none"]
  /\ socket' = None
  /\ IF shuttingDown THEN UNCHANGED <<attempt, state, timer, pending>>
     ELSE ScheduleReconnect(t)
  /\ UNCHANGED <<shuttingDown, connects, happened>>

TimerFires(t, k) ==
  /\ t \in pending
  /\ pending' = pending \ {t}
  /\ timer' = None
  /\ OpenSocket(k)
  /\ UNCHANGED <<attempt, shuttingDown, connects, happened>>

\* A socket that is connecting or closing is not left so by the runtime.
SocketSettles(k) ==
  /\ phase[k] \in {"connecting", "closing"}
  /\ OnOpen(k) \/ \E t \in Timers : OnClose(k, t)

SCNext ==
  \/ Close
  \/ \E k \in Sockets :
       \/ Connect(k) \/ OnOpen(k)
       \/ \E t \in Timers : OnClose(k, t) \/ TimerFires(t, k)

SCSpec == SCInit /\ [][SCNext]_scVars

(***************************************************************************)
(* The runtime opens or closes a connecting socket, closes a closing one,  *)
(* and runs a timer that is due.  Nothing is assumed of the server.        *)
(***************************************************************************)
SCFairSpec ==
  /\ SCSpec
  /\ \A k \in Sockets : WF_scVars(SocketSettles(k))
  /\ \A t \in Timers : WF_scVars(\E k \in Sockets : TimerFires(t, k))
-----------------------------------------------------------------------------
LiveSockets == {k \in Sockets : phase[k] \in {"connecting", "open"}}

(***************************************************************************)
(* "One signaling connection for the life of the app": every socket that   *)
(* is connecting or open is the current one.  Another one would hold a     *)
(* second session on the server and deliver its messages to the same       *)
(* listeners.  Excused: a connect() that is Untimely, after which there    *)
(* may be two.                                                             *)
(***************************************************************************)
OneConnection == Spared(Untimely) => LiveSockets \subseteq {socket}

(***************************************************************************)
(* The state shown is the truth: "connected" means that send() reaches an  *)
(* open socket, and an open socket is never hidden behind another state.   *)
(* Excused: a connect() that is Untimely, whose two sockets take turns in  *)
(* setting #state and #socket.                                             *)
(***************************************************************************)
ConnectedCanSend ==
  Spared(Untimely) =>
    (state = "connected" <=> socket \in LiveSockets /\ phase[socket] = "open")

(***************************************************************************)
(* At most one way back is under way at a time: a timer is pending only    *)
(* while there is no socket and the client shows "reconnecting", it is the *)
(* timer close() would clear, and after close() or giving up none is left. *)
(* Excused: a connect() that is Untimely, which clears no timer.           *)
(***************************************************************************)
OneWayBack ==
  Spared(Untimely) =>
    /\ pending \subseteq {timer}
    /\ pending # {} => state = "reconnecting" /\ socket = None
    /\ state \in {"idle", "failed"} => LiveSockets = {}

(***************************************************************************)
(* A client that is on its way to a connection gets there, gives up or is  *)
(* closed: it does not stay in "connecting" or "reconnecting" for ever,    *)
(* however often the server refuses it.  Excused: a connect() that is      *)
(* Untimely; a timer that close() then misses opens a socket whose refusal *)
(* is ignored.                                                             *)
(***************************************************************************)
Settles ==
  state \in {"connecting", "reconnecting"} ~>
    state \in {"connected", "failed", "idle"} \/ ~Spared(Untimely)
=============================================================================
