# A verification of Janja Share

Janja Share shows one person's screen to a few others.  Two programs make it
up: a desktop application (React and TypeScript in a WebView, with a Rust
shell) that captures, sends and plays the picture over peer-to-peer WebRTC
connections, and a small signaling server that lets a sharer and its viewers
find each other and exchange the offers, answers and ICE candidates the
connections need.  This directory holds TLA+ models of the parts in which
something can go wrong over time, TLC configurations that check them on small
instances, and TLAPS proofs of what matters most for instances of any size.

## The system: components, state, operations

| Component | Source | State | Operations | Modelled |
|---|---|---|---|---|
| Room table | `apps/signaling/src/room-manager.ts` | `#rooms` (room -> sharer, viewers), `#sessionRooms` (session -> room) | `createRoom`, `joinRoom`, `removeSession`, lookups | yes |
| Signaling server | `apps/signaling/src/server.ts`, `messages.ts` | `sessions` (socket, `alive`, bucket) | connection, seven message kinds, `close`, heartbeat, shutdown | partly: no HTTP routes |
| Rate limiter | `apps/signaling/src/rate-limiter.ts` | `#tokens`, `#lastRefill` | `tryConsume` | yes |
| Signaling client | `services/signaling/signaling-client.ts` | `#state`, `#socket`, `#attempt`, `#reconnectTimer`, `#shuttingDown` | `connect`, `close`, `send`, socket events, the reconnect timer | yes |
| Sharing session | `features/sharing/*.ts`, `hooks/use-sharing.ts` | `#state`, stream, listeners, one connection per viewer, readings, `#profile` | `start`, `stop`, `setQuality`, `pollQuality`, signaling messages | yes, over four modules |
| Viewing session | `features/viewing/viewing-manager.ts`, `WatchScreen.tsx` | `#state`, connection, listener, pending candidates, readings | `join`, `leave`, `pollQuality`, signaling messages, connection events | yes, over three modules |
| Quality pipeline | `services/webrtc/*.ts` | counters of the last report | `sample`, `classifyQuality`, `aggregateStats` | partly: the loss and the grades |
| Connection set-up, settings | `services/webrtc/peer-connection.ts`, `services/settings.ts` | the stored preset | `loadPreset`, `savePreset`, parameters of a sender | partly: a preset's way |
| Application audio | `app-audio.ts`, `public/app-audio-worklet.js`, `src-tauri/src/app_audio.rs`, `lib.rs` | ring buffer; slot, commands and capture threads | start, stop, time-out, write, process, flush | partly: not the Windows calls |
| Panel and tray | `src-tauri/src/lib.rs`, `popover.rs`, `tray.rs`, `services/panel.ts`, `tray-status.ts` | auto-hide, saved geometry, visibility, icon | toggle, show, hide, picker mode, window events | partly: not placing, blur, icons, quitting |
| Screens | `App.tsx`, `HomeScreen.tsx`, `ShareScreen.tsx`, `WatchScreen.tsx`, `QualityScreen.tsx` | the screen shown | keys, buttons, effects | partly: what acts, not what is drawn |
| Protocol validation | `packages/signaling-protocol/src` | none | parsing a frame, ids | partly: the message kinds |
| Configuration, ICE servers; capture sources; diagnostics | `config.ts`, `ice-servers.ts`, `sources.rs`, `features/diagnostics/` | none that changes during a session | | no |

(Paths under `apps/desktop/src/` are shortened.)

How they interact.  Each desktop holds one WebSocket; the sharing session and
the viewing session of the same application both listen on it and both send on
it.  The server handles every frame to completion before the next (Node is
single-threaded, and no handler awaits), answers on the same socket and pushes
messages to other sessions' sockets; a send to a session that is gone is
dropped.  Desktop sessions do await: the screen picker, `createOffer`,
`setLocalDescription`, `setRemoteDescription`, statistics; anything may happen
meanwhile.  The WebView calls the Rust shell by commands that Tauri queues and
the main thread runs one at a time, so a command may run long after the screen
that invoked it has gone; capturing an application's sound takes a thread of its
own, which the main thread starts, waits for and joins.

What is hard.  Sockets come and go between any two messages; a host that
crashes is noticed only by the heartbeat; a client may send messages in orders
no screen of the application produces; a replaced socket's events arrive late;
operations that await resume in a world that has changed; polls that overlap; a
time-out that races the answer it waited for; a wall clock that
jumps.  The list of hazards, each at its line, is in `PROJECT.json`.

What makes each part correct:

- Room table: the index and the rooms agree; a room has one sharer and no more
  viewers than allowed; ending a room frees everybody in it.
- Server: what clients are told is what the table holds; whoever loses its
  place hears so; a vanished client is forgotten; signaling passes only between
  a sharer and its own viewers.
- Rate limiter: burst plus rate bounds every window; nobody who keeps trying is
  refused for longer than a token takes and the clock was set back.
- Signaling client: one live socket; the shown state is the truth; it always
  comes to rest.
- Sharing and viewing: nothing captured or connected once the session says it
  is idle; each viewer one connection, with the right peer; a session that
  waits is waiting for something that can still come.
- Readings and presets: what is shown was measured on connections that exist,
  what is stale goes; the preset on the screen is the one in force.
- Candidates: none is lost, and none reaches another connection, unless a viewer
  is back too quickly.
- Audio: the ring loses only the oldest samples and never mixes channels; no
  capture thread survives its stop.
- Panel: the picker has room and stays, a picture pins the panel, the window
  gets its size back, the icon tells the truth.

## The plan

In order of importance; what is done is in this directory.

1. `RoomManager`, `Lobby` (the abstract promise), `SignalingServer` (the server
   around the table, implements `Lobby`).  Done, with proofs.
2. `TokenBucket`, `SignalingClient`.  Done, with proofs.
3. `SignalingLink`, `SharingSession`, `ViewingSession` and their composition
   `ScreenShare`: both halves of the desktop over the server, with queues and
   with the awaits as separate steps.  Done, with proofs of all its safety
   properties.
4. `PeerLink` over `StreamQuality`: ICE candidates, the awaits of `acceptOffer`
   and the statistics.  Done, with proofs.
5. `SharingQuality`: overlapping polls and quality presets.  Done, with proofs.
6. `AppAudio`: the start and stop protocol of the native capture.  `AudioRing`
   refining the queue `DropOldest`.  Done, with proofs.
7. `TrayPanel`: screens, commands and the shell.  Done, with proofs.

Left: the sending direction of the statistics.

## Modules

### RoomManager

The class without sockets.  `sharerId`, `viewers` and `sessionRooms` are the
two Maps; an absent key is `None`.  `RemoveSession`, `CreateRoom` and `JoinRoom`
are `removeSession`, `createRoom` and `joinRoom`, each whole, with the quirks
they have: `createRoom` removes the session from its room first and tells
nobody; `joinRoom` overwrites the index entry and leaves the old room alone.
`RemovalKind` is the returned effect.  The id that `createRoom` draws is any
free one; `createdAt` is never read and is left out.

### SignalingServer

Extends `RoomManager`.  `status` is the life of a session's socket, `alive` the
heartbeat flag, `up` turns FALSE at `close()`.  `sent` is what the last step
pushed to each session (a handler pushes at most one message to each) and
`view` what each connected client has been told: the fold of all it was sent,
computed by `ToldBy` the way the desktop's managers do.  Keeping the fold and
not the queue is sound because a WebSocket is FIFO and lossless while it
lasts, and a client that is gone knows nothing (`Blank`); the delay itself
belongs to `SignalingLink`.  One action stands for one handler:
`HandleCreateRoom`, `HandleJoinRoom`, `HandleLeaveRoom`, `HandleSignal` (offer,
answer and candidate are relayed alike), `HandleRefused` (rate limit or
malformed frame), `Connect`, `Pong`, `Close`, `Heartbeat`, `Shutdown`; and two
for the network: `Vanish` (no FIN ever comes) and `Disconnect`.

The constant `OneRole` says what the clients do.  FALSE: anything, at any time.
TRUE: a client creates or joins only when the server has it in no room.  The
desktop does not guarantee that (one application may share and watch), which
is why the results that need it say so; what happens without it is under
"Findings".  In particular `EndedRoomIsTold` does not speak of a `create-room`
from inside a room, which `OneRole` excludes and which ends the old room
telling nobody.  A client has one `view`, so `HandleLeaveRoom` blanks both halves
of an application at once: under `OneRole` there is only one to blank, and
without it no property reads `view`.

### Lobby

What the server promises, without tables or sockets: a session has at most one
place, a room one sharer and a bounded number of viewers, and when the sharer
gives up its place every viewer loses its own in the same step.
`SignalingServer` implements it under `OneRole` with the mapping
`PlaceInIndex`, which reads a session's place off the reverse index.

### TokenBucket

`#tokens` in units of 1/1000 token, so the fractional refills of the code are
exact integers; `Refilled`, `RefillTime` and `TryConsume` are the three parts of
`tryConsume`, and `Call` is a call at the present `Date.now()`.  `TimePasses` moves
time and clock together; `SetClock` sets the clock to anything while no time
passes.  `winStart`, `winCount`, `passed`, `waited` and `setBack` belong to an observer
who opens a window at any call: what was accepted in it, how much time really
passed until now and until the last call, and how far the clock was set back
(or was behind `#lastRefill` when the window was opened).  After such a set-back
an empty bucket refuses for as long as the clock was set back, because
`#lastRefill` stays; `NotStarved` says that it is no longer than that.

### SignalingClient

The five private fields, plus where the runtime has each socket (`phase`) and
each timer (`pending`).  `OnOpen` and `OnClose` act for any socket that is still
around, also one that has been replaced, as the code's handlers do.  A timer
that fires with `#shuttingDown` set cannot exist, because `close()` clears it.
`Connect` has the guard of `connect()` and no other, so it may come while an old
socket is closing, and in `reconnecting`, with a timer pending or a socket
connecting.  Either leaves two sockets, or a timer beside a socket; they are the
mishaps `connect while closing` and `connect while reconnecting`, which the
module's properties excuse.  `use-signaling.ts`, the one caller, connects at mount
and closes at unmount, so the first takes a remount (React's StrictMode) and the
second a caller that the app does not have yet.

### SignalingRules, SignalingLink

`SignalingRules` holds what the server decides from the room table alone
(`ResolveTarget`, `DepartureMessages`) and the messages; `SignalingServer` and
`SignalingLink` both extend it.  `SignalingLink` is the same server seen from
the desktop: `up` and `down` are the frames in flight on an application's
socket, handled one at a time (`ServerCreates`, `ServerJoins`, `ServerRemoves`,
`ServerRelays`).  A socket that breaks (`Drop`) loses both queues at once, the
server hears of it later (`ServerForgets`), and the client comes back with a new
session (`Reconnect`), one that nobody had before (`used`: `randomUUID`,
`server.ts:217`).  Rate limiting, the heartbeat and forged messages belong
to `SignalingServer` and are left out here.

### SharingSession, ViewingSession, ScreenShare

`sh[a]` holds the fields of an application's `SharingManager`, `entry[a]` its
`ViewerConnectionManager`, `capturing[a]` the captures whose track is live
whether or not anybody still refers to them, and `starting[a]` where each call
of `start()` stands: in the picker, attaching audio, or past its await.  So
`stop()`, a second `start()` or any message can come between `Start` and
`CaptureStarts`, as they can in the code.  `addViewer` is `AddViewer` (up to its
first await) and `OfferReady`; an entry remembers which offer its answer
answered.  `vw[b]` holds the fields of `ViewingManager`, `offers[b]` the calls of
`acceptOffer` that are suspended.  A listener count replaces the listener sets:
a manager that is registered twice applies each message twice.  `Receive` gives
a frame to both halves of the application, as the client's listener loop does.
A connection is a number; two ends are connected when each applied the other's
description (`Matched`).

### Mishaps

Some steps are *mishaps*: legal steps that at least one promise does not
survive.  A behaviour may contain `MaxMishaps` of those in `MishapKinds`, each
is recorded in `happened`, and a property excuses (`Spared`) exactly the ones
that break it.  So a passing run says which promises hold in spite of a mishap,
and the excuses say which do not.  `ScreenShare` does the same with `Mishaps`,
per application.  All of them:

| Mishap | Where | What it breaks |
|---|---|---|
| `early end`: Windows ends the track while audio is being attached | `screen-capture.ts:176` listens too late | `LiveMeansCapturing` |
| `stop in picker`: `stop()` (tray, Ctrl+.) while `start()` waits | `sharing-manager.ts:104` does not look again | captures, listeners and rooms of a share that was stopped; the audio of a stopped share; the panel hides over the picker |
| `start over error`: "Tentar de novo" on a share that failed but runs | `sharing-manager.ts:99` cleans nothing up | a second capture and a second listener; answers applied twice drop the viewer; the first audio capture is replaced and its stop ends the second |
| `quick rejoin`: a viewer comes back while frames of its last stay are in flight, or goes on from an error with an offer of it still to answer | messages carry no membership | a stale offer is answered to a new connection; a stale error or answer ends the new one; a candidate of the old connection is buffered for the new one |
| `offer refused`: `acceptOffer` throws | `viewing-manager.ts:170` cleans nothing up | the place in the room is kept, the next join listens twice |
| `connection fails`: ICE fails or the negotiation throws | `viewer-connection-manager.ts:117-141` | that viewer waits without an offer; nobody else is affected |
| `drop`: the signaling socket is replaced | nothing in either manager listens for it | a share without a room, a viewer that waits for ever |
| `both roles`: one application shares and watches | one session on the server for both | leaving one ends the other's room or place |
| `connect while closing`: `connect()` before the last socket's `onclose` | `signaling-client.ts:134` clears the new `#socket` | two sockets, a wrong state, a reconnect beside a connection |
| `connect while reconnecting`: `connect()` with a reconnect timer pending or its socket connecting | `signaling-client.ts:84-88` refuses only `connected` and `connecting`, and clears no timer | the same |
| `poll outlives connection`: `getStats` returns after the connection it asked was replaced | `viewing-manager.ts:99-102` | numbers of the old connection are shown, and become the base of the next interval |
| `stop during poll`: the share stops while `pollQuality` awaits | `sharing-manager.ts:158` | verdicts on connections that are closed come back on an idle or later share |
| `preset in picker`: a preset is chosen while the picker is open | `sharing-manager.ts:170` | the capture keeps the size and hint of the old one |
| `ceiling refused`, `size refused`: the browser rejects `setParameters` or `applyConstraints` | the rejection is swallowed | that encoder or track keeps the old preset |
| `worklet fails`: `addModule` rejects | `app-audio.ts` closes the context only after a refused start | an `AudioContext` stays open |
| `second start`: `start()` again under the first one's picker | `use-sharing.ts:97` | the window shrinks under the open picker |
| `start from watch`: a share is started from the watch screen | the screen's cleanup and `set_picker_mode` race | the panel may hide over the picker |
| `watch during start`: the watch screen is opened while a start is under way | both write auto-hide and the tray | the panel hides over the picker or is not pinned; the icon is wrong |
| `watch while sharing`: the watch screen is opened over a share | `WatchScreen.tsx:62` | the icon says watching or idle |
| `stop while watching`: a share is stopped while a picture is watched | `use-sharing.ts:109` | the panel hides at the first click elsewhere |
| `geometry unknown`: Windows does not say where the window is | `popover.rs`, `enter_picker_mode` grows it all the same | it never shrinks again |

### StreamQuality, PeerLink

`StreamQuality` holds the operators: `LossOverInterval` is `#lossOverInterval` of
a received stream, `LossRating` and `Classify` are `rate` and `classifyQuality`.
Losses are fractions, so the thresholds are exact.  Latency and frame rate enter
already rated, any rating at any time.

`PeerLink` is one viewer's connection to a sharer.  `TakeOffer`, `Described`,
`Drain`, `Drained` and `SendAnswer` are `acceptOffer` cut at every await;
`AddCandidate` is `#addCandidate` (wait for the description, or apply);
`ViewerHears` and `SharerHears` are the two `#handleSignalingMessage`.
Candidates are found at either end whenever the browser may find one, so they
overtake offers; a viewer's candidate cannot overtake its answer, because gathering
starts with `setLocalDescription`, whose continuation sends the answer.
Packets come, are missed, or turn up late, which
lowers `packetsLost` as the counter may; `PollStarts` and `PollReturns` are
`pollQuality` around its await.  `Join` may come before the last stay was dealt
with (`Unsettled`); offers, answers and candidates of it then reach the new
connection, as in the code.  That is the mishap `quick rejoin`, excused by the
two properties of candidates and by no other.  `accepting` is indexed by the
offer's connection, so an `acceptOffer` of the last stay and one of this run side by
side on one connection, and the browser may refuse either.  Two things are
left out: a join with an old listener still registered (`~listening`; it is
`ScreenShare`'s), and a join ahead of more than `MaxUnderway` messages.

### SharingQuality

The sharer's statistics and presets.  A reading is the number of the connection
it was taken from, so "of this share" and "stale" can be said.  `PollStarts(k)`
takes the entries at that moment; `PollReads` answers one `getStats`, `PollHangs`
is one that never answers because its connection was closed, `PollFinishes` is
the rest of `pollQuality`, with `#viewers` as it is by then.  The timer starts
another poll whether or not the last is back, hence `MaxPolls` slots.
`SetPreset` is `setPreset` and `setQuality` whole: state, storage, profile,
every sender and the track, each of which may refuse.  `Restart` reads the
preset back from storage.

### AppAudio

One number names a call of `start()`, its `AudioContext` and its capture thread.
`commands` is the queue of invoked commands, `main` what the main thread is at:
nothing, joining a thread, or waiting for a thread's report.  `StartBegins`,
`StartContinues` and `StartSucceeds`/`StartFails`/`StartTimesOut` are
`start_app_audio` and `app_audio::start`, which first stops and joins the
capture in the slot; `StopBegins` and `StopReturns` are `stop_app_audio`.
`Activates` and `ActivationFails` are the thread up to its report, `ThreadEnds` its
loop seeing the flag.  The time-out may come at any moment before the report is
read, whenever the thread's own report comes.

### DropOldest, AudioRing

`AudioRing` is the worklet: `Write`, `Process` and `Flush` are its three methods,
with the indices and the modulo as in the code.  `AfterWrite` says in one
formula what the copying loop leaves in each slot, also when a chunk goes round
the buffer more than once.  A sample is the channel it was recorded from and a
sound, so mixing channels shows.  `DropOldest` is the promise: a bounded queue
that forgets the oldest and is played a block of frames at a time.

### TrayPanel

`screen`, `sharing`, `watching` and `call` are the WebView: what is shown, the
states the two managers report, and where each call of the hook's `start()`
stands around its awaited `set_picker_mode`.  `invoked` is the queue of
commands; `RunCommand` runs the first as `lib.rs` does.  `SharingEffect`,
`WatchEffect` and `WatchCleanup` are what the React effects invoke, in the order
of one commit.  `autoHide`, `saved`, `size`, `panel`, `tray` are the shell, where a
panel that the user hid differs from one that `vanished` at a click elsewhere.

## Runs

| Run | What it asks | Instance | Result |
|---|---|---|---|
| `server_any_client` | does any behaviour of clients and sockets break the table? | 3 sessions, 2 rooms, limit 1 | holds |
| `server_one_role` | `Lobby`, agreement of clients and table, who hears whom, ended rooms announced, vanished clients forgotten | 3 sessions, 2 rooms, limit 2, `OneRole`, fairness; 59 thousand states | holds |
| `client_sockets` | one socket, honest state, always comes to rest | 3 sockets, 3 timers, 3 attempts, 3 calls of `connect()`, both mishaps, fairness | holds |
| `token_bucket` | the two bounds under any clock | token of 5 units, 2 units a tick, a burst of 3 tokens, a clock, windows and set-backs of up to 8 ticks | holds |
| `share_one_viewer` | does what each screen says agree with captures, connections and the room, across every await and queue? | 1 sharer, 1 viewer, 3 sessions, 2 rooms, 2 starts, 2 joins, any one of seven mishaps | holds |
| `share_two_viewers` | is one viewer's trouble its own, and does every join end? | 1 sharer, 2 viewers, a connection may fail, fairness | holds |
| `peer_link` | is every candidate given to the right connection, and is what is shown measured on it? | 2 connections with 2 candidates and up to 100 packets each, of which 3 may be lost, any one of four mishaps, up to 2 old messages at a rejoin; 4.4 million states | holds |
| `sharing_quality` | are readings and preset those of the present share, and do stale readings go? | 2 viewers, 2 presets, 2 shares, 2 connections, 2 polls, any one of four mishaps, fairness; 0.9 million states | holds |
| `app_audio` | does one thread capture, the one that is held, and is every start answered? | 3 starts, any one of three mishaps, fairness; 51 thousand states | holds |
| `audio_ring` | is the ring a queue that drops the oldest, channel by channel? | 2 channels, 8 slots, blocks of 2 frames, chunks of up to 5 frames | holds |
| `panel` | do the picker, the picture, the size and the icon survive every order of commands? | 3 starts, 2 commands queued when the user acts, two of seven mishaps; 4.9 million states | holds |
| `share_watch_screen` | does a share survive the other screens? | 2 applications, one both shares and watches | violated: finding |

Why the bounds are enough.  Two sessions and two rooms are what it takes for a
session to be in the wrong room; the third is the bystander whose knowledge may
go wrong.  Session ids are UUIDs and never return, so a finite set of them makes
behaviours finite: every session may end up "gone", and after `Shutdown` nothing
happens.  The server really may stop there, hence `CHECK_DEADLOCK FALSE` in the
server's configurations.  The users of `ScreenShare`, `PeerLink` and `AppAudio` start,
join and leave a bounded number of times and may do nothing more, hence the same
there; two starts and two joins are what it takes for something of the first to
meet the second, and a third start of `AppAudio` can come while the first is
being joined and the second is queued.  One mishap keeps excuse and cause apart;
the panel's run allows two, because a second start over a start from the watch
screen is what its users do.  Two candidates are the fewest that can lie on both
sides of the description.  Between two polls 97 or 99 packets come and up to
three go missing, so the loss is above, below and exactly at both thresholds of
`connection-quality.ts`, 1 of 100 and 3 of 100, and a late packet lowers the count;
the other ratings are `excellent`, so the loss decides the word.  Two polls may overlap as oddly as three, since each takes what it reads
from the entries and leaves nothing behind but its result.  A chunk of five
frames is longer than the four that the ring holds.  A bucket whose token and
refill are coprime goes through every residue within the clock's bound.  Three
sockets are more than the two the client can mix up; `MaxConnects` bounds the
calls of `connect()`, and nothing else is bounded in that model.  `server_any_client`
uses symmetry over sessions and rooms, `share_one_viewer` over rooms (the first
sessions are fixed instead); the runs with liveness properties use none.

Fairness.  `server_one_role` assumes that the interval timer keeps firing
(`WF(Heartbeat)`) and that Node emits `close` for a socket that was terminated
(`WF(Close(s))`); nothing of the clients.  Pongs need no assumption: a missing
one only makes the heartbeat terminate the session.  `client_sockets` assumes that a
WebSocket that is connecting opens or fails and one that is closing closes, and
that a due timer runs; nothing of the server, which may refuse for ever.
`share_two_viewers` assumes that frames in flight are handled (WebSocket and the
event loops deliver them), that what an application awaits from the browser
comes, and that WebRTC connects two ends with each other's descriptions unless
it fails, which is a mishap; nothing of the users.  `sharing_quality` assumes that
the interval timer fires and that a `getStats` of an open connection settles;
one of a closed connection may never.  `app_audio` assumes that the main thread and
its clock run, that the WebView goes on with an answered invoke, and that a
capture loop comes round (its wait ends after 200 ms); Windows may never
activate anything, which is what the time-out is for.

Every property of a passing run comes with a mutant: a definition with a
plausible bug (they stand beside the real one, marked "Faulty variant") under
which the run finds the property violated.

## Findings

`share_watch_screen`: opening and leaving the watch screen while sharing ends the
share's room.  The screen's unmount sends `leave-room` on the shared session
(`viewing-manager.ts:84`), and the sharer's screen goes on saying it is live.
`use-sharing.ts:25-26` says that navigating must not stop a share.

Behaviours without a run of their own.  They came up while modelling, and are
why some property has an assumption or an excuse:

- A session that joins a second room stays in the first one for ever:
  `joinRoom` overwrites the reverse index (`room-manager.ts:71`), so a disconnect
  removes the session from the second room only.  If it shared the first, that
  room lives on with a dead sharer.  This is why `OneRole` is assumed.
- A second `create-room` ends the first room without a word: the effect of the
  removal inside `createRoom` (`room-manager.ts:45`, `server.ts:114`) is dropped.
- `close()` followed at once by `connect()` leaves two sockets: the old socket's
  late `onclose` clears `#socket` (`signaling-client.ts:134`), which is by then the
  new one, and schedules a reconnect.  React's strict mode does exactly that in
  development builds.  It is the mishap `connect while closing`.
- `connect()` during a reconnection does the same with no old socket: it is refused
  only in `connected` and `connecting` (`signaling-client.ts:85`) and does not clear the
  timer, which opens a second socket when it fires.  It is the mishap `connect while
  reconnecting`.
- A clock that is set back stops the refill until it is past `#lastRefill` again
  (`rate-limiter.ts:26-31`): a client whose bucket is empty is refused for as long
  as the clock was set back, however patiently it tries.
- A viewer that is back before its departure was dealt with takes a candidate of
  its last connection for one of the new: `#addCandidate` buffers it
  (`viewing-manager.ts:174-177`), and nothing in the message tells them apart.
- An application that watches as well as shares can be in two places at the
  server: a viewer that goes on from an error (`viewing-manager.ts:170`) is a
  viewer still when it joins elsewhere.  The room it watched ends, `removeSession`
  (`room-manager.ts:88`) deletes the index entry of every viewer of that room, and
  the application's own room can be found no more.  This is why `StoppedMeansStopped`,
  `AwayMeansOut` and `ConnectionsMatchRoom` assume `InOnePlace` of it.  Who watches that
  room then waits in it for ever when the share stops, because `leave-room` removes
  nothing: `WaitingMeansConnecting` assumes `InOnePlace` of every sharer.
- So a session can be left in a room for good when its socket breaks: its departure
  removes nothing, and the sharer keeps a connection to a viewer that is nobody.
  `ConnectionsMatchRoom` therefore asks who has a session or may have had it
  (`Bearers`), and says that a sharer connects to nobody outside its room, and to
  every viewer that is there and has a session; a connection to a session that
  nobody has any more may have failed without being recorded.
- An offer of an earlier stay that is still to be applied when a viewer goes on
  from an error is answered in the next stay (`acceptOffer` compares nothing).
  The model counts that as a `quick rejoin`.
- A viewer that leaves while the sharer's offer for it is on the way makes the
  server answer `NOT_AUTHORIZED`, and the sharer's screen turns to an error
  although everything runs on (`sharing-manager.ts:250`).
- A viewer that is reconnecting keeps the last word and numbers, because
  `pollQuality` returns before it touches them (`viewing-manager.ts:95`), although
  line 103 says that such numbers "read as a healthy stream".
- The TURN credentials of a sharer come once and expire (`sharing-manager.ts:203`);
  a viewer that joins later is offered a connection with credentials the TURN
  server refuses.
- The loss of a sent stream is divided by what was sent in the same interval,
  and losses are reported later, so it may exceed the 1 that
  `connection-quality.ts:11` names (`stats-tracker.ts:168-175`).
- `aggregateStats` folds frame rates and sizes with the same `worst` as losses, so
  of several viewers it shows the best frame rate (`stream-stats.ts:41`).

The mishap table lists further ones; TLC finds each when its excuse is taken out
of the property.

## Proofs

All proofs are for every value of the constants: any sets of applications,
sessions, rooms, sockets, viewers and presets, any limits and bounds, any rate,
burst, capacity and number of channels, and any number of mishaps in one
behaviour.  The assumptions on constants are named in the modules: `None` is
neither a session nor a room, `MaxViewers` and the bounds are natural numbers,
the bucket's and the ring's parameters are positive, the ring holds whole frames
(`RingAssumption`), an application that shares or watches is one (`SharersAssumption`,
`WatchersAssumption`), there is a session for each to begin with
(`SessionsAssumption`), and "unmeasured" is not a rating (`UnmeasuredAssumption`).
The type of every module's state is a theorem as well, so the other proofs may
use it.

`RoomManagerProofs`.  `IndexIsSound` and `ViewerCapHolds` hold whatever calls are
made.  Soundness alone is inductive with the types: what removal deletes from
the index is at least what it deletes from the rooms.  The converse
(`IndexComplete`) is not invariant of the table, and the module proves for each
operation what it needs: a creator or joiner that was in no room.

`SignalingServerProofs`.  `ServerStepIsTableStep` shows that each handler is one
operation of the table or none; everything proved of the table carries over
(`ServerImplementsRoomManager`, `ServerIndexIsSound`, `ServerViewerCap`).  Under
`OneRole` the index is complete (`ServerIndexIsComplete`), and then so is the
clients' knowledge (`ClientsKnowTheirPlace`).  The inductive invariant is
`MembershipInv`: types, sound index, complete index, viewer limit and the
agreement together.  All are needed: the departure messages are computed from
the one room the leaver is indexed under, so they are right only if it is in no
other (completeness), is in that one (soundness), and is not both its sharer
and its viewer (the limit's last conjunct).  `SignalsReachAcquaintances` follows
from the agreement and the authorization rule; `NoRoomEndsInSilence` from the
fact that under `OneRole` a room ends only by its sharer's departure.

`ServerImplementsLobby`, in the same module: places are read off the index
(`PlaceMeans` is where soundness and completeness enter) and each table operation
is the abstract action of the same meaning or a stutter.

Of the bucket, still there: `AllowanceIsBounded` needs only that the credit paid so far
and the level never exceed capacity plus the time credited; `NobodyIsStarved`
needs in addition that the level of an empty window has grown by all the time
credited, and that what was credited is what passed less what the clock was
set back.

`DesktopProofs`, of the signaling client.  `OneConnectionHolds`, `ConnectedIsTrue` and
`OneWayBackHolds`, each until one of the two mishaps.  Until then the invariant `ClientInv` adds `Quiet` to the three
properties: no socket is closing unless the client is shutting down, one that is
shutting down is idle and holds no socket, and the only timer pending is the one
the client refers to.  That is what makes a late `onclose` harmless, and what
`close(); connect()` destroys.  `AttemptsCounted` is needed for the types only.

`AppAudioProofs`.  `NoCaptureIsStray`: the invariant `AudioInv` says what the queue
knows of a start (it stands there once, and until its turn has no thread and
no answer), what the main thread knows of the one thread it deals with, and
what every thread is to those two.  A thread that captures is in the slot or is
the one being joined or waited for, so two cannot capture at once; the step that
needs most of it is the time-out, after which only the stop flag stands
between a late report and a capture that nobody holds.  `SoundIsAlwaysHeld`:
`HoldingInv` says that the queue ends in what the manager has in mind.  A start
that is under way stands last in it, and of a capture that nobody holds any more
a stop stands in it; so once the queue is empty, the slot is the manager's.
That is true as long as no start or stop comes on top of another start, and both
of those are mishaps the property excuses.

`SharingQualityProofs`.  `ReadingsAreOfThisShare`, although polls overlap and
outlive what they read: `ReadingInv` carries the claim for the polls still in
flight as well.  `PresetIsInForce`: `PresetInv` follows the preset through the three
places it waits in (what the picker was asked for, the track, the ceiling for
those who join).  Both excuse the mishaps that the properties excuse.

`RingIsAQueue`, also in `AppAudioProofs`, is the refinement of `DropOldest` by `AudioRing`, for
chunks of any length; `ChannelsStayApart` and `RingTypeCorrect` hold with it.  The
invariant is that the writer is `available` slots ahead of the reader
(`IndicesAgree`).  A write then lands in a slot whose distance from the writer
says whether it is old or new and, if new, which sample of the chunk is the
last that falls there (`LastOnSlot`, `OldestAfterWrite`): this is modular arithmetic with an
unknown modulus, which the SMT solver cannot do, so the module first proves
what it needs of `\div` and `%` from their definition (`Division`,
`DivisionIsUnique`, `RemainderOfSum`, `RemainderOfDifference`).  For the channels the
invariant adds that the ring holds whole frames and that the n-th oldest sample
is of the n-th channel in turn.

`PeerLinkProofs`.  `NoCandidateStrays`, `NoCandidateIsLost`, `LossIsOfNow` and
`WordFits`.  Of candidates everything is said as long as no viewer was back too
quickly (`Calm`); a viewer that was breaks all of it, in the code as well.  The
types, and `SampleInv` and `ShownInv`, on which the last two theorems rest, need no
such condition.  The rest of the invariant is in two halves that mirror each other: everything
the viewer has or will hear belongs to the sharer's last connection
(`FromTheSharer`), and everything the sharer has or will hear to the viewer's
(`FromTheViewer`).  Both rest on `StayInv`: what announces a stay is the first
thing the sharer hears of it, and a stay that the server ended has left nothing
at the sharer; and on `OfferInv`: a stay is made one offer, so one `acceptOffer`
runs at a time.  For the loss of candidates, `SharersAccounted` and
`ViewersAccounted` say where each is: applied, waiting, or on its way behind the
description it needs (`Behind`).  `SampleInv` ties the tracker's last sample to
the connection there is, except when a poll outlived the one it asked.

`DesktopProofs`, of the panel and the tray.  `WindowGoesBack`, `OpenPickerIsUsable`, `PictureKeepsThePanel` and
`TrayIsTruthful`.  Commands run in order, so of each kind (resizing, pinning,
icon) the last one in the queue decides, or the shell's present state if there
is none; `PanelInv` says of each kind that what decides fits what the WebView
shows.  A command is added at the end only, which keeps that, or it decides
itself.  The picker is harder, because it has room only between two commands:
`Enters` splits the queue at the one that opens it, with the window's size known
before and nothing that disturbs it behind.

`ScreenShareProofs` and, for what comes from `RoundInv` on, `ScreenShareRoomProofs`.
`ShareTypeCorrect`, every other safety property of the run, and `AnswersAreAwaited`, each with
what it needs:

- `NoCaptureIsOrphaned`, `SharingIsLive`: `SharerInv`.  One `start()` is under way at a
  time, and the manager either holds a stream, listens and captures, or has
  nothing at all.
- `EachHearsOnce`: `ViewerInv`.  A viewer takes an offer only while it listens, and each
  offer is in one place: being made, on its way up, on its way down, or taken
  and being answered (`OnePlace`).  So no offer is taken twice, and the listener that
  a failed `acceptOffer` leaves behind is the only way to a second.  `SessionsInv`, that a session
  is one application's and a new one is new, is used everywhere.
- `AnswersMeet`: `MeetInv`.  When a viewer's membership begins that the sharer hears
  of (`Told`, `Asking`), nothing of an earlier one is under way: no offer, no answer,
  no entry.  That is what a `quick rejoin` breaks.  An entry is created by the
  `viewer-joined` it follows from, and then all offers and answers on the way
  bear its number.
- `StoppedIsStopped`, `AwayIsOut`: `PlaceInv`.  Frames are handled later than they are
  sent, so "has left" is a statement on the queue: a `leave-room` in it is followed
  by no frame that takes the place again, or nothing in it takes one and the
  table has none (`NoShareAt`, `NoSeatAt`).  To know that a `leave-room` empties the place,
  the index must point at it at the moment it is handled: `Indexed` (whoever is in a room is indexed under it, so in no second one), `Orderly`
  (when the server comes to a `create-room` or `join-room`, its sender has no place) and
  `Apart` (nobody shares and watches at once).  `OutWhenSilent`, `OutWhenAway` and `OutWhenWarned` are the conclusions for a sharer
  without a stream, a viewer that is away, and one to whom the end of its room
  is being told.
- `AnswersAreAwaited` (not a property of a run): `RoundInv`.  The offer of the connection
  there is, and its answer, are in one place at a time: sent, pushed, waiting at the viewer,
  applied there, answered, pushed back (`OneByOne`, `EachOnce`).  Until the answer has been heard, the
  connection is in the phase that waits for it (`InPhase`), so none is refused.
- `ConnectionsMatch`: `HostInv`.  The invariant must be about the time at which a frame will be
  handled: a sharer with a stream has asked for a room as the last thing but signals, or
  there is its room (`HasRoom`).  In its own queue there is then a place `i`, right behind the
  `room-created` if that is still to come (`RoomStart`), from which on it has been told every change of that
  room.  Whether it will hold a connection to `v` when its queue is empty can be read off the queue:
  the last frame that concerns `v` decides, `viewer-joined` or `viewer-left`, or if there is none
  the entry it has (`Present`, `Expected`).  `Follows` says that this is what the table holds now: nobody is expected that is not in the room, and every
  viewer that is there and calm is.  Each handler of the server adds to the table and to the queue
  what the other needs, and each frame that the sharer handles moves from the queue to the entries.
  At rest the queue is empty and `Follows` is the property.  What it rests on:
  `PlaceInv` (a join that is handled comes from no other room), `IndoorsInv` (a sharer that never
  dropped is connected under its own session, so all frames for it are delivered),
  `SeatInv` (a room that is created takes no seat of its sharer away unsaid), and `RoundInv` (an answer is
  no reason for an entry to go: a calm viewer's is never refused).
- `NobodyWaitsInVain` (of `WaitingMeansConnecting`, in behaviours in which no viewer refuses an
  offer; with a refused offer the run alone speaks for it): `GuestInv`, of the viewers and sharers the property
  speaks of (`Guest`, `Mannered`), and `PhaseInv`.  `RoundInv` says that an offer and its answer are in at most one place;
  here they must be in one, for every viewer that waits, and belong to the room it shows.
  Three things have to be followed, each through the queues.  The seat (`HasSeat`): who waits sits in its room, has
  the join still first in its queue, or has its end on the way (`IsWarned`); so at rest it
  sits, and `RoomsHosted` says that the room is one of a sharer with a socket.  The origin (`Tied`, `BoundDown`, `BoundWork`, `BoundTo`): what a guest
  hears, works on or has applied is of the one who shares the room it shows, or
  its end is announced behind it.  A guest that left finds nobody with a late answer
  (`OutOfIndex`, `Unheard`), so no connection comes up that shows the picture of no room (`KnowsRoom`).  The round (`Connecting`): while they are so placed (`Met`), an entry that is offered
  has its offer or answer on the way, and one that is answered was so by the connection the guest has.
  At rest nothing is on the way; `HostInv` says that there is an entry, `PhaseInv` that it
  made an offer, so it is answered, and `Matched` follows.
  A sharer may have lost its socket here, which
  `ConnectionsMatch` does not need, so `HostInv` says what is left of a sharer that dropped (`Strayed`).

The step lemmas of the first of these modules say how each part of the state can move at all
(`GoesKinds`, `EntryMoves`, `LinkMoves`, `SocketsDo`); an invariant's proof cites
those instead of going through the actions again.

Four properties that TLC had passed on the runs' instances turned out to be
false on larger ones when their invariants would not close, and TLC found the
behaviours there (applications that both share and watch, three joins, two
mishaps together, four applications with three rooms): they are the findings above about `InOnePlace`, `Bearers` and
the offer answered a stay too late.

Only model-checked: liveness (`VanishedIsForgotten`, `Settles`, `EveryJoinSettles`,
`EveryStartAnswered`, `StaleReadingsGo`), which is out of the prover's reach.
`ShareOutlivesScreens` is false, see "Findings".

## Not modelled

- Diagnostics: developer probes that open captures of their own and are not part
  of a session.  The screen also sets picker mode and auto-hide by itself while a
  probe runs; `TrayPanel` knows it only as a place to go to.
- The HTTP routes of the server, which only read; configuration and ICE
  credentials, which are computed once; schemas and the room-id alphabet;
  `sources.rs`, which enumerates windows for the diagnostics.
- Quality: the sending direction's loss, bitrate, codec and frame size, the folds
  of `aggregateStats`, the table of presets and the codec order are data that no
  step depends on; formatting is wording.
- `PeerLink` leaves out a second offer during a stay and polls that overlap; the
  latter are `SharingQuality`'s, whose `pollQuality` is the same but for the number
  of connections.
- Placing, blurring and drawing the panel, quitting, React rendering.
- The browser's WebRTC, WebSocket and Web Audio, Tauri's queue and Windows' audio
  calls are external, modelled by what the code assumes of them.
