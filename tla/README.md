# PhoneBridge in TLA+

PhoneBridge shares one Android phone with a browser: a Go server on a Windows
PC talks to the phone over ADB and scrcpy, and a web page joins a share by link
and access code, sees the screen over WebRTC and moves the phone over a data
channel. This directory models the parts of the server where several requests,
callbacks and goroutines meet, and the recovery logic of the viewer's page,
checks them with TLC on small instances, and
proves the most important properties for instances of every size with TLAPS.

Source lines are given as `file:line`, relative to `src/internal/app/`.

## The system

| Part | State | Operations | Hard behaviour |
|---|---|---|---|
| Share sessions and control lease (`server.go`, `session.go`, `session_store.go`) | `sessions`, `activeID`, per session state, viewer token, connection mode, expiry; the session file | create, stop, join or take over, refresh, lookup, save, load | lazy expiry; a takeover at any moment; saves that fail; restart from an older file |
| Peer registry and offers (`webrtc.go`) | `webrtcPeers`, the peers themselves | offer in two critical sections, close, state callbacks, control over the data channel | everything between the two critical sections; late callbacks of a replaced peer |
| Video pump of a peer (`webrtc.go`, `scrcpy_stream.go`) | `videoStop`, `profileUpdates`, `stream`, the goroutines of pump, forward and mailbox | start, switch profile, break, stop | cancellation racing the start; a one-slot channel with two sides; closing in the right order |
| Control path (`control.go`, `server.go`, `webrtc.go`, `adb.go`) | `pointerStart`, control shells and their mutexes, cached screen size | pointer events over the native channel or an ADB shell, repair | a ladder of fallbacks; one slot for two transports; a repair that closes what an event has in hand |
| Public address and ICE (`server.go`, `public_access.go`) | advertised UDP endpoint, API object | discovery loop, listener | a stale endpoint; a listener that needs the lock of its caller |
| Public access settings and 88FRP synchronisation (`public_access.go`) | settings file, snapshot, probe ID | save, sync, discover, load | settings copied before a save and published after it; a crash while writing |
| 88FRP sign-in (`frp_auth.go`, `credential_store.go`) | challenge attempt, session, automatic sign-in, saved credentials | challenge, login, logout, invalidate | late answers, overlapping sign-ins, retry loops |
| Controller page (`web/controller.js`) | recovery timers, circuit breaker, takeover notice | join, start WebRTC, fall back, reclaim | recovery that never ends or never starts |
| Owner page, ADB repair, update check, installer | little or none | rendering, external programs | none of their own |

How they interact. Handlers of HTTP requests share `Server.mu`: each does one or
two critical sections and works outside of it in between. A handler that takes
a peer out of `webrtcPeers` closes it after the mutex is released. pion calls
the server back on connection state changes and data channel messages; those
callbacks take the mutex themselves and may come after the peer was replaced.
The pump of a peer is a goroutine that reads the session once under the mutex,
then lives on its own: it hears of new profiles through a channel of one slot
and of its end through a context whose cancel function is stored in the peer.
The stream it starts feeds the mailbox, whose goroutine feeds the track.
A control event goes to that stream first and to the phone's ADB shell if the
stream does not take it. The public-access manager asks the local 88FRP client
with whatever HTTP client the sign-in service has attached; a 401 goes back to
that service, which drops the session and starts an automatic sign-in; a new UDP
mapping goes to the server, which advertises it in later offers. The page talks
to the handlers of the server by HTTP and learns of a takeover (409) or of the
end of the share (410) from whatever request meets it first.

What makes each part correct:

* **Sessions**: one live share; an ended one stays ended; the file restores
  what was alive and nobody's lease.
* **Lease and registry**: only the holder moves the phone; the registered peer
  is the holder's; what was replaced ends up closed; the owner is told the
  truth about the connection; a negotiation ends.
* **Pump**: one stream at a time; the profile shown is the one encoded; the end
  of the share ends the video.
* **Mailbox**: the newest frame wins, in order, counted once; nobody hangs.
* **Control path**: no rung of the ladder hands an event over after another has
  taken it, a pointer-down becomes one gesture at most, every event is answered
  as long as the phone reads, and a repair ends and leaves no shell behind but the
  one an event had in hand.
* **Public access**: what the owner chose last counts in memory, in the file and
  for new share links; once 88FRP is quiet everything follows its node.
* **Sign-in**: the session reported is the session used; a sign-out stands, also
  across a restart; a loop whose sign-in failed tries until one is accepted.
* **Controller page**: recoveries are bounded, never overlap and are never
  forgotten: without a usable connection something is to come, or the breaker
  waits for the viewer; negotiations end in a connection or in the breaker.

## Modules

| Module | What it is |
|---|---|
| `ControlLease` | abstract: what the server promises about control of the phone |
| `ShareLease` | sessions, lease, registry, offers, session file, restart |
| `MCShareLease` | values and symmetry for model checking `ShareLease` |
| `ShareLease_proofs` | theorems about `ShareLease` |
| `ControlLease_proofs` | that `ShareLease` implements `ControlLease`, what it needs of the file, and what `ControlLease` promises |
| `VideoPump` | one peer's pump, its stream, profile requests, close |
| `VideoPump_proofs` | theorems about `VideoPump` |
| `LatestSample` | the one-slot mailbox between the stream and the track |
| `FrameMailbox` | abstract: a mailbox of one place in which a newer frame replaces the older in one step |
| `LatestSample_proofs` | theorems about `LatestSample` and `FrameMailbox` |
| `ControlPath` | a control event from either transport to the phone, and ADB repair |
| `ControlPath_proofs` | theorems about `ControlPath` |
| `PublicAccess` | settings, synchronisation with 88FRP, UDP discovery, the advertised endpoint |
| `PublicAccess_proofs` | theorems about `PublicAccess` |
| `RemoteAdmin` | sign-in to 88FRP, by a browser and automatic, and sign-out |
| `RemoteAdmin_proofs` | theorems about `RemoteAdmin` |
| `ControllerPage` | the viewer's page: join, WebRTC rounds and their recovery, fallback pictures, takeover notice |
| `ControllerPage_proofs` | theorems about `ControllerPage` |

The operators named `XSomething` beside a definition `X` and commented
"Variant" are not part of any specification: each is `X` with a plausible
mistake, and shows that a property notices it.

### ShareLease

A session is a handful of functions over `Session`: `state` (with "fresh" before
creation and "gone" once it is forgotten by a restart), `connectionMode`,
`viewerToken` (the lease) and `due`, which says that `ExpiresAt` has passed;
`Deadline` sets it and nothing else happens, as in the code, until a handler
looks (`RefreshSessions`, `ExpireOnLookup`). A joined session's `ViewerState` is
always "connected" and one that ended always "disconnected", so it has no
variable. A peer is `unused`, `offered`, `answered`, `open`, `evicted` (out of
the map, not closed yet), `closed`, or `dead` (with its process).

| Action | Code |
|---|---|
| `CreateSession`, `StopSession` | `handleCreateSession`, `handleStopSession` |
| `JoinSession` | `handleJoinSession`: the same token reattaches, any other takes over with a new one |
| `Offer`, `ClosePeer`, `AnswerReady` / `AnswerFails`, `Register` | `handleWebRTCOffer`, in its order: take the old peer out, close it, answer, register if `offerConflictStatus` allows |
| `PeerReports` | `setSessionState` from the callbacks of `answerWebRTCOffer` |
| `SetStreamProfile` | `handleStreamProfile`, as far as it saves the session file |
| `Restart` | the process ends at any moment and `loadSessionStore` runs |

Every save of the session file is part of the action that makes it.
`SaveOutcomes` lets it fail if `DiskMayFail`: the file is replaced by a rename,
so it holds the old image or the new one.

Abstracted: tokens are drawn and never repeat; SDP and ICE are the events
"answer ready", "answer failed" and the connection states pion reports;
a refusal (409, 410, 403) changes nothing but the expiry of what was looked up.
Left out: access code, device, demo shares, view-only shares, labels and
statistics; they touch none of the state above. The clock does not go back.

`ShareLease` implements `ControlLease` under the mapping at its end: a share is
open while it is waiting or connected, the holder is the viewer token, the used
tokens are the drawn ones. What the lease is for follows from `ControlLease`
alone: `OneOpenShare`, and `RevokedStaysOut` (who lost control does not have it
again without a new token).

What the owner is told is `ConnectionModeTruthful`: "webrtc" and "reconnecting" are
what the registered peer said last (`ReportedModeTruthful`), and "negotiating-webrtc"
stands only while an offer of the holder is under way or its peer has yet to
report (`NegotiationIsReal`). A share restored by a restart has no holder, and what
the owner page shows of it until the next join is outside the property.

### VideoPump

One registered peer. The session is reduced to `available` (joined and not
ended) and `profile`. `fate` tells who took the peer out of the map: nobody, a
join or another offer ("replaced"; the share lives on), or a stop. The pump's
places are those of `startVideoPump`: `spawned`, `armed` (videoStop is set),
`starting`, `streaming`, `switching` and `stopping` (it closed the stream and
waits for `forward`), `ended`. The pump's `select` is the choice between
`Switch`, `StreamBreaks` and `StopStream`, any of which may be taken when
several are enabled, as in Go.

`peer.videoStop` is written by the pump and read by `close()` with no
synchronisation of their own. They are ordered only through `Server.mu`: if the
pump had looked at the session (after its write) before the handler took the
peer out (before its read), `close()` sees the function; otherwise it may see
nil or what is there now. `ordered` records which, and `Close` chooses.

A profile request saves first and tells the peer after the mutex is released
(`SetProfile`, then `Send`, `Drain`, `Resend`, one channel operation each).

Abstracted: the bytes of the scrcpy protocol (a stream goes on or breaks); the
retries inside the start of a stream (it succeeds or fails, and one cancelled
late may still succeed); `clearStream` and `stream.close()` are one step; what
the pump reports to the session is `PeerReports` of `ShareLease`.

### LatestSample

`WriteSample` select by select (`WriteSample`, `TryPut`, `Replace`, `Place`), the
goroutine of `newLatestSampleWriter` (`Take`, `Deliver`, `Finish`) and `Close`.
Go chooses freely between a frame and the end, so does the goroutine here.
What the selects together promise is `FrameMailbox`: a frame replaces the one that
waits in a single step. Under the mapping at the end of `LatestSample` a frame
counts as put when it enters the slot or, if the slot was full, when the second
select has emptied it: from then on only the end of the mailbox can keep it out.
`VideoPump` takes from it that `forward` and `Close` return (`NoSideBlocks`) and
that nothing is written to the track afterwards (`TrackInOrder`).

### ControlPath

Handlers are the HTTP requests, which run side by side, and `Channel`, the
goroutine that hands over the messages of the data channel one by one. Who may
send events is `ShareLease`; whether a stream is there is `VideoPump`: here there
may be one or none whenever an event looks (`TakeStream`, `NativeFails`), and the
write into its control socket succeeds, fails, or waits with `controlMu` held for a
phone that does not read.

| Action | Code |
|---|---|
| `Capture` | the critical section of `handleControlEvent` and `handlePeerControl` with the `pointerStart` slot |
| `TakeStream`, `NativeFails` | `sendNativeControl`, and the messages `sendControl` cannot make |
| `LockControl`, `SendNative`, `SendFails` | `sendControl` under `controlMu` |
| `SocketFills`, `SocketFrees` | the control socket of scrcpy, and the phone |
| `Dispatch`, `Size`, `SizeFails` | `dispatchControl`, `screenSize` |
| `Lock`, `Start`, `WriteLine`, `WriteFails`, `OneShot`, `OneShotFails` | `input`: two attempts on the shell, then `adbInput`, all under the shell's mutex |
| `BeginRepair`, `CloseShell`, `RepairADB` | `handleRepairADB`: a new map of shells, closing the old one, restarting ADB |
| `ShellDies`, `ShellSticks`, `ShellResumes` | the `adb shell` process and the phone |

Only the identity of a pointer-down is kept, not its coordinates; `reached` and
`gestures` count what the phone got. A line written into a shell whose process
still runs counts as done: what becomes of it when the process dies a moment
later the code does not learn either. The size measured without the mutex and
stored under it is one step; with its age it only decides whether adb is asked.
A rung that fails has not delivered the event: a line or a message that was taken
although an error came back, and is then sent again one rung lower, is not covered
by `EventReachesPhoneOnce`.

### PublicAccess

The choice the owner saved is `choice`; `last` and `udp` stand for
`FRPLastSuccessURL` and `FRPUDPForward`. A node of 88FRP gives the host of the
share address and of the UDP mapping, so a number stands for both. `Sync` keeps
its local `settings` in `task[p].copy` between the HTTP calls, and publishes
that copy at the end; that is where an older choice can come back.

| Action | Code |
|---|---|
| `SaveBegin`, `SaveApply`, `SaveWrite`, `SaveWriteFails` | `Save` and `persist` |
| `SyncBegin`, `FetchFails`, `Probe`, `FetchUnusable`, `FetchSucceeds`, `SyncWrite`, `Reread`, `Publish` | `Sync`, `syncFailed`, `verifyPublicHealth`, `setSnapshot` |
| `Discover`, `DiscoverNothing`, `Restore`, `Learn`, `UdpWrite` | `DiscoverUDPForward`, `restoreUDPForward`, `saveUDPForward` |
| `IceBegin`, `Advertise` | `ensurePublicICE`, `advertiseUDPForwardLocked`; `Ice` is whoever holds `iceMu` |
| `Crash` | the process ends, also inside `os.WriteFile`, and `load` runs |
| `FrpChanges`, `NodeMoves` | 88FRP |

`AtNode(n)` says that 88FRP, settings, file, share address and endpoint all stand
for node `n` and that no goroutine carries anything else; `NodeStands` that only a
move of the node, a save of the owner or a file that was cut off ends that.

A `Save` followed by its own `Sync` is a saver that ends and a syncer that may
start at once. `calm`, `owner` and `written` are history variables: when the owner's
choice was applied, nothing copied or fetched before it was on its way, and no
crash has lost it or cut the file since; what that choice was; and whether it has
reached the disk. A crash never changes `owner`.

### RemoteAdmin

An HTTP client with its cookie jar is "current" or, once the service has let go
of it, "dropped". An actor is a request to the sign-in API, a goroutine of
`startAutoLogin` or the periodic synchronisation. `clearFRPSession` is two steps:
the session under the mutex (`ClearSession`), then `SetFRPClient(nil)` (`Detach`),
and another sign-in may attach its client in between.

| Action | Code |
|---|---|
| `AskChallenge`, `GetChallenge`, `Login`, `LoginAccepted`, `Refused`, `Attach` | `HandleChallenge`, `HandleLogin`, `proxyChallenge`, `proxyLogin`, `completeFRPLogin` |
| `Logout`, `Detach`, `Forget`, `SaveCredentials` | `HandleLogout`, `HandleSaveCredentials`, the credential store |
| `Unauthorized`, `Expire`, `Decide`, `Arm` | `invalidateFRPSession`, `expireFRPSession` |
| `LoopBegin` to `LoopExit`, `Mark` | `startAutoLogin`, `autoLoginOnce`, `runAutoLogin` |

### ControllerPage

`page` is a record of the page's variables and of what its elements show. The
functions several handlers call are operators from page to page (`Cleanup`,
`StartFallback`, `Schedule`, `OpenCircuit`, `StartWebRTC`, `Finish`), and an action
composes them in the order of the calls. `startWebRTC` is cut at its awaits:
`round` is "config", "gather" or "offer" while it waits, "off" when
`webRTCStarting` is false. A request in flight is the set of answers it may still
get (`asked`, `call`, `join`): a takeover adds 409, the end of the share 410, and
any request may fail. `own` says whether the round's connection still is
`peerConnection`, which is what the callbacks compare.

| Action | Code |
|---|---|
| `AskJoin`, `JoinAnswered` | `joinSession`, `reclaimControl`, `performJoin`, `showController` |
| `AskServer`, `ServerAnswers` | `pollSession`, `sendControl` over HTTP, `showTakeover`, `endSession` |
| `ConfigAnswered`, `Gathered`, `OfferAnswered` | `startWebRTC` between its awaits, its catch and finally |
| `Watchdog`, `Connected`, `Lost`, `ChannelOpens`, `ChannelCloses`, `Decoded` | the callbacks it installs |
| `RecoveryTimer`, `FallbackTimer`, `Cooldown`, `Countdown` | the timers |
| `Visible`, `Compatibility`, `LowLatency`, `Exit` | visibility change, the two ways of the render mode button, leaving |
| `Takeover`, `ShareEnds` | the server: another viewer joins, the share is stopped or expires |

`KeepsTrying` speaks of the connection only. What the viewer sees meanwhile is
`FallbackRuns` and `BreakerShowsFallback`, which TLC refutes (Findings).

`rounds` and `unusable` count the rounds since the last connection and since the
last usable data channel, and `skipped` records that a join or the button has
started no round; nothing reads them but the properties.

Abstracted: delays (a timer may fire at any time), what is written into the page,
one poll or event in flight at a time. The viewer's clock is taken to be the
server's. Left out: stream profiles, statistics, pointer input, demo shares, a
reload of the page, and pictures over the data channel, which no server code
sends.

## What is checked

| Run | Instance | States | Shows |
|---|---|---|---|
| `lease_core` | 2 sessions, 2 tokens, 3 peers, symmetric | 349,639 | all safety properties of `ShareLease`, and the refinement |
| `lease_live` | 1 session, 2 tokens, 2 peers, failing saves | 57,679 | a negotiation ends, no peer outlives its lease |
| `latest_sample` | 6 frames | 1,491 | the mailbox, safety and liveness, and that it implements `FrameMailbox` |
| `pump` | 3 profiles, 2 requests that do not overlap | 77,625 | the pump, safety and liveness |
| `lease_overlap` | two offers of one lease at once | | finding 1 |
| `lease_mode` | 1 session, 2 tokens, 2 peers | | finding 2 |
| `pump_takeover` | 2 profiles, 1 request | | finding 3 |
| `remote_status` | no request, 2 loops, the syncer | | finding 4 |
| `control_path` | the data channel, 1 HTTP request at a time, 1 pointer-down, 1 repair | 199,078 | the control path, safety and liveness |
| `public_access` | 1 saver, 1 syncer, the ICE goroutine; 1 save, 1 move of the node, 1 fault in all | 142,383 | settings and addresses, safety and liveness |
| `remote_admin` | 1 request at a time, 2 loops, the syncer, any number of restarts | 391,114 | the sign-in, safety and liveness |
| `page` | 1 recovery, rounds counted to 3 | 115,944 | the page, safety and liveness |

Why the bounds are enough. Two sessions are the one that ended and the one
after it; there is never a third that matters, since creation refuses while one
is alive. Two tokens are a holder and the one who takes over; three peers are
the registered one, the one whose offer is in flight and the one that comes
after. A third token or a second in-flight peer adds no new pair of actors, and
the invariants are proved for any number. Six frames fill the places a frame
can be in (hand, slot, goroutine, track) and leave two to be dropped. Three
profiles are the one running, the one in the slot and the one in hand.
In `control_path` two handlers are one on each transport; two objects of a shell
are the one dropped by a repair and the one after it. In `public_access` one
fault is enough to reach every branch of `Sync` and `load`, since 88FRP may be
down at the start already; a second syncer adds no new step, as the discovery
and the saver already change the snapshot behind the first one's back. In
`remote_admin` two loops are all there can be, which is `LoopInv`. In `page` one
recovery is the code's own constant; a third round is one more than the budget
allows, so `RecoveryBounded` could fail, and other viewers are `Takeover`.

In `lease_core` saves succeed, because with failing ones `EndedShareStaysEnded`
does not hold: a stop whose save fails is only logged (`server.go:121`), the file
still holds the share, and a restart brings it back, against
docs/acceptance-ledger.md:72. The comment above `persistSessionsLocked` says that
saving is best-effort, so this is noted here and has no run of its own; the
invariants are proved with failing saves as well.
Deadlock is not checked for the pump and the mailbox, because a pump that has
ended and a mailbox that is closed do stop; nor for the three modules with
waiting goroutines, where a goroutine that waits for ever is what the liveness
properties are for; nor for the page, which stops when the share has ended.

### Assumptions

* `OneOfferPerLease`: a viewer sends no offer while it awaits an answer. The
  page guards it with `webRTCStarting`; a page that is refreshed in the middle
  breaks it, and `lease_overlap` drops it.
* `OneRequestAtATime`: the page waits for the answer to a profile request before
  it sends the next. It disables the selector, but not every button that leads
  to a request; with the constant FALSE two requests can leave the phone
  encoding the older choice, because both tell the peer after the mutex is
  released (`webrtc.go:121`). The theorem about it names the assumption.
* `calm` in `OwnerChoiceStands` excludes what the code gets wrong: a save that
  overtakes a synchronisation, which publishes its older copy afterwards
  (`public_access.go:724`), or the write of a discovered mapping, which puts the
  older copy into the file (`public_access.go:506`). It also excludes a save that a
  crash takes before it is on the disk, and a file that a crash has cut off. A save
  the disk refuses is not excluded: it counts in memory, and of the file nothing is
  claimed until a save has been written (`written`).
* `calm` in `SessionCoherent` excludes a session that was dropped while a sign-in was
  under way that goes on regardless: by a sign-out, by another's sign-in that
  is refused, by a 401 of the periodic synchronisation, or by a 401 of the loop's
  own. It also excludes a client attached between the two steps of a drop. In
  these cases the code may report a session it has dropped; with a 401 that is
  finding 4.
* `left` in `SignOutStands` is set by a sign-out only if no sign-in was under way
  beside it, and no loop was past reading the stored login. Such a sign-in
  goes on, and attaches its session after the sign-out (`frp_auth.go:778`).
* `RetryRestoresSession` is about what is reported: a loop that met a 401 itself also
  reports a session (finding 4).
* `skipped`, and a channel that closed on a connection that came back, in
  `KeepsTrying` and `RoundsSettle`: the three cases in which the page waits for
  nothing, listed under Findings.
* AutoSync is on, and 88FRP is asked at an address that is valid.

### Fairness

Each module lists its conjuncts under `Fairness`. They rest on the following: Go
runs a handler or goroutine that can go on; candidate gathering ends after 12 s
(`fastICEGatherTimeout`); pion reports a connection that never comes up as
failed; closing a socket ends a read of it; writing to a track returns. The pump
also needs adb to answer: `startScrcpyVideoStream` waits at most 8 s for the
stream, but `adb push` and `adb forward` run without a timeout of their own. And it
needs the phone to read its control socket, since `close` of a stream waits for
`controlMu` (`scrcpy_stream.go:294`), which an event may hold in a write without a
deadline (`scrcpy_stream.go:433`).
The loops of `PublicAccess` tick for as long as the program runs. A handler of
`ControlPath` has strong fairness because a `sync.Mutex` hands over to a waiter
after a millisecond (starvation mode), so nobody is passed over for ever. Two
assumptions are about adb and the phone, and the code has nothing in their place:
that an `adb shell` which is stuck (`ShellSticks`) reads on or ends in the end, and
that the same becomes of scrcpy's control socket once its buffer is full
(`SocketFills`). Without the first neither `EventsAreAnswered` nor `RepairEnds`
holds, without the second `EventsAreAnswered` does not: one event in the write
blocks every later one of that stream.
`RetryRestoresSession` assumes that 88FRP does not refuse the stored login for
ever and that the program is not restarted for ever. `FollowsNode` speaks of a
88FRP that stays up. The page needs its HTTP calls to end and its timers to fire,
nothing of the network: a dead connection is noticed by the watchdog.
`RoundsSettle` excludes a viewer who presses the button for ever.
Nothing is assumed of viewers, owners, restarts, or of a stream that runs.

## What is proved

For every value of the constants, under the named assumptions about them only:

* `TypeCorrect`, `OneLiveShare`, `RegistryFollowsLease`, `ControlFollowsLease`,
  `LeaseInvariant`, `ServerInvariant` (`ShareLease_proofs`). `SingleLiveShare` is
  inductive as it stands because it speaks of memory and file together: a restart
  may restore any share of the file, so the file too must name its only live share
  as the active one. `RegisteredPeerHoldsLease` and `PeerControlFollowsLease` are not
  inductive. `LeaseInv` adds that a lease has one offer in flight
  (`OneOfferInFlight`) and that meanwhile its holder has no registered peer
  (`NoPeerBehindOffer`): so registering drops no other peer from the map, and every
  open peer is the registered one of its session (`NoOrphanPeer`). Where a peer's
  token comes from is `TokensIssued`. Without `OneOfferPerLease` the first of these
  fails, which is finding 1. `ServerInv` is `LeaseInv` with the types.
* `NegotiationHasPeer` (`ShareLease_proofs`), without `OneOfferPerLease`: every way
  out of "offered" that leaves the holder without a peer (a failed answer, a
  conflict, a takeover, a report) writes the mode. It needs that a peer
  has nothing to report before it is registered (`SilentUntilOpen`) and that nobody
  holds a share before it was joined (`NoHolderYet`).
* `ModeFollowsPeer` (`ShareLease_proofs`): `ConnectionModeTruthful`, under
  `OneOfferPerLease`. A peer is registered only while its holder has none, when
  the mode is neither "webrtc" nor "reconnecting"; and a report that changes what
  an open peer said comes from a registered one.
* `ServerImplementsLease` (`ControlLease_proofs`), if saves succeed: the initial
  states map to the initial state of `ControlLease` and every step to a step or a
  stutter. Refresh, expiry and stop are `End`, creation is `Open`, a takeover is
  `Grant`, a restart is `Restart`. It rests on `OneLiveShare` (so that a refresh
  ends one share at most), on `FileIsCurrent` (`FileFollowsMemory`: a restart
  brings back only what was alive) and on the fact that a share not joined yet
  has no holder. `EndedIsForEver` follows from `FileIsCurrent` too. With saves that
  fail both are false.
* `LeaseIsExclusive` (`ControlLease_proofs`): the abstract lease keeps
  `OneOpenShare` and `RevokedStaysOut`, so by the refinement the server does. With
  saves that fail the refinement is lost, but these two promises are not:
  `ServerKeepsOneOpenShare` and `RevokedViewerStaysOut` prove them of the server
  directly, because a restart never restores a viewer token. TLC checks both
  through `ImplementsControlLease`.
* `MailboxInvariant`, `NewestFrameWins`, `DropsAreExact`, `FramesInOrder`
  (`LatestSample_proofs`). The invariant orders the frames at the track, on the
  way, in the slot and in hand, and knows that the slot is empty when the last
  select of `WriteSample` runs, as only the reader fills it.
* `MailboxIsAtomic` (`LatestSample_proofs`): every step of the selects, the goroutine
  and `Close` is one step of `FrameMailbox` or a stutter, from the same invariant;
  and `AtomicMailboxKeepsNewest`: in `FrameMailbox` the newest frame waits, is on its
  way or was delivered last until the mailbox is closed, and the track only goes
  forward. Together they give `NewestFrameWins` and `FramesInOrder` a second time,
  without a word about channels.
* `PumpInvariant`, `AtMostOneStream`, `RunningProfile`, `ClosedPumpIsTold`
  (`VideoPump_proofs`). The newest profile is in the hand of the request, in the
  slot, or running; a request that has drained the slot finds it empty when it
  sends again. For the end of the video `EvictionFits` says what a peer taken out
  of the map leaves to its close: a pump that had looked at the session before is
  cancelled by it, one that had not will find a stopped share ended. From that,
  after the close no pump is left that neither was cancelled nor will notice,
  except the one of finding 3.
* `PathInvariant`, `EventsAreNotDoubled`, `GesturesAreNotDoubled`,
  `OldShellsAreKnown`, `NobodyWaitsInCircle` (`ControlPath_proofs`). `MutexIsHeld` is
  inductive, and with it `WriterHasShell`: a repair closes a shell only under its
  mutex, so the process a handler writes to stays until that handler gives it up.
  `ControlIsHeld` says the same of the control socket's mutex. Hence whoever waits
  for a shell or that socket, an event or the repair, waits for a handler that
  can go on or for a phone that does not read (`OnlyPhoneBlocks`). An event
  that is still under way has not reached the phone, which is the count
  `EventReachesPhoneOnce` keeps. For the gestures the invariant adds that one
  which was made is past: its note is in no hand and not in the slot
  (`GesturesArePast`). For the shells it adds that every handler has the shell
  of the map or one that a repair took from it (`HandsAreKnown`).
* `AccessInvariant`, `OwnerIsObeyed` (`PublicAccess_proofs`). `OwnerChoiceStands`
  speaks of goroutines at rest; `ChoiceInv` says why it comes about: while it is
  calm, every copy on its way has the owner's choice, the file has it from the
  moment it was written, and under an own address nobody synchronises. Both are
  conditional on `calm` (Assumptions).
* `OutagesKeepTheNode` (`PublicAccess_proofs`): `NodeStands`, an action property.
  `AtNode(n)` is closed under every step that is not a move of the node, a save or
  a cut file, because it speaks of the copies in the goroutines' hands as well as
  of memory, file and endpoint. It holds from the moment of agreement on, with no
  assumption about what 88FRP does then.
* `LoopInvariant`, `SignOutIsFinal`, `StatusIsTrue` (`RemoteAdmin_proofs`).
  `LoopsBounded` names two loops, one of them off as long as `autoLoginCancel` is
  not set. For the sign-out, `leaving` has those requests that are signing out
  while nobody signs in; the invariant says that as long as there is one, and after
  it has deleted the login, nothing is reported, nobody signs in and no loop is past
  reading the login; and that its client is detached before the login is deleted. `SessionCoherent` speaks of quiet states;
  `Coherent` says why it comes about: while it is calm, a client on its way is the
  current one, a dropped one is about to be detached, and a loop that has not
  marked its session stands for it. Both theorems hold of the cases that `left` and
  `calm` admit, no more (Assumptions).
* `PageInvariant`, `RecoveriesBounded` (`ControllerPage_proofs`), for any budget. `Budget` is inductive: a running timer has been charged (no more rounds
  than attempts, no more attempts than the budget) and runs on a joined page with
  no round and a closed breaker; so a round that starts is paid for, and only the
  attempt that opens the breaker exceeds the budget. Every function of the page
  is shown to keep it, and every handler composes those.
* `RecoveryGoesOn` (`ControllerPage_proofs`), for any budget. `KeepsTrying` is
  not inductive; `Held` strengthens it: the connection of a round is new and watched,
  no round runs beside an older one (`Linked`), a round whose connection was given up
  has a recovery pending (`Recalled`), and a page without a usable connection has a
  round, a timer, a watchdog or the breaker (`Trying`). It is composed like `Budget`,
  function by function.

Only model-checked is liveness, which is out of the prover's reach under
fairness. Where the safety such a property needs can be said without fairness,
it is a theorem:

| Model-checked | Proved core |
|---|---|
| `NegotiationEnds` | `NegotiationHasPeer`: while the mode says negotiating there is somebody to end it |
| `PeerOutlivesNoLease` | `ControlFollowsLease` |
| `StopEndsVideo` | `ClosedPumpIsTold` |
| `ProfileReachesPhone` | `RunningProfile` |
| `NoSideBlocks`, `LatestArrives` | `MailboxInvariant`, `MailboxIsAtomic` |
| `EventsAreAnswered`, `RepairEnds` | `NobodyWaitsInCircle` |
| `FollowsNode` | `OutagesKeepTheNode`: what it comes to, stays |
| `RoundsSettle` | `RecoveriesBounded`, `RecoveryGoesOn` |
| `DiscoveryEnds`, `RetryRestoresSession` | none |

## Findings

1. **Two offers of one lease** (`lease_overlap`). The second registration
   overwrites the first in `webrtcPeers` (`webrtc.go:261`) and nobody closes the
   peer it displaces: its data channel still moves the phone after a takeover,
   against README.md:13.
2. **A failed offer speaks for another viewer** (`lease_mode`). `setWebRTCState`
   (`webrtc.go:243`) overwrites the state of the new holder's peer, against the
   comment at `webrtc.go:731`.
3. **A takeover during the start of the pump** (`pump_takeover`) leaves a scrcpy
   stream that no handler can end, a later stop of the share included, against
   README.md:13. A stop that comes in the same moment does end it: the pump
   looks at the session after it has set `videoStop`, which is what
   `StopEndsVideo` checks.
4. **A 401 during an automatic sign-in** (`remote_status`), of that sign-in's own
   synchronisation (`public_access.go:639`) or of another's, drops the session the
   sign-in has just attached. `expireFRPSession` arms nothing, since the state is
   "running" (`frp_auth.go:549`), and the sign-in sets `authenticated` all the same
   (`frp_auth.go:908`): `/api/status` reports a session that nobody uses, against the
   comments at `frp_auth.go:513` and `frp_auth.go:545`. It stays so until somebody
   signs in or out, or a synchronisation with the client that has no session is
   answered 401.

Formulas of the modules that state what a document or a comment says and that TLC
refutes when they are put into the configuration of the module (`MaxRecoveries`,
bounds and constants as in its run):

* `ExpiredShareHasNoPeer` (`ShareLease`). A share that expires keeps its peer
  registered and open, unlike one that is stopped: `Session.refresh` (`session.go:136`)
  only changes the state, against docs/acceptance-ledger.md:41.
* `RestartRestoresLastSuccess` (`PublicAccess`). When the UDP discovery inside
  `Sync` finds a new mapping, `saveUDPForward` writes the snapshot's settings, which
  do not have the address `Sync` has just stored, over the file
  (`public_access.go:498-509`), and `Sync` reads them back (717). Until a later `Sync`
  a restart offers the address of the node before, against
  docs/release-notes-v2.2.0.md:11; in memory it stays for good.
* `OneRecoveryPerChannel` (`ControllerPage`). "connected" fills the recovery budget
  again (`web/controller.js:1053`) although the round has not produced a usable
  data channel, against the comments at `web/controller.js:40-47`: such a
  connection is retried for ever and the breaker never opens.
* `FallbackRuns` (`ControllerPage`). A round that fails under the takeover notice
  sets `fallbackRunning` (`web/controller.js:917`) with nothing behind it, and after
  a reclaim no compatibility picture is fetched, against the comment at
  `web/controller.js:1101`.
* `BreakerShowsFallback` (`ControllerPage`). The class `visible` stays on the video
  element when the breaker opens (`web/controller.js:720-733`), so the pictures stop
  at once and the viewer sees neither, against the comment at
  `web/controller.js:701`; a round that tears down a connection whose video was
  shown leaves it on too, so that the page is as black while it recovers.

Seen while modelling, without a run:

* A reclaim that meets a round of the earlier lease starts no round of its own:
  `startWebRTC` returns (`web/controller.js:987`) without setting `recoveryPending`.
  If that round sends its offer now, it does so with the new token; if the offer
  is under way with the old one, its 409 shows the notice again.
* "Low latency" pressed when the last frame of a dead connection is still decoded
  shows that frame and starts no round (`web/controller.js:253`).
* A "connected" that comes after the data channel has closed cancels the recovery
  that was to replace it (`web/controller.js:1051`).
* A late 409 to a request with the old token shows the takeover notice again
  after a reclaim, and a join that is answered after the viewer has left brings
  the page back, with control.
* A page that comes into view during a healthy negotiation asks for a recovery
  that is made when that negotiation ends, at the cost of the budget.

* A phone that does not answer blocks every control event and the repair of ADB:
  the write into the shell has no time limit and happens under its mutex
  (`control.go:89`), although the shell should be no "new point of failure"
  (`control.go:94`). The write into scrcpy's control socket is the same
  (`scrcpy_stream.go:428-433`); it also holds up the close of its stream.
* An event that a repair overtakes starts the old shell again; it runs until
  adb ends it (`OldShellsWereOvertaken` says that there is no other way).
* The loop started by `Run` does not set `autoLoginCancel`, so a 401 can start a
  second one beside it (`frp_auth.go:135`, `server.go:136`).
* A 401 that comes after a sign-in loop has looked at its session for the last
  time and before its goroutine has ended starts no other: `autoLoginState` is still
  "running" or `autoLoginCancel` still set (`frp_auth.go:549`, `frp_auth.go:559`),
  although the comment at `frp_auth.go:556` has the previous run returned. The
  session with a stored login then stays lost until somebody signs in; it is why
  `RetryRestoresSession` speaks of a loop that failed.
* A pointer-down taken by the stream whose pointer-up goes over ADB leaves the
  finger of scrcpy down.
* Without 88FRP, or after a change to an own address, the UDP endpoint advertised
  last stays (`server.go:246`).

## Plan

In this order, each a module with its run:

1. Pure algorithms: profile settings and custom sizes, `screenPoint`,
   `versionNewer`, the candidate rewrite, frame chunking, each against a
   reference definition over bounded inputs.
2. Composition: `ShareLease` with one `VideoPump` per peer, for takeovers that
   hand the phone from one pump to the next, and with `ControlPath` for gestures
   that one holder begins and the next one ends.
3. `VideoPump`: the check of `stream.conn` in `forward` and its use three lines on
   (`scrcpy_stream.go:310`) as two steps.
4. Proofs: the composition, once it is there; that `VideoPump` needs of the mailbox
   no more than `FrameMailbox`.

Left out of the modules above: the public address given on the command line
(`initialURL`), the bound domain of 88FRP (a third address beside the node's),
a UDP socket that cannot be bound, two writes of the settings file at the same
instant, the 3 s between two sign-in actions, writes of the credential store that
fail, the cookie of a sign-in, control of more than one phone.

Not modelled, and not planned: the owner page (it polls and renders), ADB
device listing and the commands of a repair (external programs and their output), the update
check and process start (no state), credential encryption, installer and the
bundled scrcpy (platform calls and third-party code), the screenshot pump
`startFramePump` (nothing calls it).
