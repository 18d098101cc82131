----------------------------- MODULE VideoPump -----------------------------
(***************************************************************************)
(* The video pump of one registered webRTCPeer: the goroutine that keeps a *)
(* scrcpy stream running for it (startVideoPump in webrtc.go, the stream's *)
(* start, forward and close in scrcpy_stream.go), the handlers that change *)
(* its video profile meanwhile (handleStreamProfile, setVideoProfile), and *)
(* the handlers that take the peer out of the registry and close it.       *)
(*                                                                         *)
(* The session is what the pump sees of it: whether it is joined and alive,*)
(* and its stream profile. ShareLease models the session itself, and       *)
(* LatestSample the mailbox the frames pass through.                       *)
(***************************************************************************)
EXTENDS Naturals

CONSTANTS Profile,          \* stream profiles, with their custom size and rate
          Request,          \* concurrent stream profile requests
          None,             \* no profile
          OneRequestAtATime \* the page sends a profile only after the last answer

ASSUME ProfileAssumption == Profile # {} /\ None \notin Profile
ASSUME RequestAssumption == OneRequestAtATime \in BOOLEAN

VARIABLES
  available, \* the session is joined and has not ended
  profile,   \* Session.StreamProfile, StreamMaxSize and StreamMaxFPS
  fate,      \* of the peer: still registered, replaced by a join or an offer, stopped
  ordered,   \* the pump had looked at the session when the peer was taken out
  closing,   \* peer.close(): not due, due, done
  rstep,     \* where each stream profile request is
  rvalue,    \* the profile it sets
  updates,   \* the slot of peer.profileUpdates
  pump,      \* where the goroutine of startVideoPump is
  videoStop, \* peer.videoStop is set
  cancelled, \* and was called
  running,   \* the profile of the pump's stream
  stream,    \* peer.stream is set
  open,      \* how many scrcpy streams of this peer are open
  forward    \* the goroutine that runs stream.forward

sessionVars == <<available, profile>>
peerVars == <<fate, ordered, closing>>
requestVars == <<rstep, rvalue>>
streamVars == <<running, stream, open, forward>>
vars == <<sessionVars, peerVars, requestVars, updates, pump, videoStop, cancelled,
          streamVars>>

Looked == {"starting", "streaming", "switching", "stopping", "ended"}
Ended == {"eof", "error"}

Init ==
  /\ available = TRUE /\ profile \in Profile
  /\ fate = "registered" /\ ordered = FALSE /\ closing = "no"
  /\ rstep = [r \in Request |-> "idle"] /\ rvalue = [r \in Request |-> None]
  /\ updates = None
  /\ pump = "none" /\ videoStop = FALSE /\ cancelled = FALSE
  /\ running = None /\ stream = FALSE /\ open = 0 /\ forward = "none"
-----------------------------------------------------------------------------
(* A stream profile request: handleStreamProfile saves the profile, and    *)
(* after it has released the mutex tells the peer it found, if the profile *)
(* is a new one.                                                           *)
SetProfile(r, v) ==
  /\ available /\ rstep[r] = "idle"
  /\ OneRequestAtATime => \A q \in Request : rstep[q] = "idle"
  /\ profile' = v
  /\ IF v # profile /\ fate = "registered"
     THEN rstep' = [rstep EXCEPT ![r] = "send"] /\ rvalue' = [rvalue EXCEPT ![r] = v]
     ELSE UNCHANGED requestVars
  /\ UNCHANGED <<available, peerVars, updates, pump, videoStop, cancelled, streamVars>>

(* Variant: an update that finds the slot full is forgotten. *)
SendForgets(r) ==
  /\ rstep[r] = "send"
  /\ updates' = IF updates = None THEN rvalue[r] ELSE updates
  /\ rstep' = [rstep EXCEPT ![r] = "idle"]
  /\ UNCHANGED <<sessionVars, peerVars, rvalue, pump, videoStop, cancelled, streamVars>>

(* setVideoProfile: put the update into the slot if the slot is empty. *)
Send(r) ==
  /\ rstep[r] = "send"
  /\ IF updates = None
     THEN updates' = rvalue[r] /\ rstep' = [rstep EXCEPT ![r] = "idle"]
     ELSE rstep' = [rstep EXCEPT ![r] = "drain"] /\ UNCHANGED updates
  /\ UNCHANGED <<sessionVars, peerVars, rvalue, pump, videoStop, cancelled, streamVars>>

(* Variant: the update waiting there is removed, the new one is not sent. *)
DrainGivesUp(r) ==
  /\ rstep[r] = "drain"
  /\ updates' = None
  /\ rstep' = [rstep EXCEPT ![r] = "idle"]
  /\ UNCHANGED <<sessionVars, peerVars, rvalue, pump, videoStop, cancelled, streamVars>>

(* Otherwise take out what waits there, if the pump has not yet ... *)
Drain(r) ==
  /\ rstep[r] = "drain"
  /\ updates' = None
  /\ rstep' = [rstep EXCEPT ![r] = "resend"]
  /\ UNCHANGED <<sessionVars, peerVars, rvalue, pump, videoStop, cancelled, streamVars>>

(* ... and try once more. *)
Resend(r) ==
  /\ rstep[r] = "resend"
  /\ updates' = IF updates = None THEN rvalue[r] ELSE updates
  /\ rstep' = [rstep EXCEPT ![r] = "idle"]
  /\ UNCHANGED <<sessionVars, peerVars, rvalue, pump, videoStop, cancelled, streamVars>>
-----------------------------------------------------------------------------
(* A handler takes the peer out of the registry: a join or a new offer,    *)
(* which the share outlives, or the end of the share.                      *)
Evict(how) ==
  /\ fate = "registered"
  /\ how = "replaced" => available
  /\ fate' = how /\ closing' = "due"
  /\ ordered' = (pump \in Looked)
  /\ available' = (how = "replaced")
  /\ UNCHANGED <<profile, requestVars, updates, pump, videoStop, cancelled, streamVars>>

(* The share expires, or is stopped after its peer was replaced. *)
ShareEnds ==
  /\ available
  /\ available' = FALSE
  /\ UNCHANGED <<profile, peerVars, requestVars, updates, pump, videoStop, cancelled,
                 streamVars>>

(* peer.close(), after the handler has released the mutex. It reads        *)
(* videoStop, which the pump writes, without synchronisation: only if the  *)
(* pump took the mutex after that write, and before the handler did, is    *)
(* close bound to see it; else it sees the old value or the present one.   *)
Close ==
  /\ closing = "due"
  /\ closing' = "done"
  /\ \E seen \in IF ordered THEN {TRUE} ELSE {FALSE, videoStop} :
       cancelled' = seen
  /\ UNCHANGED <<sessionVars, fate, ordered, requestVars, updates, pump, videoStop,
                 streamVars>>
-----------------------------------------------------------------------------
(* The peer is connected, or its data channel opened; videoOnce starts the *)
(* goroutine. The callback may be late: the peer may be closed by now.     *)
StartPump ==
  /\ pump = "none"
  /\ pump' = "spawned"
  /\ UNCHANGED <<sessionVars, peerVars, requestVars, updates, videoStop, cancelled, streamVars>>

PumpArm ==
  /\ pump = "spawned"
  /\ pump' = "armed" /\ videoStop' = TRUE
  /\ UNCHANGED <<sessionVars, peerVars, requestVars, updates, cancelled, streamVars>>

(* Variant: connectedDeviceID does not ask whether the share has ended. *)
PumpLookEndedToo ==
  /\ pump = "armed"
  /\ pump' = "starting" /\ running' = profile
  /\ UNCHANGED <<sessionVars, peerVars, requestVars, updates, videoStop, cancelled,
                 stream, open, forward>>

(* connectedDeviceID, under the mutex. *)
PumpLook ==
  /\ pump = "armed"
  /\ IF available
     THEN pump' = "starting" /\ running' = profile
     ELSE pump' = "ended" /\ UNCHANGED running
  /\ UNCHANGED <<sessionVars, peerVars, requestVars, updates, videoStop, cancelled,
                 stream, open, forward>>

(* startScrcpyVideoStream fails, of itself or as its context is cancelled, *)
(* and closes what it had opened.                                          *)
StreamFails ==
  /\ pump = "starting"
  /\ pump' = "ended"
  /\ UNCHANGED <<sessionVars, peerVars, requestVars, updates, videoStop, cancelled, streamVars>>

(* It returns a stream, which may be too late to notice a cancellation. *)
StreamStarts ==
  /\ pump = "starting"
  /\ pump' = "streaming"
  /\ stream' = TRUE /\ open' = open + 1 /\ forward' = "running"
  /\ UNCHANGED <<sessionVars, peerVars, requestVars, updates, videoStop, cancelled, running>>

(* stream.forward returns: the phone's server ended, the data made no      *)
(* sense, or the connection was closed under it.                           *)
ForwardEnds ==
  /\ forward = "running"
  /\ forward' \in Ended
  /\ UNCHANGED <<sessionVars, peerVars, requestVars, updates, pump, videoStop, cancelled,
                 running, stream, open>>

(* The pump's select: clearStream, stream.close() and stopStream() follow  *)
(* whichever case is chosen.                                               *)
LeaveStream(next) ==
  /\ pump = "streaming"
  /\ pump' = next
  /\ stream' = FALSE /\ open' = open - 1

(* Variant: the stream before the switch is left open. *)
SwitchKeepsStream ==
  /\ updates # None
  /\ running' = updates /\ updates' = None
  /\ pump = "streaming" /\ pump' = "switching"
  /\ stream' = FALSE /\ UNCHANGED open
  /\ UNCHANGED <<sessionVars, peerVars, requestVars, videoStop, cancelled, forward>>

Switch ==
  /\ updates # None
  /\ running' = updates /\ updates' = None
  /\ LeaveStream("switching")
  /\ UNCHANGED <<sessionVars, peerVars, requestVars, videoStop, cancelled, forward>>

StreamBreaks ==
  /\ forward \in Ended
  /\ LeaveStream("ended")
  /\ forward' = "none"
  /\ UNCHANGED <<sessionVars, peerVars, requestVars, updates, videoStop, cancelled, running>>

StopStream ==
  /\ cancelled
  /\ LeaveStream("stopping")
  /\ UNCHANGED <<sessionVars, peerVars, requestVars, updates, videoStop, cancelled,
                 running, forward>>

(* The pump has waited for forward, and closed the mailbox of the frames. *)
ForwardDone ==
  /\ forward \in Ended
  /\ \/ pump = "switching" /\ pump' = "starting"
     \/ pump = "stopping" /\ pump' = "ended"
  /\ forward' = "none"
  /\ UNCHANGED <<sessionVars, peerVars, requestVars, updates, videoStop, cancelled,
                 running, stream, open>>

RequestStep(r) == Send(r) \/ Drain(r) \/ Resend(r)

PumpStep ==
  \/ PumpArm \/ PumpLook
  \/ Switch \/ StreamBreaks \/ StopStream \/ ForwardDone

Next ==
  \/ \E r \in Request, v \in Profile : SetProfile(r, v)
  \/ \E r \in Request : RequestStep(r)
  \/ \E how \in {"replaced", "stopped"} : Evict(how)
  \/ ShareEnds \/ Close \/ StartPump
  \/ PumpStep \/ StreamFails \/ StreamStarts \/ ForwardEnds

Spec == Init /\ [][Next]_vars

(* Go runs a handler and the pump whenever they can go on, and closing the *)
(* connection ends forward. adb answers: startScrcpyVideoStream waits at   *)
(* most 8 s for the stream, yet runs adb push and adb forward without a    *)
(* timeout of their own. Closing a stream waits for the mutex of its       *)
(* control socket, which a write without a deadline may hold: that the     *)
(* phone reads on or the write fails is assumed (ControlPath). Nobody has  *)
(* to connect, ask or leave, and a stream that is left alone need not end. *)
Fairness ==
  /\ \A r \in Request : WF_vars(RequestStep(r))
  /\ WF_vars(Close)
  /\ WF_vars(PumpStep)
  /\ WF_vars(open = 0 /\ ForwardEnds)
  /\ WF_vars(StreamFails \/ StreamStarts)

FairSpec == Spec /\ Fairness
-----------------------------------------------------------------------------
TypeOK ==
  /\ available \in BOOLEAN /\ profile \in Profile
  /\ fate \in {"registered", "replaced", "stopped"}
  /\ ordered \in BOOLEAN /\ closing \in {"no", "due", "done"}
  /\ rstep \in [Request -> {"idle", "send", "drain", "resend"}]
  /\ rvalue \in [Request -> Profile \cup {None}]
  /\ updates \in Profile \cup {None}
  /\ pump \in {"none", "spawned", "armed"} \cup Looked
  /\ videoStop \in BOOLEAN /\ cancelled \in BOOLEAN
  /\ running \in Profile \cup {None}
  /\ stream \in BOOLEAN /\ open \in Nat
  /\ forward \in {"none", "running"} \cup Ended

(* The phone never encodes two streams for one peer, however its profile   *)
(* is switched; the native control channel is there exactly as long as the *)
(* stream is; and a pump that has ended, or waits, has left nothing open.  *)
OneStream ==
  /\ open = IF pump = "streaming" THEN 1 ELSE 0
  /\ stream <=> pump = "streaming"
  /\ forward # "none" => pump \in {"streaming", "switching", "stopping"}

(* When no request is under way and none waits in the slot, the phone      *)
(* encodes the profile the session shows, though the pump reads the        *)
(* session once and hears of later changes through the slot only.          *)
StreamHasSessionProfile ==
  /\ fate = "registered" /\ pump \in {"starting", "streaming", "switching"}
  /\ updates = None /\ \A r \in Request : rstep[r] = "idle"
  => running = profile

(* The inductive invariant: with one request at a time the newest profile  *)
(* is in the hand of that request, or in the slot, or running.             *)
OneAtATime ==
  /\ \A q, r \in Request : rstep[q] # "idle" /\ rstep[r] # "idle" => q = r
  /\ \A r \in Request : rstep[r] = "resend" => updates = None

NewestProfileKept ==
  /\ \A r \in Request : rstep[r] # "idle" => rvalue[r] = profile
  /\ (\A r \in Request : rstep[r] = "idle") =>
       \/ updates = profile
       \/ /\ updates = None
          /\ pump \in {"starting", "streaming", "switching"} => running = profile

(* What a peer that was taken out leaves to its close: a pump that had      *)
(* looked at the session before is cancelled by it, and one that had not    *)
(* will find a stopped share ended.                                         *)
EvictionFits ==
  /\ fate = "registered" => closing = "no" /\ ~ordered
  /\ ordered => pump \in Looked
  /\ ordered /\ closing = "done" => cancelled
  /\ fate = "stopped" => ~available
  /\ fate = "stopped" /\ ~ordered => pump \in {"none", "spawned", "armed", "ended"}

PumpInv ==
  /\ TypeOK
  /\ OneStream
  /\ EvictionFits
  /\ OneRequestAtATime => OneAtATime
  /\ OneRequestAtATime /\ fate = "registered" => NewestProfileKept

(* The safe part of StopEndsVideo: no pump outlives the close of its peer   *)
(* unawares. It was cancelled, or it has yet to look at the session, which  *)
(* has ended.                                                               *)
ClosedPumpKnows ==
  closing = "done" /\ (fate = "stopped" \/ ordered) /\ pump \notin {"none", "ended"}
  => cancelled \/ (pump \in {"spawned", "armed"} /\ ~available)

(* Stopping the share ends the video, and so does a takeover of a peer     *)
(* whose pump had looked at the session; even if the peer connects only    *)
(* then.                                                                   *)
StopEndsVideo ==
  /\ closing = "done" /\ pump # "none"
  /\ fate = "stopped" \/ ordered
  ~> pump = "ended"

(* A profile the viewer chose reaches the phone, unless a newer one is     *)
(* chosen or the video ends.                                               *)
ProfileReachesPhone ==
  \A v \in Profile :
    profile = v /\ fate = "registered" /\ pump # "none"
    ~> running = v \/ profile # v \/ fate # "registered" \/ pump = "ended"

(* README.md says that a new connection interrupts the old one at once: no *)
(* replaced peer keeps a stream of the phone's screen for ever.            *)
TakeoverEndsVideo ==
  closing = "done" /\ fate = "replaced" /\ pump # "none" ~> pump = "ended"
=============================================================================
