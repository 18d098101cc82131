---------------------------- MODULE FrameMailbox ----------------------------
(***************************************************************************)
(* What the mailbox between the scrcpy reader and the WebRTC track         *)
(* promises, without saying how: one frame waits at most, a newer one      *)
(* takes its place in a single step, and one goroutine hands on what       *)
(* waits, until the mailbox is closed. LatestSample, the model of          *)
(* latestSampleWriter select by select, implements this specification.     *)
(***************************************************************************)
EXTENDS Naturals

VARIABLES newest,   \* the last frame put, or refused; 0 is no frame
          waiting,  \* the frame that waits
          carried,  \* the frame on its way to the track
          track,    \* the last frame the track got
          closed,   \* Close was called
          ended,    \* the goroutine has ended
          returned  \* Close has returned

vars == <<newest, waiting, carried, track, closed, ended, returned>>

Init ==
  /\ newest = 0 /\ waiting = 0 /\ carried = 0 /\ track = 0
  /\ closed = FALSE /\ ended = FALSE /\ returned = FALSE

(* The next frame waits, whether another one did or not. *)
Put ==
  /\ newest' = newest + 1 /\ waiting' = newest + 1
  /\ UNCHANGED <<carried, track, closed, ended, returned>>

(* A closed mailbox refuses the next frame, or gives up the one just put. *)
Refuse ==
  /\ closed
  /\ newest' = newest + 1
  /\ UNCHANGED <<waiting, carried, track, closed, ended, returned>>

GiveUp ==
  /\ closed /\ waiting = newest
  /\ waiting' = 0
  /\ UNCHANGED <<newest, carried, track, closed, ended, returned>>

TakeUp ==
  /\ ~ended /\ carried = 0 /\ waiting # 0
  /\ carried' = waiting /\ waiting' = 0
  /\ UNCHANGED <<newest, track, closed, ended, returned>>

HandOn ==
  /\ carried # 0
  /\ track' = carried /\ carried' = 0
  /\ UNCHANGED <<newest, waiting, closed, ended, returned>>

Close ==
  /\ ~closed /\ closed' = TRUE
  /\ UNCHANGED <<newest, waiting, carried, track, ended, returned>>

End ==
  /\ closed /\ ~ended /\ carried = 0
  /\ ended' = TRUE
  /\ UNCHANGED <<newest, waiting, carried, track, closed, returned>>

Return ==
  /\ ended /\ ~returned
  /\ returned' = TRUE
  /\ UNCHANGED <<newest, waiting, carried, track, closed, ended>>

Next == Put \/ Refuse \/ GiveUp \/ TakeUp \/ HandOn \/ Close \/ End \/ Return

Spec == Init /\ [][Next]_vars

(* The frame at the track, the one on its way and the one that waits are in *)
(* the order they came; the goroutine ends with nothing on its way.        *)
Ordered ==
  /\ newest \in Nat /\ waiting \in 0..newest /\ carried \in 0..newest /\ track \in 0..newest
  /\ carried # 0 => track < carried
  /\ waiting # 0 => track < waiting /\ carried < waiting
  /\ ended => carried = 0
  /\ returned => ended

(* As long as the mailbox is open, the newest frame is in it, on its way,  *)
(* or what the track got last; nothing is on its way once Close returned.  *)
NewestStays ==
  /\ ~closed => newest \in {waiting, carried, track}
  /\ returned => carried = 0

MailboxInv == Ordered /\ NewestStays

(* The track never goes back to an older frame, nor gets one twice. *)
TrackGoesForward == [][track' # track => track' > track /\ ~returned]_vars
=============================================================================
