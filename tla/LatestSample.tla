---------------------------- MODULE LatestSample ----------------------------
(***************************************************************************)
(* The one-slot mailbox between the scrcpy reader and the WebRTC track     *)
(* (latestSampleWriter in scrcpy_stream.go): the reader puts a frame in,   *)
(* replacing one that still waits there, and a goroutine hands what it     *)
(* finds to the track, until Close. Frames are numbered as they come; 0 is *)
(* no frame. WriteSample is modelled select by select, so that the         *)
(* consumer and Close may act between any two of them.                     *)
(***************************************************************************)
EXTENDS Naturals

CONSTANT MaxFrame \* the number of frames the phone sends

ASSUME MaxFrameAssumption == MaxFrame \in Nat

VARIABLES
  offered,   \* the frame of the last WriteSample call
  producer,  \* where that call is
  latest,    \* the slot: writer.latest
  taken,     \* the frame the consumer is handing to the track
  delivered, \* the last frame the track got
  outputs,   \* how many frames the track got
  drops,     \* how often onDrop was called
  refused,   \* how many frames WriteSample refused (io.ErrClosedPipe)
  consumer,  \* where the goroutine of newLatestSampleWriter is
  closed,    \* writer.closed is closed
  closing    \* Close was not called, waits for the goroutine, has returned

vars == <<offered, producer, latest, taken, delivered, outputs, drops, refused,
          consumer, closed, closing>>

Init ==
  /\ offered = 0 /\ producer = "idle"
  /\ latest = 0 /\ taken = 0 /\ delivered = 0
  /\ outputs = 0 /\ drops = 0 /\ refused = 0
  /\ consumer = "waiting"
  /\ closed = FALSE /\ closing = "no"
-----------------------------------------------------------------------------
(* WriteSample returns without an error, or refuses its frame; the reader  *)
(* gives up on the first error.                                            *)
Accept == producer' = "idle" /\ UNCHANGED refused
Refuse == producer' = "stopped" /\ refused' = refused + 1

(* WriteSample is called with the next frame, and looks at closed first. *)
WriteSample ==
  /\ producer = "idle" /\ offered < MaxFrame
  /\ offered' = offered + 1
  /\ IF closed THEN Refuse ELSE producer' = "trying" /\ UNCHANGED refused
  /\ UNCHANGED <<latest, taken, delivered, outputs, drops, consumer, closed, closing>>

(* Variant: a frame that finds the slot full is dropped. *)
TryPutKeepsOld ==
  /\ producer = "trying"
  /\ latest' = IF latest = 0 THEN offered ELSE latest
  /\ Accept
  /\ UNCHANGED <<offered, taken, delivered, outputs, drops, consumer, closed, closing>>

(* The first select: put the frame into the slot if the slot is empty. *)
TryPut ==
  /\ producer = "trying"
  /\ IF latest = 0
     THEN latest' = offered /\ Accept
     ELSE producer' = "replacing" /\ UNCHANGED <<latest, refused>>
  /\ UNCHANGED <<offered, taken, delivered, outputs, drops, consumer, closed, closing>>

(* Variants: the drop is counted whoever emptied the slot; it is counted,  *)
(* and the old frame stays; the call returns without the third select.     *)
ReplaceCountsAlways ==
  /\ producer = "replacing"
  /\ latest' = 0 /\ drops' = drops + 1
  /\ producer' = "placing"
  /\ UNCHANGED <<offered, taken, delivered, outputs, refused, consumer, closed, closing>>

ReplaceKeepsOld ==
  /\ producer = "replacing"
  /\ drops' = IF latest = 0 THEN drops ELSE drops + 1
  /\ producer' = "placing"
  /\ UNCHANGED <<offered, latest, taken, delivered, outputs, refused, consumer, closed, closing>>

ReplaceGivesUp ==
  /\ producer = "replacing"
  /\ latest' = 0
  /\ drops' = IF latest = 0 THEN drops ELSE drops + 1
  /\ Accept
  /\ UNCHANGED <<offered, taken, delivered, outputs, consumer, closed, closing>>

(* The second select: take the waiting frame out, unless the consumer was  *)
(* faster.                                                                 *)
Replace ==
  /\ producer = "replacing"
  /\ latest' = 0
  /\ drops' = IF latest = 0 THEN drops ELSE drops + 1
  /\ producer' = "placing"
  /\ UNCHANGED <<offered, taken, delivered, outputs, refused, consumer, closed, closing>>

(* The third select blocks until the slot is empty or Close was called. *)
Place ==
  /\ producer = "placing"
  /\ \/ latest = 0 /\ latest' = offered /\ Accept
     \/ closed /\ Refuse /\ UNCHANGED latest
  /\ UNCHANGED <<offered, taken, delivered, outputs, drops, consumer, closed, closing>>
-----------------------------------------------------------------------------
(* The consumer's select: a frame, or the end. *)
Take ==
  /\ consumer = "waiting" /\ latest # 0
  /\ taken' = latest /\ latest' = 0
  /\ consumer' = "writing"
  /\ UNCHANGED <<offered, producer, delivered, outputs, drops, refused, closed, closing>>

Deliver ==
  /\ consumer = "writing"
  /\ delivered' = taken /\ taken' = 0
  /\ outputs' = outputs + 1
  /\ consumer' = "waiting"
  /\ UNCHANGED <<offered, producer, latest, drops, refused, closed, closing>>

(* Variant: the goroutine sees the end only when there is no frame left. *)
FinishIdle ==
  /\ consumer = "waiting" /\ closed /\ latest = 0 /\ offered = MaxFrame
  /\ consumer' = "finished"
  /\ UNCHANGED <<offered, producer, latest, taken, delivered, outputs, drops, refused,
                 closed, closing>>

Finish ==
  /\ consumer = "waiting" /\ closed
  /\ consumer' = "finished"
  /\ UNCHANGED <<offered, producer, latest, taken, delivered, outputs, drops, refused,
                 closed, closing>>

(* Close closes the channel and waits for the goroutine. *)
Close ==
  /\ closing = "no"
  /\ closed' = TRUE /\ closing' = "waiting"
  /\ UNCHANGED <<offered, producer, latest, taken, delivered, outputs, drops, refused,
                 consumer>>

(* Variant: Close does not wait. *)
CloseReturnsAtOnce ==
  /\ closing = "waiting"
  /\ closing' = "returned"
  /\ UNCHANGED <<offered, producer, latest, taken, delivered, outputs, drops, refused,
                 consumer, closed>>

CloseReturns ==
  /\ closing = "waiting" /\ consumer = "finished"
  /\ closing' = "returned"
  /\ UNCHANGED <<offered, producer, latest, taken, delivered, outputs, drops, refused,
                 consumer, closed>>

Next ==
  \/ WriteSample \/ TryPut \/ Replace \/ Place
  \/ Take \/ Deliver \/ Finish
  \/ Close \/ CloseReturns

Spec == Init /\ [][Next]_vars

(* Go runs both goroutines and the caller of Close whenever they can go on, *)
(* and writing to a track returns. Nobody has to send or to close.          *)
Fairness ==
  /\ WF_vars(TryPut \/ Replace \/ Place)
  /\ WF_vars(Take \/ Deliver \/ Finish)
  /\ WF_vars(CloseReturns)

FairSpec == Spec /\ Fairness
-----------------------------------------------------------------------------
TypeOK ==
  /\ offered \in 0..MaxFrame
  /\ producer \in {"idle", "trying", "replacing", "placing", "stopped"}
  /\ latest \in 0..MaxFrame /\ taken \in 0..MaxFrame /\ delivered \in 0..MaxFrame
  /\ outputs \in Nat /\ drops \in Nat /\ refused \in Nat
  /\ consumer \in {"waiting", "writing", "finished"}
  /\ closed \in BOOLEAN
  /\ closing \in {"no", "waiting", "returned"}

(* While the reader is between two frames, the newest frame it sent is the *)
(* one that waits in the slot, that is being handed on, or that the track  *)
(* got last: the viewer never sees an older frame in its place.            *)
FreshestWins ==
  producer = "idle" => offered \in {latest, taken, delivered}

(* Every frame is accounted for, exactly once: the track got it, it waits, *)
(* or it was counted as dropped (the statistics the owner page shows) or   *)
(* refused.                                                                *)
Count(f) == IF f = 0 THEN 0 ELSE 1
InHand == IF producer \in {"trying", "replacing", "placing"} THEN 1 ELSE 0

EveryFrameCounted ==
  offered = outputs + drops + refused + Count(latest) + Count(taken) + InHand

(* The inductive invariant. InOrder: the frame at the track, the one on its *)
(* way there, the waiting one and the one in hand are in the order they     *)
(* were sent, which is what keeps the newest frame in front. SlotInv: the   *)
(* slot is empty when the third select runs (the reader is the only one     *)
(* that fills it), and Close returns to nobody before the goroutine ended.  *)
InOrder ==
  /\ latest <= offered /\ taken <= offered /\ delivered <= offered
  /\ taken # 0 => delivered < taken
  /\ latest # 0 => delivered < latest /\ taken < latest
  /\ InHand = 1 => delivered < offered /\ taken < offered /\ latest < offered

SlotInv ==
  /\ consumer = "writing" <=> taken # 0
  /\ producer = "placing" => latest = 0
  /\ offered = 0 => producer = "idle"
  /\ closing = "no" <=> ~closed
  /\ closing = "returned" => consumer = "finished"

Inv == TypeOK /\ InOrder /\ SlotInv /\ FreshestWins /\ EveryFrameCounted

(* The track gets the frames in the order the phone encoded them, none     *)
(* twice, and none after Close has returned: the next stream, which starts *)
(* only then, never finds the old one writing to its track.                *)
TrackInOrder ==
  [][outputs' # outputs => delivered' > delivered /\ closing # "returned"]_vars

(* Neither side waits for the other for ever: a WriteSample call ends,     *)
(* Close returns, and unless the mailbox is closed a waiting frame, or a   *)
(* newer one, reaches the track.                                           *)
NoSideBlocks ==
  /\ producer \in {"trying", "replacing", "placing"} ~> producer \in {"idle", "stopped"}
  /\ closed ~> closing = "returned"

LatestArrives == \A f \in 1..MaxFrame : latest = f ~> delivered >= f \/ closed
-----------------------------------------------------------------------------
(* The mailbox as one atomic place. A frame is put when it enters the slot *)
(* or, if the slot was full, when the second select has emptied it: from   *)
(* then on only the end can keep the frame out, so it counts as waiting.   *)
Mailbox == INSTANCE FrameMailbox WITH
  newest <- IF producer \in {"trying", "replacing"} THEN offered - 1 ELSE offered,
  waiting <- IF producer = "placing" THEN offered ELSE latest,
  carried <- taken, track <- delivered,
  ended <- consumer = "finished", returned <- closing = "returned"

(* Three selects against a goroutine that takes and a Close at any moment   *)
(* are one atomic replacement (WriteSample).                               *)
ImplementsMailbox == Mailbox!Spec
=============================================================================
