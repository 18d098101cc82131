------------------------ MODULE LatestSample_proofs ------------------------
(***************************************************************************)
(* Proofs about the one-slot mailbox, for any number of frames.            *)
(***************************************************************************)
EXTENDS LatestSample, TLAPS

LEMMA InitInv == Init => Inv
<1> SUFFICES ASSUME Init PROVE Inv
  OBVIOUS
<1>1. TypeOK
  <2>1. 0 \in 0..MaxFrame /\ 0 \in Nat
    BY MaxFrameAssumption
  <2>2. closed \in BOOLEAN
    BY DEF Init
  <2> QED
    BY <2>1, <2>2 DEF Init, TypeOK
<1>2. InOrder /\ SlotInv /\ FreshestWins
  BY DEF Init, InOrder, SlotInv, FreshestWins, InHand
<1>3. EveryFrameCounted
  BY DEF Init, EveryFrameCounted, Count, InHand
<1> QED
  BY <1>1, <1>2, <1>3 DEF Inv

(* One step per action; a step of the reader touches the slot and its own   *)
(* place, a step of the goroutine what it carries to the track.             *)
LEMMA NextInv == Inv /\ [Next]_vars => Inv'
<1> SUFFICES ASSUME Inv, [Next]_vars PROVE Inv'
  OBVIOUS
<1> USE MaxFrameAssumption
        DEF Inv, TypeOK, InOrder, SlotInv, FreshestWins, EveryFrameCounted, Count, InHand
<1>1. CASE WriteSample
  BY <1>1 DEF WriteSample, Refuse
<1>2. CASE TryPut
  BY <1>2 DEF TryPut, Accept
<1>3. CASE Replace
  BY <1>3 DEF Replace
<1>4. CASE Place
  BY <1>4 DEF Place, Accept, Refuse
<1>5. CASE Take
  BY <1>5 DEF Take
<1>6. CASE Deliver
  BY <1>6 DEF Deliver
<1>7. CASE Finish
  BY <1>7 DEF Finish
<1>8. CASE Close
  BY <1>8 DEF Close
<1>9. CASE CloseReturns
  BY <1>9 DEF CloseReturns
<1>10. CASE UNCHANGED vars
  BY <1>10 DEF vars
<1> QED
  BY <1>1, <1>2, <1>3, <1>4, <1>5, <1>6, <1>7, <1>8, <1>9, <1>10 DEF Next

(* The mailbox keeps its inductive invariant in every run. *)
THEOREM MailboxInvariant == Spec => []Inv
<1>1. Init => Inv
  BY InitInv
<1>2. Inv /\ [Next]_vars => Inv'
  BY NextInv
<1> QED
  BY <1>1, <1>2, PTL DEF Spec

(* Between two frames of the phone nothing older than the newest one waits  *)
(* in its place.                                                            *)
THEOREM NewestFrameWins == Spec => []FreshestWins
<1>1. Inv => FreshestWins
  BY DEF Inv
<1> QED
  BY <1>1, MailboxInvariant, PTL

(* The drop counter the owner page shows is exact. *)
THEOREM DropsAreExact == Spec => []EveryFrameCounted
<1>1. Inv => EveryFrameCounted
  BY DEF Inv
<1> QED
  BY <1>1, MailboxInvariant, PTL

(* Only Deliver hands a frame to the track; by the invariant the frame is   *)
(* newer than the one before, and Close has not returned yet.               *)
LEMMA StepInOrder ==
  Inv /\ [Next]_vars => (outputs' # outputs => delivered' > delivered /\ closing # "returned")
<1> SUFFICES ASSUME Inv, [Next]_vars, outputs' # outputs
             PROVE  delivered' > delivered /\ closing # "returned"
  OBVIOUS
<1>1. Deliver
  BY DEF Next, vars, WriteSample, TryPut, Replace, Place, Take, Finish, Close, CloseReturns
<1>2. delivered' = taken /\ taken # 0 /\ consumer = "writing"
  BY <1>1 DEF Deliver, Inv, SlotInv
<1>3. closing # "returned"
  BY <1>2 DEF Inv, SlotInv
<1>4. delivered < taken /\ taken \in Nat /\ delivered \in Nat
  BY <1>2, MaxFrameAssumption DEF Inv, TypeOK, InOrder
<1> QED
  BY <1>2, <1>3, <1>4

(* The track gets the frames in order, none twice, none after Close. *)
THEOREM FramesInOrder == Spec => TrackInOrder
<1>1. Inv /\ [Next]_vars => [outputs' # outputs => delivered' > delivered /\ closing # "returned"]_vars
  BY StepInOrder
<1> QED
  BY <1>1, MailboxInvariant, PTL DEF Spec, TrackInOrder
-----------------------------------------------------------------------------
(* Every step of the selects, the goroutine and Close is one of the atomic *)
(* mailbox, or a stutter.                                                  *)
LEMMA StepIsAtomic ==
  ASSUME Inv, [Next]_vars
  PROVE  [Mailbox!Next]_(Mailbox!vars)
<1> USE MaxFrameAssumption DEF Inv, TypeOK, InOrder, SlotInv
<1>1. CASE WriteSample
  <2>1. CASE closed
    <3>1. Mailbox!Refuse
      BY <1>1, <2>1 DEF WriteSample, Refuse, Mailbox!Refuse
    <3> QED BY <3>1 DEF Mailbox!Next
  <2>2. CASE ~closed
    BY <1>1, <2>2 DEF WriteSample, Mailbox!vars
  <2> QED BY <2>1, <2>2
<1>2. CASE TryPut
  <2>1. CASE latest = 0
    <3>1. Mailbox!Put
      BY <1>2, <2>1 DEF TryPut, Accept, Mailbox!Put
    <3> QED BY <3>1 DEF Mailbox!Next
  <2>2. CASE latest # 0
    BY <1>2, <2>2 DEF TryPut, Mailbox!vars
  <2> QED BY <2>1, <2>2
<1>3. CASE Replace
  <2>1. Mailbox!Put
    BY <1>3 DEF Replace, Mailbox!Put
  <2> QED BY <2>1 DEF Mailbox!Next
<1>4. CASE Place
  <2>1. CASE producer' = "idle"
    BY <1>4, <2>1 DEF Place, Accept, Refuse, Mailbox!vars
  <2>2. CASE producer' # "idle"
    <3>1. Mailbox!GiveUp
      BY <1>4, <2>2 DEF Place, Accept, Refuse, Mailbox!GiveUp
    <3> QED BY <3>1 DEF Mailbox!Next
  <2> QED BY <2>1, <2>2
<1>5. CASE Take
  <2>1. Mailbox!TakeUp
    BY <1>5 DEF Take, Mailbox!TakeUp
  <2> QED BY <2>1 DEF Mailbox!Next
<1>6. CASE Deliver
  <2>1. Mailbox!HandOn
    BY <1>6 DEF Deliver, Mailbox!HandOn
  <2> QED BY <2>1 DEF Mailbox!Next
<1>7. CASE Finish
  <2>1. Mailbox!End
    BY <1>7 DEF Finish, Mailbox!End
  <2> QED BY <2>1 DEF Mailbox!Next
<1>8. CASE Close
  <2>1. Mailbox!Close
    BY <1>8 DEF Close, Mailbox!Close
  <2> QED BY <2>1 DEF Mailbox!Next
<1>9. CASE CloseReturns
  <2>1. Mailbox!Return
    BY <1>9 DEF CloseReturns, Mailbox!Return
  <2> QED BY <2>1 DEF Mailbox!Next
<1>10. CASE UNCHANGED vars
  BY <1>10 DEF vars, Mailbox!vars
<1> QED
  BY <1>1, <1>2, <1>3, <1>4, <1>5, <1>6, <1>7, <1>8, <1>9, <1>10 DEF Next

(* WriteSample, its goroutine and Close together are the atomic mailbox:    *)
(* what holds of that one holds of the code.                               *)
THEOREM MailboxIsAtomic == Spec => ImplementsMailbox
<1>1. Init => Mailbox!Init
  BY DEF Init, Mailbox!Init
<1>2. Inv /\ [Next]_vars => [Mailbox!Next]_(Mailbox!vars)
  BY StepIsAtomic
<1> QED
  BY <1>1, <1>2, MailboxInvariant, PTL DEF Spec, ImplementsMailbox, Mailbox!Spec

(* What the atomic mailbox promises it keeps, whoever implements it.       *)
LEMMA AtomicInv ==
  /\ Mailbox!Init => Mailbox!MailboxInv
  /\ Mailbox!MailboxInv /\ [Mailbox!Next]_(Mailbox!vars) => Mailbox!MailboxInv'
<1> USE DEF Mailbox!MailboxInv, Mailbox!Ordered, Mailbox!NewestStays
<1>1. Mailbox!Init => Mailbox!MailboxInv
  BY DEF Mailbox!Init
<1>2. ASSUME Mailbox!MailboxInv, [Mailbox!Next]_(Mailbox!vars)
      PROVE  Mailbox!MailboxInv'
  <2>1. CASE Mailbox!Put
    BY <1>2, <2>1 DEF Mailbox!Put
  <2>2. CASE Mailbox!Refuse \/ Mailbox!GiveUp
    BY <1>2, <2>2 DEF Mailbox!Refuse, Mailbox!GiveUp
  <2>3. CASE Mailbox!TakeUp
    BY <1>2, <2>3 DEF Mailbox!TakeUp
  <2>4. CASE Mailbox!HandOn
    BY <1>2, <2>4 DEF Mailbox!HandOn
  <2>5. CASE Mailbox!Close \/ Mailbox!End \/ Mailbox!Return
    BY <1>2, <2>5 DEF Mailbox!Close, Mailbox!End, Mailbox!Return
  <2>6. CASE UNCHANGED Mailbox!vars
    BY <1>2, <2>6 DEF Mailbox!vars
  <2> QED
    BY <1>2, <2>1, <2>2, <2>3, <2>4, <2>5, <2>6 DEF Mailbox!Next
<1> QED
  BY <1>1, <1>2

(* In the atomic mailbox the newest frame waits, is on its way or is shown *)
(* until it is closed, and the track only goes forward.                    *)
THEOREM AtomicMailboxKeepsNewest ==
  Mailbox!Spec => []Mailbox!NewestStays /\ Mailbox!TrackGoesForward
<1>1. Mailbox!MailboxInv /\ [Mailbox!Next]_(Mailbox!vars) =>
        [delivered' # delivered => delivered' > delivered /\ ~(closing = "returned")]_(Mailbox!vars)
  BY DEF Mailbox!MailboxInv, Mailbox!Ordered, Mailbox!Next, Mailbox!Put, Mailbox!Refuse,
         Mailbox!GiveUp, Mailbox!TakeUp, Mailbox!HandOn, Mailbox!Close, Mailbox!End,
         Mailbox!Return
<1>2. Mailbox!MailboxInv => Mailbox!NewestStays
  BY DEF Mailbox!MailboxInv
<1> QED
  BY <1>1, <1>2, AtomicInv, PTL DEF Mailbox!Spec, Mailbox!TrackGoesForward
=============================================================================
