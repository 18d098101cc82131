-------------------------- MODULE VideoPump_proofs --------------------------
(***************************************************************************)
(* Proofs about the video pump, for any profiles and any requests.         *)
(***************************************************************************)
EXTENDS VideoPump, TLAPS

LEMMA InitInv == Init => PumpInv
<1> SUFFICES ASSUME Init PROVE PumpInv
  OBVIOUS
<1>1. TypeOK
  <2>1. available \in BOOLEAN /\ ordered \in BOOLEAN /\ videoStop \in BOOLEAN
        /\ cancelled \in BOOLEAN /\ stream \in BOOLEAN
    BY DEF Init
  <2>2. rstep \in [Request -> {"idle", "send", "drain", "resend"}]
        /\ rvalue \in [Request -> Profile \cup {None}]
    BY DEF Init
  <2> QED
    BY <2>1, <2>2 DEF Init, TypeOK
<1>2. OneStream
  BY DEF Init, OneStream
<1>3. OneAtATime /\ NewestProfileKept /\ EvictionFits
  BY DEF Init, OneAtATime, NewestProfileKept, EvictionFits
<1> QED
  BY <1>1, <1>2, <1>3 DEF PumpInv

(* The parts of the invariant, one lemma each. *)
LEMMA NextType == TypeOK /\ OneStream /\ [Next]_vars => TypeOK'
<1> SUFFICES ASSUME TypeOK, OneStream, [Next]_vars PROVE TypeOK'
  OBVIOUS
<1> USE DEF TypeOK, Looked, Ended
<1>1. ASSUME NEW r \in Request, NEW v \in Profile, SetProfile(r, v) PROVE TypeOK'
  BY <1>1 DEF SetProfile, requestVars, peerVars, streamVars
<1>2. ASSUME NEW r \in Request, RequestStep(r) PROVE TypeOK'
  BY <1>2 DEF RequestStep, Send, Drain, Resend, sessionVars, peerVars, streamVars
<1>3. ASSUME NEW how \in {"replaced", "stopped"}, Evict(how) PROVE TypeOK'
  BY <1>3 DEF Evict, requestVars, streamVars
<1>4. CASE ShareEnds
  <2>1. available' \in BOOLEAN
    BY <1>4, Zenon DEF ShareEnds
  <2> QED
    BY <1>4, <2>1 DEF ShareEnds, peerVars, requestVars, streamVars
<1>5. CASE Close
  <2>1. cancelled' \in BOOLEAN
    <3>1. PICK seen \in IF ordered THEN {TRUE} ELSE {FALSE, videoStop} : cancelled' = seen
      BY <1>5 DEF Close
    <3>2. seen \in BOOLEAN
      BY <3>1, Zenon
    <3> QED
      BY <3>1, <3>2, Zenon
  <2> QED
    BY <1>5, <2>1 DEF Close, sessionVars, requestVars, streamVars
<1>6. CASE StartPump
  BY <1>6 DEF StartPump, sessionVars, peerVars, requestVars, streamVars
<1>7. CASE PumpArm \/ PumpLook
  <2>1. CASE PumpArm
    BY <2>1 DEF PumpArm, sessionVars, peerVars, requestVars, streamVars
  <2>2. CASE PumpLook
    <3>1. pump' \in {"starting", "ended"} /\ running' \in Profile \cup {None}
      BY <2>2 DEF PumpLook
    <3> QED
      BY <2>2, <3>1 DEF PumpLook, sessionVars, peerVars, requestVars
  <2> QED
    BY <1>7, <2>1, <2>2
<1>8. CASE Switch \/ StreamBreaks \/ StopStream
  <2>1. pump = "streaming" /\ open' = open - 1 /\ stream' = FALSE
    BY <1>8 DEF Switch, StreamBreaks, StopStream, LeaveStream
  <2>2. open' = 0
    BY <2>1 DEF OneStream
  <2>3. stream' \in BOOLEAN
    BY <2>1, Zenon
  <2> QED
    BY <1>8, <2>2, <2>3 DEF Switch, StreamBreaks, StopStream, LeaveStream,
                      sessionVars, peerVars, requestVars, streamVars
<1>9. CASE StreamStarts
  BY <1>9 DEF StreamStarts, sessionVars, peerVars, requestVars, streamVars
<1>11. CASE StreamFails \/ ForwardEnds \/ ForwardDone
  BY <1>11 DEF StreamFails, ForwardEnds, ForwardDone,
               sessionVars, peerVars, requestVars, streamVars
<1>10. CASE UNCHANGED vars
  BY <1>10 DEF vars, sessionVars, peerVars, requestVars, streamVars
<1> QED
  BY <1>1, <1>2, <1>3, <1>4, <1>5, <1>6, <1>7, <1>8, <1>9, <1>10, <1>11 DEF Next, PumpStep

(* A stream is opened in one action and closed in three; each moves the     *)
(* pump along with it.                                                      *)
LEMMA NextOneStream == TypeOK /\ OneStream /\ [Next]_vars => OneStream'
<1> SUFFICES ASSUME TypeOK, OneStream, [Next]_vars PROVE OneStream'
  OBVIOUS
<1> USE DEF OneStream, Ended
<1>1. CASE UNCHANGED <<pump, stream, open, forward>>
  BY <1>1
<1>2. CASE StartPump \/ PumpArm \/ PumpLook
  BY <1>2 DEF StartPump, PumpArm, PumpLook, streamVars
<1>3. CASE Switch \/ StreamBreaks \/ StopStream \/ ForwardDone
  BY <1>3 DEF Switch, StreamBreaks, StopStream, ForwardDone, LeaveStream
<1>4. CASE StreamFails \/ StreamStarts \/ ForwardEnds
  BY <1>4 DEF StreamFails, StreamStarts, ForwardEnds, streamVars
<1> QED
  BY <1>1, <1>2, <1>3, <1>4
     DEF Next, PumpStep, RequestStep, SetProfile, Send, Drain, Resend, Evict, ShareEnds, Close,
         vars, streamVars

(* With one request at a time the slot a request has emptied stays empty    *)
(* until it sends again: the pump only takes updates out.                   *)
LEMMA NextOneAtATime ==
  ASSUME OneRequestAtATime, TypeOK, OneAtATime, [Next]_vars
  PROVE  OneAtATime'
<1> USE DEF OneAtATime, TypeOK
<1>1. CASE UNCHANGED requestVars /\ updates' \in {updates, None}
  BY <1>1 DEF requestVars
<1>2. ASSUME NEW r \in Request, NEW v \in Profile, SetProfile(r, v) PROVE OneAtATime'
  BY <1>2 DEF SetProfile, requestVars
<1>3. ASSUME NEW r \in Request, RequestStep(r) PROVE OneAtATime'
  BY <1>3 DEF RequestStep, Send, Drain, Resend
<1> QED
  BY <1>1, <1>2, <1>3
     DEF Next, PumpStep, PumpArm, PumpLook, Switch, StreamBreaks, StopStream, ForwardDone,
         StreamFails, StreamStarts, ForwardEnds, StartPump, Evict, ShareEnds, Close, vars

(* Where the newest profile is: a request brings it to the slot, and        *)
(* Switch from there to the stream. A pump that looks while a request or    *)
(* the slot still holds it takes it from the session, and hears it again.   *)
LEMMA NextNewest ==
  ASSUME OneRequestAtATime, TypeOK, OneAtATime, fate = "registered" => NewestProfileKept,
         [Next]_vars, fate' = "registered"
  PROVE  NewestProfileKept'
<1>1. fate = "registered" /\ NewestProfileKept
  BY DEF Next, PumpStep, RequestStep, SetProfile, Send, Drain, Resend, Evict, ShareEnds, Close,
         PumpArm, PumpLook, Switch, StreamBreaks, StopStream, ForwardDone,
         StreamFails, StreamStarts, ForwardEnds, StartPump, vars, peerVars
<1> USE <1>1 DEF NewestProfileKept
<1>2. ASSUME NEW r \in Request, NEW v \in Profile, SetProfile(r, v) PROVE NewestProfileKept'
  BY <1>2 DEF SetProfile, TypeOK, requestVars, streamVars
<1>3. ASSUME NEW r \in Request, RequestStep(r) PROVE NewestProfileKept'
  BY <1>3 DEF RequestStep, Send, Drain, Resend, OneAtATime, TypeOK, sessionVars, streamVars
<1>4. CASE UNCHANGED <<profile, requestVars, updates, pump, running>>
  BY <1>4 DEF requestVars
<1>5. CASE StartPump \/ PumpArm \/ PumpLook
  BY <1>5 DEF StartPump, PumpArm, PumpLook, sessionVars, requestVars, streamVars
<1>6. CASE Switch \/ StreamBreaks \/ StopStream \/ ForwardDone
  BY <1>6, ProfileAssumption
     DEF Switch, StreamBreaks, StopStream, ForwardDone, LeaveStream, TypeOK,
         sessionVars, requestVars
<1>7. CASE StreamFails \/ StreamStarts \/ ForwardEnds
  BY <1>7 DEF StreamFails, StreamStarts, ForwardEnds, sessionVars, requestVars, streamVars
<1> QED
  BY <1>2, <1>3, <1>4, <1>5, <1>6, <1>7
     DEF Next, PumpStep, Evict, ShareEnds, Close, vars, sessionVars, peerVars, streamVars

(* The pump writes videoStop before it takes the mutex to look, so a close  *)
(* that comes after a look finds it; and a pump that has looked at a        *)
(* running share never looks again.                                         *)
LEMMA NextEviction ==
  ASSUME TypeOK, EvictionFits, [Next]_vars
  PROVE  EvictionFits'
<1> USE DEF EvictionFits, Looked
<1>1. CASE UNCHANGED <<available, peerVars, pump, cancelled>>
  BY <1>1 DEF peerVars
<1>2. ASSUME NEW how \in {"replaced", "stopped"}, Evict(how) PROVE EvictionFits'
  BY <1>2 DEF Evict, TypeOK
<1>3. CASE ShareEnds
  BY <1>3 DEF ShareEnds, peerVars
<1>4. CASE Close
  <2>1. ordered => cancelled'
    BY <1>4 DEF Close
  <2>2. UNCHANGED <<available, fate, ordered, pump>> /\ closing = "due" /\ closing' = "done"
    BY <1>4 DEF Close, sessionVars
  <2> QED
    BY <2>1, <2>2
<1>5. CASE StartPump \/ PumpArm \/ PumpLook
  BY <1>5 DEF StartPump, PumpArm, PumpLook, sessionVars, peerVars
<1>6. CASE Switch \/ StreamBreaks \/ StopStream \/ ForwardDone
  BY <1>6 DEF Switch, StreamBreaks, StopStream, ForwardDone, LeaveStream, sessionVars, peerVars
<1>7. CASE StreamFails \/ StreamStarts
  BY <1>7 DEF StreamFails, StreamStarts, sessionVars, peerVars
<1> QED
  BY <1>1, <1>2, <1>3, <1>4, <1>5, <1>6, <1>7
     DEF Next, PumpStep, RequestStep, SetProfile, Send, Drain, Resend, ForwardEnds,
         vars, sessionVars

(* The pump keeps its inductive invariant in every run. *)
THEOREM PumpInvariant == Spec => []PumpInv
<1>1. Init => PumpInv
  BY InitInv
<1>2. PumpInv /\ [Next]_vars => PumpInv'
  <2> SUFFICES ASSUME PumpInv, [Next]_vars PROVE PumpInv'
    OBVIOUS
  <2>1. TypeOK' /\ OneStream'
    BY NextType, NextOneStream DEF PumpInv
  <2>2. OneRequestAtATime => OneAtATime'
    BY NextOneAtATime DEF PumpInv
  <2>3. OneRequestAtATime /\ fate' = "registered" => NewestProfileKept'
    BY NextNewest DEF PumpInv
  <2>4. EvictionFits'
    BY NextEviction DEF PumpInv
  <2> QED
    BY <2>1, <2>2, <2>3, <2>4 DEF PumpInv
<1> QED
  BY <1>1, <1>2, PTL DEF Spec

(* The phone never encodes two streams for one peer, and a pump that ended  *)
(* has left none open, whatever requests overlap.                           *)
THEOREM AtMostOneStream == Spec => []OneStream
<1>1. PumpInv => OneStream
  BY DEF PumpInv
<1> QED
  BY <1>1, PumpInvariant, PTL

(* If profile requests do not overlap, the phone encodes what the session   *)
(* shows as soon as none is under way.                                      *)
THEOREM RunningProfile == OneRequestAtATime => (Spec => []StreamHasSessionProfile)
<1> SUFFICES ASSUME OneRequestAtATime PROVE Spec => []StreamHasSessionProfile
  OBVIOUS
<1>1. PumpInv => StreamHasSessionProfile
  BY ProfileAssumption DEF PumpInv, TypeOK, NewestProfileKept, StreamHasSessionProfile
<1> QED
  BY <1>1, PumpInvariant, PTL

(* No pump outlives the close of its peer unawares, after a stop or after a *)
(* takeover that came later than its look, however close and the write of   *)
(* videoStop race.                                                          *)
THEOREM ClosedPumpIsTold == Spec => []ClosedPumpKnows
<1>1. PumpInv => ClosedPumpKnows
  BY DEF PumpInv, TypeOK, EvictionFits, ClosedPumpKnows, Looked
<1> QED
  BY <1>1, PumpInvariant, PTL
=============================================================================
