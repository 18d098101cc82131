---------------------------- MODULE ControlLease ----------------------------
(***************************************************************************)
(* What PhoneBridge promises about control of a shared phone, without      *)
(* saying how: at most one share is open, at most one lease holds it, a    *)
(* lease token is granted once and never again, an ended share stays       *)
(* ended, and a restart of the program takes control from everybody.       *)
(* ShareLease, the model of the server, implements this specification.     *)
(***************************************************************************)
CONSTANTS Session, \* share sessions, each with a random id drawn once
          Token,   \* viewer tokens, each drawn at random once
          None     \* no token

VARIABLES share,  \* "none", "open" or "ended", for every session
          holder, \* the token that may control the phone of the session
          used    \* every token granted so far

vars == <<share, holder, used>>

Init ==
  /\ share = [s \in Session |-> "none"]
  /\ holder = [s \in Session |-> None]
  /\ used = {}

(* The shares of S end, and whoever held one of them holds nothing. *)
EndAll(S) ==
  /\ share' = [s \in Session |-> IF s \in S THEN "ended" ELSE share[s]]
  /\ holder' = [s \in Session |-> IF s \in S THEN None ELSE holder[s]]

OpenShares == {s \in Session : share[s] = "open"}

(* A new share is opened; another one may be open only if it ends by that. *)
Open(s) ==
  /\ share[s] = "none"
  /\ share' = [r \in Session |-> IF r = s THEN "open"
                                 ELSE IF r \in OpenShares THEN "ended"
                                 ELSE share[r]]
  /\ holder' = [r \in Session |-> IF r \in OpenShares THEN None ELSE holder[r]]
  /\ UNCHANGED used

(* The open share's lease goes to a token nobody ever held. *)
Grant(s, t) ==
  /\ share[s] = "open"
  /\ t \notin used
  /\ holder' = [holder EXCEPT ![s] = t]
  /\ used' = used \cup {t}
  /\ UNCHANGED share

End(s) ==
  /\ share[s] = "open"
  /\ EndAll({s})
  /\ UNCHANGED used

(* A restart loses every lease, and the shares it cannot restore. *)
Restart ==
  /\ \E lost \in SUBSET OpenShares :
       share' = [s \in Session |-> IF s \in lost THEN "ended" ELSE share[s]]
  /\ holder' = [s \in Session |-> None]
  /\ UNCHANGED used

Next ==
  \/ \E s \in Session : Open(s) \/ End(s)
  \/ \E s \in Session, t \in Token : Grant(s, t)
  \/ Restart

Spec == Init /\ [][Next]_vars

(* At most one share is open, and only an open share has a holder. *)
OneOpenShare ==
  /\ \A s, r \in OpenShares : s = r
  /\ \A s \in Session : holder[s] # None => share[s] = "open"

(* A viewer who has lost control, to a takeover, an end or a restart, never *)
(* has it again with the token it had.                                     *)
RevokedStaysOut ==
  [][\A s \in Session, t \in used \ {None} : holder[s] # t => holder'[s] # t]_vars
=============================================================================
