-------------------------- MODULE PlatoonLaneChange --------------------------
(***************************************************************************)
(* What the lane-change manoeuvre promises, without messages, timers or    *)
(* manoeuvre states: the platoon stays in one piece.  The leader moves to  *)
(* a neighbouring lane only when the whole platoon is in one lane and all  *)
(* followers consent; from then on no follower can withdraw, and each can  *)
(* only move to the leader's lane.                                         *)
(***************************************************************************)
EXTENDS Integers

CONSTANTS Leader, Follower, NLanes, StartLane

VARIABLES
  lane,      (* the lane each vehicle drives in                            *)
  consent    (* the followers that agreed to change and have not yet       *)

Vehicle == {Leader} \cup Follower
Lane    == 0 .. NLanes - 1

Together == \A v \in Vehicle : lane[v] = lane[Leader]

Init ==
  /\ lane = [v \in Vehicle |-> StartLane]
  /\ consent = {}

Agree(f) ==
  /\ Together
  /\ consent' = consent \cup {f}
  /\ UNCHANGED lane

Withdraw(f) ==
  /\ Together
  /\ consent' = consent \ {f}
  /\ UNCHANGED lane

Lead ==
  /\ Together
  /\ consent = Follower
  /\ \E d \in Lane : /\ d = lane[Leader] + 1 \/ d = lane[Leader] - 1
                     /\ lane' = [lane EXCEPT ![Leader] = d]
  /\ UNCHANGED consent

Follow(f) ==
  /\ f \in consent
  /\ lane[f] # lane[Leader]
  /\ lane' = [lane EXCEPT ![f] = lane[Leader]]
  /\ consent' = consent \ {f}

Next ==
  \/ Lead
  \/ \E f \in Follower : Agree(f) \/ Withdraw(f) \/ Follow(f)

Spec == Init /\ [][Next]_<<lane, consent>>

=============================================================================
