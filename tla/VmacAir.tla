------------------------------ MODULE VmacAir ------------------------------
(***************************************************************************)
(* What the transmit queues promise: management frames (DACKs and          *)
(* retransmissions) and frames of the user process each leave in the order *)
(* they came, each at most once, and none unless it was queued.            *)
(***************************************************************************)
EXTENDS Naturals, Sequences

CONSTANTS Mgmt, User          \* the frames of the two classes

VARIABLES mgmt, user,         \* frames waiting, oldest first
          air                 \* frames given to the driver, oldest first

Init == mgmt = <<>> /\ user = <<>> /\ air = <<>>

Frames(s) == {s[i] : i \in DOMAIN s}
Fresh(f) == f \notin Frames(mgmt) \cup Frames(user) \cup Frames(air)

AcceptMgmt == \E f \in Mgmt : /\ Fresh(f)
                              /\ mgmt' = Append(mgmt, f)
                              /\ UNCHANGED <<user, air>>

AcceptUser == \E f \in User : /\ Fresh(f)
                              /\ user' = Append(user, f)
                              /\ UNCHANGED <<mgmt, air>>

SendMgmt == /\ mgmt # <<>>
            /\ air' = Append(air, Head(mgmt))
            /\ mgmt' = Tail(mgmt)
            /\ UNCHANGED user

SendUser == /\ user # <<>>
            /\ air' = Append(air, Head(user))
            /\ user' = Tail(user)
            /\ UNCHANGED mgmt

Next == AcceptMgmt \/ AcceptUser \/ SendMgmt \/ SendUser

vars == <<mgmt, user, air>>

Spec == Init /\ [][Next]_vars
=============================================================================
