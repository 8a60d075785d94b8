---------------------------- MODULE VmacMailbox ----------------------------
(***************************************************************************)
(* What the DACK life cycle promises an encoding: a mailbox with room for  *)
(* one report.  A report that was asked for may be posted if it is younger *)
(* than every report before it, and then takes the place of the one that   *)
(* waits.  The one that waits is collected once, and then goes out or is   *)
(* lost.  So reports go out in the order of their rounds, each at most     *)
(* once, and an old report is given up only for a younger one.             *)
(***************************************************************************)
EXTENDS Naturals

CONSTANTS Enc, Round          \* encodings; the rounds reports are named by

VARIABLES asked,              \* the last round asked for
          box,                \* the round of the report that waits, or 0
          hand,               \* the round of the report collected, or 0
          out                 \* the reports that went out

None == [e \in Enc |-> 0]

Init == asked = None /\ box = None /\ hand = None /\ out = {}

Youngest(e, r) ==
  box[e] < r /\ hand[e] < r /\ \A q \in out : q[1] = e => q[2] < r

Ask(e) == \E r \in Round : /\ asked[e] < r
                           /\ asked' = [asked EXCEPT ![e] = r]
                           /\ UNCHANGED <<box, hand, out>>

Post(e) == \E r \in Round : /\ r <= asked[e]
                            /\ Youngest(e, r)
                            /\ box' = [box EXCEPT ![e] = r]
                            /\ UNCHANGED <<asked, hand, out>>

Collect(e) == /\ box[e] # 0 /\ hand[e] = 0
              /\ hand' = [hand EXCEPT ![e] = box[e]]
              /\ box' = [box EXCEPT ![e] = 0]
              /\ UNCHANGED <<asked, out>>

GoOut(e) == /\ hand[e] # 0
            /\ out' = out \cup {<<e, hand[e]>>}
            /\ hand' = [hand EXCEPT ![e] = 0]
            /\ UNCHANGED <<asked, box>>

Lose(e) == /\ hand[e] # 0
           /\ hand' = [hand EXCEPT ![e] = 0]
           /\ UNCHANGED <<asked, box, out>>

Next == \E e \in Enc : Ask(e) \/ Post(e) \/ Collect(e) \/ GoOut(e) \/ Lose(e)

vars == <<asked, box, hand, out>>

Spec == Init /\ [][Next]_vars
=============================================================================
