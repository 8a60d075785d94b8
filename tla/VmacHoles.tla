----------------------------- MODULE VmacHoles -----------------------------
(***************************************************************************)
(* The holes of a DACK: what prepDACK lists for a receive window, as an    *)
(* operator, and what the list is meant to be.                             *)
(*                                                                         *)
(* A window w is a function on -1..WINDOW-1: w[s % WINDOW] is 0 while      *)
(* frame s counts as lost, and w[-1] is the 16-bit word in front of the    *)
(* array, which the scan reads at every multiple of WINDOW.                *)
(***************************************************************************)
EXTENDS Integers, Sequences, FiniteSets

CONSTANTS
  WINDOW,       \* slots of the receive window
  HOLES_MAX     \* holes that fit a DACK

ASSUME WindowAssumption == WINDOW \in Nat \ {0}
ASSUME HolesMaxAssumption == HOLES_MAX \in Nat \ {0}

Lost(w, s) == w[s % WINDOW] = 0

(* dack.c:266 looks at index tmp % WINDOW - 1, not (tmp - 1) % WINDOW.     *)
LostBefore(w, s) == w[(s % WINDOW) - 1] = 0

(* dack.c:261: the oldest frame a report up to lattmp looks at.            *)
ScanStart(lattmp) == IF lattmp < WINDOW THEN 0 ELSE lattmp - WINDOW

(* dack.c:266-271: walk left from i while the frame before counts as lost. *)
LeftEdge(w, lattmp, i) ==
  LET Goes(t) == LostBefore(w, t) /\ t > 0 /\ ScanStart(lattmp) < t - 1
      left[t \in ScanStart(lattmp)..i] == IF Goes(t) THEN left[t - 1] ELSE t
  IN left[i]

(* dack.c:273-279: walk right over lost frames, up to frame lattmp - 1.    *)
RightEdge(w, lattmp, i) ==
  LET right[t \in i..lattmp - 1] ==
        IF Lost(w, t) /\ t < lattmp - 1 THEN right[t + 1] ELSE t
  IN right[i]

(* dack.c:261-283: the holes [le, re) from the start on, as many as fit.   *)
HolesOf(w, lattmp) ==
  LET scan[i \in 0..lattmp] ==
        IF i = lattmp THEN <<>>
        ELSE IF Lost(w, i)
        THEN LET re == RightEdge(w, lattmp, i)
             IN <<[le |-> LeftEdge(w, lattmp, i), re |-> re]>> \o scan[re + 1]
        ELSE scan[i + 1]
      all == scan[ScanStart(lattmp)]
  IN SubSeq(all, 1, IF Len(all) < HOLES_MAX THEN Len(all) ELSE HOLES_MAX)

----------------------------------------------------------------------------
(* What a report means.                                                    *)

(* The frames a list of holes asks for.                                    *)
Covered(holes) == UNION {holes[k].le .. holes[k].re - 1 : k \in DOMAIN holes}

(* The holes are in order and apart, as vmac_rx of the sender walks them.  *)
InOrder(holes) ==
  /\ \A k \in DOMAIN holes : holes[k].le <= holes[k].re
  /\ \A k \in DOMAIN holes \ {1} : holes[k - 1].re < holes[k].le

(* A list that stopped at HOLES_MAX speaks for the frames before its end.  *)
Reach(holes, lattmp) ==
  IF Len(holes) < HOLES_MAX THEN lattmp - 1 ELSE holes[HOLES_MAX].re
=============================================================================
