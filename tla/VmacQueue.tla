----------------------------- MODULE VmacQueue -----------------------------
(***************************************************************************)
(* The queues of queue.c and their two threads: enq_uqueue, retrx and      *)
(* add_DACK feed uqueue and mqueue, which queuethread empties into the     *)
(* driver while this has free slots; add_mgmt feeds rx_upper, which        *)
(* rqueuethread empties into vmac_rx.                                      *)
(*                                                                         *)
(* A thread walks a list with list_for_each_safe without its lock: it      *)
(* remembers the next entry before it works on one, and gives the frame to *)
(* the driver before it unlinks the entry.                                 *)
(***************************************************************************)
EXTENDS Integers, Sequences

CONSTANTS
  MaxMgmt, MaxUser, MaxRx,    \* bounds: frames of each queue
  Slots,                      \* transmit slots of the driver
  EarlyFrames,                \* whether the user sends before hardware exists
  MayFail                     \* whether kmalloc may return NULL

ASSUME QueueAssumption ==
  /\ {MaxMgmt, MaxUser, MaxRx} \subseteq Nat
  /\ Slots \in Nat \ {0}
  /\ {EarlyFrames, MayFail} \subseteq BOOLEAN

Mgmt == {"mgmt"} \X (1..MaxMgmt)
User == {"user"} \X (1..MaxUser)

VARIABLES
  mqueue, uqueue,  \* the lists, oldest first
  mcame, ucame,    \* frames that came for each list so far
  pc,              \* where queuethread stands
  last,            \* its remembered next entry is the end of the list
  local,           \* its pointer to the hardware is set
  hw,              \* getvhw(): a driver has registered
  slots,           \* free slots of the driver
  air,             \* frames given to the driver, in order
  lost,            \* frames dropped without being freed: no memory
  due, broke,      \* history: mcame when this turn of the thread began, and
                   \*   whether its walk of mqueue was broken off
  rxq, rxcame,     \* rx_upper, and the DACKs that came for it so far
  rpc,             \* where rqueuethread stands
  served           \* DACKs given to vmac_rx, in order

txVars == <<mqueue, uqueue, mcame, ucame, pc, last, local, hw, slots, air, due, broke>>
rxVars == <<rxq, rxcame, rpc, served>>
vars   == <<txVars, lost, rxVars>>

Init ==
  /\ mqueue = <<>> /\ uqueue = <<>> /\ mcame = 0 /\ ucame = 0
  /\ pc = "sleep" /\ last = FALSE /\ local = FALSE
  /\ hw = FALSE /\ slots = Slots
  /\ air = <<>> /\ lost = {} /\ due = 0 /\ broke = FALSE
  /\ rxq = <<>> /\ rxcame = 0 /\ rpc = "sleep" /\ served = <<>>

----------------------------------------------------------------------------
(* Frames come.                                                            *)

(* Mistake: a retransmission goes to the list of the user frames.          *)
EnqMgmtBehind ==
  /\ hw /\ mcame < MaxMgmt
  /\ mcame' = mcame + 1
  /\ uqueue' = Append(uqueue, <<"mgmt", mcame + 1>>)
  /\ UNCHANGED <<mqueue, ucame, pc, last, local, hw, slots, air, due, broke, lost, rxVars>>

(* retrx and add_DACK, the same but for the unused rate.                   *)
EnqMgmt ==
  LET f == <<"mgmt", mcame + 1>> IN
  /\ hw /\ mcame < MaxMgmt
  /\ mcame' = mcame + 1
  /\ \/ mqueue' = Append(mqueue, f) /\ UNCHANGED lost
     \/ MayFail /\ lost' = lost \cup {f} /\ UNCHANGED mqueue
  /\ UNCHANGED <<uqueue, ucame, pc, last, local, hw, slots, air, due, broke, rxVars>>

(* enq_uqueue.                                                             *)
EnqUser ==
  LET f == <<"user", ucame + 1>> IN
  /\ hw \/ EarlyFrames
  /\ ucame < MaxUser
  /\ ucame' = ucame + 1
  /\ \/ uqueue' = Append(uqueue, f) /\ UNCHANGED lost
     \/ MayFail /\ lost' = lost \cup {f} /\ UNCHANGED uqueue
  /\ UNCHANGED <<mqueue, mcame, pc, last, local, hw, slots, air, due, broke, rxVars>>

(* add_mgmt.                                                               *)
AddMgmt ==
  LET f == <<"rx", rxcame + 1>> IN
  /\ hw /\ rxcame < MaxRx
  /\ rxcame' = rxcame + 1
  /\ \/ rxq' = Append(rxq, f) /\ UNCHANGED lost
     \/ MayFail /\ lost' = lost \cup {f} /\ UNCHANGED rxq
  /\ UNCHANGED <<txVars, rpc, served>>

----------------------------------------------------------------------------
(* The driver: registers once (vhw is set first of all, hooks.c:65), and   *)
(* gives slots back.                                                       *)

RegisterHw ==
  /\ ~hw
  /\ hw' = TRUE
  /\ UNCHANGED <<mqueue, uqueue, mcame, ucame, pc, last, local, slots, air, due, broke,
                 lost, rxVars>>

HwDone ==
  /\ slots < Slots
  /\ slots' = slots + 1
  /\ UNCHANGED <<mqueue, uqueue, mcame, ucame, pc, last, local, hw, air, due, broke,
                 lost, rxVars>>

----------------------------------------------------------------------------
(* queuethread. A walk looks at the first entry of its list, which it will *)
(* remove; last says that no entry followed when it began to look at it.   *)

WalkUser ==
  IF uqueue = <<>> THEN pc' = "sleep" /\ UNCHANGED last
                   ELSE pc' = "ustat" /\ last' = (Len(uqueue) = 1)

Wake ==
  /\ pc = "sleep"
  /\ local' = hw
  /\ due' = mcame /\ broke' = FALSE
  /\ IF mqueue = <<>> THEN WalkUser
                      ELSE pc' = "mstat" /\ last' = (Len(mqueue) = 1)
  /\ UNCHANGED <<mqueue, uqueue, mcame, ucame, hw, slots, air, lost, rxVars>>

(* Mistake: the frame that finds no slot is dropped.                       *)
MgmtNoSlotDrops ==
  /\ pc = "mstat" /\ local
  /\ slots = 0
  /\ broke' = TRUE
  /\ mqueue' = Tail(mqueue)
  /\ WalkUser
  /\ UNCHANGED <<uqueue, mcame, ucame, local, hw, slots, air, due, lost, rxVars>>

MgmtNoSlot ==
  /\ pc = "mstat" /\ local
  /\ slots = 0
  /\ broke' = TRUE
  /\ WalkUser
  /\ UNCHANGED <<mqueue, uqueue, mcame, ucame, local, hw, slots, air, due, lost, rxVars>>

MgmtStat ==
  /\ pc = "mstat" /\ local
  /\ slots # 0
  /\ pc' = "msend"
  /\ UNCHANGED <<mqueue, uqueue, mcame, ucame, last, local, hw, slots, air, due, broke,
                 lost, rxVars>>

(* Mistake: the newest frame first.                                        *)
MgmtSendNewest ==
  /\ pc = "msend"
  /\ air' = Append(air, mqueue[Len(mqueue)])
  /\ slots' = slots - 1
  /\ pc' = "munlink"
  /\ UNCHANGED <<mqueue, uqueue, mcame, ucame, last, local, hw, due, broke, lost, rxVars>>

MgmtSend ==
  /\ pc = "msend"
  /\ air' = Append(air, Head(mqueue))
  /\ slots' = slots - 1
  /\ pc' = "munlink"
  /\ UNCHANGED <<mqueue, uqueue, mcame, ucame, last, local, hw, due, broke, lost, rxVars>>

(* Mistake: one management frame for each turn.                            *)
MgmtUnlinkOne ==
  /\ pc = "munlink"
  /\ mqueue' = Tail(mqueue)
  /\ WalkUser
  /\ UNCHANGED <<uqueue, mcame, ucame, local, hw, slots, air, due, broke, lost, rxVars>>

(* queue.c:259-262, and the step to the next entry.                        *)
MgmtUnlink ==
  /\ pc = "munlink"
  /\ mqueue' = Tail(mqueue)
  /\ IF last THEN WalkUser
             ELSE pc' = "mstat" /\ last' = (Len(mqueue) = 2)
  /\ UNCHANGED <<uqueue, mcame, ucame, local, hw, slots, air, due, broke, lost, rxVars>>

UserNoSlot ==
  /\ pc = "ustat" /\ local
  /\ slots = 0
  /\ pc' = "sleep"
  /\ UNCHANGED <<mqueue, uqueue, mcame, ucame, last, local, hw, slots, air, due, broke,
                 lost, rxVars>>

UserStat ==
  /\ pc = "ustat" /\ local
  /\ slots # 0
  /\ pc' = "usend"
  /\ UNCHANGED <<mqueue, uqueue, mcame, ucame, last, local, hw, slots, air, due, broke,
                 lost, rxVars>>

UserSend ==
  /\ pc = "usend"
  /\ air' = Append(air, Head(uqueue))
  /\ slots' = slots - 1
  /\ pc' = "uunlink"
  /\ UNCHANGED <<mqueue, uqueue, mcame, ucame, last, local, hw, due, broke, lost, rxVars>>

UserUnlink ==
  /\ pc = "uunlink"
  /\ uqueue' = Tail(uqueue)
  /\ IF last THEN pc' = "sleep" /\ UNCHANGED last
             ELSE pc' = "ustat" /\ last' = (Len(uqueue) = 2)
  /\ UNCHANGED <<mqueue, mcame, ucame, local, hw, slots, air, due, broke, lost, rxVars>>

QueueThread == Wake \/ MgmtNoSlot \/ MgmtStat \/ MgmtSend \/ MgmtUnlink
               \/ UserNoSlot \/ UserStat \/ UserSend \/ UserUnlink

----------------------------------------------------------------------------
(* rqueuethread: vmac_rx, then the entry is unlinked.                      *)

(* Mistake: the last DACK waits for another one.                           *)
RxServeButLast ==
  /\ rpc = "sleep"
  /\ Len(rxq) > 1
  /\ served' = Append(served, Head(rxq))
  /\ rpc' = "unlink"
  /\ UNCHANGED <<txVars, lost, rxq, rxcame>>

RxServe ==
  /\ rpc = "sleep"
  /\ rxq # <<>>
  /\ served' = Append(served, Head(rxq))
  /\ rpc' = "unlink"
  /\ UNCHANGED <<txVars, lost, rxq, rxcame>>

RxUnlink ==
  /\ rpc = "unlink"
  /\ rxq' = Tail(rxq)
  /\ rpc' = "sleep"
  /\ UNCHANGED <<txVars, lost, rxcame, served>>

RqueueThread == RxServe \/ RxUnlink

----------------------------------------------------------------------------
Next == EnqMgmt \/ EnqUser \/ AddMgmt \/ RegisterHw \/ HwDone
        \/ QueueThread \/ RqueueThread

Spec == Init /\ [][Next]_vars

(* The kernel runs both threads; the driver completes what it was given.   *)
Fairness == WF_vars(QueueThread) /\ WF_vars(RqueueThread) /\ WF_vars(HwDone)
FairSpec == Spec /\ Fairness

----------------------------------------------------------------------------
Frames(s) == {s[i] : i \in DOMAIN s}

(* Types, with the places of the two threads.                              *)
TypeOK ==
  /\ mqueue \in Seq(Mgmt) /\ uqueue \in Seq(User)
  /\ mcame \in 0..MaxMgmt /\ ucame \in 0..MaxUser /\ rxcame \in 0..MaxRx
  /\ pc \in {"sleep", "mstat", "msend", "munlink", "ustat", "usend", "uunlink"}
  /\ rpc \in {"sleep", "unlink"}
  /\ {last, local, hw, broke} \subseteq BOOLEAN
  /\ slots \in Int /\ due \in 0..mcame
  /\ air \in Seq(Mgmt \cup User)
  /\ rxq \in Seq({"rx"} \X (1..MaxRx)) /\ served \in Seq({"rx"} \X (1..MaxRx))

(* The entry under work leaves the waiting frames when the driver takes it *)
(* (vmac_low_tx), one step before it is unlinked.                          *)
Air == INSTANCE VmacAir WITH
         mgmt <- IF pc = "munlink" THEN Tail(mqueue) ELSE mqueue,
         user <- IF pc = "uunlink" THEN Tail(uqueue) ELSE uqueue

(* Although the walk reads the list without its lock and sends before it   *)
(* unlinks, frames of either class leave in order, once, and only if they  *)
(* were queued (queuethread, enq_uqueue, retrx, add_DACK).                 *)
AirSpec == Air!Spec

(* The answer of get_stats is still good when the frame is sent, a step    *)
(* later (queue.c:248-257, 269-282); and a user frame goes to the driver   *)
(* after every DACK and retransmission that was waiting when the thread's  *)
(* turn began, unless the driver was full at some moment of the first walk.*)
DueSent == \A n \in 1..due : <<"mgmt", n>> \in Frames(air) \cup lost
MgmtFirstUnlessFull ==
  /\ slots \in 0..Slots
  /\ pc = "uunlink" /\ ~broke => DueSent

(* queue.c:236: the thread has slept long enough for the hardware to be    *)
(* there when it first looks at a frame.                                   *)
HardwareThere == pc \in {"mstat", "ustat"} => local

(* No frame disappears without the failed allocation that loses it: it     *)
(* waits in its list or the driver has it, and vmac_rx gets each DACK that *)
(* could be queued once, oldest first, though it is served before it is    *)
(* unlinked (enq_uqueue, retrx, add_DACK, add_mgmt, rqueuethread).         *)
Waiting == IF rpc = "unlink" THEN Tail(rxq) ELSE rxq
EachOnce ==
  LET s == served \o Waiting IN
  /\ \A n \in 1..mcame : <<"mgmt", n>> \in Frames(mqueue) \cup Frames(air) \cup lost
  /\ \A n \in 1..ucame : <<"user", n>> \in Frames(uqueue) \cup Frames(air) \cup lost
  /\ \A n \in 1..rxcame : <<"rx", n>> \in Frames(s) \cup lost
  /\ \A i, j \in DOMAIN s : i < j => s[i][2] < s[j][2]

(* Once no more frames come, both threads empty their queues, however      *)
(* often the driver was full; the user frames are not forgotten behind the *)
(* DACKs.                                                                  *)
Drained == mqueue = <<>> /\ uqueue = <<>> /\ rxq = <<>>
QueuesDrain == <>[](hw => Drained)
=============================================================================
