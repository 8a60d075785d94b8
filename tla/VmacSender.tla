----------------------------- MODULE VmacSender -----------------------------
(***************************************************************************)
(* The send side of one encoding: vmac_tx for data frames, called from     *)
(* netlink by the threads of the user process, numbers a frame and keeps a *)
(* copy in the retransmission buffer; the rqueuethread thread runs vmac_rx *)
(* for a DACK and queues copies of the frames its holes name. The buffer   *)
(* and the pacing timers have no lock.                                     *)
(*                                                                         *)
(* A buffered copy is named by the number of its frame. Retransmitted      *)
(* copies are named by their place in the DACK being served.               *)
(***************************************************************************)
EXTENDS Integers, FiniteSets, Sequences

CONSTANTS
  Callers,      \* threads of the user process that may be in vmac_tx
  WINDOW_TX,    \* slots of the retransmission buffer: 500
  MaxRetx,      \* copies made for one DACK: 20
  Pace,         \* rounds a frame is not resent for: 6
  TimerMod,     \* range of a pacing timer: 2^8
  PtrBytes,     \* pacing timers that overlap the word behind the buffer: 8
  MaxSeq,       \* bound: frames of the stream, at most 2^16
  MaxRound,     \* bound: rounds of the DACKs that arrive
  MaxHoles,     \* bound: holes of a DACK that arrives
  MaxMissing,   \* bound: copies that fail in vmac_tx
  NULL,         \* the null pointer
  Junk          \* a slot of vmalloc'd memory never written

ASSUME SenderAssumption ==
  /\ {WINDOW_TX, Pace, TimerMod, PtrBytes, MaxSeq, MaxHoles} \subseteq Nat \ {0}
  /\ {MaxRetx, MaxRound, MaxMissing} \subseteq Nat

Frame == 0..MaxSeq - 1
Slot == 0..WINDOW_TX - 1
Id == 1..MaxRetx                \* retransmitted copies of the DACK in hand

ASSUME PointerAssumption ==
  NULL \notin Frame \cup Id /\ Junk \notin Frame \cup Id /\ NULL # Junk

VARIABLES
  seq,          \* vmact->seq: frames numbered so far
  buffer,       \* vmact->retransmission_buffer
  timer,        \* vmact->timer
  txpc,         \* txpc[c]: where caller c stands in vmac_tx
  txn,          \* txn[c]: the number of its frame, ddr.seq
  tmp2,         \* tmp2[c]: the copy it is to free
  sent,         \* frames handed to enq_uqueue
  freed,        \* buffered copies given back with kfree_skb
  dpc,          \* where rqueuethread stands in vmac_rx
  dack,         \* the DACK in hand
  dseq,         \* its reading of vmact->seq
  hole, le,     \* the hole it walks and its place in it
  counter,      \* copies made for this DACK
  src,          \* the buffered copy skb_copy reads
  skb2,         \* the retransmitted copy: its name, NULL or an old one
  what,         \* what[k]: the frame the k-th copy is of
  queued,       \* copies of this DACK handed to retrx
  twice,        \* copies of this DACK handed to retrx more than once
  \* history
  missing,      \* frames skb_copy failed for in vmac_tx
  resentAt      \* round of the DACK a frame was last resent for

txVars   == <<txpc, txn, tmp2, sent>>
dackVars == <<dpc, dack, dseq, hole, le, counter, src, skb2, what, queued, twice>>
vars     == <<seq, buffer, timer, freed, txVars, dackVars, missing, resentAt>>

NoDack == [round |-> 0, holes |-> <<>>]
Never == -Pace                  \* resentAt of a frame never resent

Init ==
  /\ seq = 0
  /\ buffer \in [Slot -> {NULL, Junk}]      \* tx.c:166-188: never set
  /\ timer = [s \in Slot |-> 0]
  /\ txpc = [c \in Callers |-> "idle"]
  /\ txn = [c \in Callers |-> 0]
  /\ tmp2 = [c \in Callers |-> NULL]
  /\ sent = {} /\ freed = {}
  /\ dpc = "idle" /\ dack = NoDack /\ dseq = 0 /\ hole = 1 /\ le = 0 /\ counter = 0
  /\ src = NULL /\ skb2 = NULL /\ what = <<>> /\ queued = {} /\ twice = {}
  /\ missing = {} /\ resentAt = [n \in Frame |-> Never]

----------------------------------------------------------------------------
(* vmac_tx, data frame (tx.c:191-218, 251).                                *)

(* Under seqlock.                                                          *)
TxNumber(c) ==
  /\ txpc[c] = "idle"
  /\ seq < MaxSeq
  /\ txn' = [txn EXCEPT ![c] = seq]
  /\ seq' = seq + 1
  /\ txpc' = [txpc EXCEPT ![c] = "timer"]
  /\ UNCHANGED <<buffer, timer, freed, tmp2, sent, dackVars, missing, resentAt>>

TxTimer(c) ==
  /\ txpc[c] = "timer"
  /\ timer' = [timer EXCEPT ![txn[c] % WINDOW_TX] = 0]
  /\ txpc' = [txpc EXCEPT ![c] = "copy"]
  /\ UNCHANGED <<seq, buffer, freed, txn, tmp2, sent, dackVars, missing, resentAt>>

(* Mistake: the former copy is not remembered.                             *)
TxStoreForgets(c) ==
  /\ txpc[c] = "copy"
  /\ buffer' = [buffer EXCEPT ![txn[c] % WINDOW_TX] = txn[c]]
  /\ txpc' = [txpc EXCEPT ![c] = "free"]
  /\ UNCHANGED <<seq, timer, freed, txn, tmp2, sent, dackVars, missing, resentAt>>

(* The copy, and the pointer to the one it takes the place of; when there  *)
(* is no memory for the copy the slot keeps its pointer all the same.      *)
TxStore(c) ==
  LET at == txn[c] % WINDOW_TX IN
  /\ txpc[c] = "copy"
  /\ tmp2' = [tmp2 EXCEPT ![c] = IF txn[c] >= WINDOW_TX THEN buffer[at] ELSE NULL]
  /\ \/ buffer' = [buffer EXCEPT ![at] = txn[c]] /\ UNCHANGED missing
     \/ /\ Cardinality(missing) < MaxMissing
        /\ missing' = missing \cup {txn[c]}
        /\ UNCHANGED buffer
  /\ txpc' = [txpc EXCEPT ![c] = "free"]
  /\ UNCHANGED <<seq, timer, freed, txn, sent, dackVars, resentAt>>

(* Mistake: what is in the slot now is freed.                              *)
TxFreeSlot(c) ==
  /\ txpc[c] = "free"
  /\ freed' = IF tmp2[c] = NULL THEN freed
              ELSE freed \cup {buffer[txn[c] % WINDOW_TX]}
  /\ tmp2' = [tmp2 EXCEPT ![c] = NULL]
  /\ txpc' = [txpc EXCEPT ![c] = "enqueue"]
  /\ UNCHANGED <<seq, buffer, timer, txn, sent, dackVars, missing, resentAt>>

TxFree(c) ==
  /\ txpc[c] = "free"
  /\ freed' = freed \cup ({tmp2[c]} \ {NULL})
  /\ tmp2' = [tmp2 EXCEPT ![c] = NULL]
  /\ txpc' = [txpc EXCEPT ![c] = "enqueue"]
  /\ UNCHANGED <<seq, buffer, timer, txn, sent, dackVars, missing, resentAt>>

TxEnqueue(c) ==
  /\ txpc[c] = "enqueue"
  /\ sent' = sent \cup {txn[c]}
  /\ txpc' = [txpc EXCEPT ![c] = "idle"]
  /\ UNCHANGED <<seq, buffer, timer, freed, txn, tmp2, dackVars, missing, resentAt>>

Tx(c) == TxNumber(c) \/ TxTimer(c) \/ TxStore(c) \/ TxFree(c) \/ TxEnqueue(c)

----------------------------------------------------------------------------
(* vmac_rx, DACK (rx.c:318-390), in rqueuethread.                          *)

(* What receivers send: holes below the newest frame that left, in order   *)
(* and apart (VmacReceiver), for a round they have reached.                *)
Newest == IF sent = {} THEN -1 ELSE CHOOSE n \in sent : \A m \in sent : m <= n
Hole == {h \in [le : 0..Newest, re : 0..Newest] : h.le <= h.re}
HoleLists ==
  {hs \in UNION {[1..k -> Hole] : k \in 1..MaxHoles} :
     \A k \in DOMAIN hs \ {1} : hs[k - 1].re < hs[k].le}

DackBegin ==
  /\ dpc = "idle"
  /\ \E r \in 1..MaxRound, hs \in HoleLists :
       /\ dack' = [round |-> r, holes |-> hs]
       /\ le' = hs[1].le
  /\ dseq' = seq
  /\ dpc' = "walk"
  /\ UNCHANGED <<seq, buffer, timer, freed, txVars, hole, counter, src, skb2,
                 what, queued, twice, missing, resentAt>>

slotNext == (le + 1) % WINDOW_TX   \* mistake: counted from one

slot == le % WINDOW_TX

PacedAlways == TRUE                \* mistake: the timer is not looked at

(* rx.c:352, both conditions.                                              *)
Paced == dack.round >= timer[slot]
Within == le >= IF dseq < WINDOW_TX THEN 0 ELSE dseq - WINDOW_TX

InHole == le < dack.holes[hole].re /\ le < dseq

(* rx.c:356: the test says > where the copy says >=, so frame WINDOW_TX is *)
(* looked up one past the buffer, in the first pacing timers.              *)
SlotTest ==
  IF le = WINDOW_TX
    THEN \E s \in Slot : s < PtrBytes /\ timer[s] # 0
    ELSE buffer[slot] # NULL

Ready == dpc = "walk" /\ InHole /\ Paced /\ Within

DackSkip ==
  /\ dpc = "walk" /\ InHole /\ ~(Paced /\ Within)
  /\ le' = le + 1
  /\ UNCHANGED <<seq, buffer, timer, freed, txVars, dpc, dack, dseq, hole, counter,
                 src, skb2, what, queued, twice, missing, resentAt>>

(* The end of a hole, or the break at MaxRetx copies, which leaves the     *)
(* later holes to be looked at.                                            *)
HoleDone == dpc = "walk" /\ (~InHole \/ (Ready /\ MaxRetx <= counter))

DackNextHole ==
  /\ HoleDone
  /\ hole < Len(dack.holes)
  /\ hole' = hole + 1
  /\ le' = dack.holes[hole + 1].le
  /\ UNCHANGED <<seq, buffer, timer, freed, txVars, dpc, dack, dseq, counter,
                 src, skb2, what, queued, twice, missing, resentAt>>

(* rx.c:388-389: the DACK is freed, the locals are gone.                   *)
DackEnd ==
  /\ HoleDone
  /\ hole = Len(dack.holes)
  /\ dpc' = "idle"
  /\ dack' = NoDack /\ dseq' = 0 /\ hole' = 1 /\ le' = 0 /\ counter' = 0
  /\ src' = NULL /\ skb2' = NULL /\ what' = <<>> /\ queued' = {} /\ twice' = {}
  /\ UNCHANGED <<seq, buffer, timer, freed, txVars, missing, resentAt>>

(* Mistake: one copy more than MaxRetx.                                    *)
DackTestMore ==
  /\ Ready /\ counter <= MaxRetx
  /\ IF SlotTest
       THEN dpc' = "copy" /\ src' = buffer[slot]
       ELSE dpc' = "mark" /\ UNCHANGED src
  /\ UNCHANGED <<seq, buffer, timer, freed, txVars, dack, dseq, hole, le, counter,
                 skb2, what, queued, twice, missing, resentAt>>

DackTest ==
  /\ Ready /\ counter < MaxRetx
  /\ IF SlotTest
       THEN dpc' = "copy" /\ src' = buffer[slot]
       ELSE dpc' = "mark" /\ UNCHANGED src
  /\ UNCHANGED <<seq, buffer, timer, freed, txVars, dack, dseq, hole, le, counter,
                 skb2, what, queued, twice, missing, resentAt>>

(* skb_copy reads what src points to until here.                           *)
DackCopy ==
  /\ dpc = "copy"
  /\ counter' = counter + 1
  /\ what' = Append(what, src)
  /\ \/ skb2' = counter + 1
     \/ skb2' = NULL
  /\ src' = NULL
  /\ dpc' = "mark"
  /\ UNCHANGED <<seq, buffer, timer, freed, txVars, dack, dseq, hole, le,
                 queued, twice, missing, resentAt>>

(* rx.c:361-366; skb2 keeps its value from one frame to the next.          *)
DackMark ==
  /\ dpc = "mark"
  /\ timer' = [timer EXCEPT ![slot] = (dack.round + Pace) % TimerMod]
  /\ IF skb2 # NULL
       THEN /\ queued' = queued \cup {skb2}
            /\ twice' = twice \cup ({skb2} \cap queued)
            /\ resentAt' = IF what[skb2] \in Frame
                             THEN [resentAt EXCEPT ![what[skb2]] = dack.round]
                             ELSE resentAt
       ELSE UNCHANGED <<queued, twice, resentAt>>
  /\ le' = le + 1
  /\ dpc' = "walk"
  /\ UNCHANGED <<seq, buffer, freed, txVars, dack, dseq, hole, counter, src, skb2, what,
                 missing>>

Dack == DackBegin \/ DackSkip \/ DackNextHole \/ DackEnd \/ DackTest
        \/ DackCopy \/ DackMark

----------------------------------------------------------------------------
Next == Dack \/ \E c \in Callers : Tx(c)

Spec == Init /\ [][Next]_vars

----------------------------------------------------------------------------
(* Type correctness (types of vmac.h:175-194, rx.c:227-237).               *)
TypeOK ==
  /\ seq \in 0..MaxSeq
  /\ buffer \in [Slot -> Frame \cup {NULL, Junk}]
  /\ timer \in [Slot -> 0..TimerMod - 1]
  /\ txpc \in [Callers -> {"idle", "timer", "copy", "free", "enqueue"}]
  /\ txn \in [Callers -> Frame]
  /\ tmp2 \in [Callers -> Frame \cup {NULL, Junk}]
  /\ sent \subseteq Frame
  /\ freed \subseteq Frame \cup {Junk}
  /\ dpc \in {"idle", "walk", "copy", "mark"}
  /\ dseq \in 0..MaxSeq /\ hole \in 1..MaxHoles /\ le \in 0..MaxSeq
  /\ counter \in 0..MaxRetx
  /\ src \in Frame \cup {NULL, Junk}
  /\ skb2 \in Id \cup {NULL}
  /\ what \in Seq(Frame \cup {NULL, Junk})
  /\ queued \subseteq Id /\ twice \subseteq queued
  /\ resentAt \in [Frame -> {Never} \cup 1..MaxRound]

InWindow(n) == seq - WINDOW_TX <= n

(* A copy is in one slot, or about to be freed by one caller, or freed.    *)
CopyHolders(n) ==
  {<<"slot", s>> : s \in {x \in Slot : buffer[x] = n}}
  \cup {<<"caller", c>> : c \in {x \in Callers : tmp2[x] = n}}
  \cup {<<"freed", 0>> : x \in freed \cap {n}}

(* Every frame that left and may still be asked for is in its slot, a copy *)
(* is freed only when its frame left the window, once, and not while a slot*)
(* or a caller has it; skb_copy reads a slot that was written (tx.c:197-218*)
(* against the window test of rx.c:352). A copy that failed (tx.c:197, 210)*)
(* is the one exception, and harms no other frame than its own and the one *)
(* whose slot it did not take.                                             *)
BufferSound ==
  /\ \A n \in sent \ missing : InWindow(n) => buffer[n % WINDOW_TX] = n
  /\ \A n \in freed \cap Frame : ~InWindow(n)
  /\ \A n \in Frame : n + WINDOW_TX \notin missing => Cardinality(CopyHolders(n)) <= 1
  /\ Junk \in freed => \E n \in missing : n < WINDOW_TX
  /\ dpc = "copy" => src \in Frame \/ slot \in missing

(* No slot is overwritten while it has the only pointer to a copy          *)
(* (tx.c:200-213).                                                         *)
NoCopyForgotten ==
  [][\A n \in Frame : CopyHolders(n) # {} => CopyHolders(n)' # {}]_vars

(* What is resent was asked for, or is of a frame that took its slot       *)
(* meanwhile, or that stayed in it because the copy of the frame asked for *)
(* failed (rx.c:344-358 with tx.c:197-213); one DACK leads to at most      *)
(* MaxRetx copies over all its holes (rx.c:354-355, "break off or kernel   *)
(* will crash"), each queued once. Again but for copies that failed, whose *)
(* empty slot lets the former skb2 through, and for the frame WINDOW_TX,   *)
(* whose slot test looks one past the buffer (rx.c:356-366).               *)
Asked == UNION {dack.holes[h].le .. dack.holes[h].re - 1 : h \in DOMAIN dack.holes}

ResendSound ==
  /\ \A k \in DOMAIN what : what[k] \in Frame => \E n \in Asked :
       /\ (what[k] - n) % WINDOW_TX = 0
       /\ what[k] >= n \/ n \in missing
  /\ Cardinality(queued) <= MaxRetx /\ Len(what) <= MaxRetx
  /\ twice # {} => WINDOW_TX \in Asked \/ \E n \in Asked : n % WINDOW_TX \in missing

(* A frame of the window is resent again only for a round Pace later       *)
(* (rx.c:352, 361 with the reset of tx.c:196; rx.c:189 "set retransmission *)
(* pacing to current DACK round + 6").                                     *)
PacedApart ==
  [][\A n \in Frame : resentAt'[n] # resentAt[n] /\ InWindow(n)
       => resentAt'[n] >= resentAt[n] + Pace]_vars
=============================================================================
