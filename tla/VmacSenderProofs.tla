-------------------------- MODULE VmacSenderProofs --------------------------
(***************************************************************************)
(* Invariance proofs for VmacSender with one thread in vmac_tx, for a      *)
(* buffer of any size and streams, DACKs and rounds of any length.         *)
(***************************************************************************)
EXTENDS VmacSender, FiniteSetTheorems, SequenceTheorems, WellFoundedInduction,
        TLAPS

(* One process sends, and netlink runs nl_recv once at a time for it.      *)
OneCaller == \A c, d \in Callers : c = d

(* Pacing timers are bytes; no round that arrives makes one wrap.          *)
NoWrap == MaxRound + Pace < TimerMod

(* The frames whose copy was stored, or failed, are 0..Kept - 1.           *)
Kept == IF \E c \in Callers : txpc[c] \in {"timer", "copy"} THEN seq - 1 ELSE seq

(* What a caller in vmac_tx works on is the newest frame.                  *)
TxSound ==
  /\ \A c \in Callers : txpc[c] # "idle" => txn[c] = seq - 1
  /\ \A c \in Callers : tmp2[c] # NULL => txpc[c] = "free"
  /\ \A n \in sent \cup missing : n \in Frame /\ n < Kept

(* A slot has the newest frame of its own that did not fail.               *)
SlotsSound ==
  /\ \A n \in Frame : n < Kept /\ n \notin missing /\ Kept <= n + WINDOW_TX
       => buffer[n % WINDOW_TX] = n
  /\ \A s \in Slot : buffer[s] \in Frame =>
       /\ buffer[s] % WINDOW_TX = s /\ buffer[s] < Kept
       /\ \A m \in Frame : m % WINDOW_TX = s /\ buffer[s] < m /\ m < Kept => m \in missing
  /\ \A s \in Slot : s < Kept /\ s \notin missing => buffer[s] \in Frame

(* Where the copies are that left their slot, and where they are not.      *)
FreesSound ==
  /\ \A n \in freed \cap Frame : n + WINDOW_TX < Kept
  /\ \A n \in freed \cap Frame : n + WINDOW_TX \notin missing => \A c \in Callers : tmp2[c] # n
  /\ \A c \in Callers : tmp2[c] \in Frame =>
       /\ tmp2[c] + WINDOW_TX < Kept
       /\ \/ tmp2[c] + WINDOW_TX \in missing
          \/ buffer[tmp2[c] % WINDOW_TX] # tmp2[c]
  /\ Junk \in freed \/ (\E c \in Callers : tmp2[c] = Junk) => \E n \in missing : n < WINDOW_TX

(* The walk stays inside the hole, and every hole is of stored frames.     *)
WalkSound ==
  /\ dpc = "idle" =>
       /\ dack = NoDack /\ dseq = 0 /\ hole = 1 /\ le = 0 /\ counter = 0 /\ src = NULL
       /\ skb2 = NULL /\ what = <<>> /\ queued = {} /\ twice = {}
  /\ dpc # "idle" =>
       /\ dack.round \in 1..MaxRound
       /\ \E k \in 1..MaxHoles : dack.holes \in [1..k -> [le : Frame, re : Frame]]
       /\ \A h \in DOMAIN dack.holes : dack.holes[h].re < Kept
                                       /\ dack.holes[h].le <= dack.holes[h].re
       /\ hole \in DOMAIN dack.holes
       /\ dack.holes[hole].le <= le /\ le <= dack.holes[hole].re
  /\ dpc \in {"copy", "mark"} => le < dack.holes[hole].re

(* The copies made, and those handed on.                                   *)
CopiesSound ==
  /\ Len(what) = counter /\ queued \subseteq 1..counter
  /\ dpc = "copy" => /\ counter < MaxRetx
                     /\ src \notin Frame => slot \in missing
                     /\ src \in Frame => /\ src % WINDOW_TX = slot /\ src < Kept
                                         /\ src >= le \/ le \in missing
  /\ skb2 # NULL => skb2 \in queued \/ (dpc = "mark" /\ skb2 = counter)
  /\ dpc = "mark" /\ skb2 \in queued => le = WINDOW_TX \/ slot \in missing
  /\ \A k \in DOMAIN what : what[k] \in Frame => what[k] < Kept

SenderInv ==
  /\ TypeOK /\ TxSound /\ SlotsSound /\ FreesSound
  /\ WalkSound /\ CopiesSound /\ ResendSound

(* How a pacing timer bounds the rounds a frame of its slot was resent for,*)
(* in general and between the test of the timer and its setting.           *)
PaceSound ==
  /\ \A m \in Frame : InWindow(m) => resentAt[m] + Pace <= timer[m % WINDOW_TX]
  /\ \A m \in Frame : resentAt[m] # Never => m < Kept
  /\ dpc \in {"copy", "mark"} => \A m \in Frame :
       InWindow(m) /\ m % WINDOW_TX = slot => resentAt[m] + Pace <= dack.round
  /\ \A k \in queued : what[k] \in Frame => resentAt[what[k]] = dack.round
  /\ dpc = "mark" /\ skb2 \in Id \ queued /\ what[skb2] \in Frame
       => what[skb2] % WINDOW_TX = slot

----------------------------------------------------------------------------
(* Slots: frames of the same slot are WINDOW_TX apart.                     *)
LEMMA WindowNat == WINDOW_TX \in Nat /\ WINDOW_TX > 0
  BY SenderAssumption

LEMMA DivMod ==
  ASSUME NEW W \in Nat \ {0}, NEW n \in Nat
  PROVE  n \div W \in Nat /\ n % W \in 0..W - 1 /\ n = W * (n \div W) + (n % W)
<1>1. n = W * (n \div W) + (n % W)  OBVIOUS
<1>2. n \div W \in Nat  OBVIOUS
<1>3. n % W \in 0..W - 1  OBVIOUS
<1>4. QED  BY <1>1, <1>2, <1>3

LEMMA NextOfSlot ==
  ASSUME NEW W \in Nat \ {0}, NEW n \in Nat
  PROVE  (n + W) % W = n % W
<1>1. n = W * (n \div W) + (n % W)  BY DivMod
<1>2. n + W = W * ((n \div W) + 1) + (n % W)  BY <1>1, DivMod
<1>3. \A q \in Nat, r \in 0..W - 1 : (W * q + r) % W = r  OBVIOUS
<1>4. (n \div W) + 1 \in Nat /\ n % W \in 0..W - 1  OBVIOUS
<1>5. QED  BY <1>2, <1>3, <1>4

LEMMA SameSlot ==
  ASSUME NEW W \in Nat \ {0}, NEW m \in Nat, NEW n \in Nat, m % W = n % W
  PROVE  (m < n => m + W <= n) /\ (m - n) % W = 0
<1> DEFINE i == m \div W
           j == n \div W
           r == m % W
<1>1. i \in Nat /\ j \in Nat /\ r \in Nat  OBVIOUS
<1>2. m = W * i + r /\ n = W * j + r  BY DivMod
<1> HIDE DEF i, j, r
<1>3. n - m = W * (j - i) /\ m - n = W * (i - j)  BY <1>1, <1>2
<1>4. ASSUME m < n PROVE m + W <= n
  <2>1. j - i > 0  BY <1>1, <1>3, <1>4
  <2>2. W * (j - i) >= W  BY <1>1, <2>1
  <2>3. QED  BY <1>3, <2>2
<1>5. (m - n) % W = 0
  <2>1. \A k \in Int : (W * k) % W = 0  OBVIOUS
  <2>2. QED  BY <1>1, <1>3, <2>1
<1>6. QED  BY <1>4, <1>5

(* The same facts about the buffer, for frames.                            *)
LEMMA Slots ==
  /\ WINDOW_TX \in Nat /\ WINDOW_TX > 0 /\ Frame \subseteq Nat /\ Slot \subseteq Nat
  /\ \A n \in Nat : n % WINDOW_TX \in Slot /\ (n + WINDOW_TX) % WINDOW_TX = n % WINDOW_TX
  /\ \A n \in Nat : n % WINDOW_TX <= n
  /\ \A n \in Slot : n % WINDOW_TX = n /\ n < WINDOW_TX
  /\ \A m, n \in Nat : m % WINDOW_TX = n % WINDOW_TX
       => (m < n => m + WINDOW_TX <= n) /\ (m - n) % WINDOW_TX = 0
<1>1. WINDOW_TX \in Nat \ {0}  BY SenderAssumption
<1>2. Frame \subseteq Nat  BY SenderAssumption DEF Frame
<1>3. \A n \in Nat : n % WINDOW_TX \in Slot /\ (n + WINDOW_TX) % WINDOW_TX = n % WINDOW_TX
  BY <1>1, DivMod, NextOfSlot DEF Slot
<1>4. \A n \in Nat : n % WINDOW_TX <= n
  <2>1. SUFFICES ASSUME NEW n \in Nat PROVE n % WINDOW_TX <= n  OBVIOUS
  <2>2. WINDOW_TX * (n \div WINDOW_TX) >= 0  BY <1>1, DivMod
  <2>3. QED  BY <1>1, <2>2, DivMod
<1>5. \A n \in Slot : n % WINDOW_TX = n /\ n < WINDOW_TX  BY <1>1 DEF Slot
<1>6. \A m, n \in Nat : m % WINDOW_TX = n % WINDOW_TX
        => (m < n => m + WINDOW_TX <= n) /\ (m - n) % WINDOW_TX = 0
  BY <1>1, SameSlot
<1>7. QED  BY <1>1, <1>2, <1>3, <1>4, <1>5, <1>6 DEF Slot

LEMMA Pointers ==
  /\ NULL \notin Frame /\ Junk \notin Frame /\ NULL \notin Id /\ NULL # Junk
  /\ MaxSeq \in Nat /\ Frame = 0..MaxSeq - 1 /\ Slot = 0..WINDOW_TX - 1
  BY SenderAssumption, PointerAssumption DEF Frame, Slot

(* With one caller Kept is known from where that caller stands.            *)
LEMMA KeptIs ==
  ASSUME OneCaller, TypeOK, TxSound
  PROVE  /\ Kept \in Nat /\ Kept <= seq /\ seq <= Kept + 1
         /\ \A c \in Callers : Kept = IF txpc[c] \in {"timer", "copy"} THEN seq - 1 ELSE seq
<1>1. seq \in Nat  BY Pointers DEF TypeOK
<1>2. ASSUME NEW c \in Callers
      PROVE  Kept = IF txpc[c] \in {"timer", "copy"} THEN seq - 1 ELSE seq
  BY DEF Kept, OneCaller
<1>3. CASE \E c \in Callers : txpc[c] \in {"timer", "copy"}
  <2>1. PICK c \in Callers : txpc[c] \in {"timer", "copy"}  BY <1>3
  <2>2. Kept = seq - 1 /\ txn[c] = seq - 1  BY <2>1 DEF Kept, TxSound
  <2>3. txn[c] \in Nat  BY Slots DEF TypeOK
  <2>4. QED  BY <1>1, <1>2, <2>2, <2>3
<1>4. CASE ~\E c \in Callers : txpc[c] \in {"timer", "copy"}
  BY <1>1, <1>2, <1>4 DEF Kept
<1>5. QED  BY <1>3, <1>4


----------------------------------------------------------------------------
LEMMA InitSender == Init => SenderInv
<1> SUFFICES ASSUME Init PROVE SenderInv  OBVIOUS
<1>1. TypeOK
  <2>1. 0 \in Frame /\ 0 \in 0..TimerMod - 1 /\ 1 \in 1..MaxHoles /\ 0 \in 0..MaxRetx
    BY SenderAssumption DEF Frame
  <2>2. <<>> \in Seq(Frame \cup {NULL, Junk})  OBVIOUS
  <2>3. QED  BY <2>1, <2>2, Pointers DEF Init, TypeOK
<1>2. TxSound  BY DEF Init, TxSound
<1>3. Kept = 0  BY DEF Init, Kept
<1>4. SlotsSound
  <2>1. \A n \in Frame : ~(n < Kept)  BY <1>3, Slots
  <2>2. \A s \in Slot : ~(s < Kept) /\ buffer[s] \notin Frame  BY <1>3, Slots, Pointers DEF Init
  <2>3. QED  BY <2>1, <2>2 DEF SlotsSound
<1>5. FreesSound  BY Pointers DEF Init, FreesSound
<1>6. Len(<<>>) = 0 /\ DOMAIN <<>> = {}  OBVIOUS
<1>7. WalkSound /\ CopiesSound  BY <1>6 DEF Init, WalkSound, CopiesSound
<1>8. ResendSound
  <2>1. Cardinality({}) = 0  BY FS_EmptySet
  <2>2. QED  BY <1>6, <2>1, SenderAssumption DEF Init, ResendSound
<1>9. QED  BY <1>1, <1>2, <1>4, <1>5, <1>7, <1>8 DEF SenderInv

(* vmac_tx leaves the DACK in hand alone, and only adds frames.            *)
LEMMA TxKeeps ==
  ASSUME SenderInv, UNCHANGED dackVars, missing \subseteq missing',
         Kept \in Nat, Kept' \in Nat, Kept <= Kept'
  PROVE  WalkSound' /\ CopiesSound' /\ ResendSound'
<1>1. UNCHANGED <<dpc, dack, dseq, hole, le, counter, src, skb2, what, queued, twice>>
  BY DEF dackVars
<1>2. slot' = slot /\ Asked' = Asked  BY <1>1 DEF slot, Asked
<1>3. \A n \in Frame : n < Kept => n < Kept'  BY Slots
<1>4. WalkSound'
  <2>1. \A h \in DOMAIN dack.holes : dpc # "idle" => dack.holes[h].re \in Frame
    BY DEF SenderInv, WalkSound
  <2>2. QED  BY <1>1, <1>3, <2>1 DEF SenderInv, WalkSound
<1>5. CopiesSound'  BY <1>1, <1>2, <1>3 DEF SenderInv, CopiesSound
<1>6. ResendSound'  BY <1>1, <1>2 DEF SenderInv, ResendSound
<1>7. QED  BY <1>4, <1>5, <1>6

(* vmac_rx leaves the buffer and its bookkeeping alone.                    *)
LEMMA DackKeeps ==
  ASSUME SenderInv, UNCHANGED <<seq, buffer, freed, txVars, missing>>
  PROVE  TxSound' /\ SlotsSound' /\ FreesSound' /\ Kept' = Kept
<1>1. UNCHANGED <<seq, buffer, freed, missing, txpc, txn, tmp2, sent>>  BY DEF txVars
<1>2. Kept' = Kept  BY <1>1 DEF Kept
<1>3. QED  BY <1>1, <1>2 DEF SenderInv, TxSound, SlotsSound, FreesSound

----------------------------------------------------------------------------
(* vmac_tx, step by step.                                                  *)
LEMMA NumberStep ==
  ASSUME OneCaller, SenderInv, NEW c \in Callers, TxNumber(c)
  PROVE  SenderInv' /\ Kept' = Kept
<1>1. /\ txpc[c] = "idle" /\ seq < MaxSeq /\ seq' = seq + 1
      /\ txn' = [txn EXCEPT ![c] = seq] /\ txpc' = [txpc EXCEPT ![c] = "timer"]
      /\ UNCHANGED <<buffer, timer, freed, tmp2, sent, dackVars, missing, resentAt>>
  BY DEF TxNumber
<1>2. seq \in Nat /\ seq \in Frame /\ seq + 1 \in 0..MaxSeq
  BY <1>1, Pointers DEF SenderInv, TypeOK
<1>3. TypeOK'  BY <1>1, <1>2 DEF SenderInv, TypeOK, dackVars
<1>4. txpc'[c] = "timer" /\ txn'[c] = seq /\ \A d \in Callers : d = c
  BY <1>1 DEF SenderInv, TypeOK, OneCaller
<1>5. Kept = seq /\ Kept' = seq
  BY <1>1, <1>2, <1>4 DEF Kept
<1>6. TxSound'  BY <1>1, <1>2, <1>4, <1>5 DEF SenderInv, TxSound
<1>7. SlotsSound'  BY <1>1, <1>5 DEF SenderInv, SlotsSound
<1>8. FreesSound'  BY <1>1, <1>5 DEF SenderInv, FreesSound
<1>9. WalkSound' /\ CopiesSound' /\ ResendSound'  BY <1>1, <1>2, <1>5, TxKeeps
<1>10. QED  BY <1>3, <1>5, <1>6, <1>7, <1>8, <1>9 DEF SenderInv

LEMMA TimerStep ==
  ASSUME OneCaller, SenderInv, NEW c \in Callers, TxTimer(c)
  PROVE  SenderInv' /\ Kept' = Kept
<1>1. /\ txpc[c] = "timer" /\ timer' = [timer EXCEPT ![txn[c] % WINDOW_TX] = 0]
      /\ txpc' = [txpc EXCEPT ![c] = "copy"]
      /\ UNCHANGED <<seq, buffer, freed, txn, tmp2, sent, dackVars, missing, resentAt>>
  BY DEF TxTimer
<1>2. 0 \in 0..TimerMod - 1  BY SenderAssumption
<1>3. TypeOK'
  <2>1. timer' \in [Slot -> 0..TimerMod - 1]
        /\ txpc' \in [Callers -> {"idle", "timer", "copy", "free", "enqueue"}]
    BY <1>1, <1>2 DEF SenderInv, TypeOK
  <2>2. QED  BY <1>1, <2>1 DEF SenderInv, TypeOK, dackVars
<1>4. txpc'[c] = "copy" /\ \A d \in Callers : d = c
  BY <1>1 DEF SenderInv, TypeOK, OneCaller
<1>5. Kept' = Kept  BY <1>1, <1>4 DEF Kept
<1>6. TxSound'  BY <1>1, <1>4, <1>5 DEF SenderInv, TxSound
<1>7. SlotsSound' /\ FreesSound'  BY <1>1, <1>5 DEF SenderInv, SlotsSound, FreesSound
<1>8. Kept \in Nat  BY KeptIs DEF SenderInv
<1>9. WalkSound' /\ CopiesSound' /\ ResendSound'  BY <1>1, <1>5, <1>8, TxKeeps
<1>10. QED  BY <1>3, <1>5, <1>6, <1>7, <1>9 DEF SenderInv

LEMMA FreeStep ==
  ASSUME OneCaller, SenderInv, NEW c \in Callers, TxFree(c)
  PROVE  SenderInv' /\ Kept' = Kept
<1>1. /\ txpc[c] = "free" /\ freed' = freed \cup ({tmp2[c]} \ {NULL})
      /\ tmp2' = [tmp2 EXCEPT ![c] = NULL] /\ txpc' = [txpc EXCEPT ![c] = "enqueue"]
      /\ UNCHANGED <<seq, buffer, timer, txn, sent, dackVars, missing, resentAt>>
  BY DEF TxFree
<1>2. TypeOK'
  <2>1. freed' \subseteq Frame \cup {Junk} /\ tmp2' \in [Callers -> Frame \cup {NULL, Junk}]
        /\ txpc' \in [Callers -> {"idle", "timer", "copy", "free", "enqueue"}]
    BY <1>1 DEF SenderInv, TypeOK
  <2>2. QED  BY <1>1, <2>1 DEF SenderInv, TypeOK, dackVars
<1>3. txpc'[c] = "enqueue" /\ tmp2'[c] = NULL /\ \A d \in Callers : d = c
  BY <1>1 DEF SenderInv, TypeOK, OneCaller
<1>4. Kept' = Kept  BY <1>1, <1>3 DEF Kept
<1>5. TxSound'  BY <1>1, <1>3, <1>4 DEF SenderInv, TxSound
<1>6. SlotsSound'  BY <1>1, <1>4 DEF SenderInv, SlotsSound
<1>7. FreesSound'
  <2>1. \A n \in freed' \cap Frame : n + WINDOW_TX < Kept
    BY <1>1 DEF SenderInv, FreesSound
  <2>2. \A d \in Callers : tmp2'[d] = NULL  BY <1>3
  <2>3. Junk \in freed' => \E n \in missing : n < WINDOW_TX
    BY <1>1 DEF SenderInv, FreesSound
  <2>4. QED  BY <1>1, <1>4, <2>1, <2>2, <2>3, Pointers DEF FreesSound
<1>8. Kept \in Nat  BY KeptIs DEF SenderInv
<1>9. WalkSound' /\ CopiesSound' /\ ResendSound'  BY <1>1, <1>4, <1>8, TxKeeps
<1>10. QED  BY <1>2, <1>4, <1>5, <1>6, <1>7, <1>9 DEF SenderInv

LEMMA EnqueueStep ==
  ASSUME OneCaller, SenderInv, NEW c \in Callers, TxEnqueue(c)
  PROVE  SenderInv' /\ Kept' = Kept
<1>1. /\ txpc[c] = "enqueue" /\ sent' = sent \cup {txn[c]}
      /\ txpc' = [txpc EXCEPT ![c] = "idle"]
      /\ UNCHANGED <<seq, buffer, timer, freed, txn, tmp2, dackVars, missing, resentAt>>
  BY DEF TxEnqueue
<1>2. TypeOK'  BY <1>1 DEF SenderInv, TypeOK, dackVars
<1>3. txpc'[c] = "idle" /\ \A d \in Callers : d = c
  BY <1>1 DEF SenderInv, TypeOK, OneCaller
<1>4. Kept = seq /\ Kept' = Kept  BY <1>1, <1>3 DEF Kept
<1>5. TxSound'
  <2>1. txn[c] \in Frame /\ txn[c] = seq - 1 /\ txn[c] < seq /\ tmp2[c] = NULL
    BY <1>1, Slots DEF SenderInv, TypeOK, TxSound
  <2>2. QED  BY <1>1, <1>3, <1>4, <2>1 DEF SenderInv, TxSound
<1>6. SlotsSound' /\ FreesSound'  BY <1>1, <1>4 DEF SenderInv, SlotsSound, FreesSound
<1>7. Kept \in Nat  BY KeptIs DEF SenderInv
<1>8. WalkSound' /\ CopiesSound' /\ ResendSound'  BY <1>1, <1>4, <1>7, TxKeeps
<1>9. QED  BY <1>2, <1>4, <1>5, <1>6, <1>8 DEF SenderInv

(* The copy takes the slot of the frame WINDOW_TX before it, or fails.     *)
LEMMA StoreStep ==
  ASSUME OneCaller, SenderInv, NEW c \in Callers, TxStore(c)
  PROVE  SenderInv' /\ Kept' = Kept + 1
<1> DEFINE K == txn[c]
           at == K % WINDOW_TX
<1>1. /\ txpc[c] = "copy" /\ txpc' = [txpc EXCEPT ![c] = "free"]
      /\ tmp2' = [tmp2 EXCEPT ![c] = IF K >= WINDOW_TX THEN buffer[at] ELSE NULL]
      /\ UNCHANGED <<seq, timer, freed, txn, sent, dackVars, resentAt>>
      /\ \/ buffer' = [buffer EXCEPT ![at] = K] /\ missing' = missing
         \/ missing' = missing \cup {K} /\ buffer' = buffer
  BY DEF TxStore
<1>2. K \in Frame /\ K \in Nat /\ K = seq - 1 /\ K < seq  BY <1>1, Slots DEF SenderInv, TypeOK, TxSound
<1>3. at \in Slot /\ at \in Nat /\ at < WINDOW_TX  BY <1>2, Slots
<1>4. txpc'[c] = "free" /\ \A d \in Callers : d = c
  BY <1>1 DEF SenderInv, TypeOK, OneCaller
<1>5. Kept = K /\ Kept' = K + 1
  <2>1. Kept = seq - 1  BY <1>1 DEF Kept
  <2>2. Kept' = seq  BY <1>1, <1>4 DEF Kept
  <2>3. seq \in Nat  BY Pointers DEF SenderInv, TypeOK
  <2> HIDE DEF K
  <2>4. QED  BY <1>2, <2>1, <2>2, <2>3
<1>6. \A n \in Frame : n % WINDOW_TX = at /\ n < K => n + WINDOW_TX <= K
  BY <1>2, Slots
<1> HIDE DEF K, at
<1>19. WINDOW_TX \in Nat /\ WINDOW_TX > 0  BY Slots
<1>18. \A n \in Frame : n \in Nat /\ (n < K => n < K + 1)  BY <1>2, Slots
<1>7. \/ buffer'[at] = K /\ missing' = missing
      \/ missing' = missing \cup {K} /\ buffer' = buffer
  BY <1>1, <1>3 DEF SenderInv, TypeOK
<1>8. /\ \A s \in Slot \ {at} : buffer'[s] = buffer[s]
      /\ buffer' \in [Slot -> Frame \cup {NULL, Junk}] /\ missing \subseteq missing'
  BY <1>1, <1>2, <1>3 DEF SenderInv, TypeOK
<1>9. \A d \in Callers : tmp2'[d] = IF K >= WINDOW_TX THEN buffer[at] ELSE NULL
  BY <1>1, <1>4 DEF SenderInv, TypeOK
<1>10. K % WINDOW_TX = at  BY DEF at
<1>11. TypeOK'
  <2>1. buffer[at] \in Frame \cup {NULL, Junk}  BY <1>3 DEF SenderInv, TypeOK
  <2>2. tmp2' \in [Callers -> Frame \cup {NULL, Junk}]  BY <1>1, <2>1 DEF SenderInv, TypeOK
  <2>3. txpc' \in [Callers -> {"idle", "timer", "copy", "free", "enqueue"}]
    BY <1>1 DEF SenderInv, TypeOK
  <2>4. QED  BY <1>1, <1>8, <2>2, <2>3 DEF SenderInv, TypeOK, dackVars
<1>12. TxSound'
  <2>1. /\ \A d \in Callers : txpc'[d] = "free" /\ txn'[d] = seq' - 1
        /\ \A n \in sent \cup missing : n \in Frame /\ n < K
    BY <1>1, <1>2, <1>4, <1>5 DEF SenderInv, TxSound, K
  <2>2. K < K + 1  BY <1>2
  <2>3. \A n \in sent' \cup missing' : n \in Frame /\ n < K + 1
    BY <1>1, <1>2, <1>7, <1>18, <2>1, <2>2
  <2>4. QED  BY <1>5, <2>1, <2>3 DEF TxSound
\* What the slot had before.
<1>13. ASSUME buffer[at] \in Frame
       PROVE  /\ buffer[at] % WINDOW_TX = at /\ buffer[at] + WINDOW_TX <= K
              /\ buffer[at] + WINDOW_TX = K \/ buffer[at] + WINDOW_TX \in missing
  <2> DEFINE n == buffer[at]
  <2>1. n \in Nat /\ n % WINDOW_TX = at /\ n < K
    BY <1>3, <1>5, <1>13, Slots DEF SenderInv, SlotsSound
  <2>2. n + WINDOW_TX <= K  BY <1>6, <1>13, <2>1
  <2>3. (n + WINDOW_TX) % WINDOW_TX = at /\ n < n + WINDOW_TX /\ n + WINDOW_TX \in Frame
    BY <1>2, <2>1, <2>2, Slots, Pointers
  <2>4. n + WINDOW_TX < K => n + WINDOW_TX \in missing
    BY <1>3, <1>5, <1>13, <2>3 DEF SenderInv, SlotsSound
  <2> HIDE DEF n
  <2>5. n + WINDOW_TX = K \/ n + WINDOW_TX < K  BY <1>19, <1>2, <2>1, <2>2
  <2>6. QED  BY <2>1, <2>2, <2>4, <2>5 DEF n
<1>14. SlotsSound'
  <2>1. ASSUME NEW n \in Frame, n < Kept', n \notin missing', Kept' <= n + WINDOW_TX
        PROVE  buffer'[n % WINDOW_TX] = n
    <3>1. CASE n = K  BY <3>1, <2>1, <1>7, <1>10
    <3>2. CASE n # K
      <4>1. n \in Nat /\ n < K /\ K <= n + WINDOW_TX /\ ~(n + WINDOW_TX <= K)
        BY <1>2, <1>5, <2>1, <3>2, Slots
      <4>2. n % WINDOW_TX \in Slot \ {at}  BY <1>6, <4>1, Slots
      <4>3. buffer[n % WINDOW_TX] = n
        BY <1>5, <1>8, <2>1, <4>1 DEF SenderInv, SlotsSound
      <4>4. QED  BY <1>8, <4>2, <4>3
    <3>3. QED  BY <3>1, <3>2
  <2>2. ASSUME NEW s \in Slot, buffer'[s] \in Frame
        PROVE  /\ buffer'[s] % WINDOW_TX = s /\ buffer'[s] < Kept'
               /\ \A m \in Frame : m % WINDOW_TX = s /\ buffer'[s] < m /\ m < Kept' => m \in missing'
    <3>1. CASE buffer'[s] = K /\ s = at
      BY <3>1, <1>2, <1>5, <1>10, Slots
    <3>2. CASE buffer'[s] = buffer[s] /\ (s # at \/ K \in missing')
      <4>1. /\ buffer[s] % WINDOW_TX = s /\ buffer[s] < K
            /\ \A m \in Frame : m % WINDOW_TX = s /\ buffer[s] < m /\ m < K => m \in missing
        BY <3>2, <2>2, <1>5 DEF SenderInv, SlotsSound
      <4>2. ASSUME NEW m \in Frame, m % WINDOW_TX = s, buffer[s] < m, m < K + 1
            PROVE  m \in missing'
        <5>1. CASE m = K  BY <5>1, <3>2, <4>2, <1>10
        <5>2. CASE m # K
          <6>1. m < K  BY <1>2, <4>2, <5>2, Slots
          <6>2. QED  BY <4>1, <4>2, <6>1, <1>8
        <5>3. QED  BY <5>1, <5>2
      <4>3. buffer[s] < K + 1  BY <1>18, <3>2, <2>2, <4>1
      <4>4. QED  BY <1>5, <3>2, <4>1, <4>2, <4>3
    <3>3. QED  BY <1>7, <1>8, <3>1, <3>2
  <2>3. ASSUME NEW s \in Slot, s < Kept', s \notin missing' PROVE buffer'[s] \in Frame
    <3>1. CASE s = at /\ buffer'[at] = K  BY <3>1, <1>2
    <3>2. CASE buffer'[s] = buffer[s] /\ s # K
      <4>1. s < Kept  BY <3>2, <2>3, <1>2, <1>5, Slots
      <4>2. QED  BY <3>2, <4>1, <2>3, <1>8 DEF SenderInv, SlotsSound
    <3>3. s = K => s = at  BY <1>10, Slots
    <3>4. QED  BY <1>7, <1>8, <2>3, <3>1, <3>2, <3>3
  <2>4. QED  BY <2>1, <2>2, <2>3 DEF SlotsSound
<1>15. FreesSound'
  <2>1. \A n \in freed' \cap Frame : n + WINDOW_TX < Kept'
    <3>1. \A n \in freed \cap Frame : n + WINDOW_TX < K  BY <1>5 DEF SenderInv, FreesSound
    <3>2. \A n \in Frame : n + WINDOW_TX < K => n + WINDOW_TX < K + 1  BY <1>2, Slots
    <3>3. QED  BY <1>1, <1>5, <3>1, <3>2
  <2>2. ASSUME NEW n \in freed' \cap Frame, n + WINDOW_TX \notin missing', NEW d \in Callers,
               tmp2'[d] = n
        PROVE  FALSE
    <3>1. buffer[at] = n  BY <1>9, <2>2, Pointers
    <3>2. n + WINDOW_TX = K  BY <1>8, <1>13, <2>2, <3>1
    <3>3. n + WINDOW_TX < K  BY <1>1, <1>5 DEF SenderInv, FreesSound
    <3>4. QED  BY <1>2, <3>2, <3>3
  <2>3. ASSUME NEW d \in Callers, tmp2'[d] \in Frame
        PROVE  /\ tmp2'[d] + WINDOW_TX < Kept'
               /\ \/ tmp2'[d] + WINDOW_TX \in missing'
                  \/ buffer'[tmp2'[d] % WINDOW_TX] # tmp2'[d]
    <3> DEFINE n == buffer[at]
    <3>1. tmp2'[d] = n /\ n \in Frame  BY <1>9, <2>3, Pointers
    <3>2. n % WINDOW_TX = at /\ n + WINDOW_TX <= K
          /\ (n + WINDOW_TX = K \/ n + WINDOW_TX \in missing)
      BY <1>13, <3>1
    <3> HIDE DEF n
    <3>3. n + WINDOW_TX < K + 1 /\ n # K  BY <1>19, <1>18, <1>2, <3>1, <3>2
    <3>4. QED  BY <1>5, <1>7, <1>8, <3>1, <3>2, <3>3
  <2>4. Junk \in freed' \/ (\E d \in Callers : tmp2'[d] = Junk)
          => \E n \in missing' : n < WINDOW_TX
    <3>1. CASE Junk \in freed'  BY <3>1, <1>1, <1>8 DEF SenderInv, FreesSound
    <3>2. ASSUME NEW d \in Callers, tmp2'[d] = Junk PROVE at \in missing'
      <4>1. buffer[at] = Junk /\ K >= WINDOW_TX  BY <1>9, <3>2, Pointers
      <4>2. at < Kept  BY <1>2, <1>3, <1>5, <4>1, Slots
      <4>3. QED  BY <1>3, <1>8, <4>1, <4>2, Pointers DEF SenderInv, SlotsSound
    <3>3. QED  BY <1>3, <3>1, <3>2
  <2>5. QED  BY <2>1, <2>2, <2>3, <2>4 DEF FreesSound
<1>16. WalkSound' /\ CopiesSound' /\ ResendSound'
  <2>1. Kept \in Nat /\ Kept' \in Nat /\ Kept <= Kept'  BY <1>2, <1>5
  <2>2. QED  BY <1>1, <1>8, <2>1, TxKeeps
<1>17. QED  BY <1>5, <1>11, <1>12, <1>14, <1>15, <1>16 DEF SenderInv

----------------------------------------------------------------------------
(* vmac_rx, step by step.                                                  *)

(* The frame the walk is at was asked for, and has been stored.            *)
LEMMA Here ==
  ASSUME TypeOK, WalkSound, Kept \in Nat, dpc # "idle", le < dack.holes[hole].re
  PROVE  /\ le \in Asked /\ le \in Frame /\ le \in Nat /\ le < Kept
         /\ slot \in Slot /\ slot < Kept /\ slot = le % WINDOW_TX
<1>1. PICK k \in 1..MaxHoles : dack.holes \in [1..k -> [le : Frame, re : Frame]]
  BY DEF WalkSound
<1>2. hole \in 1..k /\ DOMAIN dack.holes = 1..k  BY <1>1 DEF WalkSound
<1> DEFINE h == dack.holes[hole]
<1>3. h.le \in Frame /\ h.re \in Frame /\ h.re < Kept /\ h.le <= le
  BY <1>1, <1>2 DEF WalkSound
<1>4. le \in Nat  BY Pointers DEF TypeOK
<1>5. h.le \in Nat /\ h.re \in Nat  BY <1>3, Slots
<1> HIDE DEF h
<1>6. le < h.re  BY DEF h
<1>7. le \in h.le .. h.re - 1  BY <1>3, <1>4, <1>5, <1>6
<1>8. le \in Asked  BY <1>2, <1>7 DEF Asked, h
<1>9. le < Kept  BY <1>3, <1>4, <1>5, <1>6
<1>10. le \in Frame  BY <1>3, <1>4, <1>5, <1>6, Pointers
<1>11. slot = le % WINDOW_TX  BY DEF slot
<1>12. slot \in Slot /\ slot <= le /\ slot \in Nat  BY <1>4, <1>11, Slots
<1>13. slot < Kept  BY <1>4, <1>9, <1>12
<1>14. QED  BY <1>4, <1>8, <1>9, <1>10, <1>11, <1>12, <1>13

(* The newest frame that left is one that left.                            *)
LEMMA NewestSent ==
  ASSUME TypeOK, sent # {}
  PROVE  Newest \in sent
<1>1. sent \subseteq Nat /\ sent \subseteq 0..MaxSeq - 1 /\ MaxSeq \in Nat  BY Pointers DEF TypeOK
<1> DEFINE Below == {MaxSeq - n : n \in sent}
<1>2. Below \subseteq Nat /\ Below # {}  BY <1>1
<1>3. PICK x \in Below : \A y \in Below : ~(<<y, x>> \in OpToRel(<, Nat))
  BY <1>2, WFMin, NatLessThanWellFounded
<1>4. PICK n \in sent : x = MaxSeq - n  OBVIOUS
<1>5. \A m \in sent : m <= n
  <2>1. SUFFICES ASSUME NEW m \in sent, ~(m <= n) PROVE FALSE  OBVIOUS
  <2>2. m \in 0..MaxSeq - 1 /\ n \in 0..MaxSeq - 1  BY <1>1
  <2>3. MaxSeq - m \in Below /\ MaxSeq - m < MaxSeq - n /\ MaxSeq - m \in Nat /\ MaxSeq - n \in Nat
    BY <1>1, <2>1, <2>2
  <2>4. <<MaxSeq - m, MaxSeq - n>> \in OpToRel(<, Nat)  BY <2>3 DEF OpToRel
  <2>5. QED  BY <1>3, <1>4, <2>3, <2>4
<1>6. QED  BY <1>5 DEF Newest

LEMMA BeginStep ==
  ASSUME OneCaller, SenderInv, DackBegin
  PROVE  SenderInv' /\ Kept' = Kept
<1>1. PICK r \in 1..MaxRound, hs \in HoleLists :
        dack' = [round |-> r, holes |-> hs] /\ le' = hs[1].le
  BY DEF DackBegin
<1>2. /\ dpc = "idle" /\ dseq' = seq /\ dpc' = "walk"
      /\ UNCHANGED <<seq, buffer, timer, freed, txVars, hole, counter, src, skb2,
                     what, queued, twice, missing, resentAt>>
  BY DEF DackBegin
<1>3. PICK k \in 1..MaxHoles : hs \in [1..k -> Hole]  BY DEF HoleLists
<1>4. \A h \in Hole : h.le \in Frame /\ h.re \in Frame /\ h.re < Kept /\ h.le <= h.re
  <2>1. CASE sent = {}
    <3>1. Hole = {}  BY <2>1 DEF Hole, Newest
    <3>2. QED  BY <3>1
  <2>2. CASE sent # {}
    <3>1. Newest \in Frame /\ Newest < Kept  BY <2>2, NewestSent DEF SenderInv, TxSound
    <3>2. Kept \in Nat  BY KeptIs DEF SenderInv
    <3>3. QED  BY <3>1, <3>2, Pointers DEF Hole
  <2>3. QED  BY <2>1, <2>2
<1>5. Hole \subseteq [le : Frame, re : Frame]
  <2>1. \A h \in Hole : h \in [le : 0..Newest, re : 0..Newest]  BY DEF Hole
  <2>2. QED  BY <1>4, <2>1
<1>6. k \in Nat /\ 1 \in 1..k /\ DOMAIN hs = 1..k /\ hs[1] \in Hole  BY <1>3, SenderAssumption
<1>7. hs \in [1..k -> [le : Frame, re : Frame]]  BY <1>3, <1>5
<1>8. TypeOK'
  <2>1. le' \in 0..MaxSeq  BY <1>1, <1>4, <1>6, Pointers
  <2>2. QED  BY <1>2, <2>1 DEF SenderInv, TypeOK, txVars
<1>9. TxSound' /\ SlotsSound' /\ FreesSound' /\ Kept' = Kept  BY <1>2, DackKeeps
<1>10. /\ hole = 1 /\ counter = 0 /\ src = NULL /\ skb2 = NULL /\ what = <<>> /\ queued = {}
       /\ twice = {}
  BY <1>2 DEF SenderInv, WalkSound
<1>11. WalkSound'
  <2>1. dack'.round = r /\ dack'.holes = hs  BY <1>1
  <2>2. \A h \in DOMAIN hs : hs[h].re < Kept' /\ hs[h].le <= hs[h].re
    BY <1>3, <1>4, <1>6, <1>9
  <2>3. hs[1].le <= hs[1].le  BY <1>4, <1>6, Pointers
  <2>4. hole' = 1 /\ dpc' = "walk" /\ le' = hs[1].le  BY <1>1, <1>2, <1>10
  <2>5. QED  BY <1>4, <1>6, <1>7, <2>1, <2>2, <2>3, <2>4 DEF WalkSound
<1>12. Len(<<>>) = 0 /\ DOMAIN <<>> = {} /\ Cardinality({}) = 0  BY FS_EmptySet
<1>13. CopiesSound'  BY <1>2, <1>10, <1>12 DEF CopiesSound
<1>14. ResendSound'
  BY <1>2, <1>10, <1>12, SenderAssumption DEF ResendSound
<1>15. QED  BY <1>8, <1>9, <1>11, <1>13, <1>14 DEF SenderInv

(* The walk goes on, to the next place, to the next hole, or ends.         *)
LEMMA SkipStep ==
  ASSUME OneCaller, SenderInv, DackSkip
  PROVE  SenderInv' /\ Kept' = Kept
<1>1. /\ dpc = "walk" /\ InHole /\ le' = le + 1
      /\ UNCHANGED <<seq, buffer, timer, freed, txVars, dpc, dack, dseq, hole, counter,
                     src, skb2, what, queued, twice, missing, resentAt>>
  BY DEF DackSkip
<1>2. le < dack.holes[hole].re  BY <1>1 DEF InHole
<1>3. Kept \in Nat  BY KeptIs DEF SenderInv
<1>4. le \in Frame /\ le \in Nat  BY <1>1, <1>2, <1>3, Here DEF SenderInv
<1>5. TypeOK'
  <2>1. le + 1 \in 0..MaxSeq  BY <1>4, Pointers
  <2>2. QED  BY <1>1, <2>1 DEF SenderInv, TypeOK, txVars
<1>6. TxSound' /\ SlotsSound' /\ FreesSound' /\ Kept' = Kept  BY <1>1, DackKeeps
<1>7. WalkSound'
  <2>1. PICK k \in 1..MaxHoles : dack.holes \in [1..k -> [le : Frame, re : Frame]]
    BY <1>1 DEF SenderInv, WalkSound
  <2>2. hole \in 1..k  BY <1>1, <2>1 DEF SenderInv, WalkSound
  <2>3. dack.holes[hole].le \in Nat /\ dack.holes[hole].re \in Nat  BY <2>1, <2>2, Slots
  <2>4. dack.holes[hole].le <= le + 1 /\ le + 1 <= dack.holes[hole].re
    BY <1>1, <1>2, <1>4, <2>3 DEF SenderInv, WalkSound
  <2>5. QED  BY <1>1, <1>6, <2>4 DEF SenderInv, WalkSound
<1>8. CopiesSound'  BY <1>1, <1>6 DEF SenderInv, CopiesSound
<1>9. ResendSound'  BY <1>1 DEF SenderInv, ResendSound, Asked
<1>10. QED  BY <1>5, <1>6, <1>7, <1>8, <1>9 DEF SenderInv

LEMMA NextHoleStep ==
  ASSUME OneCaller, SenderInv, DackNextHole
  PROVE  SenderInv' /\ Kept' = Kept
<1>1. /\ dpc = "walk" /\ hole < Len(dack.holes) /\ hole' = hole + 1
      /\ le' = dack.holes[hole + 1].le
      /\ UNCHANGED <<seq, buffer, timer, freed, txVars, dpc, dack, dseq, counter,
                     src, skb2, what, queued, twice, missing, resentAt>>
  BY DEF DackNextHole, HoleDone
<1>2. PICK k \in 1..MaxHoles : dack.holes \in [1..k -> [le : Frame, re : Frame]]
  BY <1>1 DEF SenderInv, WalkSound
<1>3. k \in Nat /\ DOMAIN dack.holes = 1..k /\ Len(dack.holes) = k
  <2>1. k \in Nat /\ DOMAIN dack.holes = 1..k  BY <1>2, SenderAssumption
  <2>2. dack.holes \in Seq([le : Frame, re : Frame])  BY <1>2, <2>1, SeqDef
  <2>3. QED  BY <2>1, <2>2, LenProperties
<1>4. hole \in 1..k  BY <1>1, <1>3 DEF SenderInv, WalkSound
<1>5. hole + 1 \in 1..k  BY <1>1, <1>3, <1>4
<1>6. /\ dack.holes[hole + 1].le \in Frame /\ dack.holes[hole + 1].re \in Frame
      /\ dack.holes[hole + 1].le <= dack.holes[hole + 1].re
  BY <1>1, <1>2, <1>3, <1>5 DEF SenderInv, WalkSound
<1>7. TypeOK'
  <2>1. le' \in 0..MaxSeq  BY <1>1, <1>6, Pointers
  <2>2. hole' \in 1..MaxHoles  BY <1>1, <1>5, SenderAssumption
  <2>3. QED  BY <1>1, <2>1, <2>2 DEF SenderInv, TypeOK, txVars
<1>8. TxSound' /\ SlotsSound' /\ FreesSound' /\ Kept' = Kept  BY <1>1, DackKeeps
<1>9. WalkSound'
  <2>1. dack.holes[hole + 1].le <= dack.holes[hole + 1].le  BY <1>6, Pointers
  <2>2. QED  BY <1>1, <1>3, <1>5, <1>6, <1>8, <2>1 DEF SenderInv, WalkSound
<1>10. CopiesSound'  BY <1>1, <1>8 DEF SenderInv, CopiesSound
<1>11. ResendSound'  BY <1>1 DEF SenderInv, ResendSound, Asked
<1>12. QED  BY <1>7, <1>8, <1>9, <1>10, <1>11 DEF SenderInv

LEMMA EndStep ==
  ASSUME OneCaller, SenderInv, DackEnd
  PROVE  SenderInv' /\ Kept' = Kept
<1>1. /\ dpc' = "idle" /\ dack' = NoDack /\ dseq' = 0 /\ hole' = 1 /\ le' = 0 /\ counter' = 0
      /\ src' = NULL /\ skb2' = NULL /\ what' = <<>> /\ queued' = {} /\ twice' = {}
      /\ UNCHANGED <<seq, buffer, timer, freed, txVars, missing, resentAt>>
  BY DEF DackEnd
<1>2. TypeOK'
  <2>1. 0 \in 0..MaxSeq /\ 1 \in 1..MaxHoles /\ 0 \in 0..MaxRetx  BY SenderAssumption
  <2>2. <<>> \in Seq(Frame \cup {NULL, Junk})  OBVIOUS
  <2>3. QED  BY <1>1, <2>1, <2>2 DEF SenderInv, TypeOK, txVars
<1>3. TxSound' /\ SlotsSound' /\ FreesSound' /\ Kept' = Kept  BY <1>1, DackKeeps
<1>4. Len(<<>>) = 0 /\ DOMAIN <<>> = {} /\ Cardinality({}) = 0  BY FS_EmptySet
<1>5. WalkSound' /\ CopiesSound'  BY <1>1, <1>4 DEF WalkSound, CopiesSound
<1>6. ResendSound'  BY <1>1, <1>4, SenderAssumption DEF ResendSound
<1>7. QED  BY <1>2, <1>3, <1>5, <1>6 DEF SenderInv

(* What the slot of the walk's place has: the frame asked for, or the one  *)
(* that took its place, or, where a copy failed, what was there before.    *)
LEMMA InSlot ==
  ASSUME SenderInv, Kept \in Nat, dpc # "idle", le < dack.holes[hole].re
  PROVE  /\ buffer[slot] \notin Frame => slot \in missing
         /\ buffer[slot] \in Frame => /\ buffer[slot] % WINDOW_TX = slot /\ buffer[slot] < Kept
                                      /\ buffer[slot] >= le \/ le \in missing
<1>1. /\ le \in Frame /\ le \in Nat /\ le < Kept
      /\ slot \in Slot /\ slot < Kept /\ slot = le % WINDOW_TX
  BY Here DEF SenderInv
<1>2. buffer[slot] \notin Frame => slot \in missing  BY <1>1 DEF SenderInv, SlotsSound
<1>3. ASSUME buffer[slot] \in Frame
      PROVE  /\ buffer[slot] % WINDOW_TX = slot /\ buffer[slot] < Kept
             /\ buffer[slot] >= le \/ le \in missing
  <2>1. /\ buffer[slot] % WINDOW_TX = slot /\ buffer[slot] < Kept
        /\ buffer[slot] < le => le \in missing
    BY <1>1, <1>3 DEF SenderInv, SlotsSound
  <2>2. buffer[slot] \in Nat  BY <1>3, Slots
  <2>3. buffer[slot] < le \/ buffer[slot] >= le  BY <1>1, <2>2
  <2>4. QED  BY <2>1, <2>3
<1>4. QED  BY <1>2, <1>3

LEMMA TestStep ==
  ASSUME OneCaller, SenderInv, DackTest
  PROVE  SenderInv' /\ Kept' = Kept
<1>1. /\ dpc = "walk" /\ InHole /\ counter < MaxRetx
      /\ IF SlotTest THEN dpc' = "copy" /\ src' = buffer[slot]
                     ELSE dpc' = "mark" /\ src' = src
      /\ UNCHANGED <<seq, buffer, timer, freed, txVars, dack, dseq, hole, le, counter,
                     skb2, what, queued, twice, missing, resentAt>>
  BY DEF DackTest, Ready
<1>2. le < dack.holes[hole].re  BY <1>1 DEF InHole
<1>3. Kept \in Nat  BY KeptIs DEF SenderInv
<1>4. slot \in Slot /\ slot' = slot  BY <1>1, <1>2, <1>3, Here DEF SenderInv, slot
<1>5. TypeOK'
  <2>1. src' \in Frame \cup {NULL, Junk}  BY <1>1, <1>4 DEF SenderInv, TypeOK
  <2>2. dpc' \in {"idle", "walk", "copy", "mark"}  BY <1>1
  <2>3. QED  BY <1>1, <2>1, <2>2 DEF SenderInv, TypeOK, txVars
<1>6. TxSound' /\ SlotsSound' /\ FreesSound' /\ Kept' = Kept  BY <1>1, DackKeeps
<1>7. WalkSound'
  <2>1. dpc' # "idle" /\ UNCHANGED <<dack, hole, le>>  BY <1>1
  <2>2. QED  BY <1>1, <1>2, <1>6, <2>1 DEF SenderInv, WalkSound
<1>8. CopiesSound'
  <2>1. dpc' = "mark" => le = WINDOW_TX \/ slot \in missing
    <3>1. dpc' = "mark" => ~SlotTest  BY <1>1
    <3>2. ~SlotTest => le = WINDOW_TX \/ buffer[slot] = NULL  BY DEF SlotTest
    <3>3. buffer[slot] = NULL => slot \in missing
      BY <1>1, <1>2, <1>3, InSlot, Pointers
    <3>4. QED  BY <3>1, <3>2, <3>3
  <2>2. skb2 # NULL => skb2 \in queued  BY <1>1 DEF SenderInv, CopiesSound
  <2>3. dpc' = "copy" =>
          /\ src' \notin Frame => slot \in missing
          /\ src' \in Frame => /\ src' % WINDOW_TX = slot /\ src' < Kept
                               /\ src' >= le \/ le \in missing
    BY <1>1, <1>2, <1>3, InSlot
  <2>4. Len(what) = counter /\ queued \subseteq 1..counter
        /\ \A k \in DOMAIN what : what[k] \in Frame => what[k] < Kept
    BY DEF SenderInv, CopiesSound
  <2>5. QED  BY <1>1, <1>4, <1>6, <2>1, <2>2, <2>3, <2>4 DEF CopiesSound
<1>9. ResendSound'  BY <1>1 DEF SenderInv, ResendSound, Asked
<1>10. QED  BY <1>5, <1>6, <1>7, <1>8, <1>9 DEF SenderInv

LEMMA CopyStep ==
  ASSUME OneCaller, SenderInv, DackCopy
  PROVE  SenderInv' /\ Kept' = Kept
<1>1. /\ dpc = "copy" /\ counter' = counter + 1 /\ what' = Append(what, src)
      /\ skb2' = counter + 1 \/ skb2' = NULL
      /\ src' = NULL /\ dpc' = "mark"
      /\ UNCHANGED <<seq, buffer, timer, freed, txVars, dack, dseq, hole, le,
                     queued, twice, missing, resentAt>>
  BY DEF DackCopy
<1>2. le < dack.holes[hole].re  BY <1>1 DEF SenderInv, WalkSound
<1>3. Kept \in Nat  BY KeptIs DEF SenderInv
<1>4. /\ le \in Asked /\ le \in Nat /\ slot = le % WINDOW_TX /\ slot' = slot /\ Asked' = Asked
  BY <1>1, <1>2, <1>3, Here DEF SenderInv, slot, Asked
<1>5. /\ counter \in Nat /\ counter < MaxRetx /\ MaxRetx \in Nat /\ Len(what) = counter
      /\ queued \subseteq 1..counter
      /\ src \in Frame => /\ src % WINDOW_TX = slot /\ src < Kept
                          /\ src >= le \/ le \in missing
  BY <1>1, SenderAssumption DEF SenderInv, TypeOK, CopiesSound
<1>6. what \in Seq(Frame \cup {NULL, Junk}) /\ src \in Frame \cup {NULL, Junk}
  BY DEF SenderInv, TypeOK
<1>7. /\ what' \in Seq(Frame \cup {NULL, Junk}) /\ Len(what') = counter + 1
      /\ \A k \in DOMAIN what' : (k \in DOMAIN what /\ what'[k] = what[k]) \/ what'[k] = src
  BY <1>1, <1>5, <1>6, AppendProperties, LenProperties
<1>8. counter + 1 \in Id /\ counter + 1 \in 0..MaxRetx  BY <1>5 DEF Id
<1>9. TypeOK'  BY <1>1, <1>7, <1>8 DEF SenderInv, TypeOK, txVars
<1>10. TxSound' /\ SlotsSound' /\ FreesSound' /\ Kept' = Kept  BY <1>1, DackKeeps
<1>11. WalkSound'
  <2>1. dpc # "idle" /\ dpc' = "mark" /\ UNCHANGED <<dack, hole, le>>  BY <1>1
  <2>2. QED  BY <1>2, <1>10, <2>1 DEF SenderInv, WalkSound
<1>12. CopiesSound'
  <2>1. skb2' \notin queued
    <3>1. counter + 1 \notin 1..counter  BY <1>5
    <3>2. NULL \notin queued  BY Pointers DEF SenderInv, TypeOK
    <3>3. QED  BY <1>1, <1>5, <3>1, <3>2
  <2>2. \A k \in DOMAIN what' : what'[k] \in Frame => what'[k] < Kept
    BY <1>5, <1>7 DEF SenderInv, CopiesSound
  <2>3. queued \subseteq 1..counter + 1  BY <1>5
  <2>4. QED  BY <1>1, <1>7, <1>10, <2>1, <2>2, <2>3 DEF CopiesSound
<1>13. ResendSound'
  <2>1. ASSUME NEW k \in DOMAIN what', what'[k] \in Frame
        PROVE  \E n \in Asked : /\ (what'[k] - n) % WINDOW_TX = 0
                                /\ what'[k] >= n \/ n \in missing
    <3>1. CASE k \in DOMAIN what /\ what'[k] = what[k]
      BY <2>1, <3>1 DEF SenderInv, ResendSound
    <3>2. CASE what'[k] = src
      <4>1. src \in Nat /\ src % WINDOW_TX = le % WINDOW_TX /\ (src >= le \/ le \in missing)
        BY <1>4, <1>5, <2>1, <3>2, Slots
      <4>2. (src - le) % WINDOW_TX = 0  BY <1>4, <4>1, Slots
      <4>3. QED  BY <1>4, <3>2, <4>1, <4>2
    <3>3. QED  BY <1>7, <3>1, <3>2
  <2>2. Len(what') <= MaxRetx  BY <1>5, <1>7
  <2>3. Cardinality(queued) <= MaxRetx /\ (twice # {} => WINDOW_TX \in Asked
                                             \/ \E n \in Asked : n % WINDOW_TX \in missing)
    BY DEF SenderInv, ResendSound
  <2>4. QED  BY <1>1, <1>4, <2>1, <2>2, <2>3 DEF ResendSound
<1>14. QED  BY <1>9, <1>10, <1>11, <1>12, <1>13 DEF SenderInv

LEMMA MarkStep ==
  ASSUME OneCaller, SenderInv, DackMark
  PROVE  SenderInv' /\ Kept' = Kept
<1>1. /\ dpc = "mark" /\ le' = le + 1 /\ dpc' = "walk"
      /\ timer' = [timer EXCEPT ![slot] = (dack.round + Pace) % TimerMod]
      /\ IF skb2 # NULL
           THEN /\ queued' = queued \cup {skb2}
                /\ twice' = twice \cup ({skb2} \cap queued)
                /\ resentAt' = IF what[skb2] \in Frame
                                 THEN [resentAt EXCEPT ![what[skb2]] = dack.round]
                                 ELSE resentAt
           ELSE UNCHANGED <<queued, twice, resentAt>>
      /\ UNCHANGED <<seq, buffer, freed, txVars, dack, dseq, hole, counter, src, skb2, what,
                     missing>>
  BY DEF DackMark
<1>2. le < dack.holes[hole].re /\ dack.round \in 1..MaxRound
  BY <1>1 DEF SenderInv, WalkSound
<1>3. Kept \in Nat  BY KeptIs DEF SenderInv
<1>4. le \in Asked /\ le \in Frame /\ le \in Nat /\ slot = le % WINDOW_TX /\ Asked' = Asked
  BY <1>1, <1>2, <1>3, Here DEF SenderInv, Asked
<1>5. /\ counter \in Nat /\ queued \subseteq 1..counter /\ Len(what) = counter
      /\ skb2 # NULL => skb2 \in 1..counter /\ skb2 \in Id
  <2>1. counter \in Nat  BY SenderAssumption DEF SenderInv, TypeOK
  <2>2. queued \subseteq 1..counter /\ Len(what) = counter
        /\ (skb2 # NULL => skb2 \in queued \/ skb2 = counter)
    BY DEF SenderInv, CopiesSound
  <2>3. skb2 # NULL => skb2 \in Id  BY DEF SenderInv, TypeOK
  <2>4. skb2 \in Id /\ skb2 = counter => skb2 \in 1..counter  BY <2>1, SenderAssumption DEF Id
  <2>5. QED  BY <2>1, <2>2, <2>3, <2>4
<1>6. queued' \subseteq Id /\ twice' \subseteq queued' /\ queued' \subseteq 1..counter
  BY <1>1, <1>5 DEF SenderInv, TypeOK
<1>7. TypeOK'
  <2>1. (dack.round + Pace) % TimerMod \in 0..TimerMod - 1
    BY <1>2, SenderAssumption
  <2>2. timer' \in [Slot -> 0..TimerMod - 1]  BY <1>1, <2>1 DEF SenderInv, TypeOK
  <2>3. resentAt' \in [Frame -> {Never} \cup 1..MaxRound]
    BY <1>1, <1>2 DEF SenderInv, TypeOK
  <2>4. le + 1 \in 0..MaxSeq  BY <1>4, Pointers
  <2>5. QED  BY <1>1, <1>6, <2>2, <2>3, <2>4 DEF SenderInv, TypeOK, txVars
<1>8. TxSound' /\ SlotsSound' /\ FreesSound' /\ Kept' = Kept  BY <1>1, DackKeeps
<1>9. WalkSound'
  <2>1. PICK k \in 1..MaxHoles : dack.holes \in [1..k -> [le : Frame, re : Frame]]
    BY <1>1 DEF SenderInv, WalkSound
  <2>2. hole \in 1..k  BY <1>1, <2>1 DEF SenderInv, WalkSound
  <2>3. dack.holes[hole].le \in Nat /\ dack.holes[hole].re \in Nat  BY <2>1, <2>2, Slots
  <2>4. dack.holes[hole].le <= le + 1 /\ le + 1 <= dack.holes[hole].re
    BY <1>1, <1>2, <1>4, <2>3 DEF SenderInv, WalkSound
  <2>5. dpc # "idle" /\ dpc' = "walk" /\ le' = le + 1 /\ UNCHANGED <<dack, hole>>  BY <1>1
  <2>6. QED  BY <1>8, <2>4, <2>5 DEF SenderInv, WalkSound
<1>10. CopiesSound'
  <2>1. skb2 # NULL => skb2 \in queued'  BY <1>1
  <2>2. dpc' = "walk" /\ UNCHANGED <<counter, what, skb2, missing>>  BY <1>1
  <2>3. \A k \in DOMAIN what : what[k] \in Frame => what[k] < Kept
    BY DEF SenderInv, CopiesSound
  <2>4. QED  BY <1>5, <1>6, <1>8, <2>1, <2>2, <2>3 DEF CopiesSound
<1>11. ResendSound'
  <2>1. Cardinality(queued') <= MaxRetx
    <3>1. IsFiniteSet(Id) /\ Cardinality(Id) = MaxRetx
      <4>1. MaxRetx \in Nat /\ 1 \in Int /\ MaxRetx \in Int /\ MaxRetx - 1 + 1 = MaxRetx
        BY SenderAssumption
      <4>2. IsFiniteSet(1..MaxRetx)
            /\ Cardinality(1..MaxRetx) = IF 1 > MaxRetx THEN 0 ELSE MaxRetx - 1 + 1
        BY <4>1, FS_Interval
      <4>3. 1 > MaxRetx => MaxRetx = 0  BY <4>1
      <4>4. QED  BY <4>1, <4>2, <4>3 DEF Id
    <3>2. QED  BY <1>6, <3>1, FS_Subset
  <2>2. twice' # {} => WINDOW_TX \in Asked \/ \E n \in Asked : n % WINDOW_TX \in missing
    <3>1. CASE twice' = twice  BY <3>1 DEF SenderInv, ResendSound
    <3>2. CASE skb2 \in queued
      <4>1. le = WINDOW_TX \/ slot \in missing  BY <1>1, <3>2 DEF SenderInv, CopiesSound
      <4>2. QED  BY <1>4, <4>1
    <3>3. QED  BY <1>1, <3>1, <3>2
  <2>3. /\ \A k \in DOMAIN what : what[k] \in Frame => \E n \in Asked :
             /\ (what[k] - n) % WINDOW_TX = 0
             /\ what[k] >= n \/ n \in missing
        /\ Len(what) <= MaxRetx
    BY DEF SenderInv, ResendSound
  <2>4. UNCHANGED <<what, missing>>  BY <1>1
  <2>5. QED  BY <1>4, <2>1, <2>2, <2>3, <2>4 DEF ResendSound
<1>12. QED  BY <1>7, <1>8, <1>9, <1>10, <1>11 DEF SenderInv

----------------------------------------------------------------------------
LEMMA StutterSender ==
  ASSUME SenderInv, UNCHANGED vars
  PROVE  SenderInv' /\ Kept' = Kept
<1>1. UNCHANGED <<seq, buffer, timer, txpc, txn, tmp2, sent, freed, dpc, dack, dseq, hole,
                  le, counter, src, skb2, what, queued, twice, missing, resentAt>>
  BY DEF vars, txVars, dackVars
<1>2. TypeOK' /\ WalkSound'  BY <1>1 DEF SenderInv, TypeOK, WalkSound, Kept
<1>3. CopiesSound' /\ ResendSound'
  BY <1>1 DEF SenderInv, CopiesSound, ResendSound, Asked, slot, Kept
<1>4. TxSound' /\ SlotsSound' /\ FreesSound' /\ Kept' = Kept  BY <1>1, DackKeeps DEF txVars
<1>5. QED  BY <1>2, <1>3, <1>4 DEF SenderInv

LEMMA NextSender == ASSUME OneCaller, SenderInv, [Next]_vars PROVE SenderInv'
<1>1. CASE UNCHANGED vars  BY <1>1, StutterSender
<1>2. CASE Dack
  BY <1>2, BeginStep, SkipStep, NextHoleStep, EndStep, TestStep, CopyStep, MarkStep DEF Dack
<1>3. ASSUME NEW c \in Callers, Tx(c) PROVE SenderInv'
  BY <1>3, NumberStep, TimerStep, StoreStep, FreeStep, EnqueueStep DEF Tx
<1>4. QED  BY <1>1, <1>2, <1>3 DEF Next

LEMMA SenderInvariance == ASSUME OneCaller PROVE Spec => []SenderInv
<1>1. Init => SenderInv  BY InitSender
<1>2. SenderInv /\ [Next]_vars => SenderInv'  BY NextSender
<1>3. QED  BY <1>1, <1>2, PTL DEF Spec

(* The copies of a frame are in one place, or in two when its successor in *)
(* the slot failed.                                                        *)
LEMMA OneHolder ==
  ASSUME OneCaller, SenderInv, NEW n \in Frame, n + WINDOW_TX \notin missing
  PROVE  Cardinality(CopyHolders(n)) <= 1
<1>1. n \in Nat /\ n < n + WINDOW_TX /\ (n + WINDOW_TX) % WINDOW_TX = n % WINDOW_TX
  BY Slots
<1>2. \A s \in Slot : buffer[s] = n => s = n % WINDOW_TX  BY DEF SenderInv, SlotsSound
<1>3. ASSUME NEW s \in Slot, buffer[s] = n, n + WINDOW_TX < Kept PROVE FALSE
  <2>1. n + WINDOW_TX \in Frame
    <3>1. Kept \in Nat /\ Kept <= MaxSeq  BY KeptIs, Pointers DEF SenderInv, TypeOK
    <3>2. QED  BY <1>1, <1>3, <3>1, Slots, Pointers
  <2>2. n + WINDOW_TX \in missing  BY <1>1, <1>2, <1>3, <2>1 DEF SenderInv, SlotsSound
  <2>3. QED  BY <2>2
<1>4. \A s \in Slot : buffer[s] = n => n \notin freed
  BY <1>3 DEF SenderInv, FreesSound
<1>5. \A s \in Slot, c \in Callers : ~(buffer[s] = n /\ tmp2[c] = n)
  BY <1>2, <1>3 DEF SenderInv, FreesSound
<1>6. \A c \in Callers : tmp2[c] = n => n \notin freed  BY DEF SenderInv, FreesSound
<1>7. ASSUME NEW x \in CopyHolders(n), NEW y \in CopyHolders(n) PROVE x = y
  <2>1. \A z \in CopyHolders(n) :
          \/ \E s \in Slot : z = <<"slot", s>> /\ buffer[s] = n
          \/ \E c \in Callers : z = <<"caller", c>> /\ tmp2[c] = n
          \/ z = <<"freed", 0>> /\ n \in freed
    BY DEF CopyHolders
  <2>2. CASE \E s \in Slot : x = <<"slot", s>> /\ buffer[s] = n
    BY <2>1, <2>2, <1>2, <1>4, <1>5
  <2>3. CASE \E c \in Callers : x = <<"caller", c>> /\ tmp2[c] = n
    BY <2>1, <2>3, <1>5, <1>6 DEF OneCaller
  <2>4. CASE x = <<"freed", 0>> /\ n \in freed
    BY <2>1, <2>4, <1>4, <1>6
  <2>5. QED  BY <2>1, <2>2, <2>3, <2>4
<1>8. CASE CopyHolders(n) = {}
  <2>1. Cardinality({}) = 0  BY FS_EmptySet
  <2>2. QED  BY <1>8, <2>1
<1>9. CASE CopyHolders(n) # {}
  <2>1. PICK x : CopyHolders(n) = {x}  BY <1>7, <1>9
  <2>2. Cardinality({x}) = 1  BY FS_Singleton
  <2>3. QED  BY <2>1, <2>2
<1>10. QED  BY <1>8, <1>9

(* With one thread in vmac_tx the types of vmac.h:175-194 hold.            *)
THEOREM SenderTypeCorrect == ASSUME OneCaller PROVE Spec => []TypeOK
<1>1. SenderInv => TypeOK  BY DEF SenderInv
<1>2. QED  BY <1>1, SenderInvariance, PTL

(* With one thread in vmac_tx every frame that left and may be asked for is*)
(* in its slot; a copy is freed once, after its frame left the window, and *)
(* skb_copy reads slots that were written (tx.c:197-218, rx.c:352), for a  *)
(* buffer of any size and any stream.                                      *)
THEOREM BufferSoundHolds == ASSUME OneCaller PROVE Spec => []BufferSound
<1>1. ASSUME SenderInv PROVE BufferSound
  <2>1. Kept \in Nat /\ Kept <= seq /\ seq \in Nat
    BY <1>1, KeptIs, Pointers DEF SenderInv, TypeOK
  <2>2. ASSUME NEW n \in sent \ missing, InWindow(n) PROVE buffer[n % WINDOW_TX] = n
    <3>1. n \in Frame /\ n \in Nat /\ n < Kept  BY <1>1, Slots DEF SenderInv, TxSound
    <3>2. Kept <= n + WINDOW_TX  BY <2>1, <2>2, <3>1, Slots DEF InWindow
    <3>3. QED  BY <1>1, <3>1, <3>2 DEF SenderInv, SlotsSound
  <2>3. ASSUME NEW n \in freed \cap Frame PROVE ~InWindow(n)
    <3>1. n + WINDOW_TX < Kept /\ n \in Nat  BY <1>1, Slots DEF SenderInv, FreesSound
    <3>2. QED  BY <2>1, <3>1, Slots DEF InWindow
  <2>4. \A n \in Frame : n + WINDOW_TX \notin missing => Cardinality(CopyHolders(n)) <= 1
    BY <1>1, OneHolder
  <2>5. Junk \in freed => \E n \in missing : n < WINDOW_TX  BY <1>1 DEF SenderInv, FreesSound
  <2>6. dpc = "copy" => src \in Frame \/ slot \in missing  BY <1>1 DEF SenderInv, CopiesSound
  <2>7. QED  BY <2>2, <2>3, <2>4, <2>5, <2>6 DEF BufferSound
<1>2. QED  BY <1>1, SenderInvariance, PTL

(* With one thread in vmac_tx what is resent was asked for, or has its     *)
(* slot, and a DACK leads to at most MaxRetx copies, each queued once but  *)
(* for the known exceptions (rx.c:344-366).                                *)
THEOREM ResendSoundHolds == ASSUME OneCaller PROVE Spec => []ResendSound
<1>1. SenderInv => ResendSound  BY DEF SenderInv
<1>2. QED  BY <1>1, SenderInvariance, PTL

(* With one thread in vmac_tx no step loses the last pointer to a copy     *)
(* (tx.c:200-213).                                                         *)
THEOREM NoCopyForgottenHolds == ASSUME OneCaller PROVE Spec => NoCopyForgotten
<1> DEFINE Keeps == \A n \in Frame : CopyHolders(n) # {} => CopyHolders(n)' # {}
<1>1. ASSUME SenderInv, [Next]_vars PROVE [Keeps]_vars
  <2>1. CASE UNCHANGED <<buffer, tmp2, freed>>  BY <2>1 DEF CopyHolders
  <2>2. CASE UNCHANGED vars  BY <2>2
  <2>3. CASE Dack
    <3>1. UNCHANGED <<buffer, tmp2, freed>>
      BY <2>3 DEF Dack, DackBegin, DackSkip, DackNextHole, DackEnd, DackTest, DackCopy, DackMark,
                  txVars
    <3>2. QED  BY <2>1, <3>1
  <2>4. ASSUME NEW c \in Callers, TxNumber(c) \/ TxTimer(c) \/ TxEnqueue(c) PROVE Keeps
    BY <2>1, <2>4 DEF TxNumber, TxTimer, TxEnqueue, CopyHolders
  <2>5. ASSUME NEW c \in Callers, TxFree(c), NEW n \in Frame, CopyHolders(n) # {}
        PROVE  CopyHolders(n)' # {}
    <3>1. /\ freed' = freed \cup ({tmp2[c]} \ {NULL}) /\ buffer' = buffer
      BY <2>5 DEF TxFree
    <3>2. \A d \in Callers : d = c  BY DEF OneCaller
    <3>3. CASE \E s \in Slot : buffer[s] = n  BY <3>1, <3>3 DEF CopyHolders
    <3>4. CASE n \in freed \/ tmp2[c] = n
      <4>1. n \in freed'  BY <2>5, <3>1, <3>4, Pointers
      <4>2. QED  BY <4>1 DEF CopyHolders
    <3>5. QED  BY <2>5, <3>2, <3>3, <3>4 DEF CopyHolders
  <2>6. ASSUME NEW c \in Callers, TxStore(c), NEW n \in Frame, CopyHolders(n) # {}
        PROVE  CopyHolders(n)' # {}
    <3> DEFINE K == txn[c]
               at == K % WINDOW_TX
    <3>1. /\ txpc[c] = "copy" /\ freed' = freed
          /\ tmp2' = [tmp2 EXCEPT ![c] = IF K >= WINDOW_TX THEN buffer[at] ELSE NULL]
          /\ buffer' \in {buffer, [buffer EXCEPT ![at] = K]}
      BY <2>6 DEF TxStore
    <3>2. \A d \in Callers : d = c  BY DEF OneCaller
    <3>3. tmp2[c] = NULL  BY <1>1, <3>1 DEF SenderInv, TxSound
    <3>4. K \in Frame /\ K \in Nat /\ at \in Slot  BY <1>1, Slots DEF SenderInv, TypeOK
    <3>5. Kept = K
      BY <1>1, <3>1, KeptIs DEF SenderInv, TxSound
    <3> HIDE DEF K, at
    <3>6. CASE n \in freed  BY <3>1, <3>6 DEF CopyHolders
    <3>7. ASSUME NEW s \in Slot, buffer[s] = n PROVE CopyHolders(n)' # {}
      <4>1. CASE s # at
        <5>1. buffer'[s] = n  BY <1>1, <3>1, <3>7, <4>1 DEF SenderInv, TypeOK
        <5>2. QED  BY <5>1 DEF CopyHolders
      <4>2. CASE s = at
        <5>1. n % WINDOW_TX = K % WINDOW_TX /\ n < K /\ n \in Nat
          BY <1>1, <3>5, <3>7, <4>2, Slots DEF SenderInv, SlotsSound, at
        <5>2. n + WINDOW_TX <= K  BY <3>4, <5>1, Slots
        <5>3. K >= WINDOW_TX  BY <3>4, <5>1, <5>2, Slots
        <5>4. tmp2'[c] = n  BY <1>1, <3>1, <3>7, <4>2, <5>3 DEF SenderInv, TypeOK
        <5>5. QED  BY <5>4 DEF CopyHolders
      <4>3. QED  BY <4>1, <4>2
    <3>8. QED  BY <2>6, <3>2, <3>3, <3>6, <3>7, Pointers DEF CopyHolders
  <2>7. QED  BY <1>1, <2>2, <2>3, <2>4, <2>5, <2>6 DEF Next, Tx
<1>2. QED  BY <1>1, SenderInvariance, PTL DEF Spec, NoCopyForgotten

----------------------------------------------------------------------------
(* Pacing, while no timer wraps.                                           *)
LEMMA PaceTypes ==
  ASSUME TypeOK
  PROVE  /\ Pace \in Nat /\ Pace > 0 /\ seq \in Nat /\ MaxRound \in Nat
         /\ \A m \in Frame : m \in Nat /\ m % WINDOW_TX \in Slot
                             /\ timer[m % WINDOW_TX] \in Nat
                             /\ resentAt[m] \in Int /\ (resentAt[m] = Never \/ resentAt[m] \in Nat)
         /\ Never + Pace = 0
<1>1. /\ Pace \in Nat /\ Pace > 0 /\ TimerMod \in Nat /\ MaxRound \in Nat
  BY SenderAssumption
<1>2. Never \in Int /\ Never + Pace = 0  BY <1>1 DEF Never
<1>3. ASSUME NEW m \in Frame
      PROVE  m \in Nat /\ m % WINDOW_TX \in Slot /\ timer[m % WINDOW_TX] \in Nat
             /\ resentAt[m] \in Int /\ (resentAt[m] = Never \/ resentAt[m] \in Nat)
  <2>1. m \in Nat /\ m % WINDOW_TX \in Slot  BY Slots
  <2>2. timer[m % WINDOW_TX] \in Nat  BY <1>1, <2>1 DEF TypeOK
  <2>3. resentAt[m] \in {Never} \cup 1..MaxRound  BY DEF TypeOK
  <2>4. QED  BY <1>1, <1>2, <2>1, <2>2, <2>3
<1>4. seq \in Nat  BY Pointers DEF TypeOK
<1>5. QED  BY <1>1, <1>2, <1>3, <1>4

LEMMA InitPace == Init => PaceSound
<1> SUFFICES ASSUME Init PROVE PaceSound  OBVIOUS
<1>1. TypeOK  BY InitSender DEF SenderInv
<1>2. \A m \in Frame : resentAt[m] + Pace <= timer[m % WINDOW_TX]
  BY <1>1, PaceTypes DEF Init
<1>3. QED  BY <1>2 DEF Init, PaceSound

(* A step that resends nothing and starts no timer.                        *)
LEMMA PaceKeeps ==
  ASSUME TypeOK, PaceSound, Kept \in Nat, Kept' \in Nat, Kept <= Kept', seq' \in Nat, seq <= seq',
         UNCHANGED resentAt,
         \A m \in Frame : InWindow(m) => resentAt[m] + Pace <= timer'[m % WINDOW_TX]
  PROVE  /\ \A m \in Frame : InWindow(m)' => InWindow(m)
         /\ \A m \in Frame : InWindow(m)' => resentAt'[m] + Pace <= timer'[m % WINDOW_TX]
         /\ \A m \in Frame : resentAt'[m] # Never => m < Kept'
<1>1. \A m \in Frame : m \in Nat  BY Slots
<1>2. WINDOW_TX \in Nat /\ seq \in Nat  BY Slots, PaceTypes
<1>3. \A m \in Frame : InWindow(m)' => InWindow(m)  BY <1>1, <1>2 DEF InWindow
<1>4. \A m \in Frame : m < Kept => m < Kept'  BY <1>1
<1>5. QED  BY <1>3, <1>4 DEF PaceSound

LEMMA PaceTx ==
  ASSUME OneCaller, SenderInv, PaceSound, NEW c \in Callers, Tx(c)
  PROVE  PaceSound'
<1>1. UNCHANGED <<dackVars, resentAt>>
  BY DEF Tx, TxNumber, TxTimer, TxStore, TxFree, TxEnqueue
<1>2. UNCHANGED <<dpc, dack, le, skb2, what, queued>>  BY <1>1 DEF dackVars
<1>3. Kept \in Nat /\ Kept' \in Nat /\ Kept <= Kept'
  <2>1. Kept \in Nat  BY KeptIs DEF SenderInv
  <2>2. Kept' = Kept \/ Kept' = Kept + 1
    BY NumberStep, TimerStep, StoreStep, FreeStep, EnqueueStep DEF Tx
  <2>3. QED  BY <2>1, <2>2
<1>4. seq \in Nat /\ seq' \in Nat /\ seq <= seq'
  <2>1. seq \in Nat  BY PaceTypes DEF SenderInv
  <2>2. seq' = seq \/ seq' = seq + 1
    BY DEF Tx, TxNumber, TxTimer, TxStore, TxFree, TxEnqueue
  <2>3. QED  BY <2>1, <2>2
<1>5. \A m \in Frame : InWindow(m) => resentAt[m] + Pace <= timer'[m % WINDOW_TX]
  <2>1. CASE timer' = timer  BY <2>1 DEF PaceSound
  <2>2. CASE TxTimer(c)
    <3> DEFINE K == txn[c]
    <3>1. txpc[c] = "timer" /\ timer' = [timer EXCEPT ![K % WINDOW_TX] = 0]
      BY <2>2 DEF TxTimer
    <3>2. K \in Frame /\ K \in Nat /\ K = seq - 1 /\ Kept = K
      BY <3>1, KeptIs, Slots DEF SenderInv, TypeOK, TxSound
    <3> HIDE DEF K
    <3>3. ASSUME NEW m \in Frame, InWindow(m)
          PROVE  resentAt[m] + Pace <= timer'[m % WINDOW_TX]
      <4>1. CASE m % WINDOW_TX # K % WINDOW_TX
        <5>1. timer'[m % WINDOW_TX] = timer[m % WINDOW_TX]
          BY <3>1, <3>2, <4>1, PaceTypes DEF SenderInv, TypeOK
        <5>2. QED  BY <3>3, <5>1 DEF PaceSound
      <4>2. CASE m % WINDOW_TX = K % WINDOW_TX
        <5>1. m \in Nat /\ timer'[m % WINDOW_TX] = 0
          BY <3>1, <4>2, PaceTypes DEF SenderInv, TypeOK
        <5>2. ~(m < K)
          <6>1. m < K => m + WINDOW_TX <= K  BY <3>2, <4>2, <5>1, Slots
          <6>2. seq - WINDOW_TX <= m  BY <3>3 DEF InWindow
          <6>3. WINDOW_TX \in Nat  BY Slots
          <6>4. QED  BY <1>4, <3>2, <5>1, <6>1, <6>2, <6>3
        <5>3. resentAt[m] = Never  BY <3>2, <5>2 DEF PaceSound
        <5>4. Never + Pace = 0  BY PaceTypes DEF SenderInv
        <5>5. QED  BY <5>1, <5>3, <5>4
      <4>3. QED  BY <4>1, <4>2
    <3>4. QED  BY <3>3
  <2>3. QED  BY <2>1, <2>2 DEF Tx, TxNumber, TxStore, TxFree, TxEnqueue
<1>6. /\ \A m \in Frame : InWindow(m)' => InWindow(m)
      /\ \A m \in Frame : InWindow(m)' => resentAt'[m] + Pace <= timer'[m % WINDOW_TX]
      /\ \A m \in Frame : resentAt'[m] # Never => m < Kept'
  BY <1>1, <1>3, <1>4, <1>5, PaceKeeps DEF SenderInv
<1>7. slot' = slot  BY <1>2 DEF slot
<1>8. QED  BY <1>1, <1>2, <1>6, <1>7 DEF PaceSound

(* vmac_rx up to the timer: what it tests still holds when it resends.     *)
LEMMA PaceWalk ==
  ASSUME OneCaller, SenderInv, PaceSound, Dack, ~DackMark
  PROVE  PaceSound'
<1>1. UNCHANGED <<seq, resentAt, timer>>
  BY DEF Dack, DackBegin, DackSkip, DackNextHole, DackEnd, DackTest, DackCopy
<1>2. Kept' = Kept /\ Kept \in Nat
  BY BeginStep, SkipStep, NextHoleStep, EndStep, TestStep, CopyStep, KeptIs DEF Dack, SenderInv
<1>3. seq \in Nat /\ seq <= seq  BY PaceTypes DEF SenderInv
<1>4. /\ \A m \in Frame : InWindow(m)' => InWindow(m)
      /\ \A m \in Frame : InWindow(m)' => resentAt'[m] + Pace <= timer'[m % WINDOW_TX]
      /\ \A m \in Frame : resentAt'[m] # Never => m < Kept'
  <2>1. \A m \in Frame : InWindow(m) => resentAt[m] + Pace <= timer'[m % WINDOW_TX]
    BY <1>1 DEF PaceSound
  <2>2. QED  BY <1>1, <1>2, <1>3, <2>1, PaceKeeps DEF SenderInv
<1>5. CASE DackBegin \/ DackEnd
  <2>1. dpc' \in {"walk", "idle"} /\ queued' = {}
    BY <1>5 DEF DackBegin, DackEnd, SenderInv, WalkSound
  <2>2. QED  BY <1>4, <2>1 DEF PaceSound
<1>6. CASE DackSkip \/ DackNextHole
  <2>1. dpc' = "walk" /\ UNCHANGED <<dack, what, queued>>
    BY <1>6 DEF DackSkip, DackNextHole, HoleDone
  <2>2. QED  BY <1>1, <1>4, <2>1 DEF PaceSound
<1>7. CASE DackTest
  <2>1. /\ dpc = "walk" /\ dack.round >= timer[slot] /\ InHole
        /\ UNCHANGED <<dack, le, what, queued, skb2>>
    BY <1>7 DEF DackTest, Ready, Paced
  <2>2. slot' = slot  BY <2>1 DEF slot
  <2>3. skb2 \notin Id \ queued  BY <2>1, Pointers DEF SenderInv, CopiesSound
  <2>4. \A m \in Frame : InWindow(m)' /\ m % WINDOW_TX = slot => resentAt[m] + Pace <= dack.round
    <3>1. dack.round \in Nat
      <4>1. dack.round \in 1..MaxRound  BY <2>1 DEF SenderInv, WalkSound
      <4>2. QED  BY <4>1, SenderAssumption
    <3>2. ASSUME NEW m \in Frame, InWindow(m)', m % WINDOW_TX = slot
          PROVE  resentAt[m] + Pace <= dack.round
      <4>1. resentAt[m] + Pace <= timer[slot] /\ timer[slot] \in Nat
            /\ resentAt[m] + Pace \in Int
        BY <1>4, <3>2, PaceTypes DEF SenderInv, PaceSound
      <4>2. QED  BY <2>1, <3>1, <4>1
    <3>3. QED  BY <3>2
  <2>5. QED  BY <1>1, <1>4, <2>1, <2>2, <2>3, <2>4 DEF PaceSound
<1>8. CASE DackCopy
  <2>1. /\ dpc = "copy" /\ dpc' = "mark" /\ what' = Append(what, src)
        /\ skb2' = counter + 1 \/ skb2' = NULL
        /\ UNCHANGED <<dack, le, queued>>
    BY <1>8 DEF DackCopy
  <2>2. slot' = slot  BY <2>1 DEF slot
  <2>3. /\ what \in Seq(Frame \cup {NULL, Junk}) /\ Len(what) = counter /\ counter \in Nat
        /\ queued \subseteq 1..counter /\ (src \in Frame => src % WINDOW_TX = slot)
        /\ src \in Frame \cup {NULL, Junk}
    BY <2>1, SenderAssumption DEF SenderInv, TypeOK, CopiesSound
  <2>4. what'[counter + 1] = src /\ \A k \in queued : what'[k] = what[k]
    <3>1. /\ Append(what, src)[counter + 1] = src
          /\ \A k \in 1..counter : Append(what, src)[k] = what[k]
      BY <2>3, AppendProperties
    <3>2. QED  BY <2>1, <2>3, <3>1
  <2>5. skb2' \in Id => skb2' = counter + 1  BY <2>1, Pointers
  <2>6. QED  BY <1>1, <1>4, <2>1, <2>2, <2>3, <2>4, <2>5 DEF PaceSound
<1>9. QED  BY <1>5, <1>6, <1>7, <1>8 DEF Dack

(* What vmac_rx is about to resend, if it does: a frame of this slot, which*)
(* was last resent Pace rounds ago, or one resent for this DACK already.   *)
LEMMA Resent ==
  ASSUME SenderInv, PaceSound, dpc = "mark", skb2 # NULL, what[skb2] \in Frame
  PROVE  /\ what[skb2] < Kept
         /\ \/ what[skb2] % WINDOW_TX = slot /\ skb2 \notin queued
            \/ resentAt[what[skb2]] = dack.round /\ skb2 \in queued
<1>1. skb2 \in Id /\ Len(what) \in Nat /\ DOMAIN what = 1..Len(what) /\ Len(what) = counter
      /\ queued \subseteq 1..counter /\ (skb2 \in queued \/ skb2 = counter)
  BY LenProperties DEF SenderInv, TypeOK, CopiesSound
<1>2. skb2 \in DOMAIN what  BY <1>1, SenderAssumption DEF Id
<1>3. what[skb2] < Kept  BY <1>2 DEF SenderInv, CopiesSound
<1>4. QED  BY <1>1, <1>3 DEF PaceSound

LEMMA PaceMark ==
  ASSUME OneCaller, NoWrap, SenderInv, PaceSound, DackMark
  PROVE  /\ PaceSound'
         /\ \A n \in Frame : resentAt'[n] # resentAt[n] /\ InWindow(n)
              => resentAt'[n] >= resentAt[n] + Pace
<1>1. /\ dpc = "mark" /\ dpc' = "walk"
      /\ timer' = [timer EXCEPT ![slot] = (dack.round + Pace) % TimerMod]
      /\ IF skb2 # NULL
           THEN /\ queued' = queued \cup {skb2}
                /\ resentAt' = IF what[skb2] \in Frame
                                 THEN [resentAt EXCEPT ![what[skb2]] = dack.round]
                                 ELSE resentAt
           ELSE UNCHANGED <<queued, resentAt>>
      /\ UNCHANGED <<seq, dack, what>>
  BY DEF DackMark
<1> DEFINE R == dack.round
           n == what[skb2]
           Again == skb2 # NULL /\ n \in Frame
<1>2. Kept' = Kept /\ Kept \in Nat  BY MarkStep, KeptIs DEF SenderInv
<1>3. le < dack.holes[hole].re /\ R \in 1..MaxRound
  BY <1>1 DEF SenderInv, WalkSound
<1>4. slot \in Slot  BY <1>1, <1>2, <1>3, Here DEF SenderInv
<1>5. R \in Nat /\ R + Pace \in Nat /\ (R + Pace) % TimerMod = R + Pace
  <2>1. R \in Nat /\ Pace \in Nat /\ R + Pace < TimerMod /\ TimerMod \in Nat
    BY <1>3, SenderAssumption DEF NoWrap
  <2> HIDE DEF R
  <2>2. QED  BY <2>1
<1>6. Again => /\ n < Kept
               /\ \/ n % WINDOW_TX = slot /\ skb2 \notin queued
                  \/ resentAt[n] = R /\ skb2 \in queued
  BY <1>1, Resent
<1>7. ~Again => resentAt' = resentAt  BY <1>1
<1>8. Again => resentAt' = [resentAt EXCEPT ![n] = R]  BY <1>1
<1> HIDE DEF n, R, Again
<1>9. \A m \in Frame : resentAt'[m] = IF Again /\ m = n THEN R ELSE resentAt[m]
  BY <1>7, <1>8 DEF SenderInv, TypeOK
<1>10. /\ timer'[slot] = R + Pace
       /\ \A s \in Slot \ {slot} : timer'[s] = timer[s]
  BY <1>1, <1>4, <1>5 DEF SenderInv, TypeOK, R
<1>11. \A m \in Frame : InWindow(m)' <=> InWindow(m)  BY <1>1 DEF InWindow
\* The test of rx.c:352 still holds of the frames of this slot.
<1>12. \A m \in Frame : InWindow(m) /\ m % WINDOW_TX = slot => resentAt[m] + Pace <= R
  BY <1>1 DEF PaceSound, R
<1>13. \A m \in Frame : m \in Nat /\ m % WINDOW_TX \in Slot /\ resentAt[m] \in Int
                        /\ timer[m % WINDOW_TX] \in Nat
  BY PaceTypes DEF SenderInv
<1>14. Pace \in Nat  BY SenderAssumption
<1>15. \A m \in Frame : InWindow(m) => resentAt'[m] + Pace <= timer'[m % WINDOW_TX]
  <2> SUFFICES ASSUME NEW m \in Frame, InWindow(m)
               PROVE  resentAt'[m] + Pace <= timer'[m % WINDOW_TX]
    OBVIOUS
  <2>1. CASE m % WINDOW_TX = slot
    <3>1. resentAt[m] + Pace <= R + Pace
      BY <1>5, <1>12, <1>13, <1>14, <2>1
    <3>2. R + Pace <= R + Pace  BY <1>5
    <3>3. QED  BY <1>9, <1>10, <2>1, <3>1, <3>2
  <2>2. CASE m % WINDOW_TX # slot
    <3>1. timer'[m % WINDOW_TX] = timer[m % WINDOW_TX]  BY <1>10, <1>13, <2>2
    <3>2. resentAt'[m] = resentAt[m]  BY <1>6, <1>9, <2>2
    <3>3. QED  BY <3>1, <3>2 DEF PaceSound
  <2>3. QED  BY <2>1, <2>2
<1>16. \A m \in Frame : resentAt'[m] # Never => m < Kept'
  BY <1>2, <1>6, <1>9 DEF PaceSound
<1>17. \A k \in queued' : what'[k] \in Frame => resentAt'[what'[k]] = dack'.round
  <2>1. \A k \in queued : what[k] \in Frame => resentAt[what[k]] = R
    BY DEF PaceSound, R
  <2>2. \A k \in queued' : k \in queued \/ (skb2 # NULL /\ k = skb2)  BY <1>1
  <2>3. \A k \in queued' : what[k] \in Frame => resentAt'[what[k]] = R
    BY <1>9, <2>1, <2>2 DEF n, Again
  <2>4. QED  BY <1>1, <2>3 DEF R
<1>18. PaceSound'
  BY <1>1, <1>11, <1>15, <1>16, <1>17 DEF PaceSound
<1>19. ASSUME NEW m \in Frame, resentAt'[m] # resentAt[m], InWindow(m)
       PROVE  resentAt'[m] >= resentAt[m] + Pace
  <2>1. Again /\ m = n /\ resentAt'[m] = R  BY <1>9, <1>19
  <2>2. m % WINDOW_TX = slot  BY <1>6, <1>19, <2>1
  <2>3. QED  BY <1>5, <1>12, <1>13, <1>14, <1>19, <2>1, <2>2
<1>20. QED  BY <1>18, <1>19

(* With one thread in vmac_tx, and while no pacing timer wraps, a frame of *)
(* the window is resent again only Pace rounds later (rx.c:352, 361).      *)
THEOREM PacedApartHolds == ASSUME OneCaller, NoWrap PROVE Spec => PacedApart
<1> DEFINE Apart == \A n \in Frame : resentAt'[n] # resentAt[n] /\ InWindow(n)
                                       => resentAt'[n] >= resentAt[n] + Pace
           PaceInv == SenderInv /\ PaceSound
<1>1. Init => PaceInv  BY InitSender, InitPace
<1>2. ASSUME PaceInv, [Next]_vars PROVE PaceInv' /\ [Apart]_vars
  <2>1. SenderInv'  BY <1>2, NextSender
  <2>2. CASE UNCHANGED vars
    <3>1. UNCHANGED <<seq, timer, dpc, dack, le, skb2, what, queued, resentAt>> /\ Kept' = Kept
      BY <1>2, <2>2, StutterSender DEF vars, dackVars
    <3>2. PaceSound'  BY <1>2, <3>1 DEF PaceSound, InWindow, slot
    <3>3. QED  BY <2>1, <2>2, <3>2
  <2>3. ASSUME NEW c \in Callers, Tx(c) PROVE PaceSound' /\ Apart
    <3>1. PaceSound'  BY <1>2, <2>3, PaceTx
    <3>2. resentAt' = resentAt
      BY <2>3 DEF Tx, TxNumber, TxTimer, TxStore, TxFree, TxEnqueue
    <3>3. QED  BY <3>1, <3>2
  <2>4. CASE Dack /\ ~DackMark
    <3>1. PaceSound'  BY <1>2, <2>4, PaceWalk
    <3>2. resentAt' = resentAt
      BY <2>4 DEF Dack, DackBegin, DackSkip, DackNextHole, DackEnd, DackTest, DackCopy
    <3>3. QED  BY <2>1, <3>1, <3>2
  <2>5. CASE DackMark  BY <1>2, <2>1, <2>5, PaceMark
  <2>6. QED  BY <1>2, <2>1, <2>2, <2>3, <2>4, <2>5 DEF Next
<1>3. QED
  <2> HIDE DEF Apart, PaceInv
  <2>1. Spec => [][Apart]_vars  BY <1>1, <1>2, PTL DEF Spec
  <2>2. QED  BY <2>1 DEF PacedApart, Apart
=============================================================================
