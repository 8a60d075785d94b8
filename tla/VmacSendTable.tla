---------------------------- MODULE VmacSendTable ----------------------------
(***************************************************************************)
(* The send entries: how the first data frame of an encoding creates one,  *)
(* how data frames and DACKs find and use it, and how its timeout frees the*)
(* buffered copies and the entry. Pacing and the walk over holes are in    *)
(* VmacSender; here a DACK copies any frames below seq, and what matters is*)
(* who holds the entry and the copies when they are freed.                 *)
(*                                                                         *)
(* What an access to freed or unset memory does is undefined: such a step  *)
(* sets fault, and the behaviour ends there.                               *)
(***************************************************************************)
EXTENDS Naturals, SequencesExt

CONSTANTS
  Enc,          \* encodings: u64, whose bucket is hash_min of the number
  NBuckets,     \* buckets of tx_enc: 2^5
  SEQ_MOD,      \* values of the u16 seq: 2^16
  WINDOW_TX,    \* slots of the retransmission buffer: 500
  Callers,      \* threads of the user process inside nl_recv
  MaxEntry,     \* bound: blocks that vmalloc hands out
  MaxFrames,    \* bound: data frames of the user process
  None,         \* no entry
  NULL,         \* the null pointer
  Junk          \* a slot of vmalloc'd memory never written

ASSUME SendTableAssumption ==
  /\ Enc \subseteq Nat
  /\ {NBuckets, SEQ_MOD, WINDOW_TX} \subseteq Nat \ {0} /\ WINDOW_TX <= SEQ_MOD
  /\ {MaxEntry, MaxFrames} \subseteq Nat
  /\ None \notin 1..MaxEntry /\ "dack" \notin Callers

Entry   == 1..MaxEntry
Slot    == 0..WINDOW_TX - 1
Context == Callers \cup {"dack"}
Copy    == [entry : Entry, n : Nat]  \* the copy of frame n of an entry
Hash(n) == n % NBuckets
NoFault == [kind |-> "none", entry |-> None, n |-> 0]

(* Frames are told apart by how many came before. The code has that number *)
(* in a u16 (vmac.h:181), which starts from 0 again after the last one, and*)
(* the place in the buffer follows from it (tx.c:205).                     *)
Value(n) == n % SEQ_MOD
Place(n) == Value(n) % WINDOW_TX

(* A pointer is to a copy, or it is not.                                   *)
ASSUME PointerAssumption == NULL # Junk /\ NULL \notin Copy /\ Junk \notin Copy

VARIABLES
  bucket,       \* tx_enc: the entries of each bucket, newest first
  life,         \* of a block: "unused", "ready", "freed"
  key,          \* vmact->key, clean.enc
  seq,          \* of an entry: its frames so far; vmact->seq is Value(seq[e])
  buffer,       \* vmact->retransmission_buffer
  armed,        \* enc_timeout is pending
  pc, ent, enc, \* of a context: its place in vmac_tx or vmac_rx, its vmact, its enc
  num,          \* a caller's frame, whose ddr.seq is Value(num[c]); le of the DACK
  ptr,          \* tmp2 of a caller; the copy the DACK reads
  dseq,         \* the DACK's reading of seq
  cleanpc,      \* of an entry's handler: "idle", "find", "slots", "unlink" or "free"
  victim, i,    \* the entry that the handler found, its place in the buffer
  freed,        \* copies given to kfree_skb
  frames,       \* data frames so far
  fault,        \* the undefined step that ended the behaviour
  \* history
  stored,       \* copies that a slot had
  met,          \* entries that a context had in hand when their clean-up began, or
                \* found during it
  crossed,      \* entries that shared their bucket, of which two threads held a slot,
                \* or that the handler of another entry found
  failed        \* entries a copy failed for

entries == <<bucket, life, key>>
buffers == <<seq, buffer, freed, stored>>
context == <<pc, ent, enc, num, ptr, dseq>>
cleanup == <<cleanpc, victim, i>>
history == <<met, crossed, failed>>
vars    == <<entries, buffers, armed, context, cleanup, frames, fault, history>>

Init ==
  /\ bucket = [b \in 0..NBuckets - 1 |-> <<>>]
  /\ life = [e \in Entry |-> "unused"]
  /\ key = [e \in Entry |-> None]
  /\ seq = [e \in Entry |-> 0]
  /\ buffer = [e \in Entry |-> [s \in Slot |-> NULL]]
  /\ armed = [e \in Entry |-> FALSE]
  /\ pc = [x \in Context |-> "idle"]
  /\ ent = [x \in Context |-> None] /\ enc = [x \in Context |-> None]
  /\ num = [x \in Context |-> 0]
  /\ ptr = [x \in Context |-> NULL]
  /\ dseq = 0
  /\ cleanpc = [e \in Entry |-> "idle"]
  /\ victim = [e \in Entry |-> None] /\ i = [e \in Entry |-> 0]
  /\ freed = {} /\ stored = {} /\ frames = 0 /\ fault = NoFault
  /\ met = {} /\ crossed = {} /\ failed = {}

(* main.c:101-109: the last of the bucket, its oldest, whatever its key.   *)
Find(n) == LET s == bucket[Hash(n)] IN IF s = <<>> THEN None ELSE Last(s)

Fault(kind, e, n) ==
  /\ fault' = [kind |-> kind, entry |-> e, n |-> n]
  /\ UNCHANGED <<entries, buffers, armed, context, cleanup, frames, history>>

Cleaned(e) == \E h \in Entry : cleanpc[h] # "idle" /\ (h = e \/ victim[h] = e)

(* Context x calls find_tx for n and goes on to step p.                    *)
FindFor(x, n, p) ==
  /\ pc' = [pc EXCEPT ![x] = p]
  /\ ent' = [ent EXCEPT ![x] = Find(n)]
  /\ enc' = [enc EXCEPT ![x] = n]
  /\ met' = met \cup {e \in {Find(n)} \ {None} : Cleaned(e)}
  /\ UNCHANGED <<num, ptr, dseq, crossed, failed>>

Leave(x) ==
  /\ pc' = [pc EXCEPT ![x] = "idle"]
  /\ ent' = [ent EXCEPT ![x] = None] /\ enc' = [enc EXCEPT ![x] = None]
  /\ num' = [num EXCEPT ![x] = 0] /\ ptr' = [ptr EXCEPT ![x] = NULL]

Gone(x) == life[ent[x]] = "freed"

(* kfree_skb of what a slot had: a buffered copy, once.                    *)
FreeCopy(e, p, n) ==
  \/ p = Junk /\ Fault("unset", e, n)
  \/ p \in freed /\ Fault("twice", e, n)

Freeable(p) == p # Junk /\ p \notin freed

----------------------------------------------------------------------------
(* vmac_tx, data frame (tx.c:158-219).                                     *)

TxFind(c, n) ==
  /\ pc[c] = "idle" /\ frames < MaxFrames
  /\ \E e \in Entry : life[e] = "unused"
  /\ FindFor(c, n, IF Find(n) = None THEN "add" ELSE "touch")
  /\ frames' = frames + 1
  /\ UNCHANGED <<entries, buffers, armed, cleanup, fault>>

(* Mistake: the key is set after add_tx, which hashes it.                  *)
TxAddNoKey(c) ==
  /\ pc[c] = "add"
  /\ \E e \in Entry :
       /\ life[e] = "unused" /\ \A d \in 1..e - 1 : life[d] # "unused"
       /\ life' = [life EXCEPT ![e] = "ready"]
       /\ bucket' = [bucket EXCEPT ![0] = <<e>> \o @]
       /\ ent' = [ent EXCEPT ![c] = e]
  /\ pc' = [pc EXCEPT ![c] = "touch"]
  /\ UNCHANGED <<key, buffers, armed, enc, num, ptr, dseq, cleanup, frames, fault, history>>

(* tx.c:164-190: vmalloc, whose result is not tested; every field but the  *)
(* buffer is set, the timer is set up, and add_tx comes last.              *)
TxAdd(c) ==
  /\ pc[c] = "add"
  /\ \/ Fault("null", None, 0)
     \/ \E e \in Entry, slots \in [Slot -> {NULL, Junk}] :
          /\ life[e] = "unused" /\ \A d \in 1..e - 1 : life[d] # "unused"
          /\ life' = [life EXCEPT ![e] = "ready"]
          /\ key' = [key EXCEPT ![e] = enc[c]]
          /\ buffer' = [buffer EXCEPT ![e] = slots]
          /\ bucket' = [bucket EXCEPT ![Hash(enc[c])] = <<e>> \o @]
          /\ crossed' = IF bucket[Hash(enc[c])] = <<>> THEN crossed
                        ELSE crossed \cup {e} \cup ToSet(bucket[Hash(enc[c])])
          /\ ent' = [ent EXCEPT ![c] = e]
          /\ pc' = [pc EXCEPT ![c] = "touch"]
          /\ UNCHANGED <<seq, freed, stored, armed, enc, num, ptr, dseq, cleanup,
                         frames, fault, met, failed>>

(* tx.c:191.                                                               *)
TxTouch(c) ==
  /\ pc[c] = "touch"
  /\ IF Gone(c) THEN Fault("freed", ent[c], 0)
     ELSE /\ armed' = [armed EXCEPT ![ent[c]] = TRUE]
          /\ pc' = [pc EXCEPT ![c] = "number"]
          /\ UNCHANGED <<entries, buffers, ent, enc, num, ptr, dseq, cleanup,
                         frames, fault, history>>

(* tx.c:193-195, under seqlock: the u16 goes from its last value to 0.     *)
TxNumber(c) ==
  LET e == ent[c] IN
  /\ pc[c] = "number"
  /\ IF Gone(c) THEN Fault("freed", e, 0)
     ELSE /\ num' = [num EXCEPT ![c] = seq[e]]
          /\ seq' = [seq EXCEPT ![e] = @ + 1]
          /\ pc' = [pc EXCEPT ![c] = "store"]
          /\ crossed' = crossed \cup {d \in {e} : \E b \in Callers :
               ent[b] = e /\ pc[b] = "store" /\ Place(seq[e]) = Place(num[b])}
          /\ UNCHANGED <<entries, buffer, freed, stored, armed, ent, enc, ptr, dseq,
                         cleanup, frames, fault, met, failed>>

(* Mistake: the slot is taken for used one frame too early.                *)
TxStoreEarly(c) ==
  LET e == ent[c]  at == Place(num[c])
      new == [entry |-> e, n |-> num[c]] IN
  /\ pc[c] = "store" /\ ~Gone(c)
  /\ ptr' = [ptr EXCEPT ![c] = IF Value(num[c]) >= WINDOW_TX - 1 THEN buffer[e][at] ELSE NULL]
  /\ buffer' = [buffer EXCEPT ![e][at] = new]
  /\ stored' = stored \cup {new}
  /\ pc' = [pc EXCEPT ![c] = "free"]
  /\ UNCHANGED <<entries, seq, freed, armed, ent, enc, num, dseq, cleanup, frames,
                 fault, history>>

(* tx.c:197-213: a copy that fails leaves the slot as it is. The first     *)
(* WINDOW_TX frames, and those after a wrap, take their slot as empty.     *)
TxStore(c) ==
  LET e == ent[c]  at == Place(num[c])
      new == [entry |-> e, n |-> num[c]] IN
  /\ pc[c] = "store"
  /\ IF Gone(c) THEN Fault("freed", e, num[c])
     ELSE /\ ptr' = [ptr EXCEPT ![c] = IF Value(num[c]) >= WINDOW_TX THEN buffer[e][at] ELSE NULL]
          /\ \/ /\ buffer' = [buffer EXCEPT ![e][at] = new]
                /\ stored' = stored \cup {new}
                /\ UNCHANGED failed
             \/ failed' = failed \cup {e} /\ UNCHANGED <<buffer, stored>>
          /\ pc' = [pc EXCEPT ![c] = "free"]
          /\ UNCHANGED <<entries, seq, freed, armed, ent, enc, num, dseq, cleanup,
                         frames, fault, met, crossed>>

(* tx.c:215-218.                                                           *)
TxFree(c) ==
  /\ pc[c] = "free"
  /\ \/ FreeCopy(ent[c], ptr[c], Value(num[c]))
     \/ /\ Freeable(ptr[c])
        /\ freed' = freed \cup ({ptr[c]} \ {NULL})
        /\ Leave(c)
        /\ UNCHANGED <<entries, seq, buffer, stored, armed, dseq, cleanup, frames,
                       fault, history>>

Tx(c) == TxAdd(c) \/ TxTouch(c) \/ TxNumber(c) \/ TxStore(c) \/ TxFree(c)

----------------------------------------------------------------------------
(* vmac_rx, DACK (rx.c:318-390), in rqueuethread. The timeout of the entry *)
(* is not started again.                                                   *)

DackFind(n) ==
  /\ pc["dack"] = "idle" /\ Find(n) # None
  /\ FindFor("dack", n, "seq")
  /\ UNCHANGED <<entries, buffers, armed, cleanup, frames, fault>>

(* rx.c:336-338.                                                           *)
DackSeq ==
  /\ pc["dack"] = "seq"
  /\ IF Gone("dack") THEN Fault("freed", ent["dack"], 0)
     ELSE /\ dseq' = Value(seq[ent["dack"]])
          /\ pc' = [pc EXCEPT !["dack"] = "walk"]
          /\ UNCHANGED <<entries, buffers, armed, ent, enc, num, ptr, cleanup, frames,
                         fault, history>>

(* rx.c:350-358: the slot of a frame asked for. The test of frame WINDOW_TX*)
(* looks one past the buffer and says either.                              *)
DackTest ==
  LET e == ent["dack"] IN
  /\ pc["dack"] = "walk"
  /\ \E n \in 0..dseq - 1 :
       LET p == buffer[e][n % WINDOW_TX] IN
       /\ n + WINDOW_TX >= dseq
       /\ \/ Gone("dack") /\ Fault("freed", e, n)
          \/ /\ ~Gone("dack") /\ p \notin Copy
             /\ p = Junk \/ n = WINDOW_TX
             /\ Fault("unset", e, n)
          \/ /\ ~Gone("dack") /\ p \in Copy
             /\ num' = [num EXCEPT !["dack"] = n]
             /\ ptr' = [ptr EXCEPT !["dack"] = p]
             /\ pc' = [pc EXCEPT !["dack"] = "copy"]
             /\ UNCHANGED <<entries, buffers, armed, ent, enc, dseq, cleanup, frames,
                            fault, history>>

(* rx.c:358-367: skb_copy has read the copy, then the entry is written.    *)
DackCopy ==
  /\ pc["dack"] = "copy"
  /\ CASE ptr["dack"] \in freed -> Fault("copy", ent["dack"], ptr["dack"].n)
       [] ptr["dack"] \notin freed /\ Gone("dack") -> Fault("freed", ent["dack"], num["dack"])
       [] OTHER ->
          /\ pc' = [pc EXCEPT !["dack"] = "walk"]
          /\ num' = [num EXCEPT !["dack"] = 0]
          /\ ptr' = [ptr EXCEPT !["dack"] = NULL]
          /\ UNCHANGED <<entries, buffers, armed, ent, enc, dseq, cleanup, frames,
                         fault, history>>

(* rx.c:388-389.                                                           *)
DackEnd ==
  /\ pc["dack"] = "walk"
  /\ Leave("dack") /\ dseq' = 0
  /\ UNCHANGED <<entries, buffers, armed, cleanup, frames, fault, history>>

Dack == DackSeq \/ DackTest \/ DackCopy \/ DackEnd

----------------------------------------------------------------------------
(* __cleanup_tx and process (clean.c:83-103, 142-150).                     *)

(* The timeout runs from mod_timer (tx.c:191), and vmac_tx is done in less *)
(* than 30 s after that. A caller that found the entry and has not come to *)
(* mod_timer yet (tx.c:163-191) holds nothing back, nor does a DACK.       *)
CleanFire(e) ==
  /\ armed[e] /\ cleanpc[e] = "idle"
  /\ IF life[e] = "freed" THEN Fault("freed", e, 0)
     ELSE /\ \A c \in Callers : ent[c] = e => pc[c] = "touch"
          /\ armed' = [armed EXCEPT ![e] = FALSE]
          /\ cleanpc' = [cleanpc EXCEPT ![e] = "find"]
          /\ met' = met \cup {d \in {e} : \E x \in Context : ent[x] = d}
          /\ UNCHANGED <<entries, buffers, context, victim, i, frames, fault,
                         crossed, failed>>

(* clean.c:85-92: the entry is looked up by its encoding.                  *)
CleanFind(e) ==
  LET v == Find(key[e]) IN
  /\ cleanpc[e] = "find"
  /\ victim' = [victim EXCEPT ![e] = v]
  /\ i' = [i EXCEPT ![e] = 0]
  /\ cleanpc' = [cleanpc EXCEPT ![e] = IF v = None THEN "idle" ELSE "slots"]
  /\ crossed' = crossed \cup ({v} \ {e, None})
  /\ UNCHANGED <<entries, buffers, armed, context, frames, fault, met, failed>>

Least(a, b) == IF a < b THEN a ELSE b

(* Mistake: the slot of the newest frame is left out.                      *)
MoreSlotsButLast(e) == i[e] + 1 < Least(Value(seq[victim[e]]), WINDOW_TX)

(* clean.c:96: seq is read again for each slot.                            *)
MoreSlots(e) == i[e] < Least(Value(seq[victim[e]]), WINDOW_TX)

(* clean.c:96-100: the copies, as long as there are slots.                 *)
CleanSlot(e) ==
  LET v == victim[e]  p == buffer[v][i[e]] IN
  /\ cleanpc[e] = "slots" /\ life[v] # "freed" /\ MoreSlots(e)
  /\ \/ FreeCopy(v, p, i[e])
     \/ /\ Freeable(p)
        /\ freed' = freed \cup ({p} \ {NULL})
        /\ i' = [i EXCEPT ![e] = @ + 1]
        /\ UNCHANGED <<entries, seq, buffer, stored, armed, context, cleanpc, victim,
                       frames, fault, history>>

(* hash_del: an entry is unlinked if it is in the list.                    *)
Unlink(s, d) ==
  IF Contains(s, d) THEN RemoveAt(s, CHOOSE k \in DOMAIN s : s[k] = d) ELSE s

(* clean.c:101.                                                            *)
CleanUnlink(e) ==
  LET v == victim[e] IN
  /\ cleanpc[e] = "slots" /\ life[v] # "freed" /\ ~MoreSlots(e)
  /\ bucket' = [bucket EXCEPT ![Hash(key[v])] = Unlink(@, v)]
  /\ cleanpc' = [cleanpc EXCEPT ![e] = "free"]
  /\ UNCHANGED <<life, key, buffers, armed, context, victim, i, frames, fault, history>>

(* clean.c:102, and what follows when another handler freed the entry.     *)
CleanFree(e) ==
  LET v == victim[e] IN
  /\ cleanpc[e] \in {"slots", "free"}
  /\ IF life[v] = "freed" THEN Fault("freed", v, 0)
     ELSE /\ cleanpc[e] = "free"
          /\ life' = [life EXCEPT ![v] = "freed"]
          /\ cleanpc' = [cleanpc EXCEPT ![e] = "idle"]
          /\ victim' = [victim EXCEPT ![e] = None] /\ i' = [i EXCEPT ![e] = 0]
          /\ UNCHANGED <<bucket, key, buffers, armed, context, frames, fault, history>>

Clean(e) == CleanFire(e) \/ CleanFind(e) \/ CleanSlot(e) \/ CleanUnlink(e) \/ CleanFree(e)

----------------------------------------------------------------------------
Arrival == \E n \in Enc : DackFind(n) \/ \E c \in Callers : TxFind(c, n)

Next ==
  /\ fault = NoFault
  /\ \/ Arrival
     \/ \E c \in Callers : Tx(c)
     \/ Dack
     \/ \E e \in Entry : Clean(e)

Spec == Init /\ [][Next]_vars

----------------------------------------------------------------------------
(* Types of vmac.h:175-194; an entry in use has its encoding (tx.c:174).   *)
TypeOK ==
  /\ \A e \in Entry : life[e] # "unused" => key[e] \in Enc
  /\ life \in [Entry -> {"unused", "ready", "freed"}]
  /\ seq \in [Entry -> Nat]
  /\ buffer \in [Entry -> [Slot -> Copy \cup {NULL, Junk}]]
  /\ armed \in [Entry -> BOOLEAN]
  /\ \A b \in DOMAIN bucket : bucket[b] \in Seq(Entry)
  /\ pc \in [Context -> {"idle", "add", "touch", "number", "store", "free",
                         "seq", "walk", "copy"}]
  /\ ent \in [Context -> Entry \cup {None}]
  /\ ptr \in [Context -> Copy \cup {NULL, Junk}]
  /\ cleanpc \in [Entry -> {"idle", "find", "slots", "free"}]
  /\ victim \in [Entry -> Entry \cup {None}]
  /\ freed \subseteq stored /\ stored \subseteq Copy

(* Two threads made an entry each, or a handler found one of another, or a *)
(* context had the entry in hand when its clean-up began, or found it while*)
(* the clean-up ran.                                                       *)
Raced(e) == e \in met \cup crossed

(* The frame of a slot nobody wrote: numbered, and its copy not stored yet *)
(* or never (tx.c:194-213).                                                *)
Unstored(e, n) == [entry |-> e, n |-> n] \notin stored

(* Without a lock on the entry, freed memory is used only where a context  *)
(* had the entry in hand when its clean-up began or found it meanwhile (a  *)
(* data frame between find_tx and mod_timer, tx.c:163-191, or a DACK), or  *)
(* where two threads had made an entry each (clean.c:96-102). A copy that  *)
(* is read is freed meanwhile only by that, or because its frame left the  *)
(* window (tx.c:215); a pointer that was never set is used only for a frame*)
(* numbered but not stored; nothing is freed twice unless a copy failed,   *)
(* which leaves a freed pointer in its slot (tx.c:210), or by the races.   *)
MisuseExplained ==
  LET e == fault.entry  n == fault.n IN
  CASE fault.kind \in {"none", "null"} -> TRUE
    [] fault.kind = "freed" -> Raced(e)
    [] fault.kind = "copy"  -> Raced(e) \/ n + WINDOW_TX < seq[e]
    [] fault.kind = "unset" -> Raced(e) \/ Unstored(e, n % WINDOW_TX)
    [] fault.kind = "twice" -> Raced(e) \/ e \in failed

(* The number of the first frame since seq was last 0: 0, or the wrap of   *)
(* the u16 before frame n.                                                 *)
Start(n) == n - Value(n)

(* A copy of a frame that was numbered since seq was last 0.               *)
Current(p) == p.n >= Start(seq[p.entry])

(* An entry that was removed and that had no race is gone for good: in no  *)
(* bucket, with no timer pending, and every copy it buffered since seq was *)
(* last 0 freed, by vmac_tx when its frame left the window or by the       *)
(* clean-up (tx.c:205-218, clean.c:96-102). Copies of before a wrap of seq *)
(* are not promised: tx.c:200 overwrites the slots of the first WINDOW_TX  *)
(* frames after it, and clean.c:96 stops at seq.                           *)
RemovedForGood ==
  \A e \in Entry : life[e] = "freed" =>
    /\ \A b \in DOMAIN bucket : e \notin ToSet(bucket[b])
    /\ ~Raced(e) =>
         /\ ~armed[e]
         /\ \A c \in stored : c.entry = e /\ Current(c) => c \in freed
==============================================================================
